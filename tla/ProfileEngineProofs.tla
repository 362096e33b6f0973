------------------------ MODULE ProfileEngineProofs ------------------------
(***************************************************************************)
(* Theorems about ProfileEngine and ProfileTools, for any vocabulary of    *)
(* names, paths and values, any rules, profiles and events: what is found, *)
(* what is counted, and what is told from a profile.                       *)
(***************************************************************************)
EXTENDS ProfileTools, CommonLemmas, FiniteSetTheorems

(* The results are those of the events, under the profile as it is.        *)
IInv ==
  /\ profile \in Seq(Rules)
  /\ events \in Seq(Events)
  /\ results \in Seq({checkProfile(e, profile) : e \in Events})
  /\ Len(results) = Len(events)
  /\ \A n \in DOMAIN events : results[n] = checkProfile(events[n], profile)

(* Appending an element, as a list of facts.                               *)
LEMMA Appended ==
  ASSUME NEW S, NEW s \in Seq(S), NEW x \in S
  PROVE  /\ Append(s, x) \in Seq(S)
         /\ Len(Append(s, x)) = Len(s) + 1
         /\ DOMAIN Append(s, x) = DOMAIN s \cup {Len(s) + 1}
         /\ \A n \in DOMAIN s : Append(s, x)[n] = s[n]
         /\ Append(s, x)[Len(s) + 1] = x
  OBVIOUS

(* Every reachable state satisfies the invariant.                          *)
THEOREM Invariant == Spec => []IInv
<1>1. Init => IInv
  <2> SUFFICES ASSUME Init PROVE IInv
    OBVIOUS
  <2>1. profile \in Seq(Rules)
    BY ProfileAssumption DEF Init, ProfileAssumption
  <2> QED
    BY <2>1 DEF Init, IInv
<1>2. IInv /\ [Next]_vars => IInv'
  <2> SUFFICES ASSUME IInv, [Next]_vars PROVE IInv'
    OBVIOUS
  <2>1. CASE Check
    <3>1. PICK e \in Events : /\ events' = Append(events, e)
                              /\ results' = Append(results, checkProfile(e, profile))
      BY <2>1 DEF Check
    <3>2. profile' = profile
      BY <2>1 DEF Check
    <3>3. events' \in Seq(Events) /\ DOMAIN events' = DOMAIN events \cup {Len(events) + 1}
          /\ Len(events') = Len(events) + 1
          /\ (\A n \in DOMAIN events : events'[n] = events[n])
          /\ events'[Len(events) + 1] = e
      BY <3>1, Appended DEF IInv
    <3>4. results' \in Seq({checkProfile(x, profile) : x \in Events})
          /\ Len(results') = Len(results) + 1
          /\ (\A n \in DOMAIN results : results'[n] = results[n])
          /\ results'[Len(results) + 1] = checkProfile(e, profile)
      BY <3>1, Appended DEF IInv
    <3>5. DOMAIN results = DOMAIN events
      BY DEF IInv
    <3>6. \A n \in DOMAIN events' : results'[n] = checkProfile(events'[n], profile)
      <4> SUFFICES ASSUME NEW n \in DOMAIN events'
                   PROVE  results'[n] = checkProfile(events'[n], profile)
        OBVIOUS
      <4>1. CASE n \in DOMAIN events
        BY <4>1, <3>3, <3>4, <3>5 DEF IInv
      <4>2. CASE n = Len(events) + 1
        BY <4>2, <3>3, <3>4 DEF IInv
      <4> QED
        BY <4>1, <4>2, <3>3
    <3> QED
      BY <3>2, <3>3, <3>4, <3>6 DEF IInv
  <2>2. CASE StartCovering
    BY <2>2 DEF StartCovering, IInv
  <2>3. CASE Cover
    BY <2>3 DEF Cover, IInv
  <2>4. CASE FinishCovering
    BY <2>4 DEF FinishCovering, IInv
  <2>5. CASE UNCHANGED vars
    BY <2>5 DEF vars, IInv
  <2> QED
    BY <2>1, <2>2, <2>3, <2>4, <2>5 DEF Next
<1> QED
  BY <1>1, <1>2, PTL DEF Spec

-----------------------------------------------------------------------------
(* One rule raises errors exactly if it applies, is an error and is unmet. *)
LEMMA RuleErrors ==
  ASSUME NEW e, NEW r
  PROVE  evaluateRule(e, r).errors # {} <=>
           conditionHolds(e, r) /\ r.severity = "error" /\ Unmet(e, r) # {}
  BY DEF evaluateRule

(* An event the core accepts has its status from the selected rules alone. *)
LEMMA StatusOfValid ==
  ASSUME NEW e, NEW rules, e.core = "valid"
  PROVE  /\ checkProfile(e, rules).status = "violations" <=>
              \E i \in selectRules(rules, e.name) : evaluateRule(e, rules[i]).errors # {}
         /\ checkProfile(e, rules).status = "not-applicable" <=>
              selectRules(rules, e.name) = {}
<1> DEFINE selected == selectRules(rules, e.name)
<1> DEFINE errors == UNION {evaluateRule(e, rules[i]).errors : i \in selected}
<1>1. errors # {} <=> \E i \in selected : evaluateRule(e, rules[i]).errors # {}
  OBVIOUS
<1>2. CASE selected = {}
  <2>1. checkProfile(e, rules).status = "not-applicable"
    BY <1>2 DEF checkProfile, Result
  <2> QED
    BY <2>1, <1>2
<1>3. CASE selected # {}
  <2>1. checkProfile(e, rules).status = IF errors = {} THEN "conforming" ELSE "violations"
    BY <1>3 DEF checkProfile, Result
  <2> QED
    BY <2>1, <1>1, <1>3
<1> QED
  BY <1>2, <1>3

(* With distinct ids every rule for the name is selected.                  *)
LEMMA SelectedWhenLinted ==
  ASSUME NEW rules \in Seq(Rules), NEW name, Linted(rules)
  PROVE  selectRules(rules, name) = {i \in DOMAIN rules : name \in rules[i].events}
<1>1. ASSUME NEW i \in DOMAIN rules, NEW j \in DOMAIN rules, j < i
      PROVE  rules[j].id # rules[i].id
  <2>1. i \in Nat /\ j \in Nat
    OBVIOUS
  <2> QED
    BY <1>1, <2>1 DEF Linted
<1> QED
  BY <1>1 DEF selectRules

(* A profile without duplicate ids loses no requirement: the verdict on an *)
(* event is that of all its rules (check-profile.ts, select-rules.ts).     *)
THEOREM NoRequirementLostTheorem == Spec => []NoRequirementLost
<1>1. IInv => NoRequirementLost
  <2> SUFFICES ASSUME IInv, Linted(profile), NEW n \in DOMAIN events, events[n].core = "valid"
               PROVE  LET e == events[n]
                          for == {r \in ToSet(profile) : e.name \in r.events}
                      IN /\ results[n].status = "violations" <=>
                              \E r \in for : r.severity = "error" /\ conditionHolds(e, r)
                                             /\ Unmet(e, r) # {}
                         /\ results[n].status = "not-applicable" <=> for = {}
    BY DEF NoRequirementLost
  <2> DEFINE e == events[n]
  <2> DEFINE for == {r \in ToSet(profile) : e.name \in r.events}
  <2> DEFINE selected == selectRules(profile, e.name)
  <2>1. results[n] = checkProfile(e, profile)
    BY DEF IInv
  <2>2. selected = {i \in DOMAIN profile : e.name \in profile[i].events}
    BY SelectedWhenLinted DEF IInv
  <2>3. for = {profile[i] : i \in selected}
    BY <2>2 DEF ToSet
  <2> HIDE DEF selected, for
  <2>4. (\E i \in selected : evaluateRule(e, profile[i]).errors # {}) <=>
          \E r \in for : r.severity = "error" /\ conditionHolds(e, r) /\ Unmet(e, r) # {}
    BY <2>3, RuleErrors
  <2>5. for = {} <=> selected = {}
    BY <2>3
  <2>6. /\ checkProfile(e, profile).status = "violations" <=>
             \E i \in selected : evaluateRule(e, profile[i]).errors # {}
        /\ checkProfile(e, profile).status = "not-applicable" <=> selected = {}
    BY StatusOfValid DEF selected
  <2> HIDE DEF e
  <2>7. /\ results[n].status = "violations" <=>
             \E r \in for : r.severity = "error" /\ conditionHolds(e, r) /\ Unmet(e, r) # {}
        /\ results[n].status = "not-applicable" <=> for = {}
    BY <2>1, <2>4, <2>5, <2>6
  <2> QED
    BY <2>7 DEF for, e
<1> QED
  BY <1>1, Invariant, PTL

-----------------------------------------------------------------------------
(* What stands where after an insertion.                                   *)
LEMMA Inserted ==
  ASSUME NEW rules \in Seq(Rules), NEW k \in 1 .. Len(rules) + 1, NEW r \in Rules
  PROVE  LET more == InsertAt(rules, k, r)
         IN /\ more \in Seq(Rules)
            /\ DOMAIN more = 1 .. Len(rules) + 1
            /\ more[k] = r
            /\ \A i \in 1 .. k - 1 : more[i] = rules[i]
            /\ \A i \in k .. Len(rules) : more[i + 1] = rules[i]
<1> DEFINE front == SubSeq(rules, 1, k - 1)
<1> DEFINE back == SubSeq(rules, k, Len(rules))
<1>1. front \in Seq(Rules) /\ Len(front) = k - 1 /\ \A i \in 1 .. k - 1 : front[i] = rules[i]
  OBVIOUS
<1>2. /\ back \in Seq(Rules) /\ Len(back) = Len(rules) - k + 1
      /\ \A i \in 1 .. Len(rules) - k + 1 : back[i] = rules[k + i - 1]
  OBVIOUS
<1> HIDE DEF front, back
<1> DEFINE head == front \o << r >>
<1>3. head \in Seq(Rules) /\ Len(head) = k /\ head[k] = r
      /\ \A i \in 1 .. k - 1 : head[i] = rules[i]
  BY <1>1
<1> HIDE DEF head
<1>4. /\ head \o back \in Seq(Rules) /\ Len(head \o back) = Len(rules) + 1
      /\ \A i \in 1 .. k : (head \o back)[i] = head[i]
      /\ \A i \in 1 .. Len(rules) - k + 1 : (head \o back)[k + i] = back[i]
  <2>1. head \o back \in Seq(Rules) /\ Len(head \o back) = Len(head) + Len(back)
    <3>1. head \in Seq(Rules) /\ back \in Seq(Rules)
      BY <1>2, <1>3
    <3>2. head \o back \in Seq(Rules)
      BY <3>1
    <3>3. Len(head \o back) = Len(head) + Len(back)
      BY <3>1
    <3> QED
      BY <3>2, <3>3
  <2>2. \A i \in 1 .. Len(head) + Len(back) :
          (head \o back)[i] = IF i <= Len(head) THEN head[i] ELSE back[i - Len(head)]
    BY <1>2, <1>3
  <2>3. Len(head) + Len(back) = Len(rules) + 1
    BY <1>2, <1>3
  <2>4. \A i \in 1 .. k : (head \o back)[i] = head[i]
    BY <2>2, <2>3, <1>3
  <2>5. ASSUME NEW i \in 1 .. Len(rules) - k + 1 PROVE (head \o back)[k + i] = back[i]
    <3>1. k + i \in 1 .. Len(head) + Len(back) /\ ~(k + i <= Len(head))
          /\ (k + i) - Len(head) = i
      BY <2>3, <1>3
    <3> QED
      BY <3>1, <2>2
  <2> QED
    BY <2>1, <2>3, <2>4, <2>5
<1>5. \A i \in k .. Len(rules) : (head \o back)[i + 1] = rules[i]
  <2> SUFFICES ASSUME NEW i \in k .. Len(rules)
               PROVE  (head \o back)[i + 1] = rules[i]
    OBVIOUS
  <2>1. i - k + 1 \in 1 .. Len(rules) - k + 1 /\ k + (i - k + 1) = i + 1
        /\ k + (i - k + 1) - 1 = i
    OBVIOUS
  <2> QED
    BY <2>1, <1>4, <1>2
<1>6. InsertAt(rules, k, r) = head \o back
  BY DEF InsertAt, head, front, back
<1> QED
  BY <1>3, <1>4, <1>5, <1>6

(* A selected rule is still selected where the insertion has moved it.     *)
LEMMA StillSelected ==
  ASSUME NEW rules \in Seq(Rules), NEW k \in 1 .. Len(rules) + 1, NEW r \in Rules,
         r.id \notin Ids(rules), NEW name, NEW i \in selectRules(rules, name)
  PROVE  \E m \in selectRules(InsertAt(rules, k, r), name) :
           InsertAt(rules, k, r)[m] = rules[i]
<1> DEFINE more == InsertAt(rules, k, r)
<1>1. /\ DOMAIN more = 1 .. Len(rules) + 1
      /\ more[k] = r
      /\ \A j \in 1 .. k - 1 : more[j] = rules[j]
      /\ \A j \in k .. Len(rules) : more[j + 1] = rules[j]
  BY Inserted
<1>2. /\ i \in 1 .. Len(rules) /\ name \in rules[i].events
      /\ \A j \in 1 .. Len(rules) :
           j < i /\ rules[j].id = rules[i].id => name \notin rules[j].events
  BY DEF selectRules
<1>3. \A j \in 1 .. Len(rules) : rules[j].id # r.id
  BY DEF Ids
<1> DEFINE m == IF i < k THEN i ELSE i + 1
<1> HIDE DEF more
<1>4. m \in DOMAIN more /\ more[m] = rules[i]
  BY <1>1, <1>2
<1>5. ASSUME NEW j \in DOMAIN more, j < m, more[j].id = more[m].id
      PROVE  name \notin more[j].events
  <2>1. CASE j = k
    BY <2>1, <1>5, <1>1, <1>4, <1>2, <1>3
  <2>2. CASE j < k
    <3>1. j \in 1 .. Len(rules) /\ j < i /\ more[j] = rules[j]
      BY <2>2, <1>5, <1>1, <1>2
    <3> QED
      BY <3>1, <1>5, <1>4, <1>2
  <2>3. CASE j > k
    <3>1. j - 1 \in k .. Len(rules) /\ j - 1 < i /\ j - 1 \in 1 .. Len(rules)
      BY <2>3, <1>5, <1>1, <1>2
    <3>2. more[j] = rules[j - 1]
      <4>1. more[(j - 1) + 1] = rules[j - 1]
        BY <3>1, <1>1
      <4>2. (j - 1) + 1 = j
        BY <1>1
      <4> QED
        BY <4>1, <4>2
    <3> QED
      BY <3>1, <3>2, <1>5, <1>4, <1>2
  <2> QED
    BY <2>1, <2>2, <2>3, <1>1
<1>6. m \in selectRules(more, name)
  BY <1>4, <1>5, <1>2 DEF selectRules
<1> QED
  BY <1>4, <1>6 DEF more

(* What is found grows with the rules that are selected.                   *)
LEMMA MoreIsFound ==
  ASSUME NEW e, NEW rules, NEW more,
         \A i \in selectRules(rules, e.name) :
           \E m \in selectRules(more, e.name) : more[m] = rules[i]
  PROVE  /\ checkProfile(e, rules).errors \subseteq checkProfile(e, more).errors
         /\ checkProfile(e, rules).warnings \subseteq checkProfile(e, more).warnings
         /\ checkProfile(e, rules).matched \subseteq checkProfile(e, more).matched
<1> DEFINE old == selectRules(rules, e.name)
<1> DEFINE new == selectRules(more, e.name)
<1>1. CASE e.core \in {"invalid", "uncovered"} \/ old = {}
  BY <1>1 DEF checkProfile, Result
<1>2. CASE e.core \notin {"invalid", "uncovered"} /\ old # {}
  <2>1. new # {}
    BY <1>2
  <2>2. /\ checkProfile(e, rules).errors = UNION {evaluateRule(e, rules[i]).errors : i \in old}
        /\ checkProfile(e, rules).warnings = UNION {evaluateRule(e, rules[i]).warnings : i \in old}
        /\ checkProfile(e, rules).matched = {rules[i].id : i \in old}
    BY <1>2 DEF checkProfile, Result
  <2>3. /\ checkProfile(e, more).errors = UNION {evaluateRule(e, more[i]).errors : i \in new}
        /\ checkProfile(e, more).warnings = UNION {evaluateRule(e, more[i]).warnings : i \in new}
        /\ checkProfile(e, more).matched = {more[i].id : i \in new}
    BY <1>2, <2>1 DEF checkProfile, Result
  <2>4. \A i \in old : \E m \in new : more[m] = rules[i]
    OBVIOUS
  <2> HIDE DEF old, new
  <2>5. UNION {evaluateRule(e, rules[i]).errors : i \in old}
          \subseteq UNION {evaluateRule(e, more[i]).errors : i \in new}
    BY <2>4
  <2>6. UNION {evaluateRule(e, rules[i]).warnings : i \in old}
          \subseteq UNION {evaluateRule(e, more[i]).warnings : i \in new}
    BY <2>4
  <2>7. {rules[i].id : i \in old} \subseteq {more[i].id : i \in new}
    BY <2>4
  <2> QED
    BY <2>2, <2>3, <2>5, <2>6, <2>7
<1> QED
  BY <1>1, <1>2

(* "Can only ever add" (profiles/types.ts:4): of any profile, a new rule   *)
(* at any place takes away no finding of another one.                      *)
THEOREM RulesOnlyAddTheorem == Spec => []RulesOnlyAdd
<1>1. IInv => RulesOnlyAdd
  <2> SUFFICES ASSUME IInv, NEW n \in DOMAIN events, NEW r \in Rules,
                      NEW k \in 1 .. Len(profile) + 1, r.id \notin Ids(profile)
               PROVE  LET more == checkProfile(events[n], InsertAt(profile, k, r)) IN
                      /\ results[n].errors \subseteq more.errors
                      /\ results[n].warnings \subseteq more.warnings
                      /\ results[n].matched \subseteq more.matched
    BY DEF RulesOnlyAdd
  <2>1. results[n] = checkProfile(events[n], profile) /\ profile \in Seq(Rules)
    BY DEF IInv
  <2>2. \A i \in selectRules(profile, events[n].name) :
          \E m \in selectRules(InsertAt(profile, k, r), events[n].name) :
            InsertAt(profile, k, r)[m] = profile[i]
    BY <2>1, StillSelected
  <2> QED
    BY <2>1, <2>2, MoreIsFound
<1> QED
  BY <1>1, Invariant, PTL
-----------------------------------------------------------------------------
(* A rule the lint says contradicts itself is met by no values.            *)
LEMMA ContradictionIsUnmet ==
  ASSUME NEW r, Contradicts(r), NEW at
  PROVE  Unmet([at |-> at], r) # {}
<1> DEFINE e == [at |-> at]
<1> e.at = at
  OBVIOUS
<1> HIDE DEF e
<1> SUFFICES ASSUME Unmet(e, r) = {} PROVE FALSE
  BY DEF e
<1>1. \A v \in ToSet(r.values) : e.at[v.path] = v.equals
  BY DEF Unmet
<1>2. \A p \in ToSet(r.required) : isPresent(e, p)
  BY DEF Unmet
<1>3. \A m \in ToSet(r.metadata) : matchesMetadataType(e.at[m.path], m.type)
  BY DEF Unmet
<1> QED
  BY <1>1, <1>2, <1>3 DEF Contradicts, IsBlank, isPresent

(* What the lint calls a contradiction is one "which no event can satisfy" *)
(* (lint-profiles.ts, PROFILE-LINT-004), whatever the values at the paths. *)
THEOREM ContradictionsTheorem == ToolsSpec => []ContradictionsAreReal
<1>1. ContradictionsAreReal
  <2> SUFFICES ASSUME NEW r \in ToSet(profile),
                      LintFinding("PROFILE-LINT-004", "error", r.id) \in lintProfile(<< r >>),
                      NEW at \in [Paths -> Values \cup {Absent}]
               PROVE  Unmet([at |-> at], r) # {}
    BY DEF ContradictionsAreReal
  <2>1. ToSet(<< r >>) = {r}
    BY DEF ToSet
  <2>2. Contradicts(r)
    BY <2>1 DEF lintProfile, LintFinding
  <2> QED
    BY <2>2, ContradictionIsUnmet
<1> QED
  BY <1>1, PTL
-----------------------------------------------------------------------------
(***************************************************************************)
(* Templates.  An assignment fills its path and empties none, so a list of *)
(* them does, and so do the lists of the rules for a name.                 *)
(***************************************************************************)
Templates == [at : [Paths -> Values \cup {Absent}], holding : SUBSET Paths, shared : SUBSET Paths]

Assigns == [path : Paths, value : Values]

Filled(t, u) == \A p \in Paths : t.at[p] # Absent => u.at[p] # Absent

Fills(u, paths) == \A p \in paths : u.at[p] # Absent

(* Nothing is in the shared object, which is at some paths of M at most.   *)
Clean(t, M) == t.shared = {} /\ t.holding \subseteq M

Apart(a, M) == Above[a.path] \cap M = {} /\ (a.value = EmptyObject => a.path \in M)

LEMMA SetPointerKeepsType ==
  ASSUME NEW t \in Templates, NEW a \in Assigns
  PROVE  setPointer(t, a) \in Templates
<1> DEFINE replaced == {p \in Above[a.path] : ~IsContainer(t.at[p])}
           new == t.at[a.path] = Absent
           inShared == new /\ Above[a.path] \cap t.holding # {}
           isShared == new /\ a.value = EmptyObject
           at == [p \in Paths |->
             IF p = a.path /\ new
             THEN IF isShared /\ t.shared # {} THEN Object ELSE a.value
             ELSE IF p \in Above[a.path] THEN Object
             ELSE IF isShared /\ p \in Within(a.path) \cap t.shared THEN Placeholder
             ELSE t.at[p]]
           holding == (t.holding \ replaced) \cup {p \in {a.path} : isShared}
           shared == t.shared \cup {p \in {a.path} : inShared}
<1>1. a.path \in Paths /\ a.value \in Values
  BY DEF Assigns
<1>2. t.at \in [Paths -> Values \cup {Absent}] /\ t.holding \subseteq Paths /\ t.shared \subseteq Paths
  BY DEF Templates
<1>3. Object \in Values /\ Placeholder \in Values
  BY ProfileAssumption, ToolsAssumption DEF ProfileAssumption, ToolsAssumption
<1>4. setPointer(t, a) = [at |-> at, holding |-> holding, shared |-> shared]
  BY DEF setPointer
<1>5. at \in [Paths -> Values \cup {Absent}]
  BY <1>1, <1>2, <1>3
<1>6. holding \subseteq Paths /\ shared \subseteq Paths
  BY <1>1, <1>2
<1> HIDE DEF at, holding, shared
<1> QED BY <1>4, <1>5, <1>6 DEF Templates

LEMMA SetPointerFills ==
  ASSUME NEW t \in Templates, NEW a \in Assigns
  PROVE  Filled(t, setPointer(t, a)) /\ setPointer(t, a).at[a.path] # Absent
<1>1. a.path \in Paths /\ a.value \in Values
  BY DEF Assigns
<1>2. Object \in Values /\ Placeholder \in Values /\ Absent \notin Values /\ a.path \notin Above[a.path]
  BY <1>1, ProfileAssumption, ToolsAssumption DEF ProfileAssumption, ToolsAssumption
<1>3. ASSUME NEW p \in Paths, p = a.path \/ t.at[p] # Absent
      PROVE  setPointer(t, a).at[p] # Absent
  BY <1>1, <1>2, <1>3 DEF setPointer
<1> QED BY <1>1, <1>3 DEF Filled

LEMMA SetPointerStaysClean ==
  ASSUME NEW t \in Templates, NEW a \in Assigns, NEW M, Clean(t, M), Apart(a, M)
  PROVE  Clean(setPointer(t, a), M)
<1>1. Above[a.path] \cap t.holding = {}
  BY DEF Clean, Apart
<1>2. setPointer(t, a).shared = {}
  BY <1>1 DEF setPointer, Clean
<1>3. setPointer(t, a).holding \subseteq M
  BY DEF setPointer, Clean, Apart
<1> QED BY <1>2, <1>3 DEF Clean

(* The templates on the way through a list of assignments.                 *)
IsFilling(f, t, s) ==
  /\ f \in [0 .. Len(s) -> Templates]
  /\ f[0] = t
  /\ \A n \in 1 .. Len(s) : f[n] = setPointer(f[n - 1], s[n])

LEMMA SetPointersDef ==
  ASSUME NEW t \in Templates, NEW s \in Seq(Assigns)
  PROVE  \E f : IsFilling(f, t, s) /\ setPointers(t, s) = f[Len(s)]
<1> DEFINE N == Len(s)
           F == CHOOSE f : f = [n \in 0 .. N |-> IF n = 0 THEN t ELSE setPointer(f[n - 1], s[n])]
           step == [n \in 1 .. N |-> [x \in Templates |-> setPointer(x, s[n])]]
<1>1. N \in Nat /\ \A n \in 1 .. N : s[n] \in Assigns
  OBVIOUS
<1>2. step \in [1 .. N -> [Templates -> Templates]]
  BY <1>1, SetPointerKeepsType
<1>3. \A n \in 1 .. N : \A x \in Templates : step[n][x] = setPointer(x, s[n])
  OBVIOUS
<1>4. setPointers(t, s) = F[N]
  BY DEF setPointers
<1> HIDE DEF step
<1>5. PICK g : Recurs(g, N, Templates, t, step)
  BY <1>1, <1>2, LinearRecursion DEF IsStep
<1>6. \A n \in 1 .. N : g[n] = setPointer(g[n - 1], s[n])
  BY <1>1, <1>3, <1>5 DEF Recurs
<1>7. g = [n \in 0 .. N |-> IF n = 0 THEN t ELSE setPointer(g[n - 1], s[n])]
  <2>1. \A n \in 0 .. N : g[n] = IF n = 0 THEN t ELSE setPointer(g[n - 1], s[n])
    BY <1>1, <1>5, <1>6 DEF Recurs
  <2>2. g = [n \in 0 .. N |-> g[n]]
    BY <1>5 DEF Recurs
  <2> QED BY <2>1, <2>2
<1>8. F = [n \in 0 .. N |-> IF n = 0 THEN t ELSE setPointer(F[n - 1], s[n])]
  BY <1>7
<1> HIDE DEF F
<1>9. F[0] = t
  BY <1>1, <1>8
<1>10. ASSUME NEW n \in 1 .. N PROVE F[n] = setPointer(F[n - 1], s[n])
  <2>1. n \in 0 .. N /\ n # 0
    BY <1>1
  <2> QED BY <1>8, <2>1
<1>11. F \in [0 .. N -> Templates]
  <2> DEFINE S == {n \in 0 .. N : F[n] \in Templates}
  <2>1. 0 \in S
    BY <1>1, <1>9
  <2>2. ASSUME NEW n \in 0 .. N - 1, n \in S PROVE n + 1 \in S
    <3>1. n + 1 \in 1 .. N /\ (n + 1) - 1 = n /\ n + 1 \in 0 .. N
      BY <1>1
    <3>2. F[n + 1] = setPointer(F[n], s[n + 1])
      BY <1>10, <3>1
    <3> QED BY <1>1, <2>2, <3>1, <3>2, SetPointerKeepsType
  <2>3. 0 .. N \subseteq S
    <3> HIDE DEF S, N
    <3> QED BY <1>1, <2>1, <2>2, StepInduction
  <2>4. \A n \in 0 .. N : F[n] \in Templates
    BY <2>3
  <2>5. DOMAIN F = 0 .. N /\ F = [n \in 0 .. N |-> F[n]]
    BY <1>8, Zenon
  <2> QED BY <2>4, <2>5
<1> QED BY <1>4, <1>9, <1>10, <1>11 DEF IsFilling

LEMMA SetPointersFill ==
  ASSUME NEW t \in Templates, NEW s \in Seq(Assigns)
  PROVE  /\ setPointers(t, s) \in Templates
         /\ Filled(t, setPointers(t, s))
         /\ \A a \in ToSet(s) : setPointers(t, s).at[a.path] # Absent
<1> DEFINE N == Len(s)
<1>1. N \in Nat /\ \A n \in 1 .. N : s[n] \in Assigns
  OBVIOUS
<1>2. PICK f : IsFilling(f, t, s) /\ setPointers(t, s) = f[N]
  BY SetPointersDef
<1>3. \A n \in 0 .. N : f[n] \in Templates
  BY <1>2 DEF IsFilling
<1> DEFINE Done(n) == /\ Filled(t, f[n])
                      /\ \A i \in 1 .. n : f[n].at[s[i].path] # Absent
           S == {n \in 0 .. N : Done(n)}
<1>4. 0 \in S
  BY <1>1, <1>2 DEF IsFilling, Filled
<1>5. ASSUME NEW n \in 0 .. N - 1, n \in S PROVE n + 1 \in S
  <2>1. n + 1 \in 1 .. N /\ (n + 1) - 1 = n /\ n + 1 \in 0 .. N
    BY <1>1
  <2>2. f[n + 1] = setPointer(f[n], s[n + 1]) /\ f[n] \in Templates
    BY <1>2, <1>3, <2>1 DEF IsFilling
  <2>3. Filled(f[n], f[n + 1]) /\ f[n + 1].at[s[n + 1].path] # Absent
    BY <1>1, <2>1, <2>2, SetPointerFills
  <2>4. Filled(t, f[n + 1])
    BY <1>5, <2>3 DEF Filled
  <2>5. ASSUME NEW i \in 1 .. n + 1 PROVE f[n + 1].at[s[i].path] # Absent
    <3>1. CASE i = n + 1
      BY <2>3, <3>1
    <3>2. CASE i # n + 1
      <4>1. i \in 1 .. n /\ i \in 1 .. N
        BY <3>2, <1>1
      <4>2. s[i].path \in Paths
        BY <4>1, <1>1 DEF Assigns
      <4> QED BY <1>5, <4>1, <4>2, <2>3 DEF Filled
    <3> QED BY <3>1, <3>2
  <2> QED BY <2>1, <2>4, <2>5
<1>6. 0 .. N \subseteq S
  <2> HIDE DEF S, N
  <2> QED BY <1>1, <1>4, <1>5, StepInduction
<1>7. N \in S
  BY <1>1, <1>6
<1> QED BY <1>1, <1>2, <1>3, <1>7 DEF ToSet

LEMMA SetPointersStayClean ==
  ASSUME NEW t \in Templates, NEW s \in Seq(Assigns), NEW M, Clean(t, M),
         \A a \in ToSet(s) : Apart(a, M)
  PROVE  Clean(setPointers(t, s), M)
<1> DEFINE N == Len(s)
<1>1. N \in Nat /\ \A n \in 1 .. N : s[n] \in Assigns /\ Apart(s[n], M)
  BY DEF ToSet
<1>2. PICK f : IsFilling(f, t, s) /\ setPointers(t, s) = f[N]
  BY SetPointersDef
<1>3. \A n \in 0 .. N : f[n] \in Templates
  BY <1>2 DEF IsFilling
<1> DEFINE S == {n \in 0 .. N : Clean(f[n], M)}
<1>4. 0 \in S
  BY <1>1, <1>2 DEF IsFilling
<1>5. ASSUME NEW n \in 0 .. N - 1, n \in S PROVE n + 1 \in S
  <2>1. n + 1 \in 1 .. N /\ (n + 1) - 1 = n /\ n + 1 \in 0 .. N
    BY <1>1
  <2>2. f[n + 1] = setPointer(f[n], s[n + 1]) /\ f[n] \in Templates
    BY <1>2, <1>3, <2>1 DEF IsFilling
  <2> QED BY <1>1, <1>5, <2>1, <2>2, SetPointerStaysClean
<1>6. 0 .. N \subseteq S
  <2> HIDE DEF S, N
  <2> QED BY <1>1, <1>4, <1>5, StepInduction
<1>7. N \in S
  BY <1>1, <1>6
<1> QED BY <1>2, <1>7

(***************************************************************************)
(* What a rule sets is at the paths it asks for, and the shared object is  *)
(* only set where it requires a member of metadata to be an object.        *)
(***************************************************************************)
AskedOf(r, recommended) ==
  requiredPointers(r) \cup IF recommended THEN ToSet(r.recommended) ELSE {}

LEMMA ElementsOfConcat ==
  ASSUME NEW S, NEW s \in Seq(S), NEW t \in Seq(S)
  PROVE  s \o t \in Seq(S) /\ ToSet(s \o t) = ToSet(s) \cup ToSet(t)
<1>1. s \o t \in Seq(S) /\ Len(s \o t) = Len(s) + Len(t)
  <2>1. s \o t \in Seq(S)
    OBVIOUS
  <2>2. Len(s \o t) = Len(s) + Len(t)
    OBVIOUS
  <2> QED BY <2>1, <2>2
<1>2. \A i \in 1 .. Len(s) : (s \o t)[i] = s[i]
  OBVIOUS
<1>3. \A i \in 1 .. Len(t) : (s \o t)[Len(s) + i] = t[i]
  OBVIOUS
<1>4. DOMAIN s = 1 .. Len(s) /\ DOMAIN t = 1 .. Len(t) /\ Len(s) \in Nat /\ Len(t) \in Nat
  OBVIOUS
<1>5. DOMAIN (s \o t) = 1 .. Len(s) + Len(t)
  BY <1>1
<1> DEFINE both == s \o t
<1> HIDE DEF both
<1>6. ASSUME NEW x \in ToSet(both) PROVE x \in ToSet(s) \cup ToSet(t)
  <2>1. PICK i \in 1 .. Len(s) + Len(t) : x = both[i]
    BY <1>5, <1>6 DEF ToSet, both
  <2>2. CASE i \in 1 .. Len(s)
    BY <2>1, <2>2, <1>2, <1>4 DEF ToSet, both
  <2>3. CASE i \notin 1 .. Len(s)
    <3>1. i - Len(s) \in 1 .. Len(t) /\ Len(s) + (i - Len(s)) = i
      BY <2>3, <1>4
    <3>2. both[Len(s) + (i - Len(s))] = t[i - Len(s)]
      BY <3>1, <1>3 DEF both
    <3>3. x = t[i - Len(s)]
      BY <2>1, <3>1, <3>2
    <3> QED BY <3>1, <3>3, <1>4 DEF ToSet
  <2> QED BY <2>2, <2>3
<1>7. ASSUME NEW x \in ToSet(s) PROVE x \in ToSet(both)
  <2>1. PICK i \in 1 .. Len(s) : x = s[i]
    BY <1>4, <1>7 DEF ToSet
  <2>2. both[i] = x /\ i \in 1 .. Len(s) + Len(t)
    BY <2>1, <1>2, <1>4 DEF both
  <2> QED BY <2>2, <1>5 DEF ToSet, both
<1>8. ASSUME NEW x \in ToSet(t) PROVE x \in ToSet(both)
  <2>1. PICK i \in 1 .. Len(t) : x = t[i]
    BY <1>4, <1>8 DEF ToSet
  <2>2. both[Len(s) + i] = x /\ Len(s) + i \in 1 .. Len(s) + Len(t)
    BY <2>1, <1>3, <1>4 DEF both
  <2> QED BY <2>2, <1>5 DEF ToSet, both
<1>9. ToSet(both) = ToSet(s) \cup ToSet(t)
  BY <1>6, <1>7, <1>8
<1> QED BY <1>1, <1>9 DEF both

LEMMA PlaceholderFacts ==
  ASSUME NEW type
  PROVE  /\ Placeholder \in Values /\ Placeholder # EmptyObject
         /\ PLACEHOLDER_BY_TYPE(type) \in Values
         /\ PLACEHOLDER_BY_TYPE(type) = EmptyObject <=> type = "object"
<1>1. /\ Placeholder \in Values \ Empty /\ No \in Values \ Empty
      /\ EmptyObject \in Empty /\ Empty \subseteq Values
  BY ProfileAssumption, ToolsAssumption DEF ProfileAssumption, ToolsAssumption
<1>2. CASE type = "object"
  BY <1>1, <1>2 DEF PLACEHOLDER_BY_TYPE
<1>3. CASE type = "boolean"
  BY <1>1, <1>3 DEF PLACEHOLDER_BY_TYPE
<1>4. CASE type \notin {"object", "boolean"}
  BY <1>1, <1>4 DEF PLACEHOLDER_BY_TYPE
<1> QED BY <1>1, <1>2, <1>3, <1>4

LEMMA AssignmentsFacts ==
  ASSUME NEW r \in Rules, NEW recommended \in BOOLEAN
  PROVE  /\ Assignments(r, recommended) \in Seq(Assigns)
         /\ {a.path : a \in ToSet(Assignments(r, recommended))} = AskedOf(r, recommended)
         /\ \A a \in ToSet(Assignments(r, recommended)) :
              a.value = EmptyObject =>
                \E i \in DOMAIN r.metadata : r.metadata[i] = [path |-> a.path, type |-> "object"]
<1> DEFINE a1 == [i \in DOMAIN r.required |-> Set(r.required[i], Placeholder)]
           a2 == [i \in DOMAIN r.metadata |->
                    Set(r.metadata[i].path, PLACEHOLDER_BY_TYPE(r.metadata[i].type))]
           a3 == [i \in DOMAIN r.values |-> Set(r.values[i].path, r.values[i].equals)]
           a4 == IF recommended
                 THEN [i \in DOMAIN r.recommended |-> Set(r.recommended[i], Placeholder)]
                 ELSE << >>
           Typed == [path : Paths, type : Types]
           Fixed == [path : Paths, equals : Scalar]
<1>1. /\ r.required \in Seq(Paths) /\ r.recommended \in Seq(Paths)
      /\ r.metadata \in Seq(Typed) /\ r.values \in Seq(Fixed)
  BY ProfileAssumption DEF ProfileAssumption, IsRule
<1>2. /\ EmptyObject \notin Scalar /\ Scalar \subseteq Values
  BY ToolsAssumption DEF ToolsAssumption, Scalar
<1>3. /\ a1 \in Seq(Assigns) /\ {a.path : a \in ToSet(a1)} = ToSet(r.required)
      /\ \A a \in ToSet(a1) : a.value # EmptyObject
  <2>1. DOMAIN a1 = 1 .. Len(r.required) /\ Len(r.required) \in Nat
        /\ \A i \in 1 .. Len(r.required) : r.required[i] \in Paths
    BY <1>1
  <2>2. \A i \in 1 .. Len(r.required) : a1[i] = Set(r.required[i], Placeholder)
    BY <2>1
  <2>3. \A i \in 1 .. Len(r.required) : a1[i] \in Assigns /\ a1[i].path = r.required[i]
                                        /\ a1[i].value # EmptyObject
    BY <2>1, <2>2, PlaceholderFacts DEF Set, Assigns
  <2>4. a1 \in [1 .. Len(r.required) -> Assigns]
    BY <2>1, <2>3
  <2>5. DOMAIN r.required = 1 .. Len(r.required)
    BY <1>1
  <2> HIDE DEF a1
  <2>6. a1 \in Seq(Assigns)
    BY <2>1, <2>4
  <2> QED BY <2>1, <2>3, <2>5, <2>6 DEF ToSet
<1>4. /\ a2 \in Seq(Assigns) /\ {a.path : a \in ToSet(a2)} = {m.path : m \in ToSet(r.metadata)}
      /\ \A a \in ToSet(a2) : a.value = EmptyObject =>
           \E i \in DOMAIN r.metadata : r.metadata[i] = [path |-> a.path, type |-> "object"]
  <2>1. DOMAIN a2 = 1 .. Len(r.metadata) /\ Len(r.metadata) \in Nat
        /\ DOMAIN r.metadata = 1 .. Len(r.metadata)
    BY <1>1
  <2>2. \A i \in 1 .. Len(r.metadata) : r.metadata[i] \in Typed
    <3> HIDE DEF Typed
    <3> QED BY <1>1
  <2>3. ASSUME NEW i \in 1 .. Len(r.metadata)
        PROVE  /\ a2[i] \in Assigns /\ a2[i].path = r.metadata[i].path
               /\ a2[i].value = EmptyObject =>
                    r.metadata[i] = [path |-> a2[i].path, type |-> "object"]
    <3>1. a2[i] = Set(r.metadata[i].path, PLACEHOLDER_BY_TYPE(r.metadata[i].type))
      BY <2>1
    <3>2. r.metadata[i].path \in Paths
          /\ r.metadata[i] = [path |-> r.metadata[i].path, type |-> r.metadata[i].type]
      BY <2>2
    <3> HIDE DEF a2
    <3>3. a2[i] \in Assigns /\ a2[i].path = r.metadata[i].path
          /\ a2[i].value = PLACEHOLDER_BY_TYPE(r.metadata[i].type)
      BY <3>1, <3>2, PlaceholderFacts DEF Set, Assigns
    <3>4. a2[i].value = EmptyObject => r.metadata[i].type = "object"
      BY <3>3, PlaceholderFacts
    <3> QED BY <3>2, <3>3, <3>4
  <2>4. a2 \in [1 .. Len(r.metadata) -> Assigns]
    BY <2>1, <2>3
  <2> HIDE DEF a2
  <2>5. a2 \in Seq(Assigns)
    BY <2>1, <2>4
  <2>6. {a.path : a \in ToSet(a2)} = {m.path : m \in ToSet(r.metadata)}
    <3>1. {a.path : a \in ToSet(a2)} = {a2[i].path : i \in 1 .. Len(r.metadata)}
      BY <2>1 DEF ToSet
    <3>2. {m.path : m \in ToSet(r.metadata)} = {r.metadata[i].path : i \in 1 .. Len(r.metadata)}
      BY <2>1 DEF ToSet
    <3>3. \A i \in 1 .. Len(r.metadata) : a2[i].path = r.metadata[i].path
      BY <2>3
    <3>4. {a2[i].path : i \in 1 .. Len(r.metadata)} = {r.metadata[i].path : i \in 1 .. Len(r.metadata)}
      BY <3>3
    <3> QED BY <3>1, <3>2, <3>4
  <2>7. \A a \in ToSet(a2) : \E i \in 1 .. Len(r.metadata) : a = a2[i]
    BY <2>1 DEF ToSet
  <2>8. \A i \in 1 .. Len(r.metadata) : a2[i].value = EmptyObject =>
          r.metadata[i] = [path |-> a2[i].path, type |-> "object"]
    BY <2>3
  <2>9. \A a \in ToSet(a2) : a.value = EmptyObject =>
          \E i \in DOMAIN r.metadata : r.metadata[i] = [path |-> a.path, type |-> "object"]
    BY <2>1, <2>7, <2>8
  <2> QED BY <2>5, <2>6, <2>9
<1>5. /\ a3 \in Seq(Assigns) /\ {a.path : a \in ToSet(a3)} = {v.path : v \in ToSet(r.values)}
      /\ \A a \in ToSet(a3) : a.value # EmptyObject
  <2>1. DOMAIN a3 = 1 .. Len(r.values) /\ Len(r.values) \in Nat
        /\ DOMAIN r.values = 1 .. Len(r.values)
    BY <1>1
  <2>2. \A i \in 1 .. Len(r.values) : r.values[i].path \in Paths /\ r.values[i].equals \in Scalar
    <3> HIDE DEF Fixed
    <3>1. \A i \in 1 .. Len(r.values) : r.values[i] \in Fixed
      BY <1>1
    <3> QED BY <3>1 DEF Fixed
  <2>3. \A i \in 1 .. Len(r.values) : a3[i] = Set(r.values[i].path, r.values[i].equals)
    BY <2>1
  <2>4. \A i \in 1 .. Len(r.values) : a3[i] \in Assigns /\ a3[i].path = r.values[i].path
                                      /\ a3[i].value # EmptyObject
    <3> SUFFICES ASSUME NEW i \in 1 .. Len(r.values)
                 PROVE  a3[i] \in Assigns /\ a3[i].path = r.values[i].path /\ a3[i].value # EmptyObject
      OBVIOUS
    <3> HIDE DEF a3
    <3>1. a3[i] = [path |-> r.values[i].path, value |-> r.values[i].equals]
      BY <2>3 DEF Set
    <3>2. r.values[i].equals \in Values /\ r.values[i].equals # EmptyObject
      BY <2>2, <1>2
    <3> QED BY <2>2, <3>1, <3>2 DEF Assigns
  <2>5. a3 \in [1 .. Len(r.values) -> Assigns]
    BY <2>1, <2>4
  <2> HIDE DEF a3
  <2>6. a3 \in Seq(Assigns)
    BY <2>1, <2>5
  <2> QED BY <2>1, <2>4, <2>6 DEF ToSet
<1>6. /\ a4 \in Seq(Assigns)
      /\ {a.path : a \in ToSet(a4)} = IF recommended THEN ToSet(r.recommended) ELSE {}
      /\ \A a \in ToSet(a4) : a.value # EmptyObject
  <2>1. CASE ~recommended
    <3>1. a4 = << >>
      BY <2>1
    <3>2. << >> \in Seq(Assigns) /\ ToSet(<< >>) = {}
      BY DEF ToSet
    <3> HIDE DEF a4
    <3>3. ToSet(a4) = {}
      BY <3>1, <3>2
    <3>4. a4 \in Seq(Assigns)
      BY <3>1, <3>2
    <3>5. {a.path : a \in ToSet(a4)} = {}
      BY <3>3
    <3> QED BY <2>1, <3>3, <3>4, <3>5
  <2>2. CASE recommended
    <3>1. DOMAIN a4 = 1 .. Len(r.recommended) /\ Len(r.recommended) \in Nat
          /\ \A i \in 1 .. Len(r.recommended) : r.recommended[i] \in Paths
      BY <1>1, <2>2
    <3>2. \A i \in 1 .. Len(r.recommended) : a4[i] = Set(r.recommended[i], Placeholder)
      BY <3>1, <2>2
    <3>3. \A i \in 1 .. Len(r.recommended) : a4[i] \in Assigns /\ a4[i].path = r.recommended[i]
                                             /\ a4[i].value # EmptyObject
      <4> SUFFICES ASSUME NEW i \in 1 .. Len(r.recommended)
                   PROVE  a4[i] \in Assigns /\ a4[i].path = r.recommended[i] /\ a4[i].value # EmptyObject
        OBVIOUS
      <4> HIDE DEF a4
      <4>1. a4[i] = [path |-> r.recommended[i], value |-> Placeholder]
        BY <3>2 DEF Set
      <4>2. r.recommended[i] \in Paths
        BY <3>1
      <4>3. Placeholder \in Values /\ Placeholder # EmptyObject
        BY PlaceholderFacts
      <4> QED BY <4>1, <4>2, <4>3 DEF Assigns
    <3>4. a4 \in [1 .. Len(r.recommended) -> Assigns]
      BY <3>1, <3>3, <2>2
    <3>5. DOMAIN r.recommended = 1 .. Len(r.recommended)
      BY <1>1
    <3> HIDE DEF a4
    <3>6. a4 \in Seq(Assigns)
      BY <3>1, <3>4
    <3>7. {a.path : a \in ToSet(a4)} = ToSet(r.recommended)
      BY <3>1, <3>3, <3>5 DEF ToSet
    <3> QED BY <3>1, <3>3, <3>6, <3>7, <2>2 DEF ToSet
  <2> QED BY <2>1, <2>2
<1>7. Assignments(r, recommended) = a1 \o a2 \o a3 \o a4
  BY DEF Assignments
<1> HIDE DEF a1, a2, a3, a4
<1> DEFINE two == a1 \o a2
           three == two \o a3
           all == three \o a4
<1>8. two \in Seq(Assigns) /\ ToSet(two) = ToSet(a1) \cup ToSet(a2)
  BY <1>3, <1>4, ElementsOfConcat
<1>12. Assignments(r, recommended) = all
  BY <1>7
<1> HIDE DEF two
<1>9. three \in Seq(Assigns) /\ ToSet(three) = ToSet(two) \cup ToSet(a3)
  BY <1>5, <1>8, ElementsOfConcat
<1> HIDE DEF three
<1>10. all \in Seq(Assigns) /\ ToSet(all) = ToSet(three) \cup ToSet(a4)
  BY <1>6, <1>9, ElementsOfConcat
<1>11. all \in Seq(Assigns) /\ ToSet(all) = ToSet(a1) \cup ToSet(a2) \cup ToSet(a3) \cup ToSet(a4)
  BY <1>8, <1>9, <1>10
<1> HIDE DEF all
<1>13. {a.path : a \in ToSet(all)} = AskedOf(r, recommended)
  <2>1. {a.path : a \in ToSet(all)} = {a.path : a \in ToSet(a1)} \cup {a.path : a \in ToSet(a2)}
                                       \cup {a.path : a \in ToSet(a3)} \cup {a.path : a \in ToSet(a4)}
    BY <1>11
  <2> QED BY <2>1, <1>3, <1>4, <1>5, <1>6 DEF AskedOf, requiredPointers
<1>14. \A a \in ToSet(all) : a.value = EmptyObject =>
         \E i \in DOMAIN r.metadata : r.metadata[i] = [path |-> a.path, type |-> "object"]
  BY <1>3, <1>4, <1>5, <1>6, <1>11
<1> QED BY <1>11, <1>12, <1>13, <1>14

(* The templates on the way through the rules.                             *)
IsGenerating(f, rules, name, recommended, shared) ==
  /\ f \in [0 .. Len(rules) -> Templates]
  /\ f[0] = Blank(shared)
  /\ \A n \in 1 .. Len(rules) :
       f[n] = IF n \in selectRules(rules, name)
              THEN setPointers(f[n - 1], Assignments(rules[n], recommended))
              ELSE f[n - 1]

LEMMA GenerateDef ==
  ASSUME NEW rules \in Seq(Rules), NEW name, NEW recommended \in BOOLEAN,
         NEW shared \in SUBSET Paths
  PROVE  \E f : /\ IsGenerating(f, rules, name, recommended, shared)
                /\ generate_event_template(rules, name, recommended, shared) = f[Len(rules)]
<1> DEFINE N == Len(rules)
           first == Blank(shared)
           selected == selectRules(rules, name)
           next(n, x) == IF n \in selected THEN setPointers(x, Assignments(rules[n], recommended))
                         ELSE x
           F == CHOOSE f : f = [n \in 0 .. N |->
                  IF n = 0 THEN first
                  ELSE IF n \in selected
                       THEN setPointers(f[n - 1], Assignments(rules[n], recommended))
                       ELSE f[n - 1]]
           step == [n \in 1 .. N |-> [x \in Templates |-> next(n, x)]]
<1>1. N \in Nat /\ \A n \in 1 .. N : rules[n] \in Rules
  OBVIOUS
<1>2. \A n \in 1 .. N : \A x \in Templates : next(n, x) \in Templates
  BY <1>1, AssignmentsFacts, SetPointersFill
<1>3. step \in [1 .. N -> [Templates -> Templates]]
  BY <1>2
<1>4. \A n \in 1 .. N : \A x \in Templates : step[n][x] = next(n, x)
  OBVIOUS
<1>5. generate_event_template(rules, name, recommended, shared) = F[N]
  BY DEF generate_event_template
<1>6. first \in Templates
  BY DEF Blank, Templates
<1> HIDE DEF step, first, selected
<1>7. PICK g : Recurs(g, N, Templates, first, step)
  BY <1>1, <1>3, <1>6, LinearRecursion DEF IsStep
<1>8. \A n \in 1 .. N : g[n] = next(n, g[n - 1])
  BY <1>1, <1>4, <1>7 DEF Recurs
<1>9. g = [n \in 0 .. N |-> IF n = 0 THEN first ELSE next(n, g[n - 1])]
  <2> HIDE DEF next
  <2>1. \A n \in 0 .. N : g[n] = IF n = 0 THEN first ELSE next(n, g[n - 1])
    BY <1>1, <1>7, <1>8 DEF Recurs
  <2>2. g = [n \in 0 .. N |-> g[n]]
    BY <1>7 DEF Recurs
  <2> QED BY <2>1, <2>2
<1>10. F = [n \in 0 .. N |-> IF n = 0 THEN first ELSE next(n, F[n - 1])]
  BY <1>9
<1> HIDE DEF F
<1>11. F[0] = first
  BY <1>1, <1>10
<1>12. ASSUME NEW n \in 1 .. N PROVE F[n] = next(n, F[n - 1])
  <2>1. n \in 0 .. N /\ n # 0
    BY <1>1
  <2> HIDE DEF next
  <2> QED BY <1>10, <2>1
<1>13. F \in [0 .. N -> Templates]
  <2> DEFINE S == {n \in 0 .. N : F[n] \in Templates}
  <2>1. 0 \in S
    BY <1>1, <1>6, <1>11
  <2>2. ASSUME NEW n \in 0 .. N - 1, n \in S PROVE n + 1 \in S
    <3>1. n + 1 \in 1 .. N /\ (n + 1) - 1 = n /\ n + 1 \in 0 .. N
      BY <1>1
    <3>2. F[n + 1] = next(n + 1, F[n])
      BY <1>12, <3>1
    <3> HIDE DEF next
    <3> QED BY <1>2, <2>2, <3>1, <3>2
  <2>3. 0 .. N \subseteq S
    <3> HIDE DEF S, N
    <3> QED BY <1>1, <2>1, <2>2, StepInduction
  <2>4. \A n \in 0 .. N : F[n] \in Templates
    BY <2>3
  <2>5. DOMAIN F = 0 .. N /\ F = [n \in 0 .. N |-> F[n]]
    BY <1>10, Zenon
  <2> QED BY <2>4, <2>5
<1> QED BY <1>5, <1>11, <1>12, <1>13 DEF IsGenerating, first, selected

(* Rules ask for paths.                                                    *)
LEMMA AskedArePaths ==
  ASSUME NEW r \in Rules, NEW recommended \in BOOLEAN
  PROVE  AskedOf(r, recommended) \subseteq Paths
<1> DEFINE list == Assignments(r, recommended)
<1>1. list \in Seq(Assigns) /\ {a.path : a \in ToSet(list)} = AskedOf(r, recommended)
  BY AssignmentsFacts
<1> HIDE DEF list
<1>2. ASSUME NEW a \in ToSet(list) PROVE a.path \in Paths
  <2>1. PICK i \in DOMAIN list : a = list[i]
    BY DEF ToSet
  <2>2. a \in Assigns
    BY <1>1, <2>1
  <2> QED BY <2>2 DEF Assigns
<1> QED BY <1>1, <1>2

(* A template is filled by the rules for its name.                         *)
LEMMA GenerateFills ==
  ASSUME NEW rules \in Seq(Rules), NEW name, NEW recommended \in BOOLEAN,
         NEW shared \in SUBSET Paths
  PROVE  LET t == generate_event_template(rules, name, recommended, shared)
         IN /\ t \in Templates
            /\ \A r \in Governing(rules, name) : Fills(t, AskedOf(r, recommended))
<1> DEFINE N == Len(rules)
           selected == selectRules(rules, name)
<1>1. N \in Nat /\ selected \subseteq 1 .. N /\ \A n \in 1 .. N : rules[n] \in Rules
  BY DEF selectRules
<1>2. PICK f : /\ IsGenerating(f, rules, name, recommended, shared)
               /\ generate_event_template(rules, name, recommended, shared) = f[N]
  BY GenerateDef
<1>3. \A n \in 0 .. N : f[n] \in Templates
  BY <1>2 DEF IsGenerating
<1>4. \A n \in 1 .. N : f[n] = IF n \in selected
                               THEN setPointers(f[n - 1], Assignments(rules[n], recommended))
                               ELSE f[n - 1]
  BY <1>2 DEF IsGenerating
<1> HIDE DEF selected
<1> DEFINE S == {n \in 0 .. N : \A i \in selected : i <= n => Fills(f[n], AskedOf(rules[i], recommended))}
<1>5. 0 \in S
  BY <1>1
<1>6. ASSUME NEW n \in 0 .. N - 1, n \in S PROVE n + 1 \in S
  <2>1. n + 1 \in 1 .. N /\ (n + 1) - 1 = n /\ n + 1 \in 0 .. N /\ n \in 0 .. N
    BY <1>1
  <2>2. rules[n + 1] \in Rules /\ f[n] \in Templates
    BY <1>1, <1>3, <2>1
  <2>3. CASE n + 1 \notin selected
    <3>1. f[n + 1] = f[n]
      BY <1>4, <2>1, <2>3
    <3>2. \A i \in selected : i <= n + 1 => i <= n
      BY <1>1, <2>3, <2>1
    <3> QED BY <1>6, <2>1, <3>1, <3>2
  <2>4. CASE n + 1 \in selected
    <3> DEFINE list == Assignments(rules[n + 1], recommended)
    <3>1. f[n + 1] = setPointers(f[n], list)
      BY <1>4, <2>1, <2>4
    <3>2. list \in Seq(Assigns) /\ {a.path : a \in ToSet(list)} = AskedOf(rules[n + 1], recommended)
      BY <2>2, AssignmentsFacts
    <3> HIDE DEF list
    <3>3. Filled(f[n], f[n + 1]) /\ \A a \in ToSet(list) : f[n + 1].at[a.path] # Absent
      BY <2>2, <3>1, <3>2, SetPointersFill
    <3>4. Fills(f[n + 1], AskedOf(rules[n + 1], recommended))
      BY <3>2, <3>3 DEF Fills
    <3>5. ASSUME NEW i \in selected, i <= n + 1
          PROVE  Fills(f[n + 1], AskedOf(rules[i], recommended))
      <4>1. CASE i = n + 1
        BY <3>4, <4>1
      <4>2. CASE i # n + 1
        <5>1. i <= n /\ i \in 1 .. N
          BY <1>1, <3>5, <4>2
        <5>2. Fills(f[n], AskedOf(rules[i], recommended))
          BY <1>6, <5>1
        <5>3. AskedOf(rules[i], recommended) \subseteq Paths
          BY <1>1, <5>1, AskedArePaths
        <5> QED BY <5>2, <5>3, <3>3 DEF Fills, Filled
      <4> QED BY <4>1, <4>2
    <3> QED BY <2>1, <3>5
  <2> QED BY <2>3, <2>4
<1>7. 0 .. N \subseteq S
  <2> HIDE DEF S, N
  <2> QED BY <1>1, <1>5, <1>6, StepInduction
<1>8. N \in S
  BY <1>1, <1>7
<1>9. \A i \in selected : Fills(f[N], AskedOf(rules[i], recommended))
  BY <1>1, <1>8
<1> HIDE DEF N, S
<1>10. \A r \in Governing(rules, name) : Fills(f[N], AskedOf(r, recommended))
  BY <1>9 DEF Governing, selected
<1> QED BY <1>1, <1>2, <1>3, <1>10

(* Nothing is left in the shared object by rules that ask for no member    *)
(* of a member that may hold it.                                           *)
LEMMA GenerateStaysClean ==
  ASSUME NEW rules \in Seq(Rules), NEW name, NEW recommended \in BOOLEAN,
         \A r \in ToSet(rules) : \A p \in requiredPointers(r) \cup ToSet(r.recommended) :
           Above[p] \cap ObjectMetadata(rules) = {}
  PROVE  generate_event_template(rules, name, recommended, {}).shared = {}
<1> DEFINE N == Len(rules)
           M == ObjectMetadata(rules)
           selected == selectRules(rules, name)
<1>1. N \in Nat /\ \A n \in 1 .. N : rules[n] \in Rules /\ rules[n] \in ToSet(rules)
  BY DEF ToSet
<1>0. {} \in SUBSET Paths
  OBVIOUS
<1>2. PICK f : /\ IsGenerating(f, rules, name, recommended, {})
               /\ generate_event_template(rules, name, recommended, {}) = f[N]
  BY <1>0, GenerateDef
<1>3. \A n \in 0 .. N : f[n] \in Templates
  BY <1>2 DEF IsGenerating
<1>4. \A n \in 1 .. N : f[n] = IF n \in selected
                               THEN setPointers(f[n - 1], Assignments(rules[n], recommended))
                               ELSE f[n - 1]
  BY <1>2 DEF IsGenerating
<1> HIDE DEF selected
<1> DEFINE S == {n \in 0 .. N : Clean(f[n], M)}
<1>5. 0 \in S
  <2>1. f[0] = Blank({})
    BY <1>2 DEF IsGenerating
  <2> QED BY <2>1, <1>1 DEF Blank, Clean
<1>6. ASSUME NEW n \in 0 .. N - 1, n \in S PROVE n + 1 \in S
  <2>1. n + 1 \in 1 .. N /\ (n + 1) - 1 = n /\ n + 1 \in 0 .. N /\ n \in 0 .. N
    BY <1>1
  <2>2. rules[n + 1] \in Rules /\ rules[n + 1] \in ToSet(rules) /\ f[n] \in Templates
    BY <1>1, <1>3, <2>1
  <2> DEFINE r == rules[n + 1]
             list == Assignments(r, recommended)
  <2>3. CASE n + 1 \notin selected
    BY <1>4, <1>6, <2>1, <2>3
  <2>4. CASE n + 1 \in selected
    <3>1. f[n + 1] = setPointers(f[n], list)
      BY <1>4, <2>1, <2>4
    <3>2. list \in Seq(Assigns) /\ {a.path : a \in ToSet(list)} = AskedOf(r, recommended)
          /\ \A a \in ToSet(list) : a.value = EmptyObject =>
               \E i \in DOMAIN r.metadata : r.metadata[i] = [path |-> a.path, type |-> "object"]
      BY <2>2, AssignmentsFacts
    <3>3. ASSUME NEW a \in ToSet(list) PROVE Apart(a, M)
      <4>1. a.path \in requiredPointers(r) \cup ToSet(r.recommended)
        BY <3>2, <3>3 DEF AskedOf
      <4>2. Above[a.path] \cap M = {}
        BY <4>1, <2>2
      <4>3. a.path \in Paths
        <5>1. a \in Assigns
          BY <3>2, <3>3 DEF ToSet
        <5> QED BY <5>1 DEF Assigns
      <4>4. a.value = EmptyObject => a.path \in M
        BY <3>2, <3>3, <4>3, <2>2 DEF ObjectMetadata
      <4> QED BY <4>2, <4>4 DEF Apart
    <3>4. Clean(f[n], M)
      BY <1>6
    <3> HIDE DEF list, M
    <3>5. Clean(setPointers(f[n], list), M)
      BY <2>2, <3>2, <3>3, <3>4, SetPointersStayClean
    <3> QED BY <2>1, <3>1, <3>5
  <2> QED BY <2>3, <2>4
<1>7. 0 .. N \subseteq S
  <2> HIDE DEF S, N
  <2> QED BY <1>1, <1>5, <1>6, StepInduction
<1>8. Clean(f[N], M)
  BY <1>1, <1>7
<1> QED BY <1>2, <1>8 DEF Clean

(* With its tools the engine does what it does without them: what is       *)
(* proved of Spec is true of ToolsSpec, the specification the run checks.  *)
THEOREM ToolsAreTheEngine == ToolsSpec => Spec
<1>1. ToolsInit => Init
  BY DEF ToolsInit
<1>2. [ToolsNext]_toolVars => [Next]_vars
  BY DEF ToolsNext, GenerateTemplate, toolVars
<1> QED BY <1>1, <1>2, PTL DEF ToolsSpec, Spec

(* The rules stay the ones they were, and the shared object empty as long  *)
(* as they cannot reach it.                                                *)
OutOfReach(rules) ==
  \A r \in ToSet(rules) : \A p \in requiredPointers(r) \cup ToSet(r.recommended) :
    Above[p] \cap ObjectMetadata(rules) = {}

ToolsInv ==
  /\ profile \in Seq(Rules)
  /\ kept \subseteq Paths
  /\ OutOfReach(profile) => kept = {}

LEMMA ToolsInvariant == ToolsSpec => []ToolsInv
<1>1. ToolsInit => ToolsInv
  <2> SUFFICES ASSUME ToolsInit PROVE ToolsInv
    OBVIOUS
  <2>1. profile \in Seq(Rules)
    BY ProfileAssumption DEF ToolsInit, Init, ProfileAssumption
  <2> QED BY <2>1 DEF ToolsInit, ToolsInv
<1>2. ToolsInv /\ [ToolsNext]_toolVars => ToolsInv'
  <2> SUFFICES ASSUME ToolsInv, [ToolsNext]_toolVars PROVE ToolsInv'
    OBVIOUS
  <2>1. CASE GenerateTemplate
    <3>1. PICK name \in Names, recommended \in BOOLEAN :
            kept' = generate_event_template(profile, name, recommended, kept).shared
      BY <2>1 DEF GenerateTemplate
    <3>2. profile' = profile
      BY <2>1 DEF GenerateTemplate, vars
    <3>3. profile \in Seq(Rules) /\ kept \in SUBSET Paths
      BY DEF ToolsInv
    <3>4. generate_event_template(profile, name, recommended, kept) \in Templates
      BY <3>3, GenerateFills
    <3>5. kept' \subseteq Paths
      BY <3>1, <3>4 DEF Templates
    <3>6. ASSUME OutOfReach(profile) PROVE kept' = {}
      <4>1. kept = {}
        BY <3>6 DEF ToolsInv
      <4> QED BY <3>1, <3>3, <3>6, <4>1, GenerateStaysClean DEF OutOfReach
    <3>7. OutOfReach(profile)' <=> OutOfReach(profile)
      BY <3>2 DEF OutOfReach, ObjectMetadata, requiredPointers
    <3> QED BY <3>2, <3>3, <3>5, <3>6, <3>7 DEF ToolsInv
  <2>2. CASE (Next /\ UNCHANGED kept) \/ UNCHANGED toolVars
    <3>1. profile' = profile /\ kept' = kept
      BY <2>2 DEF Next, Check, StartCovering, Cover, FinishCovering, toolVars, vars
    <3>2. OutOfReach(profile)' <=> OutOfReach(profile)
      BY <3>1 DEF OutOfReach, ObjectMetadata, requiredPointers
    <3> QED BY <3>1, <3>2 DEF ToolsInv
  <2> QED BY <2>1, <2>2 DEF ToolsNext
<1> QED BY <1>1, <1>2, PTL DEF ToolsSpec

(* A template leaves nothing out that the rules for a name require, and    *)
(* nothing they recommend if that was asked for, although the way to one   *)
(* path may lead through the value of another (register-tools.ts,          *)
(* generate_event_template and setPointer).                                *)
THEOREM TemplateLeavesNothingOutHolds == ToolsSpec => []TemplateLeavesNothingOut
<1>1. ToolsInv => TemplateLeavesNothingOut
  <2> SUFFICES ASSUME ToolsInv, NEW name \in Names, NEW recommended \in BOOLEAN,
                      NEW r \in Governing(profile, name),
                      NEW p \in requiredPointers(r) \cup IF recommended THEN ToSet(r.recommended) ELSE {}
               PROVE  generate_event_template(profile, name, recommended, kept).at[p] # Absent
    BY DEF TemplateLeavesNothingOut
  <2>1. profile \in Seq(Rules) /\ kept \in SUBSET Paths
    BY DEF ToolsInv
  <2>2. p \in AskedOf(r, recommended)
    BY DEF AskedOf
  <2> QED BY <2>1, <2>2, GenerateFills DEF Fills
<1> QED BY <1>1, ToolsInvariant, PTL

(* A template does not depend on those asked for before, as long as no     *)
(* rule asks for a member of what may be the one object the server puts    *)
(* in templates (register-tools.ts, PLACEHOLDER_BY_TYPE).                  *)
THEOREM TemplatesDoNotRememberHolds == ToolsSpec => []TemplatesDoNotRemember
<1>1. ToolsInv => TemplatesDoNotRemember
  BY DEF ToolsInv, OutOfReach, TemplatesDoNotRemember
<1> QED BY <1>1, ToolsInvariant, PTL

(* What a rule finds in an event is at a path it asks for.                 *)
LEMMA FindingsAreAskedFor ==
  ASSUME NEW e, NEW r, NEW f,
         f \in evaluateRule(e, r).errors \/ f \in evaluateRule(e, r).warnings
  PROVE  /\ conditionHolds(e, r) /\ f.ruleId = r.id
         /\ \/ f.path \in ToSet(r.required) \cup {m.path : m \in ToSet(r.metadata)}
            \/ f.what = "valued" /\ f.path \in {v.path : v \in ToSet(r.values)}
            \/ f.path \in ToSet(r.recommended)
<1>1. conditionHolds(e, r) /\ (f \in Unmet(e, r) \/ f \in Unheeded(e, r))
  BY DEF evaluateRule
<1>2. CASE f \in Unmet(e, r)
  <2>1. CASE f \in {Finding(r, p, "required") : p \in {q \in ToSet(r.required) : ~isPresent(e, q)}}
    BY <2>1, <1>1 DEF Finding
  <2>2. CASE \E m \in ToSet(r.metadata) : f = Finding(r, m.path, "metadata")
    BY <2>2, <1>1 DEF Finding
  <2>3. CASE \E v \in ToSet(r.values) : f = Finding(r, v.path, "valued")
    BY <2>3, <1>1 DEF Finding
  <2> QED BY <1>2, <2>1, <2>2, <2>3 DEF Unmet
<1>3. CASE f \in Unheeded(e, r)
  BY <1>1, <1>3 DEF Unheeded, Finding
<1> QED BY <1>1, <1>2, <1>3

(* Whatever is found in an event was found by a rule selected for it.      *)
LEMMA FindingsAreOfSelected ==
  ASSUME NEW e, NEW rules, NEW f,
         f \in checkProfile(e, rules).errors \/ f \in checkProfile(e, rules).warnings
  PROVE  \E r \in Governing(rules, e.name) :
           f \in evaluateRule(e, r).errors \/ f \in evaluateRule(e, r).warnings
<1> DEFINE selected == selectRules(rules, e.name)
           errors == UNION {evaluateRule(e, rules[i]).errors : i \in selected}
           warnings == UNION {evaluateRule(e, rules[i]).warnings : i \in selected}
<1>1. \/ checkProfile(e, rules).errors = {} /\ checkProfile(e, rules).warnings = {}
      \/ checkProfile(e, rules).errors = errors /\ checkProfile(e, rules).warnings = warnings
  BY DEF checkProfile, Result
<1>2. f \in errors \/ f \in warnings
  BY <1>1
<1>3. PICK i \in selected : f \in evaluateRule(e, rules[i]).errors
                            \/ f \in evaluateRule(e, rules[i]).warnings
  BY <1>2
<1> QED BY <1>3 DEF Governing

LEMMA PathsOfIsThePaths ==
  ASSUME NEW s
  PROVE  {x.path : x \in ToSet(s)} = PathsOf(s)
  BY DEF ToSet, PathsOf

(* Whatever check-profile holds against an event was in the guidance for   *)
(* its name (register-tools.ts, get_event_guidance), but for the values    *)
(* that are required without a condition.                                  *)
THEOREM GuidanceForetellsFindingsHolds == ToolsSpec => []GuidanceForetellsFindings
<1>1. IInv => GuidanceForetellsFindings
  <2> SUFFICES ASSUME IInv, NEW n \in DOMAIN events,
                      NEW f \in results[n].errors \cup results[n].warnings
               PROVE  LET guidance == get_event_guidance(profile, events[n].name) IN
                      \/ f.path \in guidance.required \cup guidance.recommended
                      \/ \E c \in guidance.conditional :
                           /\ f.ruleId = c.id /\ f.path \in c.requires
                           /\ \A condition \in c.condition :
                                events[n].at[condition.path] = condition.equals
                      \/ f.what = "valued" /\ \E r \in ToSet(profile) : r.id = f.ruleId /\ r.when = {}
    BY DEF GuidanceForetellsFindings
  <2> DEFINE e == events[n]
             guidance == get_event_guidance(profile, e.name)
             governing == Governing(profile, e.name)
  <2>1. f \in checkProfile(e, profile).errors \/ f \in checkProfile(e, profile).warnings
    BY DEF IInv
  <2> HIDE DEF e
  <2>2. PICK r \in governing : f \in evaluateRule(e, r).errors \/ f \in evaluateRule(e, r).warnings
    BY <2>1, FindingsAreOfSelected
  <2>3. /\ conditionHolds(e, r) /\ f.ruleId = r.id
        /\ \/ f.path \in ToSet(r.required) \cup PathsOf(r.metadata)
           \/ f.what = "valued" /\ f.path \in PathsOf(r.values)
           \/ f.path \in ToSet(r.recommended)
    BY <2>2, FindingsAreAskedFor, PathsOfIsThePaths
  <2>4. r \in ToSet(profile)
    BY DEF Governing, selectRules, ToSet
  <2>5. guidance.required = UNION {ToSet(q.required) \cup PathsOf(q.metadata) :
                                     q \in {x \in governing : x.when = {}}}
        /\ guidance.recommended = UNION {ToSet(q.recommended) : q \in governing}
        /\ guidance.conditional = {[id |-> q.id, condition |-> q.when,
                                    requires |-> ToSet(q.required) \cup PathsOf(q.metadata)
                                                 \cup PathsOf(q.values)] :
                                      q \in {x \in governing : x.when # {}}}
    BY DEF get_event_guidance
  <2> HIDE DEF guidance, governing
  <2>6. \/ f.path \in guidance.required \cup guidance.recommended
        \/ \E c \in guidance.conditional :
             /\ f.ruleId = c.id /\ f.path \in c.requires
             /\ \A condition \in c.condition : e.at[condition.path] = condition.equals
        \/ f.what = "valued" /\ \E q \in ToSet(profile) : q.id = f.ruleId /\ q.when = {}
    <3>1. CASE f.path \in ToSet(r.recommended)
      BY <3>1, <2>5
    <3>2. CASE f.path \in ToSet(r.required) \cup PathsOf(r.metadata) /\ r.when = {}
      BY <3>2, <2>5
    <3>3. CASE f.what = "valued" /\ r.when = {}
      BY <3>3, <2>3, <2>4
    <3>4. CASE /\ r.when # {}
               /\ f.path \in ToSet(r.required) \cup PathsOf(r.metadata) \cup PathsOf(r.values)
      <4> DEFINE c == [id |-> r.id, condition |-> r.when,
                       requires |-> ToSet(r.required) \cup PathsOf(r.metadata)
                                    \cup PathsOf(r.values)]
      <4>1. c \in guidance.conditional
        BY <2>5, <3>4
      <4>2. f.ruleId = c.id /\ f.path \in c.requires
        BY <2>3, <3>4
      <4>3. \A condition \in c.condition : e.at[condition.path] = condition.equals
        BY <2>3 DEF conditionHolds
      <4> HIDE DEF c
      <4> QED BY <4>1, <4>2, <4>3
    <3> QED BY <2>3, <3>1, <3>2, <3>3, <3>4
  <2> QED BY <2>6 DEF e, guidance
<1> QED BY <1>1, ToolsAreTheEngine, Invariant, PTL

-----------------------------------------------------------------------------
(***************************************************************************)
(* Sums over finite sets, whatever order the elements are taken in.        *)
(***************************************************************************)
LEMMA SubsetInduction ==
  ASSUME NEW S, IsFiniteSet(S), NEW Good, {} \in Good,
         \A s \in SUBSET S : s # {} /\ (\A x \in s : s \ {x} \in Good) => s \in Good
  PROVE  SUBSET S \subseteq Good
<1> DEFINE N == Cardinality(S)
           Upto == {n \in 0 .. N : \A s \in SUBSET S : Cardinality(s) <= n => s \in Good}
<1>1. N \in Nat
  BY FS_CardinalityType
<1>2. \A s \in SUBSET S : IsFiniteSet(s) /\ Cardinality(s) \in Nat /\ Cardinality(s) <= N
  BY FS_Subset, FS_CardinalityType
<1>3. 0 \in Upto
  <2>1. \A s \in SUBSET S : Cardinality(s) <= 0 => s = {}
    BY <1>2, FS_EmptySet
  <2>2. \A s \in SUBSET S : Cardinality(s) <= 0 => s \in Good
    BY <2>1
  <2>3. 0 \in 0 .. N
    BY <1>1
  <2> QED BY <2>2, <2>3
<1>4. ASSUME NEW n \in 0 .. N - 1, n \in Upto PROVE n + 1 \in Upto
  <2> SUFFICES ASSUME NEW s \in SUBSET S, Cardinality(s) <= n + 1 PROVE s \in Good
    BY <1>1
  <2>1. ASSUME NEW x \in s PROVE s \ {x} \in Good
    <3>1. Cardinality(s \ {x}) = Cardinality(s) - 1
      BY <1>2, FS_RemoveElement
    <3>2. s \ {x} \in SUBSET S /\ Cardinality(s \ {x}) <= n
      BY <3>1, <1>2
    <3> QED BY <1>4, <3>2
  <2>2. CASE s = {}
    BY <2>2
  <2> QED BY <2>1, <2>2
<1>5. 0 .. N \subseteq Upto
  <2> HIDE DEF N, Upto
  <2> QED BY <1>1, <1>3, <1>4, StepInduction
<1> QED BY <1>1, <1>2, <1>5

Some(s) == CHOOSE y \in s : TRUE

IsSumming(g, c, S) ==
  /\ g \in [SUBSET S -> Nat]
  /\ g[{}] = 0
  /\ \A s \in SUBSET S : s # {} => g[s] = c[Some(s)] + g[s \ {Some(s)}]

Counts(c, S) == \A x \in S : c[x] \in Nat

LEMMA SomeIsIn ==
  ASSUME NEW s, s # {}
  PROVE  Some(s) \in s
  BY DEF Some

LEMMA SumDef ==
  ASSUME NEW S, IsFiniteSet(S), NEW c, Counts(c, S)
  PROVE  \E g : IsSumming(g, c, S) /\ SumFunctionOnSet(c, S) = g[S]
<1> DEFINE N == Cardinality(S)
           X == [SUBSET S -> Nat]
           base == [s \in SUBSET S |-> 0]
           value(g, s) == IF s = {} THEN 0 ELSE c[Some(s)] + g[s \ {Some(s)}]
           next(g) == [s \in SUBSET S |-> value(g, s)]
           step == [n \in 1 .. N + 1 |-> [g \in X |-> next(g)]]
           G == CHOOSE g : g = [s \in SUBSET S |-> IF s = {} THEN 0 ELSE c[Some(s)] + g[s \ {Some(s)}]]
<1>1. SumFunctionOnSet(c, S) = G[S]
  BY DEF SumFunctionOnSet, FoldFunctionOnSet, MapThenFoldSet, Some
<1>2. N \in Nat
  BY FS_CardinalityType
<1>3. \A s \in SUBSET S : s # {} => c[Some(s)] \in Nat /\ s \ {Some(s)} \in SUBSET S
  BY SomeIsIn DEF Counts
<1>4. ASSUME NEW g \in X PROVE next(g) \in X
  <2>1. \A s \in SUBSET S : value(g, s) \in Nat
    BY <1>3
  <2> HIDE DEF value
  <2> QED BY <2>1
<1>5. base \in X
  OBVIOUS
<1>6. \A g : \A s \in SUBSET S : next(g)[s] = value(g, s)
  OBVIOUS
<1> HIDE DEF next, base, X
<1>7. IsStep(step, N + 1, X) /\ N + 1 \in Nat
  BY <1>2, <1>4 DEF IsStep
<1>8. \A n \in 1 .. N + 1 : \A g \in X : step[n][g] = next(g)
  OBVIOUS
<1> HIDE DEF step
<1>9. PICK h : Recurs(h, N + 1, X, base, step)
  BY <1>5, <1>7, LinearRecursion
<1>10. /\ \A n \in 0 .. N + 1 : h[n] \in X
       /\ \A n \in 1 .. N + 1 : h[n] = next(h[n - 1])
  BY <1>2, <1>8, <1>9 DEF Recurs
<1>11. \A n \in 0 .. N : h[n + 1] = next(h[n])
  <2> SUFFICES ASSUME NEW n \in 0 .. N PROVE h[n + 1] = next(h[n])
    OBVIOUS
  <2>1. n + 1 \in 1 .. N + 1 /\ (n + 1) - 1 = n
    BY <1>2
  <2> QED BY <1>10, <2>1
<1>12. \A s \in SUBSET S : IsFiniteSet(s) /\ Cardinality(s) \in Nat /\ Cardinality(s) <= N
  BY FS_Subset, FS_CardinalityType
<1> DEFINE Settled == {n \in 0 .. N : \A s \in SUBSET S : Cardinality(s) <= n => h[n + 1][s] = h[n][s]}
<1>13. 0 \in Settled
  <2>1. \A s \in SUBSET S : Cardinality(s) <= 0 => s = {}
    BY <1>12, FS_EmptySet
  <2>2. h[0 + 1] = next(h[0]) /\ 0 \in 0 .. N
    BY <1>2, <1>11
  <2>3. h[0] = base
    BY <1>9 DEF Recurs
  <2>4. h[0 + 1][{}] = 0
    BY <2>2, <1>6
  <2>5. h[0][{}] = 0
    BY <2>3 DEF base
  <2> QED BY <1>2, <2>1, <2>4, <2>5
<1>14. ASSUME NEW n \in 0 .. N - 1, n \in Settled PROVE n + 1 \in Settled
  <2>1. n + 1 \in 0 .. N /\ n \in 0 .. N
    BY <1>2
  <2>2. h[(n + 1) + 1] = next(h[n + 1]) /\ h[n + 1] = next(h[n])
    BY <2>1, <1>11
  <2>3. ASSUME NEW s \in SUBSET S, Cardinality(s) <= n + 1
        PROVE  h[(n + 1) + 1][s] = h[n + 1][s]
    <3>1. h[(n + 1) + 1][s] = value(h[n + 1], s) /\ h[n + 1][s] = value(h[n], s)
      BY <2>2, <1>6
    <3>2. CASE s = {}
      BY <3>1, <3>2
    <3>3. CASE s # {}
      <4>1. Some(s) \in s /\ s \ {Some(s)} \in SUBSET S
        BY <3>3, SomeIsIn
      <4>2. Cardinality(s \ {Some(s)}) = Cardinality(s) - 1
        BY <4>1, <1>12, FS_RemoveElement
      <4>3. Cardinality(s \ {Some(s)}) <= n
        BY <4>2, <2>3, <1>12
      <4>4. h[n + 1][s \ {Some(s)}] = h[n][s \ {Some(s)}]
        BY <1>14, <4>1, <4>3
      <4> QED BY <3>1, <4>4
    <3> QED BY <3>2, <3>3
  <2> QED BY <2>1, <2>3
<1>15. 0 .. N \subseteq Settled
  <2> HIDE DEF N, Settled
  <2> QED BY <1>2, <1>13, <1>14, StepInduction
<1>16. N \in 0 .. N /\ N \in Settled
  BY <1>2, <1>15
<1> DEFINE g == h[N]
<1>17. \A s \in SUBSET S : g[s] = value(g, s)
  <2>1. h[N + 1] = next(h[N])
    BY <1>11, <1>16
  <2>2. \A s \in SUBSET S : h[N + 1][s] = h[N][s]
    BY <1>12, <1>16
  <2> QED BY <2>1, <2>2, <1>6
<1>18. g \in [SUBSET S -> Nat]
  <2>1. N \in 0 .. N + 1
    BY <1>2
  <2>2. h[N] \in X
    BY <1>10, <2>1
  <2> QED BY <2>2 DEF X
<1> HIDE DEF g
<1>19. g = [s \in SUBSET S |-> value(g, s)]
  <2> HIDE DEF value
  <2> QED BY <1>17, <1>18
<1>20. G = [s \in SUBSET S |-> value(G, s)]
  BY <1>19
<1>21. \A s \in SUBSET S : G[s] = value(G, s)
  <2> HIDE DEF G, value
  <2> QED BY <1>20
<1>22. DOMAIN G = SUBSET S /\ G = [s \in SUBSET S |-> G[s]]
  <2> HIDE DEF G, value
  <2> QED BY <1>20
<1> HIDE DEF G
<1> DEFINE Natural == {s \in SUBSET S : G[s] \in Nat}
<1>23. {} \in Natural
  BY <1>21
<1>24. ASSUME NEW s \in SUBSET S, s # {}, \A x \in s : s \ {x} \in Natural PROVE s \in Natural
  <2>1. G[s] = c[Some(s)] + G[s \ {Some(s)}]
    BY <1>21, <1>24
  <2>2. G[s \ {Some(s)}] \in Nat /\ c[Some(s)] \in Nat
    BY <1>3, <1>24, SomeIsIn
  <2> QED BY <2>1, <2>2
<1>25. SUBSET S \subseteq Natural
  <2> HIDE DEF Natural
  <2> QED BY <1>23, <1>24, SubsetInduction
<1>26. G \in [SUBSET S -> Nat]
  BY <1>22, <1>25
<1>27. G[{}] = 0 /\ \A s \in SUBSET S : s # {} => G[s] = c[Some(s)] + G[s \ {Some(s)}]
  BY <1>21
<1> QED BY <1>1, <1>26, <1>27 DEF IsSumming

LEMMA SumsAgree ==
  ASSUME NEW S, NEW T, NEW c, NEW d, NEW g, NEW h, IsSumming(g, c, S), IsSumming(h, d, T),
         NEW U \in SUBSET (S \cap T), IsFiniteSet(U), \A x \in U : c[x] = d[x]
  PROVE  g[U] = h[U]
<1> DEFINE Same == {s \in SUBSET U : g[s] = h[s]}
<1>1. {} \in Same
  BY DEF IsSumming
<1>2. ASSUME NEW s \in SUBSET U, s # {}, \A x \in s : s \ {x} \in Same PROVE s \in Same
  <2>1. Some(s) \in s
    BY <1>2, SomeIsIn
  <2>2. s \in SUBSET S /\ s \in SUBSET T
    OBVIOUS
  <2>3. g[s] = c[Some(s)] + g[s \ {Some(s)}]
    BY <1>2, <2>2 DEF IsSumming
  <2>4. h[s] = d[Some(s)] + h[s \ {Some(s)}]
    BY <1>2, <2>2 DEF IsSumming
  <2>5. c[Some(s)] = d[Some(s)] /\ g[s \ {Some(s)}] = h[s \ {Some(s)}]
    BY <1>2, <2>1
  <2>6. g[s] = h[s]
    BY <2>3, <2>4, <2>5
  <2> QED BY <2>6
<1>3. SUBSET U \subseteq Same
  <2> HIDE DEF Same
  <2> QED BY <1>1, <1>2, SubsetInduction
<1> QED BY <1>3

LEMMA SumOfSame ==
  ASSUME NEW S, IsFiniteSet(S), NEW c, NEW d, Counts(c, S), \A x \in S : c[x] = d[x]
  PROVE  SumFunctionOnSet(c, S) = SumFunctionOnSet(d, S)
<1>1. Counts(d, S)
  BY DEF Counts
<1>2. PICK g : IsSumming(g, c, S) /\ SumFunctionOnSet(c, S) = g[S]
  BY SumDef
<1>3. PICK h : IsSumming(h, d, S) /\ SumFunctionOnSet(d, S) = h[S]
  BY <1>1, SumDef
<1>4. S \in SUBSET (S \cap S)
  OBVIOUS
<1>5. g[S] = h[S]
  BY <1>2, <1>3, <1>4, SumsAgree
<1> QED BY <1>2, <1>3, <1>5

LEMMA SumOfPart ==
  ASSUME NEW S, IsFiniteSet(S), NEW c, Counts(c, S), NEW g, IsSumming(g, c, S),
         NEW s \in SUBSET S
  PROVE  SumFunctionOnSet(c, s) = g[s]
<1>1. IsFiniteSet(s) /\ Counts(c, s) /\ s \in SUBSET (S \cap s)
  BY FS_Subset DEF Counts
<1>2. PICK h : IsSumming(h, c, s) /\ SumFunctionOnSet(c, s) = h[s]
  BY <1>1, SumDef
<1>3. g[s] = h[s]
  BY <1>1, <1>2, SumsAgree
<1> QED BY <1>2, <1>3

LEMMA SumIsNat ==
  ASSUME NEW S, IsFiniteSet(S), NEW c, Counts(c, S)
  PROVE  SumFunctionOnSet(c, S) \in Nat
<1>1. PICK g : IsSumming(g, c, S) /\ SumFunctionOnSet(c, S) = g[S]
  BY SumDef
<1>2. g[S] \in Nat
  BY <1>1 DEF IsSumming
<1> QED BY <1>1, <1>2

LEMMA SumOfNothing ==
  ASSUME NEW c
  PROVE  SumFunctionOnSet(c, {}) = 0
<1>1. IsFiniteSet({}) /\ Counts(c, {})
  BY FS_EmptySet DEF Counts
<1> QED BY <1>1, SumDef DEF IsSumming

(* Any element can be taken first.                                         *)
LEMMA SumOfRest ==
  ASSUME NEW S, IsFiniteSet(S), NEW c, Counts(c, S), NEW x \in S
  PROVE  SumFunctionOnSet(c, S) = c[x] + SumFunctionOnSet(c, S \ {x})
<1>1. PICK g : IsSumming(g, c, S) /\ SumFunctionOnSet(c, S) = g[S]
  BY SumDef
<1>2. /\ \A s \in SUBSET S : g[s] \in Nat
      /\ \A s \in SUBSET S : s # {} => g[s] = c[Some(s)] + g[s \ {Some(s)}]
  BY <1>1 DEF IsSumming
<1>3. \A y \in S : c[y] \in Nat
  BY DEF Counts
<1> DEFINE Free == {s \in SUBSET S : \A y \in s : g[s] = c[y] + g[s \ {y}]}
<1>4. {} \in Free
  OBVIOUS
<1>5. ASSUME NEW s \in SUBSET S, s # {}, \A y \in s : s \ {y} \in Free PROVE s \in Free
  <2> SUFFICES ASSUME NEW y \in s PROVE g[s] = c[y] + g[s \ {y}]
    OBVIOUS
  <2> DEFINE z == Some(s)
  <2>1. z \in s
    BY <1>5, SomeIsIn
  <2>2. g[s] = c[z] + g[s \ {z}]
    BY <1>2, <1>5
  <2> HIDE DEF z
  <2>3. CASE y = z
    BY <2>2, <2>3
  <2>4. CASE y # z
    <3>1. y \in s \ {z} /\ z \in s \ {y}
      BY <2>1, <2>4
    <3>2. g[s \ {z}] = c[y] + g[(s \ {z}) \ {y}]
      BY <1>5, <2>1, <3>1
    <3>3. g[s \ {y}] = c[z] + g[(s \ {y}) \ {z}]
      BY <1>5, <3>1
    <3>4. (s \ {z}) \ {y} = (s \ {y}) \ {z}
      OBVIOUS
    <3> DEFINE rest == (s \ {z}) \ {y}
    <3>5. rest \in SUBSET S
      OBVIOUS
    <3>6. g[s \ {z}] = c[y] + g[rest] /\ g[s \ {y}] = c[z] + g[rest]
      BY <3>2, <3>3, <3>4
    <3> HIDE DEF rest
    <3>7. g[rest] \in Nat /\ c[y] \in Nat /\ c[z] \in Nat
      BY <1>2, <1>3, <2>1, <3>5
    <3> QED BY <2>2, <3>6, <3>7
  <2> QED BY <2>3, <2>4
<1>6. SUBSET S \subseteq Free
  <2> HIDE DEF Free
  <2> QED BY <1>4, <1>5, SubsetInduction
<1>7. S \in Free /\ S \ {x} \in SUBSET S
  BY <1>6
<1>8. g[S] = c[x] + g[S \ {x}]
  BY <1>7
<1>9. SumFunctionOnSet(c, S \ {x}) = g[S \ {x}]
  BY <1>1, <1>7, SumOfPart
<1> QED BY <1>1, <1>8, <1>9

(* One more of one element is one more in all.                             *)
LEMMA SumOfOneMore ==
  ASSUME NEW S, IsFiniteSet(S), NEW c, NEW d, Counts(c, S), NEW x \in S,
         d[x] = c[x] + 1, \A y \in S \ {x} : d[y] = c[y]
  PROVE  SumFunctionOnSet(d, S) = SumFunctionOnSet(c, S) + 1
<1>1. Counts(d, S) /\ c[x] \in Nat
  BY DEF Counts
<1>2. IsFiniteSet(S \ {x}) /\ Counts(c, S \ {x}) /\ Counts(d, S \ {x})
  BY <1>1, FS_RemoveElement DEF Counts
<1>3. SumFunctionOnSet(d, S) = d[x] + SumFunctionOnSet(d, S \ {x})
  BY <1>1, SumOfRest
<1>4. SumFunctionOnSet(c, S) = c[x] + SumFunctionOnSet(c, S \ {x})
  BY SumOfRest
<1>5. SumFunctionOnSet(c, S \ {x}) = SumFunctionOnSet(d, S \ {x})
  BY <1>2, SumOfSame
<1>6. SumFunctionOnSet(c, S \ {x}) \in Nat
  BY <1>2, SumIsNat
<1> QED BY <1>1, <1>3, <1>4, <1>5, <1>6

-----------------------------------------------------------------------------
(***************************************************************************)
(* The two accounts.  Accounted says what the counters of the coverage are *)
(* after the first k events; the tally is compared with the same events.   *)
(***************************************************************************)
JudgedOf(res, k) == {n \in 1 .. k : res[n].status \in {"conforming", "violations"}}

IsChecked(evs, res, rules) ==
  /\ rules \in Seq(Rules) /\ evs \in Seq(Events)
  /\ \A n \in 1 .. Len(evs) : res[n] = checkProfile(evs[n], rules)

HasCounters(cov, rules) ==
  /\ cov.selected \in [Ids(rules) -> Nat]
  /\ cov.applied \in [Ids(rules) -> Nat]
  /\ cov.failed \in [Ids(rules) -> Nat]
  /\ cov.names \in [Names -> Nat]
  /\ cov.governed \subseteq Names /\ IsFiniteSet(cov.governed)

NamesAreGoverned(cov, rules) ==
  \A name \in Names :
    name \in cov.governed <=> cov.names[name] > 0 /\ selectRules(rules, name) # {}

InOrder(cov, k, rules, res) ==
  \A id \in Ids(rules) :
    /\ cov.failed[id] <= cov.applied[id]
    /\ cov.applied[id] <= cov.selected[id]
    /\ cov.selected[id] <= Cardinality(JudgedOf(res, k))

FailuresAreViolations(cov, k, rules, res) ==
  (\E id \in Ids(rules) : cov.failed[id] > 0) <=> \E n \in 1 .. k : res[n].status = "violations"

(* The rules for a judged event are counted as selected, and those whose   *)
(* condition holds as applied.                                             *)
RulesAreCounted(cov, k, rules, evs) ==
  \A n \in 1 .. k : evs[n].core = "valid" =>
    \A i \in selectRules(rules, evs[n].name) :
      /\ cov.selected[rules[i].id] > 0
      /\ conditionHolds(evs[n], rules[i]) => cov.applied[rules[i].id] > 0

Accounted(cov, k, rules, evs, res) ==
  /\ HasCounters(cov, rules)
  /\ NamesAreGoverned(cov, rules)
  /\ SumFunctionOnSet(cov.names, cov.governed) = Cardinality(JudgedOf(res, k))
  /\ InOrder(cov, k, rules, res)
  /\ FailuresAreViolations(cov, k, rules, res)
  /\ RulesAreCounted(cov, k, rules, evs)

LEMMA JudgedIsFinite ==
  ASSUME NEW res, NEW k \in Nat
  PROVE  IsFiniteSet(JudgedOf(res, k)) /\ Cardinality(JudgedOf(res, k)) \in Nat
<1>1. IsFiniteSet(1 .. k)
  BY FS_Interval
<1>2. JudgedOf(res, k) \in SUBSET (1 .. k)
  BY DEF JudgedOf
<1>3. IsFiniteSet(JudgedOf(res, k))
  BY <1>1, <1>2, FS_Subset
<1> QED BY <1>3, FS_CardinalityType

LEMMA JudgedOneMore ==
  ASSUME NEW res, NEW k \in Nat
  PROVE  /\ res[k + 1].status \in {"conforming", "violations"} =>
              Cardinality(JudgedOf(res, k + 1)) = Cardinality(JudgedOf(res, k)) + 1
         /\ res[k + 1].status \notin {"conforming", "violations"} =>
              JudgedOf(res, k + 1) = JudgedOf(res, k)
<1>1. k + 1 \notin JudgedOf(res, k) /\ IsFiniteSet(JudgedOf(res, k))
  BY JudgedIsFinite DEF JudgedOf
<1>2. ASSUME res[k + 1].status \in {"conforming", "violations"}
      PROVE  JudgedOf(res, k + 1) = JudgedOf(res, k) \cup {k + 1}
  BY <1>2 DEF JudgedOf
<1>3. ASSUME res[k + 1].status \notin {"conforming", "violations"}
      PROVE  JudgedOf(res, k + 1) = JudgedOf(res, k)
  BY <1>3 DEF JudgedOf
<1> QED BY <1>1, <1>2, <1>3, FS_AddElement

(* The status of an event, and what its errors are of.                     *)
LEMMA StatusFacts ==
  ASSUME NEW e \in Events, NEW rules \in Seq(Rules)
  PROVE  LET result == checkProfile(e, rules)
             selected == selectRules(rules, e.name)
         IN /\ e.name \in Names /\ e.core \in {"valid", "invalid", "uncovered"}
            /\ result.status \in Statuses
            /\ result.status = "core-invalid" <=> e.core = "invalid"
            /\ result.status \in {"conforming", "violations"} <=>
                 e.core = "valid" /\ selected # {}
            /\ result.status = "violations" <=> result.errors # {}
<1>1. e.name \in Names /\ e.core \in {"valid", "invalid", "uncovered"}
  BY ProfileAssumption DEF ProfileAssumption, IsEvent
<1> DEFINE selected == selectRules(rules, e.name)
           errors == UNION {evaluateRule(e, rules[i]).errors : i \in selected}
<1>2. CASE e.core = "invalid"
  BY <1>1, <1>2 DEF checkProfile, Result, Statuses
<1>3. CASE e.core = "uncovered" \/ (e.core = "valid" /\ selected = {})
  BY <1>1, <1>3 DEF checkProfile, Result, Statuses
<1>4. CASE e.core = "valid" /\ selected # {}
  <2>1. checkProfile(e, rules).status = IF errors = {} THEN "conforming" ELSE "violations"
    BY <1>4 DEF checkProfile, Result
  <2>2. checkProfile(e, rules).errors = errors
    BY <1>4 DEF checkProfile, Result
  <2> HIDE DEF errors, selected
  <2>3. e.core # "invalid" /\ selected # {} /\ e.core = "valid"
    BY <1>4
  <2> QED BY <1>1, <2>1, <2>2, <2>3 DEF Statuses, selected
<1> QED BY <1>1, <1>2, <1>3, <1>4

LEMMA ErrorsAreOfApplied ==
  ASSUME NEW e, NEW rules, NEW f \in checkProfile(e, rules).errors
  PROVE  \E i \in selectRules(rules, e.name) : conditionHolds(e, rules[i]) /\ f.ruleId = rules[i].id
<1>1. PICK r \in Governing(rules, e.name) :
        f \in evaluateRule(e, r).errors \/ f \in evaluateRule(e, r).warnings
  BY FindingsAreOfSelected
<1>2. conditionHolds(e, r) /\ f.ruleId = r.id
  BY <1>1, FindingsAreAskedFor
<1> QED BY <1>1, <1>2 DEF Governing

LEMMA SelectedAreRules ==
  ASSUME NEW rules, NEW name, NEW i \in selectRules(rules, name)
  PROVE  rules[i].id \in Ids(rules) /\ i \in DOMAIN rules
  BY DEF selectRules, Ids

LEMMA CountIfFacts ==
  ASSUME NEW D, NEW counts \in [D -> Nat], NEW ids
  PROVE  /\ CountIf(counts, ids) \in [D -> Nat]
         /\ \A id \in D : CountIf(counts, ids)[id] = counts[id] + IF id \in ids THEN 1 ELSE 0
  BY DEF CountIf

(* The counters after one more event: the change Cover makes.              *)
AppliedIds(e, rules) ==
  {rules[i].id : i \in {j \in selectRules(rules, e.name) : conditionHolds(e, rules[j])}}

SelectedIds(e, rules) == {rules[i].id : i \in selectRules(rules, e.name)}

FailedIds(e, rules, result) == SelectedIds(e, rules) \cap {f.ruleId : f \in result.errors}

Counted(cov, e, rules, result) ==
  [selected |-> CountIf(cov.selected, SelectedIds(e, rules)),
   applied |-> CountIf(cov.applied, AppliedIds(e, rules)),
   failed |-> CountIf(cov.failed, FailedIds(e, rules, result)),
   names |-> [cov.names EXCEPT ![e.name] = @ + 1],
   governed |-> IF selectRules(rules, e.name) = {} THEN cov.governed
                ELSE cov.governed \cup {e.name}]

LEMMA IdsFacts ==
  ASSUME NEW e, NEW rules, NEW result, result = checkProfile(e, rules)
  PROVE  /\ FailedIds(e, rules, result) \subseteq AppliedIds(e, rules)
         /\ AppliedIds(e, rules) \subseteq SelectedIds(e, rules)
         /\ SelectedIds(e, rules) \subseteq Ids(rules)
         /\ FailedIds(e, rules, result) = {} <=> result.errors = {}
<1>1. \A f \in result.errors : f.ruleId \in AppliedIds(e, rules)
  BY ErrorsAreOfApplied DEF AppliedIds
<1>2. AppliedIds(e, rules) \subseteq SelectedIds(e, rules)
  BY DEF AppliedIds, SelectedIds
<1>3. SelectedIds(e, rules) \subseteq Ids(rules)
  BY SelectedAreRules DEF SelectedIds
<1> QED BY <1>1, <1>2, <1>3 DEF FailedIds

LEMMA CountedHasCounters ==
  ASSUME NEW cov, NEW rules, HasCounters(cov, rules), NEW e, e.name \in Names, NEW result
  PROVE  /\ HasCounters(Counted(cov, e, rules, result), rules)
         /\ \A id \in Ids(rules) :
              /\ Counted(cov, e, rules, result).selected[id] =
                   cov.selected[id] + IF id \in SelectedIds(e, rules) THEN 1 ELSE 0
              /\ Counted(cov, e, rules, result).applied[id] =
                   cov.applied[id] + IF id \in AppliedIds(e, rules) THEN 1 ELSE 0
              /\ Counted(cov, e, rules, result).failed[id] =
                   cov.failed[id] + IF id \in FailedIds(e, rules, result) THEN 1 ELSE 0
<1> DEFINE next == Counted(cov, e, rules, result)
<1>1. /\ next.selected = CountIf(cov.selected, SelectedIds(e, rules))
      /\ next.applied = CountIf(cov.applied, AppliedIds(e, rules))
      /\ next.failed = CountIf(cov.failed, FailedIds(e, rules, result))
      /\ next.names = [cov.names EXCEPT ![e.name] = @ + 1]
      /\ next.governed = IF selectRules(rules, e.name) = {} THEN cov.governed
                         ELSE cov.governed \cup {e.name}
  BY DEF Counted
<1> HIDE DEF next
<1>2. /\ next.selected \in [Ids(rules) -> Nat]
      /\ \A id \in Ids(rules) : next.selected[id] =
           cov.selected[id] + IF id \in SelectedIds(e, rules) THEN 1 ELSE 0
  BY <1>1, CountIfFacts DEF HasCounters
<1>3. /\ next.applied \in [Ids(rules) -> Nat]
      /\ \A id \in Ids(rules) : next.applied[id] =
           cov.applied[id] + IF id \in AppliedIds(e, rules) THEN 1 ELSE 0
  BY <1>1, CountIfFacts DEF HasCounters
<1>4. /\ next.failed \in [Ids(rules) -> Nat]
      /\ \A id \in Ids(rules) : next.failed[id] =
           cov.failed[id] + IF id \in FailedIds(e, rules, result) THEN 1 ELSE 0
  BY <1>1, CountIfFacts DEF HasCounters
<1>5. next.names \in [Names -> Nat]
  BY <1>1 DEF HasCounters
<1>6. next.governed \subseteq Names /\ IsFiniteSet(next.governed)
  BY <1>1, FS_AddElement DEF HasCounters
<1> QED BY <1>2, <1>3, <1>4, <1>5, <1>6 DEF HasCounters, next

(* An event without rules for it is counted under its name alone.          *)
LEMMA SumAfterOneMore ==
  ASSUME NEW cov, NEW rules, HasCounters(cov, rules), NamesAreGoverned(cov, rules),
         NEW e, e.name \in Names, NEW result
  PROVE  LET next == Counted(cov, e, rules, result)
         IN /\ NamesAreGoverned(next, rules)
            /\ SumFunctionOnSet(next.names, next.governed) =
                 SumFunctionOnSet(cov.names, cov.governed)
                   + IF selectRules(rules, e.name) = {} THEN 0 ELSE 1
<1> DEFINE next == Counted(cov, e, rules, result)
           x == e.name
           G == cov.governed
<1>1. /\ next.names = [cov.names EXCEPT ![x] = @ + 1]
      /\ next.governed = IF selectRules(rules, x) = {} THEN G ELSE G \cup {x}
  BY DEF Counted
<1> HIDE DEF next, x
<1>2. /\ cov.names \in [Names -> Nat] /\ G \subseteq Names /\ IsFiniteSet(G) /\ x \in Names
  BY DEF HasCounters, x
<1> HIDE DEF G
<1>3. /\ next.names[x] = cov.names[x] + 1
      /\ \A y \in Names \ {x} : next.names[y] = cov.names[y]
      /\ \A y \in Names : cov.names[y] \in Nat
  BY <1>1, <1>2
<1>4. \A name \in Names : name \in G <=> cov.names[name] > 0 /\ selectRules(rules, name) # {}
  BY DEF NamesAreGoverned, G
<1>5. \A name \in Names :
        name \in next.governed <=> next.names[name] > 0 /\ selectRules(rules, name) # {}
  <2> SUFFICES ASSUME NEW name \in Names
               PROVE  name \in next.governed <=> next.names[name] > 0 /\ selectRules(rules, name) # {}
    OBVIOUS
  <2>1. CASE name = x
    BY <1>1, <1>2, <1>3, <1>4, <2>1
  <2>2. CASE name # x
    BY <1>1, <1>2, <1>3, <1>4, <2>2
  <2> QED BY <2>1, <2>2
<1>6. Counts(cov.names, G)
  BY <1>2, <1>3 DEF Counts
<1>7. CASE selectRules(rules, x) = {}
  <2>1. x \notin G
    BY <1>2, <1>4, <1>7
  <2>2. \A y \in G : cov.names[y] = next.names[y]
    BY <1>2, <1>3, <2>1
  <2>3. SumFunctionOnSet(cov.names, G) = SumFunctionOnSet(next.names, G)
    BY <1>2, <1>6, <2>2, SumOfSame
  <2>4. SumFunctionOnSet(cov.names, G) \in Nat
    BY <1>2, <1>6, SumIsNat
  <2>5. next.governed = G
    BY <1>1, <1>7
  <2>6. SumFunctionOnSet(next.names, next.governed) = SumFunctionOnSet(cov.names, G) + 0
    BY <2>3, <2>4, <2>5
  <2> QED BY <1>5, <1>7, <2>6 DEF NamesAreGoverned, next, x, G
<1>8. CASE selectRules(rules, x) # {}
  <2> DEFINE H == G \cup {x}
  <2>0. next.governed = H
    BY <1>1, <1>8
  <2>1. IsFiniteSet(H) /\ Counts(cov.names, H) /\ x \in H
    BY <1>2, <1>3, FS_AddElement DEF Counts
  <2>2. \A y \in H \ {x} : next.names[y] = cov.names[y]
    BY <1>2, <1>3
  <2>3. SumFunctionOnSet(cov.names, H) = SumFunctionOnSet(cov.names, G)
    <3>1. CASE x \in G
      <4>1. H = G
        BY <3>1
      <4> QED BY <4>1
    <3>2. CASE x \notin G
      <4>1. cov.names[x] = 0
        BY <1>2, <1>3, <1>4, <1>8, <3>2
      <4>2. H \ {x} = G
        BY <3>2
      <4> HIDE DEF H
      <4>3. SumFunctionOnSet(cov.names, H) = cov.names[x] + SumFunctionOnSet(cov.names, H \ {x})
        BY <2>1, SumOfRest
      <4>4. SumFunctionOnSet(cov.names, G) \in Nat
        BY <1>2, <1>6, SumIsNat
      <4> QED BY <4>1, <4>2, <4>3, <4>4
    <3> QED BY <3>1, <3>2
  <2> HIDE DEF H
  <2>4. SumFunctionOnSet(next.names, H) = SumFunctionOnSet(cov.names, H) + 1
    BY <1>3, <2>1, <2>2, SumOfOneMore
  <2>5. SumFunctionOnSet(next.names, next.governed) = SumFunctionOnSet(cov.names, G) + 1
    BY <2>0, <2>3, <2>4
  <2> QED BY <1>5, <1>8, <2>5 DEF NamesAreGoverned, next, x, G
<1> QED BY <1>7, <1>8

(* An event that is judged is counted.                                     *)
LEMMA CountingGoesOn ==
  ASSUME NEW rules, NEW evs, NEW res, IsChecked(evs, res, rules), NEW k \in 0 .. Len(evs) - 1,
         NEW cov, Accounted(cov, k, rules, evs, res), evs[k + 1].core = "valid"
  PROVE  Accounted(Counted(cov, evs[k + 1], rules, res[k + 1]), k + 1, rules, evs, res)
<1> DEFINE e == evs[k + 1]
           result == res[k + 1]
           next == Counted(cov, e, rules, result)
           selected == selectRules(rules, e.name)
<1>1. e \in Events /\ result = checkProfile(e, rules) /\ rules \in Seq(Rules) /\ e.core = "valid"
      /\ k \in Nat
  <2>1. k + 1 \in 1 .. Len(evs) /\ k \in Nat /\ evs \in Seq(Events)
    BY DEF IsChecked
  <2> QED BY <2>1 DEF IsChecked
<1> HIDE DEF e, result
<1>2. /\ e.name \in Names
      /\ result.status \in {"conforming", "violations"} <=> selected # {}
      /\ result.status = "violations" <=> result.errors # {}
  BY <1>1, StatusFacts
<1>3. /\ FailedIds(e, rules, result) \subseteq AppliedIds(e, rules)
      /\ AppliedIds(e, rules) \subseteq SelectedIds(e, rules)
      /\ SelectedIds(e, rules) \subseteq Ids(rules)
      /\ FailedIds(e, rules, result) = {} <=> result.errors = {}
  BY <1>1, IdsFacts
<1>4. HasCounters(cov, rules) /\ NamesAreGoverned(cov, rules)
  BY DEF Accounted
<1>5. /\ HasCounters(next, rules)
      /\ \A id \in Ids(rules) :
           /\ next.selected[id] = cov.selected[id] + IF id \in SelectedIds(e, rules) THEN 1 ELSE 0
           /\ next.applied[id] = cov.applied[id] + IF id \in AppliedIds(e, rules) THEN 1 ELSE 0
           /\ next.failed[id] = cov.failed[id] + IF id \in FailedIds(e, rules, result) THEN 1 ELSE 0
  BY <1>2, <1>4, CountedHasCounters
<1>6. /\ NamesAreGoverned(next, rules)
      /\ SumFunctionOnSet(next.names, next.governed) =
           SumFunctionOnSet(cov.names, cov.governed) + IF selected = {} THEN 0 ELSE 1
  BY <1>2, <1>4, SumAfterOneMore
<1> HIDE DEF next
<1>7. Cardinality(JudgedOf(res, k + 1)) =
        Cardinality(JudgedOf(res, k)) + IF selected = {} THEN 0 ELSE 1
  BY <1>1, <1>2, JudgedOneMore, JudgedIsFinite DEF result
<1>8. /\ Cardinality(JudgedOf(res, k)) \in Nat
      /\ \A id \in Ids(rules) : /\ cov.selected[id] \in Nat /\ cov.applied[id] \in Nat
                                /\ cov.failed[id] \in Nat
  BY <1>1, <1>4, JudgedIsFinite DEF HasCounters
<1>9. SumFunctionOnSet(next.names, next.governed) = Cardinality(JudgedOf(res, k + 1))
  BY <1>6, <1>7 DEF Accounted
<1>10. InOrder(next, k + 1, rules, res)
  <2> SUFFICES ASSUME NEW id \in Ids(rules)
               PROVE  /\ next.failed[id] <= next.applied[id]
                      /\ next.applied[id] <= next.selected[id]
                      /\ next.selected[id] <= Cardinality(JudgedOf(res, k + 1))
    BY DEF InOrder
  <2>1. /\ cov.failed[id] <= cov.applied[id] /\ cov.applied[id] <= cov.selected[id]
        /\ cov.selected[id] <= Cardinality(JudgedOf(res, k))
    BY DEF Accounted, InOrder
  <2>2. id \in SelectedIds(e, rules) => selected # {}
    BY DEF SelectedIds
  <2> HIDE DEF selected
  <2>3. next.failed[id] <= next.applied[id]
    BY <1>3, <1>5, <1>8, <2>1
  <2>4. next.applied[id] <= next.selected[id]
    BY <1>3, <1>5, <1>8, <2>1
  <2>5. next.selected[id] <= Cardinality(JudgedOf(res, k + 1))
    BY <1>5, <1>7, <1>8, <2>1, <2>2
  <2> QED BY <2>3, <2>4, <2>5
<1>11. FailuresAreViolations(next, k + 1, rules, res)
  <2>1. (\E id \in Ids(rules) : next.failed[id] > 0) <=>
          (\E id \in Ids(rules) : cov.failed[id] > 0) \/ FailedIds(e, rules, result) # {}
    <3>1. \A id \in Ids(rules) :
            next.failed[id] > 0 <=> cov.failed[id] > 0 \/ id \in FailedIds(e, rules, result)
      BY <1>5, <1>8
    <3>2. FailedIds(e, rules, result) \subseteq Ids(rules)
      BY <1>3
    <3> QED BY <3>1, <3>2
  <2>2. (\E n \in 1 .. k + 1 : res[n].status = "violations") <=>
          (\E n \in 1 .. k : res[n].status = "violations") \/ result.status = "violations"
    BY <1>1 DEF result
  <2>3. (\E id \in Ids(rules) : cov.failed[id] > 0) <=> \E n \in 1 .. k : res[n].status = "violations"
    BY DEF Accounted, FailuresAreViolations
  <2>4. FailedIds(e, rules, result) # {} <=> result.status = "violations"
    BY <1>2, <1>3
  <2> QED BY <2>1, <2>2, <2>3, <2>4 DEF FailuresAreViolations
<1>12. RulesAreCounted(next, k + 1, rules, evs)
  <2> SUFFICES ASSUME NEW n \in 1 .. k + 1, evs[n].core = "valid",
                      NEW i \in selectRules(rules, evs[n].name)
               PROVE  /\ next.selected[rules[i].id] > 0
                      /\ conditionHolds(evs[n], rules[i]) => next.applied[rules[i].id] > 0
    BY DEF RulesAreCounted
  <2> DEFINE id == rules[i].id
  <2>1. id \in Ids(rules)
    BY SelectedAreRules
  <2>2. CASE n = k + 1
    <3>1. id \in SelectedIds(e, rules)
          /\ (conditionHolds(evs[n], rules[i]) => id \in AppliedIds(e, rules))
      BY <2>2 DEF SelectedIds, AppliedIds, e
    <3> QED BY <1>5, <1>8, <2>1, <3>1
  <2>3. CASE n # k + 1
    <3>1. n \in 1 .. k
      BY <1>1, <2>3
    <3>2. cov.selected[id] > 0 /\ (conditionHolds(evs[n], rules[i]) => cov.applied[id] > 0)
      BY <3>1 DEF Accounted, RulesAreCounted
    <3> QED BY <1>5, <1>8, <2>1, <3>2
  <2> QED BY <2>2, <2>3
<1> QED BY <1>5, <1>6, <1>9, <1>10, <1>11, <1>12 DEF Accounted, next, e, result

(* An event that is not judged is passed over.                             *)
LEMMA CountingPassesOver ==
  ASSUME NEW rules, NEW evs, NEW res, IsChecked(evs, res, rules), NEW k \in 0 .. Len(evs) - 1,
         NEW cov, Accounted(cov, k, rules, evs, res), evs[k + 1].core # "valid"
  PROVE  Accounted(cov, k + 1, rules, evs, res)
<1>1. k + 1 \in 1 .. Len(evs) /\ k \in Nat /\ evs[k + 1] \in Events /\ rules \in Seq(Rules)
      /\ res[k + 1] = checkProfile(evs[k + 1], rules)
  <2>1. k + 1 \in 1 .. Len(evs) /\ k \in Nat /\ evs \in Seq(Events)
    BY DEF IsChecked
  <2> QED BY <2>1 DEF IsChecked
<1>2. res[k + 1].status \notin {"conforming", "violations"}
  BY <1>1, StatusFacts
<1>3. JudgedOf(res, k + 1) = JudgedOf(res, k)
  BY <1>1, <1>2, JudgedOneMore
<1>4. \A n \in 1 .. k + 1 : n \in 1 .. k \/ n = k + 1
  BY <1>1
<1>5. \A n \in 1 .. k : n \in 1 .. k + 1
  BY <1>1
<1>6. FailuresAreViolations(cov, k + 1, rules, res)
  BY <1>2, <1>4, <1>5 DEF Accounted, FailuresAreViolations
<1>7. RulesAreCounted(cov, k + 1, rules, evs)
  BY <1>4 DEF Accounted, RulesAreCounted
<1>8. InOrder(cov, k + 1, rules, res)
  BY <1>3 DEF Accounted, InOrder
<1> QED BY <1>3, <1>6, <1>7, <1>8 DEF Accounted

(* Before the first event nothing is counted, whatever was read.           *)
LEMMA CountingStarts ==
  ASSUME NEW rules, NEW evs, NEW res
  PROVE  Accounted(StartCoverage(rules), 0, rules, evs, res)
<1> DEFINE cov == StartCoverage(rules)
<1>1. /\ cov.selected = [id \in Ids(rules) |-> 0] /\ cov.applied = [id \in Ids(rules) |-> 0]
      /\ cov.failed = [id \in Ids(rules) |-> 0] /\ cov.names = [n \in Names |-> 0]
      /\ cov.governed = {}
  BY DEF StartCoverage
<1> HIDE DEF cov
<1>2. HasCounters(cov, rules)
  BY <1>1, FS_EmptySet DEF HasCounters
<1>3. NamesAreGoverned(cov, rules)
  BY <1>1 DEF NamesAreGoverned
<1>4. JudgedOf(res, 0) = {} /\ Cardinality(JudgedOf(res, 0)) = 0
  BY FS_EmptySet DEF JudgedOf
<1>5. SumFunctionOnSet(cov.names, cov.governed) = Cardinality(JudgedOf(res, 0))
  BY <1>1, <1>4, SumOfNothing
<1>6. InOrder(cov, 0, rules, res)
  BY <1>1, <1>4 DEF InOrder
<1>7. FailuresAreViolations(cov, 0, rules, res)
  BY <1>1 DEF FailuresAreViolations
<1>8. RulesAreCounted(cov, 0, rules, evs)
  BY DEF RulesAreCounted
<1> QED BY <1>2, <1>3, <1>5, <1>6, <1>7, <1>8 DEF Accounted, cov

(* The tally, after k events.                                              *)
Tallied(t, k, res) ==
  /\ t.events = k /\ t.by \in [Statuses -> Nat]
  /\ SumFunctionOnSet(t.by, Statuses) = k
  /\ t.by["conforming"] + t.by["violations"] = Cardinality(JudgedOf(res, k))
  /\ t.by["violations"] > 0 <=> \E n \in 1 .. k : res[n].status = "violations"

LEMMA StatusesAreFinite == IsFiniteSet(Statuses)
<1>1. IsFiniteSet({"conforming"})
  BY FS_Singleton
<1>2. IsFiniteSet({"conforming"} \cup {"violations"})
  BY <1>1, FS_AddElement
<1>3. IsFiniteSet(({"conforming"} \cup {"violations"}) \cup {"not-applicable"})
  BY <1>2, FS_AddElement
<1>4. IsFiniteSet((({"conforming"} \cup {"violations"}) \cup {"not-applicable"}) \cup {"core-invalid"})
  BY <1>3, FS_AddElement
<1>5. Statuses = (({"conforming"} \cup {"violations"}) \cup {"not-applicable"}) \cup {"core-invalid"}
  BY DEF Statuses
<1> QED BY <1>4, <1>5

LEMMA TallyStarts ==
  ASSUME NEW res
  PROVE  Tallied(StartTally, 0, res)
<1> DEFINE t == StartTally
<1>1. t.events = 0 /\ t.by = [s \in Statuses |-> 0]
  BY DEF StartTally
<1> HIDE DEF t
<1>2. JudgedOf(res, 0) = {} /\ Cardinality(JudgedOf(res, 0)) = 0
  BY FS_EmptySet DEF JudgedOf
<1>3. Counts(t.by, Statuses) /\ t.by \in [Statuses -> Nat] /\ \A s \in Statuses : t.by[s] = 0
  BY <1>1 DEF Counts
<1>4. SumFunctionOnSet(t.by, Statuses) = 0
  <2>1. PICK g : IsSumming(g, t.by, Statuses) /\ SumFunctionOnSet(t.by, Statuses) = g[Statuses]
    BY <1>3, StatusesAreFinite, SumDef
  <2> DEFINE Zero == {s \in SUBSET Statuses : g[s] = 0}
  <2>2. {} \in Zero
    BY <2>1 DEF IsSumming
  <2>3. ASSUME NEW s \in SUBSET Statuses, s # {}, \A x \in s : s \ {x} \in Zero PROVE s \in Zero
    <3>1. Some(s) \in s
      BY <2>3, SomeIsIn
    <3>2. g[s] = t.by[Some(s)] + g[s \ {Some(s)}]
      BY <2>1, <2>3 DEF IsSumming
    <3>3. t.by[Some(s)] = 0 /\ g[s \ {Some(s)}] = 0
      BY <1>3, <2>3, <3>1
    <3> QED BY <3>2, <3>3
  <2>4. SUBSET Statuses \subseteq Zero
    <3> HIDE DEF Zero
    <3> QED BY <2>2, <2>3, StatusesAreFinite, SubsetInduction
  <2> QED BY <2>1, <2>4
<1>5. t.by["conforming"] = 0 /\ t.by["violations"] = 0
  BY <1>3 DEF Statuses
<1> QED BY <1>1, <1>2, <1>3, <1>4, <1>5 DEF Tallied, t

LEMMA TallyGoesOn ==
  ASSUME NEW t, NEW k \in Nat, NEW res, Tallied(t, k, res), NEW more,
         \A n \in 1 .. k : more[n] = res[n],
         more[k + 1].status \in Statuses
  PROVE  Tallied(addToProfileTally(t, more[k + 1]), k + 1, more)
<1> DEFINE next == addToProfileTally(t, more[k + 1])
           s == more[k + 1].status
<1>1. next.events = t.events + 1 /\ next.by = [t.by EXCEPT ![s] = @ + 1]
  BY DEF addToProfileTally
<1> HIDE DEF next
<1>2. t.events = k /\ t.by \in [Statuses -> Nat] /\ s \in Statuses
  BY DEF Tallied
<1>3. /\ next.by \in [Statuses -> Nat] /\ next.by[s] = t.by[s] + 1
      /\ \A y \in Statuses \ {s} : next.by[y] = t.by[y]
      /\ \A y \in Statuses : t.by[y] \in Nat
  <2> HIDE DEF s
  <2> QED BY <1>1, <1>2
<1>4. Counts(t.by, Statuses)
  BY <1>3 DEF Counts
<1>5. SumFunctionOnSet(next.by, Statuses) = k + 1
  <2> HIDE DEF s
  <2>1. SumFunctionOnSet(next.by, Statuses) = SumFunctionOnSet(t.by, Statuses) + 1
    BY <1>2, <1>3, <1>4, StatusesAreFinite, SumOfOneMore
  <2> QED BY <2>1 DEF Tallied
<1>6. JudgedOf(more, k) = JudgedOf(res, k)
  BY DEF JudgedOf
<1>7. /\ Cardinality(JudgedOf(more, k)) \in Nat
      /\ Cardinality(JudgedOf(more, k + 1)) =
           Cardinality(JudgedOf(more, k)) + IF s \in {"conforming", "violations"} THEN 1 ELSE 0
  BY JudgedOneMore, JudgedIsFinite
<1>8. next.by["conforming"] + next.by["violations"] = Cardinality(JudgedOf(more, k + 1))
  <2>1. t.by["conforming"] + t.by["violations"] = Cardinality(JudgedOf(more, k))
    BY <1>6 DEF Tallied
  <2>2. "conforming" \in Statuses /\ "violations" \in Statuses
    BY DEF Statuses
  <2> HIDE DEF s
  <2>3. CASE s = "conforming"
    BY <1>3, <1>7, <2>1, <2>2, <2>3
  <2>4. CASE s = "violations"
    BY <1>3, <1>7, <2>1, <2>2, <2>4
  <2>5. CASE s \notin {"conforming", "violations"}
    BY <1>3, <1>7, <2>1, <2>2, <2>5
  <2> QED BY <2>3, <2>4, <2>5
<1>9. next.by["violations"] > 0 <=> \E n \in 1 .. k + 1 : more[n].status = "violations"
  <2>1. t.by["violations"] > 0 <=> \E n \in 1 .. k : more[n].status = "violations"
    BY DEF Tallied
  <2>2. "violations" \in Statuses
    BY DEF Statuses
  <2>3. (\E n \in 1 .. k + 1 : more[n].status = "violations") <=>
          (\E n \in 1 .. k : more[n].status = "violations") \/ s = "violations"
    OBVIOUS
  <2> HIDE DEF s
  <2> QED BY <1>3, <2>1, <2>2, <2>3
<1>10. next.events = k + 1
  BY <1>1, <1>2
<1> QED BY <1>3, <1>5, <1>8, <1>9, <1>10 DEF Tallied, next

(* Both accounts are of the events, the second as far as it has come.      *)
AccountsInv ==
  /\ Tallied(tally, Len(events), results)
  /\ covered \in 0 .. Len(events)
  /\ phase = "checking" => covered = 0 /\ coverage = StartCoverage(profile)
  /\ phase = "done" => covered = Len(events)
  /\ Accounted(coverage, covered, profile, events, results)

LEMMA InvIsChecked ==
  ASSUME IInv
  PROVE  IsChecked(events, results, profile) /\ DOMAIN events = 1 .. Len(events) /\ Len(events) \in Nat
  BY DEF IInv, IsChecked

(* Every reachable state has both accounts right.                          *)
LEMMA AccountsInvariant == Spec => []AccountsInv
<1>1. Init => AccountsInv
  <2> SUFFICES ASSUME Init PROVE AccountsInv
    OBVIOUS
  <2>1. Len(events) = 0 /\ covered = 0 /\ phase = "checking" /\ coverage = StartCoverage(profile)
        /\ tally = StartTally
    BY DEF Init
  <2>2. Accounted(coverage, covered, profile, events, results)
    BY <2>1, CountingStarts
  <2>3. Tallied(tally, Len(events), results)
    BY <2>1, TallyStarts
  <2> QED BY <2>1, <2>2, <2>3 DEF AccountsInv
<1>2. IInv /\ IInv' /\ AccountsInv /\ [Next]_vars => AccountsInv'
  <2> SUFFICES ASSUME IInv, IInv', AccountsInv, [Next]_vars PROVE AccountsInv'
    OBVIOUS
  <2>0. IsChecked(events, results, profile) /\ DOMAIN events = 1 .. Len(events) /\ Len(events) \in Nat
    BY InvIsChecked
  <2>1. CASE Check
    <3>1. PICK e \in Events : /\ events' = Append(events, e)
                              /\ results' = Append(results, checkProfile(e, profile))
                              /\ tally' = addToProfileTally(tally, checkProfile(e, profile))
      BY <2>1 DEF Check
    <3>2. /\ profile' = profile /\ covered' = covered /\ coverage' = coverage
          /\ phase = "checking" /\ phase' = "checking"
      BY <2>1 DEF Check
    <3>3. Len(events') = Len(events) + 1
      BY <3>1, Appended DEF IInv
    <3>4. /\ \A n \in 1 .. Len(events) : results'[n] = results[n]
          /\ results'[Len(events) + 1] = checkProfile(e, profile)
      <4>1. results \in Seq({checkProfile(x, profile) : x \in Events}) /\ Len(results) = Len(events)
        BY DEF IInv
      <4>2. DOMAIN results = 1 .. Len(events)
        BY <4>1
      <4> QED BY <3>1, <4>1, <4>2, Appended
    <3>5. checkProfile(e, profile).status \in Statuses
      BY StatusFacts DEF IInv
    <3> DEFINE more == results'
    <3>6. more[Len(events) + 1].status \in Statuses /\ \A n \in 1 .. Len(events) : more[n] = results[n]
      BY <3>4, <3>5
    <3>7. tally' = addToProfileTally(tally, more[Len(events) + 1])
      BY <3>1, <3>4
    <3>8. Tallied(tally, Len(events), results)
      BY DEF AccountsInv
    <3> HIDE DEF more
    <3>9. Tallied(addToProfileTally(tally, more[Len(events) + 1]), Len(events) + 1, more)
      BY <2>0, <3>6, <3>8, TallyGoesOn
    <3>10. Tallied(tally', Len(events'), results')
      BY <3>3, <3>7, <3>9 DEF more
    <3>11. covered' = 0 /\ coverage' = StartCoverage(profile')
      BY <3>2 DEF AccountsInv
    <3>12. Accounted(StartCoverage(profile'), 0, profile', events', results')
      BY CountingStarts
    <3>13. Accounted(coverage', covered', profile', events', results')
      BY <3>11, <3>12
    <3> QED BY <2>0, <3>2, <3>3, <3>10, <3>11, <3>13 DEF AccountsInv
  <2>2. CASE StartCovering
    BY <2>2 DEF StartCovering, AccountsInv
  <2>3. CASE Cover
    <3> DEFINE e == events[covered + 1]
               result == results[covered + 1]
    <3>1. /\ covered \in 0 .. Len(events) - 1 /\ covered' = covered + 1
          /\ profile' = profile /\ events' = events /\ results' = results /\ tally' = tally
          /\ phase = "covering" /\ phase' = phase
      BY <2>0, <2>3 DEF Cover, AccountsInv
    <3>2. coverage' = IF ~Judged(e, result) THEN coverage ELSE Counted(coverage, e, profile, result)
      BY <2>3 DEF Cover, Counted, SelectedIds, AppliedIds, FailedIds
    <3>3. Judged(e, result) <=> e.core = "valid"
      <4>1. covered + 1 \in 1 .. Len(events)
        BY <2>0, <3>1
      <4>2. e \in Events /\ result = checkProfile(e, profile) /\ profile \in Seq(Rules)
        BY <2>0, <4>1 DEF IsChecked
      <4> HIDE DEF e, result
      <4> QED BY <4>2, StatusFacts DEF Judged
    <3>4. Accounted(coverage, covered, profile, events, results)
      BY DEF AccountsInv
    <3>5. Accounted(coverage', covered + 1, profile, events, results)
      <4>1. CASE e.core = "valid"
        BY <2>0, <3>1, <3>2, <3>3, <3>4, <4>1, CountingGoesOn
      <4>2. CASE e.core # "valid"
        BY <2>0, <3>1, <3>2, <3>3, <3>4, <4>2, CountingPassesOver
      <4> QED BY <4>1, <4>2
    <3>6. Accounted(coverage', covered', profile', events', results')
      BY <3>1, <3>5
    <3>7. covered' \in 0 .. Len(events')
      BY <2>0, <3>1
    <3>8. Tallied(tally', Len(events'), results')
      BY <3>1 DEF AccountsInv
    <3> QED BY <3>1, <3>6, <3>7, <3>8 DEF AccountsInv
  <2>4. CASE FinishCovering
    BY <2>4 DEF FinishCovering, AccountsInv
  <2>5. CASE UNCHANGED vars
    BY <2>5 DEF vars, AccountsInv
  <2> QED BY <2>1, <2>2, <2>3, <2>4, <2>5 DEF Next
<1> QED BY <1>1, <1>2, Invariant, PTL DEF Spec

(* Two readings of the events give one account (check-profile and          *)
(* summariseCoverage): each event is counted once, the events under        *)
(* governed names are the judged ones, and a rule has failed exactly if an *)
(* event is in violation.                                                  *)
THEOREM VerdictsAndCoverageAgreeHolds == Spec => []VerdictsAndCoverageAgree
<1>1. IInv /\ AccountsInv => VerdictsAndCoverageAgree
  <2> SUFFICES ASSUME IInv, AccountsInv, phase = "done" PROVE VerdictsAndCoverageAgree
    BY DEF VerdictsAndCoverageAgree
  <2>1. covered = Len(events) /\ Tallied(tally, Len(events), results)
        /\ Accounted(coverage, covered, profile, events, results)
    BY DEF AccountsInv
  <2>2. tally.events = Len(events) /\ DOMAIN tally.by = Statuses
        /\ SumFunctionOnSet(tally.by, Statuses) = Len(events)
    BY <2>1 DEF Tallied
  <2>3. SumFunction(tally.by) = Len(events)
    <3>1. SumFunction(tally.by) = SumFunctionOnSet(tally.by, DOMAIN tally.by)
      BY DEF SumFunction
    <3> QED BY <2>2, <3>1
  <2>4. Governed = Cardinality(JudgedOf(results, covered))
    BY <2>1 DEF Tallied, Governed
  <2>5. SumFunctionOnSet(coverage.names, coverage.governed) = Governed
    BY <2>1, <2>4 DEF Accounted
  <2>6. \A id \in Ids(profile) : /\ coverage.failed[id] <= coverage.applied[id]
                                 /\ coverage.applied[id] <= coverage.selected[id]
                                 /\ coverage.selected[id] <= Governed
    BY <2>1, <2>4 DEF Accounted, InOrder
  <2>7. (\E id \in Ids(profile) : coverage.failed[id] > 0) <=> tally.by["violations"] > 0
    <3>1. (\E id \in Ids(profile) : coverage.failed[id] > 0) <=>
            \E n \in 1 .. covered : results[n].status = "violations"
      BY <2>1 DEF Accounted, FailuresAreViolations
    <3>2. tally.by["violations"] > 0 <=> \E n \in 1 .. Len(events) : results[n].status = "violations"
      BY <2>1 DEF Tallied
    <3>3. covered = Len(events)
      BY <2>1
    <3> QED BY <3>1, <3>2, <3>3
  <2> QED BY <2>2, <2>3, <2>5, <2>6, <2>7 DEF VerdictsAndCoverageAgree
<1> QED BY <1>1, Invariant, AccountsInvariant, PTL

-----------------------------------------------------------------------------
(***************************************************************************)
(* A verdict is that of the rules that govern the name, so rules that      *)
(* govern none of the names read, or apply to none of the events, do not   *)
(* matter.                                                                 *)
(***************************************************************************)
LEMMA FirstIsSelected ==
  ASSUME NEW S, NEW s \in Seq(S), NEW name, NEW j \in DOMAIN s, name \in s[j].events
  PROVE  \E g \in Governing(s, name) : g.id = s[j].id
<1> DEFINE Same == {k \in DOMAIN s : s[k].id = s[j].id /\ name \in s[k].events}
<1>1. DOMAIN s = 1 .. Len(s) /\ Len(s) \in Nat
  OBVIOUS
<1>2. Same \in SUBSET Nat /\ Same # {}
  BY <1>1
<1>3. PICK i \in Same : \A k \in Same : i <= k
  <2> HIDE DEF Same
  <2> QED BY <1>2, LeastNumber
<1>4. i \in selectRules(s, name)
  <2>1. i \in DOMAIN s /\ name \in s[i].events /\ s[i].id = s[j].id
    BY <1>3
  <2>2. ASSUME NEW k \in DOMAIN s, k < i, s[k].id = s[i].id, name \in s[k].events PROVE FALSE
    <3>1. k \in Same
      BY <2>1, <2>2
    <3>2. i <= k /\ k \in Nat /\ i \in Nat
      BY <1>1, <1>3, <3>1, <2>1
    <3> QED BY <2>2, <3>2
  <2> QED BY <2>1, <2>2 DEF selectRules
<1> QED BY <1>3, <1>4 DEF Governing

(* What a rule at the end adds.                                            *)
Added(G, r, name) == {q \in {r} : name \in r.events /\ \A g \in G : g.id # r.id}

LEMMA GoverningAppend ==
  ASSUME NEW S, NEW s \in Seq(S), NEW r \in S, NEW name
  PROVE  Governing(Append(s, r), name) =
           Governing(s, name) \cup Added(Governing(s, name), r, name)
<1> DEFINE t == Append(s, r)
           L == Len(s)
<1>1. /\ L \in Nat /\ DOMAIN s = 1 .. L /\ DOMAIN t = 1 .. L + 1
      /\ t[L + 1] = r /\ \A i \in 1 .. L : t[i] = s[i]
  OBVIOUS
<1> HIDE DEF t, L
<1>2. ASSUME NEW i \in 1 .. L
      PROVE  i \in selectRules(t, name) <=> i \in selectRules(s, name)
  <2>1. (\E j \in 1 .. L + 1 : j < i /\ t[j].id = t[i].id /\ name \in t[j].events) <=>
          (\E j \in 1 .. L : j < i /\ s[j].id = s[i].id /\ name \in s[j].events)
    <3>1. \A j \in 1 .. L + 1 : j < i => j \in 1 .. L
      BY <1>1
    <3>2. \A j \in 1 .. L : j \in 1 .. L + 1
      BY <1>1
    <3> QED BY <1>1, <3>1, <3>2
  <2> QED BY <1>1, <2>1 DEF selectRules
<1>3. L + 1 \in selectRules(t, name) <=>
        name \in r.events /\ \A g \in Governing(s, name) : g.id # r.id
  <2>1. (\E j \in 1 .. L + 1 : j < L + 1 /\ t[j].id = t[L + 1].id /\ name \in t[j].events) <=>
          (\E j \in 1 .. L : s[j].id = r.id /\ name \in s[j].events)
    <3>1. \A j \in 1 .. L + 1 : j < L + 1 <=> j \in 1 .. L
      BY <1>1
    <3> QED BY <1>1, <3>1
  <2>2. (\E j \in 1 .. L : s[j].id = r.id /\ name \in s[j].events) <=>
          \E g \in Governing(s, name) : g.id = r.id
    <3>1. ASSUME NEW j \in 1 .. L, s[j].id = r.id, name \in s[j].events
          PROVE  \E g \in Governing(s, name) : g.id = r.id
      <4>1. \E g \in Governing(s, name) : g.id = s[j].id
        BY <1>1, <3>1, FirstIsSelected
      <4> QED BY <3>1, <4>1
    <3>2. ASSUME NEW g \in Governing(s, name), g.id = r.id
          PROVE  \E j \in 1 .. L : s[j].id = r.id /\ name \in s[j].events
      BY <1>1, <3>2 DEF Governing, selectRules
    <3> QED BY <3>1, <3>2
  <2>3. L + 1 \in DOMAIN t
    BY <1>1
  <2>4. L + 1 \in selectRules(t, name) <=>
          name \in t[L + 1].events
          /\ ~\E j \in DOMAIN t : j < L + 1 /\ t[j].id = t[L + 1].id /\ name \in t[j].events
    BY <2>3 DEF selectRules
  <2> QED BY <1>1, <2>1, <2>2, <2>4
<1>4. selectRules(t, name) \subseteq 1 .. L + 1 /\ selectRules(s, name) \subseteq 1 .. L
  BY <1>1 DEF selectRules
<1>5. ASSUME NEW g \in Governing(t, name)
      PROVE  g \in Governing(s, name) \cup Added(Governing(s, name), r, name)
  <2>1. PICK i \in selectRules(t, name) : g = t[i]
    BY DEF Governing
  <2>2. CASE i = L + 1
    BY <1>1, <1>3, <2>1, <2>2 DEF Added
  <2>3. CASE i # L + 1
    <3>1. i \in 1 .. L
      BY <1>1, <1>4, <2>3
    <3> QED BY <1>1, <1>2, <2>1, <3>1 DEF Governing
  <2> QED BY <2>2, <2>3
<1>6. ASSUME NEW g \in Governing(s, name) PROVE g \in Governing(t, name)
  <2>1. PICK i \in selectRules(s, name) : g = s[i]
    BY DEF Governing
  <2>2. i \in 1 .. L
    BY <1>4
  <2> QED BY <1>1, <1>2, <2>1, <2>2 DEF Governing
<1>7. ASSUME NEW g \in Added(Governing(s, name), r, name) PROVE g \in Governing(t, name)
  <2>1. g = r /\ L + 1 \in selectRules(t, name)
    BY <1>3 DEF Added
  <2> QED BY <1>1, <2>1 DEF Governing
<1>8. Governing(t, name) = Governing(s, name) \cup Added(Governing(s, name), r, name)
  BY <1>5, <1>6, <1>7
<1> QED BY <1>8 DEF t

LEMMA GoverningOfPrefix ==
  ASSUME NEW S, NEW s \in Seq(S), NEW n \in 0 .. Len(s), NEW name
  PROVE  Governing(SubSeq(s, 1, n), name) \subseteq Governing(s, name)
<1> DEFINE p == SubSeq(s, 1, n)
<1>1. DOMAIN p = 1 .. n /\ DOMAIN s = 1 .. Len(s) /\ Len(s) \in Nat /\ n <= Len(s) /\ n \in Nat
      /\ \A i \in 1 .. n : p[i] = s[i]
  OBVIOUS
<1> HIDE DEF p
<1>2. ASSUME NEW i \in selectRules(p, name) PROVE i \in selectRules(s, name) /\ p[i] = s[i]
  <2>1. i \in 1 .. n /\ name \in p[i].events
        /\ \A j \in 1 .. n : ~(j < i /\ p[j].id = p[i].id /\ name \in p[j].events)
    BY <1>1 DEF selectRules
  <2>2. p[i] = s[i] /\ i \in 1 .. Len(s)
    BY <1>1, <2>1
  <2>3. ASSUME NEW j \in 1 .. Len(s), j < i, s[j].id = s[i].id, name \in s[j].events PROVE FALSE
    <3>1. j \in 1 .. n
      BY <1>1, <2>1, <2>3
    <3>2. p[j] = s[j]
      BY <1>1, <3>1
    <3> QED BY <2>1, <2>2, <2>3, <3>1, <3>2
  <2> QED BY <1>1, <2>1, <2>2, <2>3 DEF selectRules
<1>3. ASSUME NEW g \in Governing(p, name) PROVE g \in Governing(s, name)
  <2>1. PICK i \in selectRules(p, name) : g = p[i]
    BY DEF Governing
  <2> QED BY <1>2, <2>1 DEF Governing
<1> QED BY <1>3 DEF p

IsTaking(f, s, ids) ==
  /\ f[0] = << >>
  /\ \A n \in 1 .. Len(s) :
       f[n] = IF s[n].id \in ids THEN Append(f[n - 1], s[n]) ELSE f[n - 1]

LEMMA WithIdsDef ==
  ASSUME NEW S, NEW s \in Seq(S), NEW ids
  PROVE  \E f : IsTaking(f, s, ids) /\ WithIds(s, ids) = f[Len(s)]
<1> DEFINE N == Len(s)
           X == Seq(S)
           none == << >>
           next(n, x) == IF s[n].id \in ids THEN Append(x, s[n]) ELSE x
           F == CHOOSE f : f = [n \in 0 .. N |->
                  IF n = 0 THEN << >>
                  ELSE IF s[n].id \in ids THEN Append(f[n - 1], s[n]) ELSE f[n - 1]]
           step == [n \in 1 .. N |-> [x \in X |-> next(n, x)]]
<1>1. N \in Nat /\ \A n \in 1 .. N : s[n] \in S
  OBVIOUS
<1>2. \A n \in 1 .. N : \A x \in X : next(n, x) \in X
  BY <1>1
<1>3. none \in X
  OBVIOUS
<1>4. WithIds(s, ids) = F[N]
  BY DEF WithIds
<1>5. step \in [1 .. N -> [X -> X]] /\ \A n \in 1 .. N : \A x \in X : step[n][x] = next(n, x)
  <2> HIDE DEF next, X
  <2> QED BY <1>2
<1> HIDE DEF step, X
<1>6. PICK g : Recurs(g, N, X, none, step)
  BY <1>1, <1>3, <1>5, LinearRecursion DEF IsStep
<1>7. g[0] = none /\ \A n \in 1 .. N : g[n] = next(n, g[n - 1])
  <2> HIDE DEF next
  <2>1. ASSUME NEW n \in 1 .. N PROVE g[n] = next(n, g[n - 1])
    <3>1. n - 1 \in 0 .. N
      BY <1>1
    <3>2. g[n - 1] \in X /\ g[n] = step[n][g[n - 1]]
      BY <1>6, <3>1 DEF Recurs
    <3> QED BY <1>5, <3>2
  <2> QED BY <1>6, <2>1 DEF Recurs
<1>8. g = [n \in 0 .. N |-> IF n = 0 THEN none ELSE next(n, g[n - 1])]
  <2> HIDE DEF next, none
  <2>1. \A n \in 0 .. N : g[n] = IF n = 0 THEN none ELSE next(n, g[n - 1])
    BY <1>1, <1>7
  <2>2. g = [n \in 0 .. N |-> g[n]]
    BY <1>6 DEF Recurs
  <2> QED BY <2>1, <2>2
<1>9. F = [n \in 0 .. N |-> IF n = 0 THEN none ELSE next(n, F[n - 1])]
  BY <1>8
<1>10. F[0] = none /\ \A n \in 1 .. N : F[n] = next(n, F[n - 1])
  <2> HIDE DEF F, next, none
  <2>1. \A n \in 1 .. N : n \in 0 .. N /\ n # 0
    BY <1>1
  <2>2. 0 \in 0 .. N
    BY <1>1
  <2> QED BY <1>9, <2>1, <2>2
<1>11. IsTaking(F, s, ids)
  <2> HIDE DEF F
  <2> QED BY <1>10 DEF IsTaking
<1> QED BY <1>4, <1>11

(* What governs a name is among the rules taken, so it still does.         *)
LEMMA TakenGovern ==
  ASSUME NEW S, NEW s \in Seq(S), NEW ids, NEW name,
         \A g \in Governing(s, name) : g.id \in ids
  PROVE  Governing(WithIds(s, ids), name) = Governing(s, name)
<1> DEFINE N == Len(s)
           P(n) == SubSeq(s, 1, n)
<1>1. N \in Nat /\ \A n \in 1 .. N : s[n] \in S
  OBVIOUS
<1>2. PICK f : IsTaking(f, s, ids) /\ WithIds(s, ids) = f[N]
  BY WithIdsDef
<1> DEFINE T == {n \in 0 .. N : f[n] \in Seq(S) /\ Governing(f[n], name) = Governing(P(n), name)}
<1>3. 0 \in T
  <2>1. P(0) = << >> /\ f[0] = << >>
    BY <1>2 DEF IsTaking
  <2>2. << >> \in Seq(S) /\ 0 \in 0 .. N
    BY <1>1
  <2>3. f[0] \in Seq(S)
    BY <2>1, <2>2
  <2>4. Governing(f[0], name) = Governing(P(0), name)
    <3> HIDE DEF P
    <3> QED BY <2>1, Zenon
  <2> HIDE DEF P
  <2> QED BY <2>2, <2>3, <2>4
<1>4. ASSUME NEW n \in 0 .. N - 1, n \in T PROVE n + 1 \in T
  <2> DEFINE r == s[n + 1]
  <2>1. n + 1 \in 1 .. N /\ (n + 1) - 1 = n /\ n + 1 \in 0 .. N /\ n \in 0 .. N
    BY <1>1
  <2>2. r \in S /\ f[n + 1] = IF r.id \in ids THEN Append(f[n], r) ELSE f[n]
    BY <1>1, <1>2, <2>1 DEF IsTaking
  <2>3. P(n + 1) = Append(P(n), r) /\ P(n) \in Seq(S)
    BY <2>1
  <2>4. f[n] \in Seq(S) /\ Governing(f[n], name) = Governing(P(n), name)
    BY <1>4
  <2>5. Governing(P(n + 1), name) \subseteq Governing(s, name)
    BY <2>1, GoverningOfPrefix
  <2> HIDE DEF P, r
  <2>6. Governing(P(n + 1), name) = Governing(P(n), name) \cup Added(Governing(P(n), name), r, name)
    <3>1. Governing(Append(P(n), r), name) =
            Governing(P(n), name) \cup Added(Governing(P(n), name), r, name)
      BY <2>2, <2>3, GoverningAppend
    <3> QED BY <2>3, <3>1, Zenon
  <2>7. CASE r.id \in ids
    <3>1. f[n + 1] = Append(f[n], r)
      BY <2>2, <2>7
    <3>2. Append(f[n], r) \in Seq(S)
      BY <2>2, <2>4
    <3>3. Governing(Append(f[n], r), name) =
            Governing(f[n], name) \cup Added(Governing(f[n], name), r, name)
      BY <2>2, <2>4, GoverningAppend
    <3>4. Governing(f[n + 1], name) = Governing(P(n + 1), name)
      BY <2>4, <2>6, <3>1, <3>3, Zenon
    <3> QED BY <2>1, <3>1, <3>2, <3>4
  <2>8. CASE r.id \notin ids
    <3>1. Added(Governing(P(n), name), r, name) = {}
      <4>1. r \notin Governing(s, name)
        BY <2>8
      <4>2. r \notin Added(Governing(P(n), name), r, name)
        BY <2>5, <2>6, <4>1
      <4> QED BY <4>2 DEF Added
    <3>2. f[n + 1] = f[n]
      BY <2>2, <2>8
    <3> QED BY <2>1, <2>4, <2>6, <3>1, <3>2
  <2> QED BY <2>7, <2>8
<1>5. 0 .. N \subseteq T
  <2> HIDE DEF T, N
  <2> QED BY <1>1, <1>3, <1>4, StepInduction
<1>6. N \in 0 .. N /\ P(N) = s
  BY <1>1
<1>7. Governing(f[N], name) = Governing(P(N), name)
  <2> HIDE DEF P, N
  <2> QED BY <1>5, <1>6
<1> HIDE DEF P
<1> QED BY <1>2, <1>6, <1>7, Zenon

LEMMA VerdictOfGoverning ==
  ASSUME NEW e, NEW rules, NEW more, Governing(rules, e.name) = Governing(more, e.name)
  PROVE  checkProfile(e, rules) = checkProfile(e, more)
<1> DEFINE G == Governing(rules, e.name)
           errors == UNION {evaluateRule(e, g).errors : g \in G}
           warnings == UNION {evaluateRule(e, g).warnings : g \in G}
           ids == {g.id : g \in G}
           verdict == IF e.core = "invalid" THEN Result("core-invalid", {}, {}, {})
                      ELSE IF e.core = "uncovered" \/ G = {} THEN Result("not-applicable", {}, {}, {})
                      ELSE Result(IF errors = {} THEN "conforming" ELSE "violations",
                                  ids, errors, warnings)
<1>1. ASSUME NEW any, Governing(any, e.name) = G PROVE checkProfile(e, any) = verdict
  <2> DEFINE sel == selectRules(any, e.name)
             errs == UNION {evaluateRule(e, any[i]).errors : i \in sel}
             warns == UNION {evaluateRule(e, any[i]).warnings : i \in sel}
             names == {any[i].id : i \in sel}
  <2>1. G = {any[i] : i \in sel}
    BY <1>1 DEF Governing
  <2>2. checkProfile(e, any) =
          IF e.core = "invalid" THEN Result("core-invalid", {}, {}, {})
          ELSE IF e.core = "uncovered" \/ sel = {} THEN Result("not-applicable", {}, {}, {})
          ELSE Result(IF errs = {} THEN "conforming" ELSE "violations", names, errs, warns)
    BY DEF checkProfile
  <2> HIDE DEF G, sel
  <2>3. errs = errors
    BY <2>1
  <2>4. warns = warnings
    BY <2>1
  <2>5. names = ids
    BY <2>1
  <2>6. sel = {} <=> G = {}
    BY <2>1
  <2> HIDE DEF errs, warns, names, errors, warnings, ids
  <2> QED BY <2>2, <2>3, <2>4, <2>5, <2>6
<1> HIDE DEF verdict
<1>2. checkProfile(e, rules) = verdict
  BY <1>1
<1>3. checkProfile(e, more) = verdict
  BY <1>1
<1> QED BY <1>2, <1>3

(* A rule that does not apply may as well ask for nothing.                 *)
LEMMA EmptiedChangesNothing ==
  ASSUME NEW e, NEW rules, NEW asked, DOMAIN asked = DOMAIN rules,
         \A i \in DOMAIN rules : asked[i].id = rules[i].id /\ asked[i].events = rules[i].events,
         \A i \in selectRules(rules, e.name) :
           /\ evaluateRule(e, asked[i]).errors = evaluateRule(e, rules[i]).errors
           /\ evaluateRule(e, asked[i]).warnings = evaluateRule(e, rules[i]).warnings
  PROVE  selectRules(asked, e.name) = selectRules(rules, e.name)
         /\ checkProfile(e, asked) = checkProfile(e, rules)
<1> DEFINE sel == selectRules(rules, e.name)
<1>1. selectRules(asked, e.name) = sel
  BY DEF selectRules
<1>2. sel \subseteq DOMAIN rules
  BY DEF selectRules
<1> DEFINE errors(any) == UNION {evaluateRule(e, any[i]).errors : i \in sel}
           warnings(any) == UNION {evaluateRule(e, any[i]).warnings : i \in sel}
           ids(any) == {any[i].id : i \in sel}
           verdict(any) == IF e.core = "invalid" THEN Result("core-invalid", {}, {}, {})
                           ELSE IF e.core = "uncovered" \/ sel = {}
                                THEN Result("not-applicable", {}, {}, {})
                           ELSE Result(IF errors(any) = {} THEN "conforming" ELSE "violations",
                                       ids(any), errors(any), warnings(any))
<1>3. checkProfile(e, rules) = verdict(rules)
  BY DEF checkProfile
<1>4. checkProfile(e, asked) = verdict(asked)
  <2>1. checkProfile(e, asked) =
          LET selected == selectRules(asked, e.name)
              errs == UNION {evaluateRule(e, asked[i]).errors : i \in selected}
              warns == UNION {evaluateRule(e, asked[i]).warnings : i \in selected}
          IN IF e.core = "invalid" THEN Result("core-invalid", {}, {}, {})
             ELSE IF e.core = "uncovered" \/ selected = {} THEN Result("not-applicable", {}, {}, {})
             ELSE Result(IF errs = {} THEN "conforming" ELSE "violations",
                         {asked[i].id : i \in selected}, errs, warns)
    BY DEF checkProfile
  <2> HIDE DEF sel
  <2> QED BY <1>1, <2>1
<1> HIDE DEF sel
<1>5. errors(asked) = errors(rules) /\ warnings(asked) = warnings(rules)
  BY DEF sel
<1>6. ids(asked) = ids(rules)
  BY <1>2
<1> HIDE DEF errors, warnings, ids
<1>7. verdict(asked) = verdict(rules)
  BY <1>5, <1>6
<1> HIDE DEF verdict
<1> QED BY <1>1, <1>3, <1>4, <1>7 DEF sel

(* An event that no rule is asked about.                                   *)
LEMMA NotJudged ==
  ASSUME NEW e \in Events, e.core # "valid", NEW rules, NEW more
  PROVE  checkProfile(e, rules) = checkProfile(e, more)
<1>1. e.core = "invalid" \/ e.core = "uncovered"
  BY ProfileAssumption DEF ProfileAssumption, IsEvent
<1> QED BY <1>1 DEF checkProfile

(* "A requirement that looked enforced and was not" (coverage.ts): rules   *)
(* that were never selected, and what is asked by rules that never         *)
(* applied, can be left out and every result is the same.                  *)
THEOREM UnappliedRulesChangeNothingHolds == Spec => []UnappliedRulesChangeNothing
<1>1. IInv /\ AccountsInv => UnappliedRulesChangeNothing
  <2> DEFINE asked == [i \in DOMAIN profile |->
                         IF coverage.applied[profile[i].id] = 0 THEN Emptied(profile[i])
                         ELSE profile[i]]
             ids == {id \in Ids(profile) : coverage.selected[id] > 0}
  <2> SUFFICES ASSUME IInv, AccountsInv, phase = "done", NEW n \in DOMAIN events
               PROVE  checkProfile(events[n], WithIds(asked, ids)) = results[n]
    BY DEF UnappliedRulesChangeNothing
  <2> DEFINE e == events[n]
  <2>1. /\ e \in Events /\ results[n] = checkProfile(e, profile) /\ profile \in Seq(Rules)
        /\ n \in 1 .. covered
    BY DEF IInv, AccountsInv
  <2>2. CASE e.core # "valid"
    <3> HIDE DEF asked, ids, e
    <3>1. checkProfile(e, WithIds(asked, ids)) = results[n]
      BY <2>1, <2>2, NotJudged
    <3> QED BY <3>1 DEF e
  <2>3. CASE e.core = "valid"
    <3>1. \A i \in selectRules(profile, e.name) :
            /\ coverage.selected[profile[i].id] > 0
            /\ conditionHolds(e, profile[i]) => coverage.applied[profile[i].id] > 0
      BY <2>1, <2>3 DEF AccountsInv, Accounted, RulesAreCounted
    <3> DEFINE S == Rules \cup {Emptied(r) : r \in Rules}
    <3>2. asked \in Seq(S)
      <4>1. DOMAIN profile = 1 .. Len(profile) /\ Len(profile) \in Nat
            /\ \A i \in 1 .. Len(profile) : profile[i] \in Rules
        BY <2>1
      <4>2. \A i \in 1 .. Len(profile) : asked[i] \in S
        BY <4>1
      <4>3. asked \in [1 .. Len(profile) -> S]
        <5>1. asked = [i \in 1 .. Len(profile) |-> asked[i]]
          BY <4>1
        <5> HIDE DEF asked, S
        <5> QED BY <4>2, <5>1
      <4> HIDE DEF asked, S
      <4> QED BY <4>1, <4>3
    <3>3. /\ DOMAIN asked = DOMAIN profile
          /\ \A i \in DOMAIN profile :
               asked[i] = IF coverage.applied[profile[i].id] = 0 THEN Emptied(profile[i])
                          ELSE profile[i]
      OBVIOUS
    <3> HIDE DEF asked, S, e
    <3>4. \A i \in DOMAIN profile : /\ asked[i].id = profile[i].id
                                    /\ asked[i].events = profile[i].events
                                    /\ asked[i].when = profile[i].when
      <4>1. \A i \in DOMAIN profile : /\ Emptied(profile[i]).id = profile[i].id
                                      /\ Emptied(profile[i]).events = profile[i].events
                                      /\ Emptied(profile[i]).when = profile[i].when
        BY DEF Emptied
      <4> QED BY <3>3, <4>1
    <3>5. ASSUME NEW i \in selectRules(profile, e.name)
          PROVE  /\ evaluateRule(e, asked[i]).errors = evaluateRule(e, profile[i]).errors
                 /\ evaluateRule(e, asked[i]).warnings = evaluateRule(e, profile[i]).warnings
      <4>1. i \in DOMAIN profile
        BY DEF selectRules
      <4>2. CASE coverage.applied[profile[i].id] = 0
        <5>1. ~conditionHolds(e, profile[i])
          BY <3>1, <4>2
        <5>2. ~conditionHolds(e, asked[i])
          BY <3>4, <4>1, <5>1 DEF conditionHolds
        <5> QED BY <5>1, <5>2 DEF evaluateRule
      <4>3. CASE coverage.applied[profile[i].id] # 0
        BY <3>3, <4>1, <4>3
      <4> QED BY <4>2, <4>3
    <3>6. selectRules(asked, e.name) = selectRules(profile, e.name)
          /\ checkProfile(e, asked) = checkProfile(e, profile)
      BY <3>3, <3>4, <3>5, EmptiedChangesNothing
    <3>7. ASSUME NEW g \in Governing(asked, e.name) PROVE g.id \in ids
      <4>1. PICK i \in selectRules(profile, e.name) : g = asked[i]
        BY <3>6 DEF Governing
      <4>2. i \in DOMAIN profile /\ profile[i].id \in Ids(profile)
        BY SelectedAreRules
      <4> QED BY <3>1, <3>4, <4>1, <4>2
    <3> HIDE DEF ids
    <3>8. Governing(WithIds(asked, ids), e.name) = Governing(asked, e.name)
      BY <3>2, <3>7, TakenGovern
    <3>9. checkProfile(e, WithIds(asked, ids)) = checkProfile(e, asked)
      BY <3>8, VerdictOfGoverning
    <3>10. checkProfile(e, WithIds(asked, ids)) = results[n]
      BY <2>1, <3>6, <3>9
    <3> QED BY <3>10 DEF e
  <2> QED BY <2>2, <2>3
<1> QED BY <1>1, Invariant, AccountsInvariant, PTL
=============================================================================
