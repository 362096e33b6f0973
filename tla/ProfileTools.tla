---------------------------- MODULE ProfileTools ----------------------------
(***************************************************************************)
(* What is derived from a profile besides verdicts: the lint of a profile  *)
(* definition (conformance/tools/lint-profiles.ts), and two tools of the   *)
(* MCP server (mcp/src/register-tools.ts) that answer from the rules for a *)
(* name, the template of an event and the guidance for one.                *)
(*                                                                         *)
(* The server lives on between calls, and so does the one empty object it  *)
(* puts in templates wherever an object is required: what is written into  *)
(* it for one template is in it for the next.                              *)
(***************************************************************************)
EXTENDS ProfileEngine

CONSTANTS
  EmptyObject, Placeholder, No,   \* the values {}, a placeholder and false
  CoreMandatory                   \* paths the core schema is taken to guarantee

ASSUME ToolsAssumption ==
  /\ EmptyObject \in Empty /\ TypeOf[EmptyObject] = "object"
  /\ Placeholder \in Values \ Empty /\ No \in Values \ Empty
  /\ CoreMandatory \subseteq Paths
  /\ \A p \in Paths : Cardinality(Above[p]) <= 1

VARIABLE kept   \* paths written into the empty object of PLACEHOLDER_BY_TYPE

toolVars == <<vars, kept>>

-----------------------------------------------------------------------------
(* lintProfile.  The checks of selectors (006, 007) and of the form of a   *)
(* path (003) are left out.                                                *)

Duplicated(rules) ==
  {rules[i].id : i \in {k \in DOMAIN rules : \E n \in 1 .. k - 1 : rules[n].id = rules[k].id}}

statesSomething(r) ==
  r.required # << >> \/ r.metadata # << >> \/ r.values # << >> \/ r.recommended # << >>

IsBlank(value) == value \in Empty /\ TypeOf[value] \notin {"object", "array"}

(* Slip: a value required twice contradicts itself. *)
ContradictsOften(r) ==
  \/ \E i, k \in DOMAIN r.values : i = k /\ r.values[i].path = r.values[k].path
  \/ \E v \in ToSet(r.values) : v.path \in ToSet(r.required) /\ IsBlank(v.equals)

Contradicts(r) ==
  \/ \E v, w \in ToSet(r.values) : v.path = w.path /\ v.equals # w.equals
  \/ \E v \in ToSet(r.values) : v.path \in ToSet(r.required) /\ IsBlank(v.equals)
  \/ \E v \in ToSet(r.values), m \in ToSet(r.metadata) :
       m.path = v.path /\ ~matchesMetadataType(v.equals, m.type)

requiredPointers(r) ==
  ToSet(r.required) \cup {m.path : m \in ToSet(r.metadata)} \cup {v.path : v \in ToSet(r.values)}

Unguarded(rules) ==
  LET guaranteed == UNION {requiredPointers(r) : r \in {q \in ToSet(rules) : q.when = {}}}
  IN {r \in ToSet(rules) : \E c \in r.when : c.path \notin guaranteed \cup CoreMandatory}

LintFinding(check, severity, id) == [check |-> check, severity |-> severity, id |-> id]

lintProfile(rules) ==
       {LintFinding("PROFILE-LINT-001", "error", id) : id \in Duplicated(rules)}
  \cup {LintFinding("PROFILE-LINT-002", "error", r.id) :
          r \in {q \in ToSet(rules) : ~statesSomething(q)}}
  \cup {LintFinding("PROFILE-LINT-004", "error", r.id) :
          r \in {q \in ToSet(rules) : Contradicts(q)}}
  \cup {LintFinding("PROFILE-LINT-005", "warning", r.id) : r \in Unguarded(rules)}

-----------------------------------------------------------------------------
(* generate_event_template. *)

PLACEHOLDER_BY_TYPE(type) ==
  CASE type = "object" -> EmptyObject [] type = "boolean" -> No [] OTHER -> Placeholder

Governing(rules, name) == {rules[i] : i \in selectRules(rules, name)}

Set(path, value) == [path |-> path, value |-> value]

(* What a rule sets, in the order it is set. *)
Assignments(r, recommended) ==
     [i \in DOMAIN r.required |-> Set(r.required[i], Placeholder)]
  \o [i \in DOMAIN r.metadata |->
        Set(r.metadata[i].path, PLACEHOLDER_BY_TYPE(r.metadata[i].type))]
  \o [i \in DOMAIN r.values |-> Set(r.values[i].path, r.values[i].equals)]
  \o (IF recommended THEN [i \in DOMAIN r.recommended |-> Set(r.recommended[i], Placeholder)]
      ELSE << >>)

(* A template under construction: the value at each path, the paths that   *)
(* hold the shared object, and what has been written into that.            *)
Blank(shared) == [at |-> [p \in Paths |-> Absent], holding |-> {}, shared |-> shared]

Within(p) == {q \in Paths : p \in Above[q]}

IsContainer(value) == value # Absent /\ TypeOf[value] = "object"

(* Slip: a value on the way is left where it is. *)
setPointerAround(t, a) ==
  IF \E p \in Above[a.path] : t.at[p] # Absent /\ ~IsContainer(t.at[p]) THEN t
  ELSE [t EXCEPT !.at = [p \in Paths |->
          IF p = a.path /\ t.at[p] = Absent THEN a.value
          ELSE IF p \in Above[a.path] THEN Object ELSE t.at[p]]]

(* Slip: a container put on the way is the one kept between calls. *)
setPointerSharing(t, a) ==
  LET new == t.at[a.path] = Absent
      entered == {p \in Above[a.path] : ~IsContainer(t.at[p])}
  IN [t EXCEPT !.at = [p \in Paths |->
                 IF p = a.path /\ new THEN a.value
                 ELSE IF p \in Above[a.path] THEN Object
                 ELSE IF p \in t.shared /\ Above[p] \cap entered # {} THEN Placeholder
                 ELSE t.at[p]],
               !.shared = @ \cup {p \in {a.path} : new /\ Above[p] # {}}]

(* A value on the way that is no object is replaced by one, and a value    *)
(* that is there at the end of the way is left alone.                      *)
setPointer(t, a) ==
  LET replaced == {p \in Above[a.path] : ~IsContainer(t.at[p])}
      new == t.at[a.path] = Absent
      inShared == new /\ Above[a.path] \cap t.holding # {}
      isShared == new /\ a.value = EmptyObject
  IN [at |-> [p \in Paths |->
        IF p = a.path /\ new
        THEN IF isShared /\ t.shared # {} THEN Object ELSE a.value
        ELSE IF p \in Above[a.path] THEN Object
        ELSE IF isShared /\ p \in Within(a.path) \cap t.shared THEN Placeholder
        ELSE t.at[p]],
      holding |-> (t.holding \ replaced) \cup {p \in {a.path} : isShared},
      shared |-> t.shared \cup {p \in {a.path} : inShared}]

setPointers(t, assignments) ==
  LET after[n \in 0 .. Len(assignments)] ==
        IF n = 0 THEN t ELSE setPointer(after[n - 1], assignments[n])
  IN after[Len(assignments)]

generate_event_template(rules, name, recommended, shared) ==
  LET selected == selectRules(rules, name)
      after[n \in 0 .. Len(rules)] ==
        IF n = 0 THEN Blank(shared)
        ELSE IF n \in selected THEN setPointers(after[n - 1], Assignments(rules[n], recommended))
        ELSE after[n - 1]
  IN after[Len(rules)]

-----------------------------------------------------------------------------
(* get_event_guidance. *)

PathsOf(list) == {list[i].path : i \in DOMAIN list}

(* Slip: a condition is told with what it makes present, not what it fixes. *)
get_event_guidanceOfPaths(rules, name) ==
  LET governing == Governing(rules, name)
  IN [required |-> UNION {ToSet(r.required) \cup PathsOf(r.metadata) :
                            r \in {q \in governing : q.when = {}}},
      recommended |-> UNION {ToSet(r.recommended) : r \in governing},
      conditional |-> {[id |-> r.id, condition |-> r.when,
                        requires |-> ToSet(r.required) \cup PathsOf(r.metadata)] :
                         r \in {q \in governing : q.when # {}}}]

get_event_guidance(rules, name) ==
  LET governing == Governing(rules, name)
  IN [required |-> UNION {ToSet(r.required) \cup PathsOf(r.metadata) :
                            r \in {q \in governing : q.when = {}}},
      recommended |-> UNION {ToSet(r.recommended) : r \in governing},
      conditional |-> {[id |-> r.id, condition |-> r.when,
                        requires |-> ToSet(r.required) \cup PathsOf(r.metadata)
                                     \cup PathsOf(r.values)] :
                         r \in {q \in governing : q.when # {}}}]

-----------------------------------------------------------------------------
ToolsInit == Init /\ kept = {}

(* A template is asked for.  Bound: before any event is checked.           *)
GenerateTemplate ==
  /\ phase = "checking" /\ events = << >>
  /\ \E name \in Names, recommended \in BOOLEAN :
       kept' = generate_event_template(profile, name, recommended, kept).shared
  /\ UNCHANGED vars

ToolsNext == (Next /\ UNCHANGED kept) \/ GenerateTemplate

ToolsSpec == ToolsInit /\ [][ToolsNext]_toolVars

-----------------------------------------------------------------------------
(***************************************************************************)
(* Properties.                                                             *)
(***************************************************************************)

(* A template has a value, or a placeholder for one, at every path a rule  *)
(* for the name requires, and if so asked at every path one recommends,    *)
(* although a path may lead through the value of another, whatever order   *)
(* the rules and their lists are in, and whatever was asked for before.    *)
TemplateLeavesNothingOut ==
  events = << >> =>
    \A name \in Names, recommended \in BOOLEAN :
      LET at == generate_event_template(profile, name, recommended, kept).at
      IN \A r \in Governing(profile, name) :
           \A p \in requiredPointers(r) \cup IF recommended THEN ToSet(r.recommended) ELSE {} :
             at[p] # Absent

(* "Explain what an event name requires" (register-tools.ts:664): whatever *)
(* check-profile holds against an event was in the guidance for its name,  *)
(* under its rule and condition if it has one.  A value that is required   *)
(* without a condition is not: the guidance has no place for it.           *)
GuidanceForetellsFindings ==
  phase = "checking" =>
    \A n \in DOMAIN events :
      LET guidance == get_event_guidance(profile, events[n].name)
      IN \A f \in results[n].errors \cup results[n].warnings :
           \/ f.path \in guidance.required \cup guidance.recommended
           \/ \E c \in guidance.conditional :
                /\ f.ruleId = c.id /\ f.path \in c.requires
                /\ \A condition \in c.condition : events[n].at[condition.path] = condition.equals
           \/ f.what = "valued" /\ \E r \in ToSet(profile) : r.id = f.ruleId /\ r.when = {}

(* "An error finding is one that changes a verdict" (lint-profiles.ts:26)  *)
(* and a contradiction is one "which no event can satisfy": no value of    *)
(* the paths meets a rule the lint says contradicts itself.                *)
ContradictionsAreReal ==
  events = << >> =>
    \A r \in ToSet(profile) :
      LintFinding("PROFILE-LINT-004", "error", r.id) \in lintProfile(<< r >>) =>
        \A at \in [Paths -> Values \cup {Absent}] : Unmet([at |-> at], r) # {}

(* Templates do not depend on those asked for before, as long as no rule   *)
(* asks for a member of metadata that some rule requires to be an object:  *)
(* that object is the one kept between calls.                              *)
ObjectMetadata(rules) ==
  {p \in Paths : \E r \in ToSet(rules) : \E i \in DOMAIN r.metadata :
     r.metadata[i] = [path |-> p, type |-> "object"]}

TemplatesDoNotRemember ==
  (\A r \in ToSet(profile) : \A p \in requiredPointers(r) \cup ToSet(r.recommended) :
     Above[p] \cap ObjectMetadata(profile) = {}) =>
    \A name \in Names, recommended \in BOOLEAN :
      generate_event_template(profile, name, recommended, kept).at =
        generate_event_template(profile, name, recommended, {}).at
=============================================================================
