\* Profiles of up to three rules, over every two events.
CONSTANTS
  Names = {"n1", "n2", "n3"}
  Paths = {"p", "x", "y", "f"}
  Above <- MCAbove
  TypeOf <- MCTypeOf
  Empty = {"nothing", "blank"}
  Absent = "absent"
  Object = "object"
  EmptyObject = "nothing"
  Placeholder = "placeholder"
  No = "no"
  CoreMandatory = {"y"}
  Rules <- SomeRules
  Events <- SomeEvents
  MaxRules = 3
  MaxEvents = 2
SPECIFICATION ToolsSpec
CHECK_DEADLOCK FALSE
INVARIANTS
  VerdictsAndCoverageAgree
  NoRequirementLost
  RulesOnlyAdd
  UnappliedRulesChangeNothing
  TemplateLeavesNothingOut
  GuidanceForetellsFindings
  ContradictionsAreReal
  TemplatesDoNotRemember
