---------------------------- MODULE SchemaIssues ----------------------------
(***************************************************************************)
(* What is said of an event a schema does not accept: the schema of the    *)
(* version it declares is applied (validator-interface.ts), the errors of  *)
(* the schema library become issues (format-errors.ts), and an event of a  *)
(* version that is not implemented is told from a rejected one by its one  *)
(* issue alone.                                                            *)
(***************************************************************************)
EXTENDS Redaction

(* An error: its keyword, the steps to the value it is about, and the      *)
(* property it names, if any (a set of at most one).                       *)
Error(keyword, steps, names) == [keyword |-> keyword, steps |-> steps, names |-> names]

NOT_EVALUATED_KEYWORD == "specVersion-not-implemented"

(* No keyword of the library is the one kept for events of a version that  *)
(* is not implemented, and no property a schema requires has a credential  *)
(* for its name.                                                           *)
IsError(error) ==
  /\ error.keyword # NOT_EVALUATED_KEYWORD
  /\ error.steps \in Seq(Texts \cup Indices)
  /\ error.names \subseteq Texts /\ \A a, b \in error.names : a = b
  /\ error.keyword \in {"required", "dependentRequired"} =>
       \A name \in error.names : ~isCredentialShaped(name)

(* The path of an issue, as it is built.                                   *)
Location(error) ==
  IF error.names = {} THEN error.steps
  ELSE Append(error.steps, CHOOSE name \in error.names : TRUE)

(* The names a message repeats: the schema's own, or one of the event's.   *)
describe(error) ==
  CASE error.keyword \in {"required", "dependentRequired"} -> error.names
    [] error.keyword \in {"additionalProperties", "propertyNames"} ->
         {redactKey(name) : name \in error.names}
    [] OTHER -> {}

(* Identical errors give one issue: what is compared is not yet redacted.  *)
toIssues(errors) ==
  {[keyword |-> error.keyword, of |-> Location(error),
    path |-> redactPointer(Location(error)), quotes |-> describe(error)] : error \in errors}

(* createVersionedValidator: a malformed version is judged by the current  *)
(* schema, whose constant it is not.                                       *)
validateIssues(event) ==
  CASE event.version = "supported" -> toIssues(event.errors)
    [] event.version = "unsupported" ->
         {[keyword |-> NOT_EVALUATED_KEYWORD, of |-> << >>, path |-> << >>, quotes |-> {}]}
    [] event.version = "malformed" ->
         toIssues(event.errors \cup {Error("const", << >>, {})})

(* Slip: an event with nothing but one issue was not evaluated. *)
wasNotEvaluatedAnyway(issues) == Cardinality(issues) = 1

wasNotEvaluated(issues) ==
  /\ Cardinality(issues) = 1
  /\ \A issue \in issues : issue.keyword = NOT_EVALUATED_KEYWORD

(* Everything from the event that a rendered issue repeats.                *)
QuotedByIssues(issues) ==
  UNION {issue.quotes \cup {issue.path[i] : i \in DOMAIN issue.path} : issue \in issues}
=============================================================================
