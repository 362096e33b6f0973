--------------------------- MODULE MCProfileEngine ---------------------------
(* Small instances of ProfileEngine and ProfileTools: names n1 and n2 are  *)
(* in the vocabulary of the rules and n3 is not; x and y are members of p, *)
(* and f is a flag the rules can depend on.                                         *)
EXTENDS ProfileTools

MCAbove == [p |-> {}, x |-> {"p"}, y |-> {"p"}, f |-> {}]

MCTypeOf ==
  [object |-> "object", nothing |-> "object", blank |-> "string", text |-> "string",
   placeholder |-> "string", yes |-> "boolean", no |-> "boolean"]

Rule(id, names, when, severity) ==
  [id |-> id, events |-> names, when |-> when, severity |-> severity,
   required |-> << >>, metadata |-> << >>, values |-> << >>, recommended |-> << >>]

Flagged == {[path |-> "f", equals |-> "yes"]}
Typed(path, type) == [path |-> path, type |-> type]
Valued(path, value) == [path |-> path, equals |-> value]

(* Two of them share an id, which lint-profiles refuses and the loader     *)
(* does not, and no event satisfies the last.                              *)
SomeRules ==
  {[Rule("a", {"n1"}, {}, "error") EXCEPT !.required = <<"x", "p">>],
   [Rule("a", {"n2"}, Flagged, "error") EXCEPT !.required = <<"p">>, !.recommended = <<"x">>],
   [Rule("b", {"n1", "n2"}, Flagged, "error") EXCEPT !.values = <<Valued("p", "text")>>],
   [Rule("c", {"n2"}, {}, "warning") EXCEPT !.required = <<"f">>,
                                            !.metadata = <<Typed("p", "object")>>],
   [Rule("d", {"n1", "n2"}, {}, "error") EXCEPT !.metadata = <<Typed("f", "boolean")>>,
                                                !.recommended = <<"y">>],
   [Rule("e", {"n2"}, Flagged, "error") EXCEPT !.required = <<"p">>,
                                               !.values = <<Valued("p", "blank")>>]}

At(p, x, f) == [p |-> p, x |-> x, y |-> "absent", f |-> f]

Event(core, name, at) == [core |-> core, name |-> name, at |-> at]

SomeEvents ==
       {Event("valid", n, At(p, "absent", f)) :
          n \in {"n1", "n2"}, p \in {"absent", "text"}, f \in {"absent", "yes"}}
  \cup {Event("valid", n, At("object", "text", f)) : n \in {"n1", "n2"}, f \in {"text", "yes"}}
  \cup {Event("valid", "n2", At("blank", "absent", "yes")),
        Event("valid", "n3", At("text", "absent", "yes"))}
  \cup {Event(c, "n1", At("absent", "absent", "absent")) : c \in {"invalid", "uncovered"}}
=============================================================================
