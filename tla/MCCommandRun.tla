---------------------------- MODULE MCCommandRun ----------------------------
(* Small instances of CommandRun, and the events given to validate and to  *)
(* lint-privacy.                                                           *)
EXTENDS CommandRun

MCHas ==
  [plain |-> {}, note |-> {"mark"}, masked |-> {"placeholder", "tokenLike"},
   password |-> {"prohibitedName"}, requestBody |-> {"rawName"},
   token |-> {"prefixed", "tokenLike"}, jwt |-> {"jwt"}, header |-> {"header"},
   pem |-> {"pem"}, random |-> {"tokenLike"}, uuid |-> {"tokenLike", "safe"},
   login |-> {"url", "user"}, signed |-> {"url", "query"},
   dsn |-> {"url", "dataSystem", "user"}, pairs |-> {"pairs", "secretPair"}]

MCTexts == DOMAIN MCHas

Plain ==
  [version |-> "supported", id |-> {"uuid"}, errors |-> {}, bulky |-> {}, strings |-> {},
   evidence |-> {}, values |-> {}]

(* An object of members with a value each, under steps in the metadata.    *)
Members(steps, of) ==
  {Value("/metadata", steps, "object")}
  \cup {Value("/metadata", Append(steps, k), of[k]) : k \in DOMAIN of}

Metadata(values) == [Plain EXCEPT !.values = values]

MCContent ==
  [clean |-> [Metadata(Members(<< >>, [plain |-> "uuid", password |-> "masked"]))
                EXCEPT !.id = {"token"}, !.evidence = {[path |-> "0", value |-> "plain"]}],
   other |-> [Plain EXCEPT !.version = "unsupported", !.id = {"plain"},
                    !.errors = {Error("const", << >>, {})}],
   none |-> [Plain EXCEPT !.version = "malformed", !.id = {}],
   unknown |-> [Plain EXCEPT !.id = {"token"}, !.errors =
                  {Error("additionalProperties", << >>, {"token"}),
                   Error("required", <<"jwt", "0">>, {"plain"})}],
   nested |-> [Plain EXCEPT !.id = {}, !.errors = {Error("type", <<"random", "plain">>, {})}],
   named |-> Metadata(Members(<< >>, [password |-> "number", requestBody |-> "token"])),
   keys |-> [Metadata(Members(<< >>, [token |-> "boolean", jwt |-> "plain"]))
               EXCEPT !.id = {"jwt"}],
   within |-> Metadata(Members(<< >>, [login |-> "object"]) \cup
                       Members(<<"login">>, [plain |-> "dsn"])),
   deep |-> Metadata(Members(<< >>, [plain |-> "array"]) \cup
                     {Value("/metadata", <<"plain", "0">>, "object")} \cup
                     Members(<<"plain", "0">>, [plain |-> "pem"])),
   text |-> [Plain EXCEPT !.strings = {[path |-> "/reason/text", value |-> "pairs"]},
                          !.evidence = {[path |-> "0", value |-> "header"]}],
   link |-> [Plain EXCEPT !.evidence = {[path |-> "0", value |-> "signed"],
                                        [path |-> "1", value |-> "note"]}],
   large |-> [Metadata(Members(<< >>, [plain |-> "null"])) EXCEPT !.bulky = {"/metadata"}]]

MCSamples == DOMAIN MCContent
=============================================================================
