----------------------------- MODULE CommandRun -----------------------------
(***************************************************************************)
(* One run of the command line tool (conformance/src/cli.ts), from its     *)
(* arguments to the exit code of the process.  The work of a command is    *)
(* synchronous; a write to a stream nobody reads any more fails, and that  *)
(* failure is only delivered when the synchronous work is over.            *)
(*                                                                         *)
(* For validate and lint-privacy an event is a sample, and what is said of *)
(* it is what SchemaIssues and PrivacyLint conclude.  For the others what  *)
(* the engines conclude is given: an event passes, it fails, or it is      *)
(* skipped (verify-chain: no chain; check-profile and check-coverage: not  *)
(* governed; verify-proof: no hash to prove).                              *)
(***************************************************************************)
EXTENDS Integers, Sequences, FiniteSets, Functions, PrivacyLint

CONSTANTS
  MaxFiles, MaxEvents,   \* bounds: files given, events in a file
  MaxSampled,            \* bound: events given to validate and lint-privacy
  Samples, Content,      \* the events those may be given: names, and per name an event
  Closable               \* the streams whose reader may go away

Commands == {"validate", "verify-integrity", "verify-chain", "verify-checkpoint",
             "verify-proof", "lint-privacy", "check-profile", "check-coverage"}

(* streamInput judges events as they arrive, loadInput takes them all first. *)
Collects == {"verify-checkpoint", "verify-proof", "check-coverage"}
Formats == {"verify-checkpoint", "verify-proof", "lint-privacy", "check-profile",
            "check-coverage"}
Compares == {"verify-checkpoint", "verify-proof"}

Streams == {"stdout", "stderr"}
Verdicts == {"pass", "fail", "skip"}

ASSUME CommandRunAssumption ==
  /\ MaxFiles \in Nat /\ MaxEvents \in Nat /\ MaxSampled \in Nat
  /\ \A s \in Samples : IsEvent(Content[s])
  /\ Closable \subseteq Streams

VARIABLES
  call,      \* the arguments, and what they refer to: fixed for the run
  phase,     \* called, reading, judging, reporting, returned, exited
  file,      \* files read to their end or to their failure
  taken,     \* events taken from the file being read
  tally,     \* per verdict, the events so far
  noted,     \* whether lint-privacy has findings to report
  shown,     \* strings of the events that the output repeats, and where
  failures,  \* files that could not be read to their end
  code,      \* what run() returned, 0 until then
  exit,      \* the exit code of the process, -1 while it runs
  readers,   \* the streams somebody still reads
  lost       \* the stream a write has failed on first, or none

vars == <<call, phase, file, taken, tally, noted, shown, failures, code, exit, readers, lost>>
readVars == <<file, taken, tally, noted, failures>>

Sampled == {"validate", "lint-privacy"}

(* A file is the events read from it, and whether reading it then failed.  *)
FilesOf(events) ==
  [events : UNION {[1 .. n -> events] : n \in 0 .. MaxEvents}, fails : BOOLEAN]

Listed(files) == UNION {[1 .. n -> files] : n \in 0 .. MaxFiles}

Inputs(command) ==
  IF command \notin Sampled THEN Listed(FilesOf(Verdicts))
  ELSE {fs \in Listed(FilesOf(Samples)) :
          FoldFunction(LAMBDA f, n : n + Len(f.events), 0, fs) <= MaxSampled}

(* arguments: "bad" for a flag the command refuses, an option it lacks, a  *)
(* profile or key that cannot be loaded; "absent" for a path that does not *)
(* exist.  document: the checkpoint or the proof.                          *)
Calls(command) ==
  {c \in [command : {command},
          arguments : {"good", "bad", "absent"},
          json : BOOLEAN, quiet : BOOLEAN,
          files : Inputs(command),
          document : {"unreadable", "invalid", "silent", "agrees", "disagrees"}] :
     /\ c.json => c.command \in Formats
     /\ c.arguments # "good" => c.files = << >>
     /\ c.command \notin Compares => c.document = "agrees"
     /\ c.command = "verify-proof" => c.document # "silent"}

Init ==
  /\ \E command \in Commands : call \in Calls(command)
  /\ phase = "called"
  /\ file = 0 /\ taken = 0 /\ failures = 0
  /\ tally = [v \in Verdicts |-> 0] /\ noted = FALSE /\ shown = {}
  /\ code = 0 /\ exit = -1
  /\ readers = Streams /\ lost = "none"

Total == tally["pass"] + tally["fail"] + tally["skip"]

(* write, writeError: where both are written to, standard output is first. *)
Write(streams) ==
  lost' = IF lost # "none" THEN lost
          ELSE IF "stdout" \in streams \ readers THEN "stdout"
          ELSE IF "stderr" \in streams \ readers THEN "stderr" ELSE "none"

Return(value) == phase' = "returned" /\ code' = value

(* An error message, and exit code 2. *)
Refuse == Write({"stderr"}) /\ Return(2)

-----------------------------------------------------------------------------
(* run: the arguments; then the paths, all of them before any is read.     *)
Begin ==
  /\ phase = "called"
  /\ IF call.arguments # "good" \/ call.files = << >>
     THEN Refuse
     ELSE phase' = "reading" /\ UNCHANGED <<code, lost>>
  /\ UNCHANGED <<call, readVars, shown, exit, readers>>

Reading == phase = "reading" /\ file < Len(call.files)
Current == call.files[file + 1]

(* What is written while events are read: nothing by a command that only   *)
(* reports at the end, and a passing event only when not quiet.            *)
Speaks(verdict) ==
  /\ ~call.json /\ call.command \notin Collects
  /\ \/ ~call.quiet /\ (call.command # "verify-chain" \/ Total + failures = 0)
     \/ /\ call.command # "verify-chain"
        /\ verdict = "fail" \/ (verdict = "skip" /\ call.command # "check-profile")

(* What the command makes of an event.  A sample is looked at once here,   *)
(* and every time it is given the conclusion is the same.                  *)
Issues == [s \in Samples |-> validateIssues(Content[s])]
Linted == [s \in Samples |-> lintEvent(Content[s])]

Outcome(event) ==
  CASE call.command = "validate" ->
         IF Issues[event] = {} THEN "pass"
         ELSE IF wasNotEvaluated(Issues[event]) THEN "skip" ELSE "fail"
    [] call.command = "lint-privacy" ->
         (CASE Linted[event].status = "clean" -> "pass"
            [] Linted[event].status = "findings" -> "fail"
            [] Linted[event].status = "schema-invalid" -> "skip")
    [] OTHER -> event

Noted(event) == call.command = "lint-privacy" /\ Linted[event].findings # {}

Quoted(event) ==
  CASE call.command = "validate" -> Quotes("issue", QuotedByIssues(Issues[event]))
    [] call.command = "lint-privacy" -> QuotedByLint(Linted[event], call.json)
    [] OTHER -> {}

(* Slip: an event counted by the stream and by the command. *)
TakeEventTwice ==
  /\ Reading /\ taken < Len(Current.events)
  /\ tally' = [tally EXCEPT ![Outcome(Current.events[taken + 1])] = @ + 2]
  /\ taken' = taken + 1
  /\ UNCHANGED <<call, phase, file, noted, shown, failures, code, exit, readers, lost>>

TakeEvent ==
  /\ Reading /\ taken < Len(Current.events)
  /\ LET event == Current.events[taken + 1]
         outcome == Outcome(event)
     IN /\ tally' = [tally EXCEPT ![outcome] = @ + 1]
        /\ noted' = (noted \/ Noted(event))
        /\ shown' = shown \cup Quoted(event)
        /\ IF Speaks(outcome) THEN Write({"stdout"}) ELSE UNCHANGED lost
  /\ taken' = taken + 1
  /\ UNCHANGED <<call, phase, file, failures, code, exit, readers>>

(* Slip: a file that stops early is skipped and not counted. *)
EndOfFileUncounted ==
  /\ Reading /\ taken = Len(Current.events)
  /\ file' = file + 1 /\ taken' = 0
  /\ IF Current.fails /\ ~call.json /\ call.command \notin Collects
     THEN Write({"stdout"})
     ELSE UNCHANGED lost
  /\ UNCHANGED <<call, phase, tally, noted, shown, failures, code, exit, readers>>

EndOfFile ==
  /\ Reading /\ taken = Len(Current.events)
  /\ file' = file + 1 /\ taken' = 0
  /\ failures' = IF Current.fails THEN failures + 1 ELSE failures
  /\ IF Current.fails /\ ~call.json /\ call.command \notin Collects
     THEN Write({"stdout"})
     ELSE UNCHANGED lost
  /\ UNCHANGED <<call, phase, tally, noted, shown, code, exit, readers>>

(* The schemas cannot be compiled, or judging an event throws: streamInput *)
(* and the entry point both turn it into an error.                         *)
Throw ==
  /\ phase \in {"reading", "judging"}
  /\ Refuse
  /\ UNCHANGED <<call, readVars, shown, exit, readers>>

EndOfInput ==
  /\ phase = "reading" /\ file = Len(call.files)
  /\ IF Total + failures = 0 THEN Refuse
     ELSE /\ phase' = "judging" /\ UNCHANGED code
          /\ IF call.command \in Collects /\ ~call.json /\ ~call.quiet
             THEN Write({"stdout"})
             ELSE UNCHANGED lost
  /\ UNCHANGED <<call, readVars, shown, exit, readers>>

(* The two commands that compare with a document make no comparison with   *)
(* an archive that could not be read in full.                              *)
NothingToCompare ==
  /\ call.command \in Compares
  /\ \/ failures > 0
     \/ call.command = "verify-proof" /\ Total # 1
     \/ call.document = "unreadable"

Judge ==
  /\ phase = "judging"
  /\ IF NothingToCompare
     THEN /\ Return(2)
          /\ Write(IF failures = 0 THEN {"stderr"}
                   ELSE IF call.command = "verify-proof" THEN {"stdout"}
                   ELSE {"stdout", "stderr"})
     ELSE phase' = "reporting" /\ Write({"stdout"}) /\ UNCHANGED code
  /\ UNCHANGED <<call, readVars, shown, exit, readers>>

(* The verdict of each command over input that was read in full. *)
runValidate == IF tally["fail"] > 0 THEN 1 ELSE IF tally["skip"] > 0 THEN 3 ELSE 0

runVerifyIntegrity == IF tally["fail"] + tally["skip"] > 0 THEN 1 ELSE 0

runVerifyChain ==
  IF tally["skip"] = Total THEN 3 ELSE IF tally["fail"] + tally["skip"] > 0 THEN 1 ELSE 0

runVerifyCheckpoint ==
  IF call.document = "silent" \/ tally["skip"] = Total THEN 3
  ELSE IF call.document = "agrees" /\ tally["pass"] = Total THEN 0 ELSE 1

runVerifyProof ==
  IF call.document = "disagrees" \/ tally["fail"] > 0 THEN 1
  ELSE IF tally["skip"] > 0 THEN 3 ELSE 0

(* Findings win over an event that was not looked at.                      *)
runLintPrivacy == IF noted THEN 1 ELSE IF tally["skip"] > 0 THEN 3 ELSE 0

runCheckProfile == IF tally["fail"] > 0 THEN 1 ELSE IF tally["pass"] = 0 THEN 3 ELSE 0

runCheckCoverage == IF tally["pass"] + tally["fail"] = 0 THEN 3 ELSE 0

Verdict ==
  IF failures > 0 \/ call.document = "invalid" THEN 2
  ELSE CASE call.command = "validate" -> runValidate
       [] call.command = "verify-integrity" -> runVerifyIntegrity
       [] call.command = "verify-chain" -> runVerifyChain
       [] call.command = "verify-checkpoint" -> runVerifyCheckpoint
       [] call.command = "verify-proof" -> runVerifyProof
       [] call.command = "lint-privacy" -> runLintPrivacy
       [] call.command = "check-profile" -> runCheckProfile
       [] call.command = "check-coverage" -> runCheckCoverage

(* The commands that say why there is no verdict. *)
Explains == {"validate", "verify-chain", "verify-checkpoint", "verify-proof"}

Report ==
  /\ phase = "reporting"
  /\ Return(Verdict)
  /\ IF Verdict = 3 /\ call.command \in Explains THEN Write({"stderr"}) ELSE UNCHANGED lost
  /\ UNCHANGED <<call, readVars, shown, exit, readers>>

(* Slip: nobody listens for errors of the standard output. *)
ExitUnheard ==
  /\ phase = "returned"
  /\ phase' = "exited"
  /\ exit' = IF lost = "none" THEN code ELSE 1
  /\ UNCHANGED <<call, readVars, shown, code, readers, lost>>

(* The event loop delivers the first error event: the handler for the      *)
(* standard output exits with 2, an error event nobody listens for is an   *)
(* uncaught exception, and the process exits with 1.                       *)
Exit ==
  /\ phase = "returned"
  /\ phase' = "exited"
  /\ exit' = IF lost = "none" THEN code ELSE IF lost = "stdout" THEN 2 ELSE 1
  /\ UNCHANGED <<call, readVars, shown, code, readers, lost>>

(* Whoever reads the output stops reading it. *)
CloseReader ==
  /\ phase # "exited"
  /\ \E s \in Closable \cap readers : readers' = readers \ {s}
  /\ UNCHANGED <<call, phase, readVars, shown, code, exit, lost>>

Proceed ==
  \/ Begin \/ TakeEvent \/ EndOfFile \/ EndOfInput \/ Judge \/ Report \/ Exit

Next == Proceed \/ Throw \/ CloseReader

Spec == Init /\ [][Next]_vars

-----------------------------------------------------------------------------
(***************************************************************************)
(* Properties, over the arguments and the files, never over what the run   *)
(* kept of them.                                                           *)
(***************************************************************************)
TypeOK ==
  /\ phase \in {"called", "reading", "judging", "reporting", "returned", "exited"}
  /\ file \in 0 .. Len(call.files)
  /\ taken \in 0 .. MaxEvents
  /\ tally \in [Verdicts -> 0 .. MaxFiles * MaxEvents]
  /\ noted \in BOOLEAN
  /\ shown \subseteq [where : {"issue", "finding", "eventId"},
                      text : Texts \cup Indices \cup {Redacted}]
  /\ failures \in 0 .. file
  /\ code \in 0 .. 3 /\ exit \in -1 .. 3
  /\ readers \subseteq Streams /\ lost \in Streams \cup {"none"}

Given == DOMAIN call.files

(* What an event deserves: for validate by its version and the errors of   *)
(* the schema, not by the issues they became.                              *)
Deserves(event) ==
  IF call.command # "validate" THEN Outcome(event)
  ELSE IF Content[event].version = "unsupported" THEN "skip"
  ELSE IF Content[event].version = "supported" /\ Content[event].errors = {} THEN "pass"
  ELSE "fail"

All(verdicts) ==
  \A f \in Given : \A e \in DOMAIN call.files[f].events :
    Deserves(call.files[f].events[e]) \in verdicts
Some(verdicts) == ~All(Verdicts \ verdicts)

(* README.md:102: a verdict was produced and it passed.  Every file was    *)
(* read to its end, at least one event was judged and none of them failed, *)
(* a document compared with agrees, and nobody missed a line of output.    *)
(* check-coverage judges nothing: it reports what it reached.              *)
ZeroIsEarned ==
  exit = 0 =>
    /\ call.arguments = "good" /\ call.document = "agrees" /\ lost = "none"
    /\ \A f \in Given : ~call.files[f].fails
    /\ IF call.command = "check-coverage" THEN Some({"pass", "fail"}) ELSE Some({"pass"})
    /\ call.command \notin {"check-profile", "check-coverage"} => All({"pass"})
    /\ call.command = "check-profile" => All({"pass", "skip"})

VerdictFailed ==
  /\ call.arguments = "good"
  /\ \A f \in Given : ~call.files[f].fails
  /\ Some({"fail", "skip"}) \/ call.document = "disagrees"

(* README.md:103: a verdict was produced and it failed.  Every file was    *)
(* read, and some event did not pass or the document disagrees; this much  *)
(* holds while somebody reads the standard error, whatever happens to the  *)
(* standard output (cli.ts:1751).                                          *)
OneMeansFailed == exit = 1 /\ "stderr" \in readers => VerdictFailed

(* The sentence as it stands, whoever reads what.                          *)
OneAlwaysMeansFailed == exit = 1 => VerdictFailed

(* README.md:105: no verdict was produced.  No file was left unread and no *)
(* failure is hidden behind the events that were not evaluated.            *)
ThreeHidesNothing ==
  exit = 3 =>
    /\ call.arguments = "good" /\ lost = "none"
    /\ \A f \in Given : ~call.files[f].fails
    /\ Some({"skip"}) \/ call.document = "silent"
    /\ call.command # "verify-checkpoint" => All({"pass", "skip"})

(* Exit 0 of lint-privacy: every event given was an event and was looked   *)
(* at, and there is no exposure in it, at any depth and under any name,    *)
(* whatever was passed over by the traversal (traverse.ts:43).             *)
CleanMeansNothingExposed ==
  exit = 0 /\ call.command = "lint-privacy" =>
    \A f \in Given : \A i \in DOMAIN call.files[f].events :
      LET e == Content[call.files[f].events[i]] IN
      /\ e.version = "supported" /\ e.errors = {}
      /\ \A n \in e.values : ~Telling(e, n)
      /\ \A s \in e.strings \cup e.evidence : ~isCredentialShaped(s.value)

(* "A finding never carries the value that produced it; a key is where     *)
(* that promise leaked" (redact-key.ts:8): no path and no message of a     *)
(* finding or of a schema issue, of either command, repeats a string with  *)
(* the form of a credential, wherever it stood.  What can have that form   *)
(* is the event's own id, and only in the JSON report (cli.ts:1217): it is *)
(* neither scanned nor redacted.                                           *)
OnlyAnIdRepeatsASecret ==
  \A q \in shown :
    q.text \in Texts /\ isCredentialShaped(q.text) => q.where = "eventId" /\ call.json
=============================================================================
