# A verification project for OpenAuditModel

TLA+ models of the program kept in this repository, the TLC runs that check
them on small instances, and theorems about them that the TLAPS proof system
checks for every instance. Paths such as `conformance/src/cli.ts` are relative
to the root of the source tree.

Contents: [1 The system](#1-the-system) ·
[2 The modules](#2-the-modules) · [3 The runs](#3-the-runs) ·
[4 Fairness](#4-fairness) · [5 The proofs](#5-the-proofs) ·
[6 Disagreements found](#6-disagreements-found) ·
[7 What is not modelled](#7-what-is-not-modelled) · [8 Plan](#8-plan) ·
[9 Running it](#9-running-it)

## 1 The system

OpenAuditModel is a schema for audit events, a specification of how events are
sealed (digest, hash chain, signature, Merkle tree), a command line that
judges files of events (`conformance/`), an MCP server that offers the same
judgements to a language model over HTTP (`mcp/`), and a site that publishes
schemas, profiles and archived profile versions (`scripts/`, `deploy/`).

Nothing in it is a database: the state that matters is what a *run* carries
from the first event to the exit code, what the server carries between two
`await`s, and what the archive of published profiles carries over years.

### 1.1 Components

| component | state it keeps | operations | correct when |
|---|---|---|---|
| Event digest (`integrity/verify-event.ts`, `digest.ts`) | none | `calculateEventDigest`, `verifyEventIntegrity` | one preimage per digest; the first failed check is the finding |
| Chain verification (`integrity/verify-chain.ts`) | an intake: groups by `chainId`, unassigned events; per chain findings and notes | `addChainEvent`, `finishChains` (ordering, link walk), `chainExitCode` | an intact chain is a contiguous stretch of what was sealed; the answer does not depend on reading order |
| Checkpoint comparison (`integrity/verify-checkpoint.ts`) | per claim a status and findings | `verifyCheckpoint`, `compareClaim` | agreement authenticates the archive up to the recorded heads; nothing present is reported deleted; an undamaged archive agrees |
| Inclusion proofs (`integrity/merkle.ts`, `verify-proof.ts`) | none | `merkleRoot`, `auditPath`, `rootFromPath`, `expectedSides`, `verifyProof` | what verifies is a member, and the leaf at its index; every leaf can be proven |
| Reading of files (`sources.ts`) | a descriptor, a decoder's held bytes, a pending line, a line number | `streamEvents`, `streamFile`, `readLines`, `readDocument` | chunking leaves no trace; bounded memory; the descriptor is given back |
| Command line (`cli.ts`) | counters, `unread` files, the exit code, two output streams | eight commands | an exit code means what `README.md` says it means; no path and no message of a report repeats a credential |
| MCP HTTP boundary (`mcp/src/http-server.ts`) | per connection a handler awaiting a body or the adapter | `createHttpApplication`, `readBody` | one answer and one log line per request; only calls reach the adapter |
| MCP process (`mcp/src/index.ts`) | server, grace timer | start, signal, shutdown | ends within a bound; does not cut what can finish |
| Profile engine (`profiles/`) | a tally, coverage counters | `selectRules`, `evaluateRule`, `checkProfile`, `addToProfileTally`, `summariseCoverage` | verdicts and coverage tell one story; no requirement is lost; rules only add |
| Lint of profiles (`conformance/tools/lint-profiles.ts`) | none | `lintProfile` | what is called a contradiction is one |
| Templates and guidance (`mcp/src/register-tools.ts`) | one object shared by all templates | `generate_event_template`, `get_event_guidance` | nothing required is left out; calls do not influence each other; findings are foretold |
| Profile archive (`conformance/tools/archive-profile-versions.ts`) | snapshots on disk | `writeArchive`, `archiveProblems` (`--check`) | a published version never changes and declares its own version |
| Resource manifest and release (`mcp/scripts/generate-resource-manifest.mjs`, `mcp/src/engines.ts`) | the catalogue's versions, the generated manifest, what released servers enforce | generate, `--check`, release, `bundledProfiles` | one version is one document, in the archive and in every release |
| Profile loading (`profiles/load-profile.ts`, `validate-profile-definition.ts`) | none | `loadProfile` | refuses what the schema of profiles refuses |
| Schema validation, version dispatch (`validate.ts`, `validator-interface.ts`, `format-errors.ts`) | compiled schemas | `validateEvent`, `createVersionedValidator`, `toIssues`, `wasNotEvaluated` | a version is held to its own schema; an unknown one is *not evaluated*, not *failed*; an issue repeats no credential |
| Signatures (`integrity/signature.ts`) | keys given on the command line | `verifySignature` | what verifies was signed by the key's holder over what the verdict is about; a declared signature is never passed over |
| Canonicalization (`integrity/canonicalize.ts`) | none | `canonicalize` | one byte string per JSON value |
| Privacy linter (`privacy/`) | none | `lintEvent`, `traverse`, `profileValue`, `redactPointer` | an exposure at any depth is reported, and no finding quotes it |
| MCP tools (`mcp/src/register-tools.ts`, `output-safety.ts`) | none | ten tools | bounded input and output |
| Other generators, site, packaging, deployment | files | build steps | outside this project |

### 1.2 How they interact

```
 files ──► sources.ts ──► cli.ts command ──► engine (validate, integrity,        ──► exit code,
           LineReader      CommandRun          chain, checkpoint, proof,               two streams
                                               profile, privacy)
 HTTP ──► http-server.ts ──► SDK adapter ──► register-tools.ts ──► the same engines
          HttpBoundary        (external)
 profiles/*/profile.json ──► archive-profile-versions.ts ──► profiles/*/<version>/ ──► published site
                             ProfileArchive               │
                                                          ▼
                     generate-resource-manifest.mjs ──► manifest ──► released server
                                    Publication
```

* `cli.ts` pulls events out of a generator of `sources.ts` inside a generator
  of its own; a thrown error, a `break` or the end of the file each unwind both.
* The commands that need all events (`verify-checkpoint`, `verify-proof`,
  `check-coverage`) collect them under a size limit; the others keep counters.
* `verify-checkpoint` runs chain verification and compares its report with the
  recorded heads. The two share the intake and nothing else.
* `check-coverage` runs the profile engine over the events, and then reads them
  again, selecting and evaluating a second time for its own counters.
* `validate` and `lint-privacy` both begin with the schema of the version an
  event declares; `lint-privacy` looks further only if there are no issues, and
  both print what was found under names taken from the event.
* A profile's version is written by hand in three places: the profile, the
  path of its snapshot and the URI in the catalogue of resources.
* In the MCP server a handler runs until it awaits a body chunk or the adapter;
  others, a signal, a timeout or a client that goes away come in between.

### 1.3 What is hard

PROJECT.json lists the hazards line by line. The kinds, by component:

* **chain and checkpoint** — a tamperer who can recalculate hashes; the *joint*
  cover of three checks (digest, link, head) none of which suffices alone; a
  chain cut at its start looks whole; events met in any order; unverified
  events at the place where an event is said to be missing.
* **reading** — lines, characters and newlines cut by chunk boundaries; a file
  appended to or truncated under the reader; a consumer that throws while a
  nested generator holds a descriptor.
* **command line** — failed, unevaluated and unread input in one run and a
  different ranking of them in each command; an output whose reader leaves.
* **server** — body, adapter, timeout, hang-up and shutdown in every order.
* **privacy** — two limits on depth that must overlap; names that are evidence
  and location at once; merging of findings whose names were redacted.
* **profiles** — two accounts of the same events; selection by id; paths that
  lead through the value of another; an object that outlives a call.
* **profile archive and release** — a kill in the middle of a write; a save
  between two reads of one file; three tools and one list kept by hand that
  have to agree on a version.

## 2 The modules

| module | models | uses |
|---|---|---|
| `SealedEvents` | an event as digest, chain and checkpoint see it; the digest check | |
| `EventStore` | producers, checkpoint taker, faults of the store (external) | `SealedEvents` |
| `VerifyChain` | intake, ordering, link walk, report | `EventStore` |
| `VerifyCheckpoint` | a verification run: intake, chains, comparison, outcome; composed with the store | `VerifyChain` |
| `CheckpointVerdict` | abstract specification: the verdict as a function of a set of events | `SealedEvents` |
| `VerifyCheckpointProofs` | theorems about `VerifyCheckpoint` | `CommonLemmas` |
| `EventIntegrity` | one event's verification: version dispatch, digest, signature policy | |
| `MerkleProof` | trees, audit paths, proofs, their verification | `EventIntegrity` |
| `MerkleProofProofs` | theorems about `MerkleProof` and `EventIntegrity` | `CommonLemmas` |
| `EventStream` | what a stream of events promises its consumer | |
| `LineReader` | one file read by `sources.ts`; implements `EventStream` | |
| `LineReaderProofs` | theorems about `LineReader` | `CommonLemmas` |
| `Redaction` | what the linter can tell of a string; redaction of names | |
| `SchemaIssues` | version dispatch, issues made of errors, "not evaluated" | `Redaction` |
| `PrivacyLint` | traversal, rules, size rule and result of the privacy linter | `SchemaIssues` |
| `CommandRun` | a run of a command, from arguments to exit code | `PrivacyLint` |
| `CommandRunProofs` | theorems about `CommandRun`, `PrivacyLint` and `SchemaIssues` | |
| `HttpBoundary` | the MCP process, its handlers and its shutdown | |
| `HttpBoundaryProofs` | theorems about `HttpBoundary` | |
| `ProfileEngine` | rule selection, evaluation, results, tally, coverage | |
| `ProfileTools` | lint of profiles, event templates, guidance | `ProfileEngine` |
| `ProfileEngineProofs` | theorems about `ProfileEngine` and `ProfileTools` | `CommonLemmas` |
| `ProfileArchive` | the archive tool, its `--check` and what happens in between | |
| `Publication` | the catalogue, the generated manifest and releases, composed with the archive | `ProfileArchive` |
| `PublicationProofs` | theorems about `ProfileArchive` and `Publication` | |
| `CommonLemmas` | induction, linear recursion, sequences | |
| `MC…` | the instances TLC checks | |

Some operators come in two forms, the second with a comment that begins
*Slip*: a plausible mistake in the same code. They are used by no
specification. Each property was checked to fail when a definition is replaced
by its slip, so that no property holds by the shape of the model.

### 2.1 Events, store, chain, checkpoint

`SealedEvents` reduces an event to `chain`, `seq`, `prev`, `hash`, a `scheme`
(the declared pair of hash algorithm and canonicalization) and a `body` that
stands for everything else. A digest *is* its input under a tag: two inputs
have one digest exactly if they are equal. That is collision resistance, the
assumption under everything the tooling claims. An event nobody could parse
never reaches this module; one whose `specVersion` is not implemented, or that
its schema rejects, has a body in `Rejected`.

`EventStore` is the world outside the code. `Produce` seals the next event of a
chain by the rules of `specification/integrity.md`; `TakeCheckpoint` records
the heads of some chains; `Fault` loses, duplicates, moves or overwrites one
stored event, with or without recalculating its hash. `history` remembers what
was sealed; no step of the verifier reads it.

`VerifyChain` follows the code: `addChainEvent` takes the events in archive
order; `finishChains` orders each group by sequence number (ties by label) and
walks the links upwards, one step per link. `VerifyCheckpoint` adds the
comparison (`compareClaim`, one claim per step) and the conclusion; a run then
ends, the store may change, and another run begins. `RefuseEmpty` is the early
exit for an input without events. `VerifyCheckpoint` also carries
`CheckpointVerdict` as `Abstract`: the outcome, with phases and walks hidden,
is the verdict that module defines without any order at all.

### 2.2 Single events and inclusion proofs

`EventIntegrity` is `verifyEventIntegrity` with all it calls: the schema an
event is held to is that of the version it declares (`validateEvent`), then
come integrity object, algorithms, length and digest, and last the signature.
`SignatureFindings` is the policy shared by events and documents, and
`verifySignature` the checks before the primitive, in their order. A signature
is *who made it over what*; a key has a holder, a type and a grade, and the
primitive is taken at its most permissive: under a degenerate key it accepts
everything. `SealedEvents` is a coarser view of the same event for chains,
which cannot tell these checks apart.

`MerkleProof` builds a tree over up to `MaxLeaves` events with the recursive
split of `merkle.ts`, cuts the path of any leaf, with event and root signed or
not, lets any two fields of proof or event be changed (to any hash that occurs
anywhere in the tree, to a signature of somebody else, to other content with
or without a recalculated hash), and verifies with any key or none, loaded by a
tool (`loadPublicKey` may refuse) or handed over by a caller of the library.
Leaf and node hashes are tagged apart, as RFC 6962 and the code do. What the
code computes by recursion is a recursive function here, of sizes, slices or
positions, so that it can be reasoned about ([5.3](#53-merkleproofproofs)).

### 2.3 Reading

`LineReader` keeps the bytes of the file apart from those the reader has seen.
`ReadChunk` reads up to `ChunkBytes` at the descriptor's offset, decodes them
with what the decoder held back, and gives up on a line that is too long;
`SplitLine` splits off one line and yields it; `KeepRest`, `EndOfFile`,
`LastLine`, `ReadDocument` and `FinishDocument` are the other steps of the
generators. A generator stands still where it has yielded (`HandOver`): after
its last item it is `drained`, with the descriptor of a JSON Lines file still
open, and only when it is asked for more does `finally` close it (`Drain`).
Between any two of them the file may be appended to (`Write`) or
truncated, a read may fail, and the consumer may leave (`Abandon`). The
reference is `Reference`: all bytes decoded at once (`WholeText`), split at
newlines (`LinesOf`) and judged line by line (`EventsOf`).

`EventStream` is what a command may rely on, with descriptor, decoder, chunks
and line numbers hidden: an event is yielded when the bytes read settle it
(`Yield`), one at a time and in order; the end of the bytes settles one event
more, if any (`Final`); a stream is over (`End`) when the whole has been
yielded; it may break off (`Break`) or be left (`Leave`), and then yields no
more. Which events bytes settle, and which there are if these are all the
bytes, are its parameters; `LineReader` instantiates them as `Stream` with the
events of the lines that have ended (`SettledIn`) and of all lines, or the
document (`AllIn`). A truncated file is nothing special to it: what was read
stays read.

### 2.4 Command line

`CommandRun` takes one call (command, arguments good or bad, files, their
events and whether reading them fails in the end) and follows the command from
`Begin` to `Exit`: how verdicts, failures and unread files become an exit code,
one operator per command (`runValidate`, …). `CloseReader` closes an output
stream at any moment. A write to a closed stream is noticed by Node after the
current turn, so it decides the exit code at the end (`Exit`): the error handler
of standard output makes it 2, and standard error has none.

For `validate` and `lint-privacy` an event is a *sample* with content, and what
the command concludes of it is computed (`Outcome`, `Quoted`) by two modules:

* `SchemaIssues`: the schema of the declared version is applied, the errors of
  the library become issues with a path and names, identical errors become one,
  and an event of a version not implemented is told by its single issue. The
  errors themselves are the event's (`IsError` says what the library can
  return; the schemas require no property with a credential for a name).
* `PrivacyLint`: the containers of an event are sets of values under the steps
  that lead to them. Traversal and measures each stop at a depth; names and
  values go through the rules; findings are merged per rule and redacted path.

Both rest on `Redaction`, where a string is the set of tests it passes (its
*traits*: "has the form of a JWT", "is a URL with a password"). What is modelled
is how the code combines the tests, not the regular expressions, the entropy or
the URL parser behind them. For the other commands the verdict on a single event
(pass, fail, skip) is an input: their engines are modelled in modules of their
own. `shown` collects the strings of events that the output repeats, each with
the place where it stands: in a schema issue, in a finding, or, in the JSON
report, as the `id` of the event.

### 2.5 Server

`HttpBoundary` has one handler per connection. A step is what the event loop
runs without interruption: the checks on arrival (`Arrive`), a chunk
(`ReadBody`), the end of a body (`BodyRead`: size, JSON, batch and listen
refusals, in the code's order), the adapter's beginnings and ends, the catch
block (`Catch`), a client that hangs up, Node's request timeout, and the
process: `Start`, `Shutdown`, `Closed`, `GraceExpires`. node:http and the
SDK's adapter are external: the adapter answers, throws or never returns.

### 2.6 Profiles

`ProfileEngine` checks a stream of events against a profile and then covers the
same events. An event is what a rule can see of it: whether the core schema
accepts it, its name, and the value at each path; a path may lead through the
value of another (`Above`). `ProfileTools` adds what else is derived from rules:
the lint of a definition, and two tools of the MCP server. Its one variable,
`kept`, is the empty object that `PLACEHOLDER_BY_TYPE` puts into every template
in which an object is required: what one template writes into it is in it for
the next. A template starts without a value at any of the paths; the members
every template has are not among them.

`ProfileArchive` is the filing tool: `Look` (version read, snapshot
compared), `Copy` (the profile is read again, the snapshot emptied), `Filed`;
an author's `Save` and a kill may come between any two. `published` records
what passing checks have seen, and is read by properties only. One instance of
the tool runs at a time. `Publication` goes on from there: an author edits the
catalogue (`Relist`), the generator validates the profiles, reads them again
and writes the manifest (`StartGenerator`, `Embed`, `Generated`, or
`GeneratorKilled`), and a release (`Release`) needs every check to pass on one
checkout, and the server to start with the manifest it was built with. `served`
is what any released server has enforced under a version.

## 3 The runs

`pass` runs explore their instance completely. Sizes are distinct states.

| run | instance | states | shows |
|---|---|---|---|
| `one` | one chain, 3 sequence numbers, 2 faults, 2 schemes of which 1 supported | 2.1 M | an agreement authenticates what is held up to the head; is complete without a segment note; is complete with `eventCount`; an undamaged archive agrees; the run implements the order-free verdict |
| `two` | two chains, an unimplemented version, 1 fault | 1.9 M | types; nothing present is reported lost, with chains that share an archive |
| `tampered` | trees up to 5 leaves, signed or not, 2 changes, 7 keys | 5.4 M | verified means the leaf claimed, also when the root is vouched for by its signature alone; every leaf can be proven; "no leaf" hides no failure; what a key verified was signed by its holder; no signature that cannot be checked is passed over |
| `lines` | files up to 5 bytes of braces, blanks, newlines, deep nesting and two-byte characters, whole and broken, growing | 4.4 M | events are the lines, with lines and characters cut by chunks; what is held is bounded; the reader implements the stream |
| `ends` | files that grow and are truncated | 446 k | every stream ends with its descriptor closed |
| `closed` | 8 commands, 2 files of 2 events, 12 kinds of events for `validate` and `lint-privacy`, both outputs closable | 5.3 M | exit 0 is earned, exit 1 is a verdict that failed while standard error is read, exit 3 hides nothing; a clean report means nothing is exposed; no report repeats a credential, unless it is the event's id |
| `requests` | 2 connections, 2 requests each, every kind of request, a shutdown | 265 k | only calls reach the adapter; one answer, one line; a signal ends the process; no body is awaited forever |
| `corpus` | profiles up to 3 of 6 rules, every 2 of 16 events, templates in any order before | 379 k | verdicts and coverage agree; no requirement is lost; rules only add; unapplied rules change nothing; templates are complete and independent; guidance foretells findings; contradictions are real |
| `filing` | 1 profile, 2 versions, 3 saves, 2 edits of the catalogue, 1 damaged snapshot | 1.9 M | what was published keeps its version and, until the damage, its content; a version is one document in the archive and in every release |

The runs `deletion`, `stderr` and `damaged` each check one sentence of the
documentation or of a comment that the code does not keep
([section 6](#6-disagreements-found)).

### 3.1 Bounds, and why they are enough

* *Chains.* A violated link involves two neighbours and a head; with three
  sequence numbers there is a first, a middle and a last event, gaps in the
  numbering, and events past the recorded head. Two faults are a rewritten
  event and its repaired successor, or a duplicate and a loss. The theorems
  ([section 5](#5-the-proofs)) hold without these bounds.
* *Trees.* 5 leaves include powers of two (1, 2, 4), the smallest ragged tree
  (3), and one whose halves differ by two levels (5). Two changes are a root
  and its count, or content and what was to protect it.
* *Keys.* Two producer keys of different types, a stranger's of one of these
  types, one too weak, one private, and a degenerate one of each type that has
  any. At most one signature and one key take part in a verification.
* *Files.* 5 bytes and chunks of 2 put a boundary inside a line, a character
  and between a character and its newline, with a third chunk after it. Limits
  are a few bytes so that every one of them is reached and passed; in `lines` a
  line may be longer than a document, in `ends` a document longer than a line.
* *Command line.* Two files of two events: a failure before and after a file
  that stops early, and every mixture of two verdicts. The code folds events
  into three counters of which it asks only whether they are zero. Of sampled
  events at most two are given to one run (`MaxSampled`). The kinds of events:
  one without and one with an unimplemented or malformed version, errors about
  a name and below one, credentials as value, as name, below a credential for a
  name, deeper than the traversal goes, in single strings and in evidence, and
  a container over a threshold; ids with the form of a credential, in an event
  that is clean and in one the schema refuses, ids without it, and none. The linter's limits 64, 64, 6 and 50 are 2, 2, 1
  and 3 here, in the same order; the theorems need that order only.
* *Server.* Handlers share nothing but the process; two of them interleave
  every step, and a second request on a connection meets what the first left.
* *Profiles.* The engine folds events one at a time and rules by id; a
  duplicate id needs two rules, the third is the bystander. One path leads
  through another, which is where templates and conditions go wrong; a template
  asked for before another shows what is remembered.
* *Archive and release.* A first filing, a save between the two reads, and a
  save after a kill; an edit of the catalogue before and after a release. Two
  profiles share nothing but the checks of a release; the theorems hold for any
  number of them, and without the other bounds.

`MaxSequence`, `MaxEdits`, `MaxLeaves`, `MaxFile`, `MaxTruncate`, `MaxFiles`,
`MaxEvents`, `MaxSampled`, `MaxRules`, `MaxPerConn`, `MaxListings` and `MaxDamage` bound the models only;
`ChunkBytes`, `MaxLine`, `MaxDocument`, `MaxBody`, `MAX_LINT_DEPTH`,
`MAX_PROFILE_DEPTH`, `MaxDepth` and `MaxProperties` are limits of the code in
small.

`CHECK_DEADLOCK FALSE` stands where a run of the program ends: a stream that
was read, a command that exited, a process that stopped, a proof verified.

## 4 Fairness

Fairness is assumed in two modules, and nowhere else.

* `LineReader!FairSpec`: weak fairness of `Proceed`, the reader's own next
  step. The reader is synchronous code; while its consumer asks for the next
  event it runs. A consumer that stops asking is `Abandon`. Nothing is assumed
  of the writer of the file; a file is finite (`MaxFile`).
* `HttpBoundary!FairSpec`: weak fairness of the grace timer, of the exit once
  the server is closed, of Node's request timeout per connection, and of the
  error a pending read gets when its connection closes. These are timers and
  queued callbacks of a running event loop. Nothing is assumed of clients, and
  nothing of the adapter, which may never return.

All other properties are safety properties of the unfair specifications.

## 5 The proofs

### 5.1 `VerifyCheckpointProofs`

For every set of chains, contents and schemes, any number of events and faults:

| theorem | states |
|---|---|
| `TypeTheorem` | `Spec => []TypeOK` |
| `InvariantHolds` | the inductive invariant holds in every reachable state |
| `AgreementTheorem` | `Spec => []AgreementAuthenticates` |
| `GenesisTheorem` | `Spec => []AgreementFromGenesisIsComplete` |
| `CountTheorem` | `Spec => []CountedAgreementIsComplete` |
| `DeletionTheorem` | `Spec => []NoDeletionInferred` |
| `RefinementTheorem` | `Spec => ImplementsVerdict`: the run implements `CheckpointVerdict` |
| `UndamagedTheorem` | `Spec => []UndamagedArchiveAgrees` |

Assumptions: those of `SealedEvents` and `EventStore` (marker values are no
chains, the supported schemes are schemes, the bounds are numbers), and the
symbolic digest.

*Why an invariant is needed.* "Agrees" is decided from statuses and findings
and says nothing of `history`. What connects the two is the link walk, which
ended many steps earlier. The invariant `IInv` therefore says:

1. `ArchiveOK`, `HistoryOK`, `ClaimsOK` — the store holds events; a history is
   sealed, linked and ascending; a claim records an event of its history and,
   when counted, that event's place.
2. `IntakeOK` — groups and unassigned events are exactly what was read.
3. `WalkOK` — a chain without findings so far is an ascending enumeration of
   its group in which every digest is sound (`OrderOK`), and for the walked
   part (`LinkOK`): *if the member at place p is the producer's event j, then
   the member at each place m below it is the producer's event j − (p − m)*.
   A walk that passed its first link without a segment note starts without
   `prev`.
4. `StatusOK` — a status and an outcome that agree are justified by the
   (unchanged) report.

The step that matters is `LinkOK` when a link is walked: the link of an
authentic member is the producer's link, a digest has one preimage, so the
member before it is the producer's event before it, and the induction
hypothesis does the rest. At the end the recorded head is a member that is
authentic, so everything below it is; without a segment note the walk starts
at the producer's first event; with a count, the number of members up to the
head is the head's place, and there are that many different events to be.

`DeletionTheorem` needs little of this: a claim is compared in one step, with
the groups of the intake, which hold every event read; while a verification
runs the archive does not change. What it adds to the invariant (`DeletionOK`)
is that a status which reports a loss was given when no event of the chain
stood at the head.

`RefinementTheorem` shows the run to be the one-step verdict of
`CheckpointVerdict`, with `outcome` for its variable. `IInv` is one-sided: it
says what follows from an *absence* of findings. The refinement needs the other
half too, that a sound chain is not accused, and `ExactOK` adds it: an opened
chain has findings exactly if its members have one or a link walked so far has
one, and the walk enumerates the sequenced members. Among members whose
sequence numbers differ, neighbours in the walk are exactly the pairs of which
one follows the other by sequence (`NeighboursFollow`), which is how the
abstract module speaks of links; hence a finished walk is without findings
exactly if the chain is consistent (`IntactIsSound`), and a claim agrees exactly
if its head is reached (`AgreesIsReached`). `RunOK` keeps the statuses already
given equal to what the report would give now. Every step is then a `Change`, a
`Judge`, a `Discard` or a stutter (`StepIsVerdictStep`).

`UndamagedTheorem` is about that judgement alone: an outcome at the end *is* the
judgement (`JudgedOK`), and in an archive that holds a window of each history
once, members stand for different places of the history, neighbours for
neighbouring places (`WindowIsSound`), and those up to the head are as many as
the head's place (`WindowReaches`). It needs that histories are sealed in
schemes the verifier implements and that a claim records its event's scheme
(`SchemesOK`).

### 5.2 `PublicationProofs`

For any finite set of profiles, any versions and documents, and any number of
saves, kills, damages, releases and edits of the catalogue.

About the archive (`Spec` of `ProfileArchive`): `TypeCorrect` (`[]TypeOK`),
`UnderItsVersionTheorem` (`[]PublishedUnderItsVersion`, damage included) and
`NeverChangesTheorem` (`[]PublishedNeverChanges`, whose premise is that nothing
but the tool has written a snapshot). The invariant: the file a run is about to
write over holds no document (`WriteOK`, which must survive whatever comes
between the look and the write), and only documents are published, each under
the version it declares. Until something else writes snapshots, a file without
a document is therefore one that was never published. The run `damaged` shows
that the premise is needed. `TypeCorrect` counts: the profiles reported as
blocked are no more than there are (`Cardinality`), because each is left once.

About the release: `OneVersionTheorem`, `PublicationSpec =>
[]OneVersionOneDocument`. The step that matters is a release
(`ReleaseServesSnapshots`): the checks make catalogue, manifest, profile and
snapshot one document. From then on the archive's invariant keeps that snapshot
(`StepKeepsDocuments`): the tool writes only over files that hold no document.

### 5.3 `MerkleProofProofs`

For trees of any size, any number of changes to proof and event, and any key.

| theorem | states |
|---|---|
| `VerifiedWasSigned`, `KeyOnlyRefuses` | what the verification of one event promises |
| `ProofOfRootIsOfLeaf` | soundness of the checks on a path, index and count |
| `CutProofsHold` | completeness: every leaf's path passes them |
| `MerkleInvariant` | the inductive invariant |
| `VerifiedIsTheLeafHolds`, `SignedRootProvesHolds`, `GenuineProofsVerifyHolds`, `NoLeafHidesNothingHolds`, `AcceptedWasSignedHolds`, `UncheckableNeverVerifiesHolds` | `Spec => []` of the property each is named for |

The first pair holds for every event, signature and key: an event verified with
a key has the hash of its own content and carries no signature but the key
holder's over it, under a key that is neither weak nor degenerate; and what is
verified with a key is verified without. Both rest on two lemmas about the
shared policy (`SilentIsSigned`, `SilentWithoutKey`), so they hold of a
document's signature as well.

*Two inductions carry the second pair.* Along a presented path: wherever
recomputation arrives at a hash of the tree, it came there from a leaf below
that hash, by the sides that lead to the hash from that leaf. Leaves and nodes
are tagged apart, and a node has one pair of children, so no step can be
anything else. Over the slices of a tree: two indices of a slice have different
sides, so the sides the verifier asks for (`expectedSides`) fix the index; and
the path that is cut for an index recomputes to the hash of its slice. Neither
mentions how a slice is split, only that both parts are smaller and not empty;
that `splitPoint` does this is a lemma (`SplitRange`).

*The invariant* (`Inv`): the leaves are the digests of the sealed events
(`TreeOK`); whatever was changed, the proof is a proof (`IsProof`) and a
signature in it by the producer's key is over the recorded root and count
(`SignaturesOK`); before a change, proof and event are what was cut
(`UntouchedOK`); a verdict is the one `verifyProof` gives now (`OutcomeOK`).
`SignaturesOK` is what makes a signed root as good as an anchor: a tamperer can
do anything but sign for the producer.

Assumptions: the bounds are numbers, and the symbolic digest and primitive.

### 5.4 `LineReaderProofs`

For files of any length and any bytes, chunks of any size from 1 on, any limits,
and a file that is appended to and truncated between any two steps:
`TypeCorrect`, `HeldIsBoundedHolds` and `EventsAreTheLinesHolds`, each
`Spec => []` of its property; `ImplementsStreamHolds`, that `Spec` implements
`EventStream`; and `SettledStays`, that the stream promises something.

`EventsAreTheLines` compares a loop over chunks with a definition that decodes
everything at once, so it cannot be inductive. The invariant is `TypeOK`,
`Shape` (which variables mean something in which phase) and `Runs`. `Runs`
splits what was read in two: a text `P` that has become lines, and what is
pending. It says that `P` followed by the pending text and the byte held back is
what decoding gives, that `P` ends in a newline or is empty, and that the items
are the events of `P`'s lines. Three facts about texts keep it:

* decoding can stop at any byte and go on, as long as the byte held back is
  kept (`ByteIsAppended`, and what is built on it for sequences of bytes);
* lines that have ended stay, and are the first lines of any longer text, so
  events yielded early are never taken back;
* a line that is too long stays too long when it grows, so a failure found in
  an unfinished line is one of the finished line. `TooLong` looks at the number
  of characters before it measures bytes; that the shortcut changes nothing
  needs the widths of characters (at most 3).

`HeldIsBounded` is mostly counting (`Weight`): decoding makes at most one
character of a byte, the one held back included, so what is kept and what is
pending are together no more than what was read, and a line that is not too long
has at most `MaxLine` characters before the next chunk comes.

*The refinement* rests on the same invariant, with one addition: a consumer can
leave only while it has an event (`HasEvent`). `Runs` makes the items the first
events of the lines that have ended in what was read (`SettledGoesOn`), although
the reader has split off only some of them; read after the step, it says that the
event just yielded was the next settled one (`SplitLineIsStream`). A stream that
ends for another reason than a failure to read, or has no line left, has yielded
the whole (`OverIsWhole`); a document that grew breaks off without an event
(`FinishDocumentIsStream`). `SettledStays` is the promise behind `Settled`: for
any bytes and any more of them, what the first settle comes first in the whole,
also if the first end in the middle of a character.

### 5.5 `CommandRunProofs`

*A single event.* For every event of any size: `NothingPassedOverTheorem`, a
value or name with the form of a credential, or a prohibited name, at whatever
depth leaves a finding at its place or a report about its container. It rests
on the agreement of two lists of rules, the one that finds and the one that
redacts (`ShapedIsFound`), and on `LintAssumption`: the depth that is reported
lies above the depths at which traversal and measures stop (6 below 64). The
second half shows what a report may repeat of the event: with the form of a
credential nothing but its id, and that in JSON only (`ResultsAreFit`).

*A run.* For any number of files and events, any samples, and outputs that may
be closed at any moment: `TypeCorrect`, `ZeroIsEarnedTheorem`,
`OneMeansFailedTheorem`, `ThreeHidesNothingTheorem`,
`CleanMeansNothingExposedTheorem` and `OnlyAnIdRepeatsASecretTheorem`, each
`Spec => []` of the property that `closed` checks. The invariant says what the
counters know of the arguments: a verdict is counted exactly if an event read
so far deserves it (`TallyOK`), a failure exactly if a file read so far could
not be read (`FailuresOK`), a returned code is 2 or the command's verdict on
everything (`PhaseOK`), and the exit code is that code unless a stream was lost
(`ExitOK`). What an event deserves is decided by `OutcomeIsDeserved`, from the
lemmas about issues and the linter. Assumptions: the samples are events
(`CommandRunAssumption`, with `IsEvent` and `IsError`).

### 5.6 `HttpBoundaryProofs`

For any number of connections and requests and any limit on bodies:
`TypeTheorem` (`[]TypeOK`, which no run repeats), `AdapterTheorem`
(`[]AdapterSeesOnlyCalls`) and `OneAnswerTheorem` (`[]OneAnswerOneLine`).
Handlers share nothing but the process, so the invariant is one about each connection: where its handler is
says what has been checked of the request and what has been answered
(`ReadingOK`, `AdapterOK`, `LoggedOK`). Assumptions: the requests are requests,
the limits are numbers, and `None` is neither a request nor a line.

### 5.7 `ProfileEngineProofs`

For any vocabulary of names, paths and values, any profiles and streams of
events of any length. Assumptions: `ProfileAssumption` and `ToolsAssumption`
(rules are rules, events are events, a path does not lead through itself, no
two paths of the vocabulary lie on the way to a third, the placeholder and the
empty object are values of the right kind).

*Findings.* `NoRequirementLostTheorem`, `RulesOnlyAddTheorem` and, for
`ToolsSpec`, `ContradictionsTheorem`. The invariant is that the results are
those of the events under the profile as it is; the rest is about selection:
without duplicate ids every rule for a name is selected, and a rule put in
anywhere moves the selected ones (`StillSelected`) without displacing any.

*Tools.* `ToolsAreTheEngine` (`ToolsSpec => Spec`): the tools change nothing the
engine reads, so what is proved of `Spec` holds with them.
`GuidanceForetellsFindingsHolds` compares the two ways a rule is read.
`TemplateLeavesNothingOutHolds` and `TemplatesDoNotRememberHolds` are inductions
along the list of assignments a template is made by: a value once filled in is
replaced and never taken away (`SetPointerFills`), and, if no rule asks for a
member of an object some rule requires, no assignment writes into the shared
object (`GenerateStaysClean`), which is then still empty (`ToolsInv`).

*Two accounts.* `VerdictsAndCoverageAgreeHolds` and
`UnappliedRulesChangeNothingHolds`. The tally is made while events are checked,
coverage in a second pass that evaluates conditions again. `AccountsInv` gives
each counter its meaning: the number of the events so far, of those the pass has
come to, that have a property of the result (`Tallied`, `Accounted`). That the
sums agree is then about finite sets: a sum over a set can be taken in any
order and one element at a time (`SumOfRest`, `SumOfOneMore`). A rule that was
never applied has met, on every event, either another name or a condition that
did not hold, so emptying it removes no finding; leaving out rules that were
never selected leaves the selection by id as it is (`WithIds`).

### 5.8 `CommonLemmas`

Induction, stated so that the prover can use it. The library's induction
theorems have an operator for a parameter. `LeastNumber` is stated of a set
instead: a set of numbers that is not empty has a least member, from
well-foundedness. A property `P` is proved of all numbers by assuming that the
set of those without it is not empty and looking at its least member. On the
same footing stand induction along a sequence, and that a recursive function
over an interval exists and satisfies its equation: one that does so up to `n`
can be extended by one, and two that do are equal. Every recursive definition
of the models that a theorem is about is unfolded by such a lemma.

### 5.9 Model-checked only

Liveness: `StreamEnds`, `SignalEndsTheProcess` and `NoBodyIsAwaitedForever`.
Fairness and ENABLED are out of the prover's reach. Every other property of a
passing run is stated by a theorem.

## 6 Disagreements found

Each is a run TLC ends with a counterexample; PROJECT.json quotes both sides.

* `deletion` — a chain all of whose events are of a version not implemented is
  reported as missing (`checkpoint-chain-missing`), although "no deletion is
  inferred from events that are present but unverified". The guard that keeps
  this promise covers only chains with a verified event.
* `stderr` — with standard error closed, a write to it ends the process with
  exit 1, "a verdict was produced and it failed". Standard output has a
  handler for exactly this.
* `damaged` — a filed snapshot that no longer parses (a merge left conflict
  markers in it) is taken for one that was never filed, and is written over
  with what the profile says now; `--check` passes before and after.

One more was met while reading and has no run: `README.md:120` says that
`verify-chain` exits 3 when no event could be assigned to a chain, "most
commonly" for a missing `chainId`, `hash` or `sequence`. Only a missing
`chainId` keeps an event out of every chain (`WhyUnassigned`); the other two
are findings of the chain, and the exit code is 1.

And four things the models make visible that contradict no sentence of the
documentation, or only in an unusual case:

* The linter neither scans nor redacts the `id` of an event
  (`specification/privacy.md:270`), and its JSON report names every event by it
  (`cli.ts:1217`), an event the schema refuses included. An id with the form of
  a credential is therefore repeated, and if the same string stands in a scanned
  place, so is a value that produced a finding (`README.md:624`).
  `OnlyAnIdRepeatsASecret` says that this is the only way.
* The object that stands for a required object in a template is one for all
  templates of a process. A profile with a rule for `/metadata/x` of type object
  and another for a member of it would leak that member into every later
  template. `TemplatesDoNotRemember` is stated for profiles without such a pair.
* The guidance for a name lists the paths a conditional rule fixes to a value
  and not those an unconditional rule does (`GuidanceForetellsFindings` excepts
  them).
* PROFILE-LINT-005 takes a path for guaranteed if any unconditional rule requires
  it, also one for other names; a condition on it can then still silently never
  hold. No property says more of this warning.

## 7 What is not modelled

* *Canonicalization, Ajv, regular expressions, entropy, URL parsing.* Functions
  of characters; the models take their result (a symbolic digest, the errors of
  an event, the traits of a string) as given. The hazard at
  `integrity/canonicalize.ts:50` is therefore without a property.
* *Cryptographic primitives*, of which the models take what they promise. No
  checkpoint is signed in `VerifyCheckpoint`, and no event of a chain; the
  check made there is the one `MerkleProof` makes of a root and its event.
* *What the commands other than `validate` and `lint-privacy` make of a single
  event* is an input of `CommandRun`; in the chain models an event that was not
  evaluated is one the intake cannot assign.
* *Chain notes* on batch and on sequence gaps, which no verdict reads.
* *Counts of findings* of the linter: two siblings whose names are both redacted
  share a path and are counted once; only whether there are findings decides.
* *MCP tools* that pass their arguments to the engines, their limits on events,
  bytes and output (`register-tools.ts`, `output-safety.ts`): stateless checks of
  one number each.
* *Loading of profiles* is a pure function of a file: its failures are bad
  arguments of `CommandRun`, and what a loaded profile may be is an assumption
  of `ProfileEngine`.
* *PROFILE-LINT-003, 006 and 007*, which are about the form of paths, the files of
  fixtures and redundant selectors.
* *Generators of the kit, the requirements and the fixtures*: one pass over
  files, without state between steps.
* *Configuration, logging, resources, prompts* of the MCP server: start-up only.
* *What a client sees of a reset connection* after a body that is too large
  (`http-server.ts:123`) is decided inside node:http.
* *Site build, packaging, deployment, schemas, examples.*

## 8 Plan

Done: `SealedEvents` → `EventStore` → `VerifyChain` → `VerifyCheckpoint` with
its proofs and `CheckpointVerdict`; `LineReader` with `EventStream`;
`HttpBoundary`; `Redaction` → `SchemaIssues` → `PrivacyLint` → `CommandRun`;
`EventIntegrity` → `MerkleProof`;
`ProfileEngine` → `ProfileTools`; `ProfileArchive` → `Publication`; each with
its proofs, so that every safety property a passing run checks is stated by a
theorem.

What is left, in this order:

1. Abstract specifications of more components and proofs that the detailed ones
   implement them, as `VerifyCheckpoint` implements `CheckpointVerdict` and
   `LineReader` implements `EventStream`: a register written once per version,
   for `ProfileArchive` and `Publication`.
2. The verdicts of the integrity commands in `CommandRun` computed with
   `EventIntegrity!verifyEventIntegrity`, as those of `validate` and
   `lint-privacy` are.
3. Signed checkpoints and signed chain events: the policy of `EventIntegrity`
   in `VerifyCheckpoint`, with the property that agreement with a signed
   checkpoint needs no anchor.
4. `ToolLimits`: the MCP tools' limits on events, bytes and output, abstracting
   the engines.

## 9 Running it

```
tlc -workers 2 -config MCCheckpoint_one.cfg MCCheckpoint.tla
tlapm VerifyCheckpointProofs.tla
```

PROJECT.json lists every run with its module, configuration and properties,
every definition with the source lines it models, and every theorem.
