--------------------------- MODULE ProfileArchive ---------------------------
(***************************************************************************)
(* The archive of published profile versions                               *)
(* (conformance/tools/archive-profile-versions.ts): the tool files the     *)
(* current version of every profile that has no snapshot yet, and --check  *)
(* compares profiles with their snapshots.  Filing is two reads of the     *)
(* profile and a write that is not atomic, while an author may save the    *)
(* profile again and the process may be killed.                            *)
(***************************************************************************)
EXTENDS Integers, FiniteSets

CONSTANTS
  Profiles,    \* profile directories
  Versions,    \* values of "version" that name a directory
  Rules,       \* everything else in a profile document
  Missing,     \* no such file
  Unparsable,  \* a file that is no JSON, as a write leaves it midway
  NoVersion,   \* a document that declares no usable version
  MaxEdits,    \* bound: how often profiles are saved
  MaxDamage    \* bound: how often a snapshot is damaged from outside

Documents == [version : Versions \cup {NoVersion}, rules : Rules]

ASSUME ArchiveAssumption ==
  /\ NoVersion \notin Versions
  /\ Missing \notin Documents /\ Unparsable \notin Documents /\ Missing # Unparsable
  /\ MaxEdits \in Nat /\ MaxDamage \in Nat
  /\ IsFiniteSet(Profiles)

VARIABLES
  working,    \* per profile, profiles/<name>/profile.json
  snapshot,   \* per profile and version, profiles/<name>/<version>/profile.json
  left,       \* profiles the run has yet to look at
  at,         \* the write in progress: <<>> or <<profile, version, content>>
  phase,      \* idle, looking, copying, writing
  blocked,    \* profiles the run would not file
  exit,       \* what the last run of the tool returned, -1 before and while it runs
  published,  \* per profile and version, the snapshots passing checks have seen
  edits, damage

archiveVars == <<working, snapshot>>
runVars == <<left, at, phase, blocked, exit>>
vars == <<archiveVars, runVars, published, edits, damage>>

Files == Documents \cup {Missing, Unparsable}

(* readJson: absent and unparsable look the same. *)
Readable(file) == file \in Documents

Init ==
  /\ working \in [Profiles -> Documents]
  /\ snapshot = [p \in Profiles |-> [v \in Versions |-> Missing]]
  /\ left = {} /\ at = << >> /\ phase = "idle" /\ blocked = 0 /\ exit = -1
  /\ published = [p \in Profiles |-> [v \in Versions |-> {}]]
  /\ edits = 0 /\ damage = 0

-----------------------------------------------------------------------------
(* The author, and what may happen to a checkout. *)

Save(p) ==
  /\ edits < MaxEdits
  /\ edits' = edits + 1
  /\ \E file \in Documents \cup {Unparsable} : working' = [working EXCEPT ![p] = file]
  /\ UNCHANGED <<snapshot, runVars, published, damage>>

(* A merge leaves conflict markers in a filed snapshot. *)
Damage(p, v) ==
  /\ damage < MaxDamage
  /\ snapshot[p][v] # Missing
  /\ damage' = damage + 1
  /\ snapshot' = [snapshot EXCEPT ![p][v] = Unparsable]
  /\ UNCHANGED <<working, runVars, published, edits>>

-----------------------------------------------------------------------------
(* writeArchive. *)

StartArchive ==
  /\ phase = "idle"
  /\ phase' = "looking" /\ left' = Profiles /\ blocked' = 0 /\ exit' = -1
  /\ UNCHANGED <<archiveVars, at, published, edits, damage>>

Declares(file) == IF Readable(file) THEN file.version ELSE NoVersion

(* Slip: a snapshot is looked for where it differs, and filed again. *)
LookRefiling(p) ==
  /\ phase = "looking" /\ p \in left
  /\ left' = left \ {p}
  /\ LET v == Declares(working[p]) IN
       IF v = NoVersion
       THEN blocked' = blocked + 1 /\ UNCHANGED <<at, phase>>
       ELSE IF snapshot[p][v] = working[p]
       THEN UNCHANGED <<blocked, at, phase>>
       ELSE at' = <<p, v>> /\ phase' = "copying" /\ UNCHANGED blocked
  /\ UNCHANGED <<archiveVars, exit, published, edits, damage>>

(* Slip: a snapshot that differs is counted as blocked, and once more as an *)
(* archive that does not match.                                            *)
LookCountingTwice(p) ==
  /\ phase = "looking" /\ p \in left
  /\ left' = left \ {p}
  /\ LET v == Declares(working[p]) IN
       IF v = NoVersion
       THEN blocked' = blocked + 1 /\ UNCHANGED <<at, phase>>
       ELSE IF Readable(snapshot[p][v])
       THEN /\ blocked' = IF snapshot[p][v] # working[p] THEN blocked + 2 ELSE blocked
            /\ UNCHANGED <<at, phase>>
       ELSE at' = <<p, v>> /\ phase' = "copying" /\ UNCHANGED blocked
  /\ UNCHANGED <<archiveVars, exit, published, edits, damage>>

(* The profile and its snapshot are read and compared. *)
Look(p) ==
  /\ phase = "looking" /\ p \in left
  /\ left' = left \ {p}
  /\ LET v == Declares(working[p]) IN
       IF v = NoVersion
       THEN blocked' = blocked + 1 /\ UNCHANGED <<at, phase>>
       ELSE IF Readable(snapshot[p][v])
       THEN /\ blocked' = IF snapshot[p][v] # working[p] THEN blocked + 1 ELSE blocked
            /\ UNCHANGED <<at, phase>>
       ELSE at' = <<p, v>> /\ phase' = "copying" /\ UNCHANGED blocked
  /\ UNCHANGED <<archiveVars, exit, published, edits, damage>>

(* The source is read once more, as bytes, and the snapshot is opened for  *)
(* writing, which empties it.                                              *)
Copy ==
  /\ phase = "copying"
  /\ at' = <<at[1], at[2], working[at[1]]>>
  /\ snapshot' = [snapshot EXCEPT ![at[1]][at[2]] = Unparsable]
  /\ phase' = "writing"
  /\ UNCHANGED <<working, left, blocked, exit, published, edits, damage>>

Filed ==
  /\ phase = "writing"
  /\ snapshot' = [snapshot EXCEPT ![at[1]][at[2]] = at[3]]
  /\ at' = << >> /\ phase' = "looking"
  /\ UNCHANGED <<working, left, blocked, exit, published, edits, damage>>

EndArchive ==
  /\ phase = "looking" /\ left = {}
  /\ phase' = "idle" /\ exit' = IF blocked > 0 THEN 1 ELSE 0
  /\ UNCHANGED <<archiveVars, left, at, blocked, published, edits, damage>>

(* The process is killed, and leaves what it has written so far. *)
Killed ==
  /\ phase # "idle"
  /\ phase' = "idle" /\ left' = {} /\ at' = << >>
  /\ UNCHANGED <<archiveVars, blocked, exit, published, edits, damage>>

-----------------------------------------------------------------------------
(* Slip: only the snapshot of the current version is looked at. *)
ProblemsOfCurrent(p) ==
  LET v == Declares(working[p]) IN
       {k \in {"unreadable profile"} : v = NoVersion}
  \cup {k \in {"missing or differs"} : v # NoVersion /\ snapshot[p][v] # working[p]}

(* archiveProblems, for one profile.  A profile that cannot be read or     *)
(* declares no version has its archived versions left unexamined.          *)
Problems(p) ==
  LET v == Declares(working[p]) IN
  IF v = NoVersion THEN {"unreadable profile"}
  ELSE {k \in {"missing or differs"} : snapshot[p][v] # working[p]}
       \cup {k \in {"misfiled"} : \E w \in Versions : /\ snapshot[p][w] # Missing
                                                     /\ Declares(snapshot[p][w]) # w}

(* --check, in a build that publishes the archive when it passes. *)
Check ==
  /\ phase = "idle"
  /\ \A p \in Profiles : Problems(p) = {}
  /\ published' = [p \in Profiles |-> [v \in Versions |->
                     published[p][v] \cup ({snapshot[p][v]} \ {Missing})]]
  /\ UNCHANGED <<archiveVars, runVars, edits, damage>>

Next ==
  \/ \E p \in Profiles : Save(p) \/ Look(p)
  \/ \E p \in Profiles, v \in Versions : Damage(p, v)
  \/ StartArchive \/ Copy \/ Filed \/ EndArchive \/ Killed \/ Check

Spec == Init /\ [][Next]_vars

-----------------------------------------------------------------------------
(***************************************************************************)
(* Properties.                                                             *)
(***************************************************************************)
TypeOK ==
  /\ working \in [Profiles -> Files]
  /\ snapshot \in [Profiles -> [Versions -> Files]]
  /\ published \in [Profiles -> [Versions -> SUBSET (Documents \cup {Unparsable})]]
  /\ left \subseteq Profiles
  /\ phase \in {"idle", "looking", "copying", "writing"}
  /\ blocked \in 0 .. Cardinality(Profiles) /\ exit \in {-1, 0, 1}

(* "A published profile URL must keep working" and its content is cached   *)
(* for a year (archive-profile-versions.ts:8): a snapshot a passing check  *)
(* has published keeps its content, whatever is saved, filed or killed     *)
(* afterwards, as long as nothing but the tool writes snapshots.           *)
PublishedNeverChanges ==
  damage = 0 =>
    \A p \in Profiles, v \in Versions : published[p][v] \subseteq {snapshot[p][v]}

(* "A directory name can never disagree with the document inside it": what *)
(* is published under a version declares that version, even if the profile *)
(* was saved between the two reads of the tool or the write was cut short. *)
PublishedUnderItsVersion ==
  \A p \in Profiles, v \in Versions :
    \A file \in published[p][v] : Declares(file) = v

(* "The archive cannot be re-pointed at the new content"                   *)
(* (archive-profile-versions.ts:23): no check passes twice for one version *)
(* of a profile with two contents.                                         *)
NeverRepointed ==
  \A p \in Profiles, v \in Versions : Cardinality(published[p][v]) <= 1
=============================================================================
