-------------------------- MODULE PublicationProofs --------------------------
(***************************************************************************)
(* What the archive promises, and that a version of a profile is one       *)
(* document in the archive and in every release, proved for every set of   *)
(* profiles, versions and documents and any number of saves, kills,        *)
(* releases and edits of the catalogue.                                    *)
(*                                                                         *)
(* The tool overwrites a snapshot, so its promise hangs on what lies       *)
(* between its look at the snapshot and its write: nothing else writes     *)
(* there, and the snapshot it writes over was never part of a check that   *)
(* passed, because a check refuses what declares no version.               *)
(*                                                                         *)
(* A release makes the catalogue, the manifest, the profile and its        *)
(* snapshot meet in one document; from then on only a file that holds no   *)
(* document is ever written over, so the snapshot stays what was released. *)
(***************************************************************************)
EXTENDS Publication, FiniteSetTheorems, TLAPS

(* The files and what a passing check has published of them. *)
FilesOK ==
  /\ working \in [Profiles -> Files]
  /\ snapshot \in [Profiles -> [Versions -> Files]]
  /\ published \in [Profiles -> [Versions -> SUBSET Files]]
  /\ damage \in Nat

(* The file the run is about to write holds no document. *)
WriteOK ==
  /\ phase = "copying" =>
       \E p \in Profiles, v \in Versions : at = <<p, v>> /\ ~Readable(snapshot[p][v])
  /\ phase = "writing" =>
       \E p \in Profiles, v \in Versions, file \in Files :
         at = <<p, v, file>> /\ ~Readable(snapshot[p][v])

(* Only documents are published, under the version they declare. *)
PublishedOK ==
  \A p \in Profiles, v \in Versions :
    \A file \in published[p][v] : Readable(file) /\ file.version = v

IInv == FilesOK /\ WriteOK /\ PublishedOK

-----------------------------------------------------------------------------
(* The version a file is filed under is one that names a directory. *)
LEMMA DeclaredVersion ==
  ASSUME NEW file \in Files, Declares(file) # NoVersion
  PROVE  Readable(file) /\ Declares(file) \in Versions /\ Declares(file) = file.version
BY DEF Declares, Readable, Documents

(* A check that passes has seen, of a profile, documents only, each where  *)
(* its version says.                                                       *)
LEMMA PassedCheck ==
  ASSUME FilesOK, NEW p \in Profiles, NEW v \in Versions, Problems(p) = {},
         snapshot[p][v] # Missing
  PROVE  Readable(snapshot[p][v]) /\ snapshot[p][v].version = v
<1>1. snapshot[p][v] \in Files
  BY DEF FilesOK
<1>2. Declares(working[p]) # NoVersion
  BY DEF Problems
<1>3. Declares(snapshot[p][v]) = v
  <2>1. {k \in {"misfiled"} : \E w \in Versions : /\ snapshot[p][w] # Missing
                                                  /\ Declares(snapshot[p][w]) # w} = {}
    BY <1>2 DEF Problems
  <2>2. ~ \E w \in Versions : snapshot[p][w] # Missing /\ Declares(snapshot[p][w]) # w
    BY <2>1
  <2> QED BY <2>2
<1>4. v # NoVersion
  BY ArchiveAssumption
<1> QED BY <1>1, <1>3, <1>4, DeclaredVersion

(* A write changes one snapshot. *)
LEMMA OneSnapshotChanges ==
  ASSUME FilesOK, NEW p \in Profiles, NEW v \in Versions, NEW file \in Files,
         snapshot' = [snapshot EXCEPT ![p][v] = file]
  PROVE  /\ snapshot' \in [Profiles -> [Versions -> Files]]
         /\ \A q \in Profiles, w \in Versions :
              snapshot'[q][w] = IF q = p /\ w = v THEN file ELSE snapshot[q][w]
<1>1. snapshot' = [snapshot EXCEPT ![p] = [snapshot[p] EXCEPT ![v] = file]]
  OBVIOUS
<1>2. snapshot[p] \in [Versions -> Files]
  BY DEF FilesOK
<1>3. [snapshot[p] EXCEPT ![v] = file] \in [Versions -> Files]
  BY <1>2
<1>4. snapshot' \in [Profiles -> [Versions -> Files]]
  BY <1>1, <1>3 DEF FilesOK
<1>5. ASSUME NEW q \in Profiles, NEW w \in Versions
      PROVE  snapshot'[q][w] = IF q = p /\ w = v THEN file ELSE snapshot[q][w]
  BY <1>1, <1>2 DEF FilesOK
<1> QED BY <1>4, <1>5

-----------------------------------------------------------------------------
LEMMA InitInvariant == Init => IInv
<1> SUFFICES ASSUME Init PROVE IInv
  OBVIOUS
<1>1. FilesOK
  BY DEF Init, FilesOK, Files
<1>2. WriteOK
  BY DEF Init, WriteOK
<1>3. PublishedOK
  BY DEF Init, PublishedOK
<1> QED BY <1>1, <1>2, <1>3 DEF IInv

LEMMA NextInvariant == IInv /\ [Next]_vars => IInv'
<1> SUFFICES ASSUME IInv, [Next]_vars PROVE IInv'
  OBVIOUS
<1> USE DEF IInv
<1>1. ASSUME NEW p \in Profiles, Save(p) PROVE IInv'
  <2>1. FilesOK'
    BY <1>1 DEF Save, FilesOK, Files
  <2>2. WriteOK' /\ PublishedOK'
    BY <1>1 DEF Save, runVars, WriteOK, PublishedOK
  <2> QED BY <2>1, <2>2
<1>2. ASSUME NEW p \in Profiles, NEW v \in Versions, Damage(p, v) PROVE IInv'
  <2>1. FilesOK'
    BY <1>2, OneSnapshotChanges DEF Damage, FilesOK, Files
  <2>2. \A q \in Profiles, w \in Versions :
          ~Readable(snapshot[q][w]) => ~Readable(snapshot'[q][w])
    BY <1>2, OneSnapshotChanges, ArchiveAssumption DEF Damage, Files, Readable
  <2>3. WriteOK'
    BY <1>2, <2>2 DEF Damage, runVars, WriteOK, Readable
  <2>4. PublishedOK'
    BY <1>2 DEF Damage, PublishedOK
  <2> QED BY <2>1, <2>3, <2>4
<1>3. ASSUME NEW p \in Profiles, Look(p) PROVE IInv'
  <2>1. FilesOK' /\ PublishedOK'
    BY <1>3 DEF Look, archiveVars, FilesOK, PublishedOK
  <2> DEFINE v == Declares(working[p])
  <2>2. CASE UNCHANGED <<at, phase>>
    BY <1>3, <2>1, <2>2 DEF Look, archiveVars, WriteOK
  <2>3. CASE /\ v # NoVersion /\ ~Readable(snapshot[p][v])
             /\ at' = <<p, v>> /\ phase' = "copying"
    <3>1. v \in Versions
      BY <2>3, DeclaredVersion DEF FilesOK
    <3>2. ~Readable(snapshot'[p][v])
      BY <1>3, <2>3 DEF Look, archiveVars
    <3>3. WriteOK'
      BY <2>3, <3>1, <3>2 DEF WriteOK
    <3> QED BY <2>1, <3>3
  <2> QED BY <1>3, <2>2, <2>3 DEF Look
<1>4. ASSUME Copy PROVE IInv'
  <2>1. PICK p \in Profiles, v \in Versions : at = <<p, v>>
    BY <1>4 DEF Copy, WriteOK
  <2>2. at' = <<p, v, working[p]>> /\ working[p] \in Files
    BY <1>4, <2>1 DEF Copy, FilesOK
  <2>3. snapshot' = [snapshot EXCEPT ![p][v] = Unparsable]
    BY <1>4, <2>1 DEF Copy
  <2>4. FilesOK'
    BY <1>4, <2>3, OneSnapshotChanges DEF Copy, FilesOK, Files
  <2>5. ~Readable(snapshot'[p][v])
    BY <2>3, OneSnapshotChanges, ArchiveAssumption DEF Files, Readable
  <2>6. WriteOK'
    BY <1>4, <2>2, <2>5 DEF Copy, WriteOK
  <2>7. PublishedOK'
    BY <1>4 DEF Copy, PublishedOK
  <2> QED BY <2>4, <2>6, <2>7
<1>5. ASSUME Filed PROVE IInv'
  <2>1. PICK p \in Profiles, v \in Versions, file \in Files : at = <<p, v, file>>
    BY <1>5 DEF Filed, WriteOK
  <2>2. snapshot' = [snapshot EXCEPT ![p][v] = file]
    BY <1>5, <2>1 DEF Filed
  <2>3. FilesOK'
    BY <1>5, <2>2, OneSnapshotChanges DEF Filed, FilesOK
  <2>4. WriteOK' /\ PublishedOK'
    BY <1>5 DEF Filed, WriteOK, PublishedOK
  <2> QED BY <2>3, <2>4
<1>6. ASSUME Check PROVE IInv'
  <2>1. FilesOK'
    BY <1>6 DEF Check, archiveVars, FilesOK
  <2>2. WriteOK'
    BY <1>6 DEF Check, archiveVars, runVars, WriteOK
  <2>3. ASSUME NEW p \in Profiles, NEW v \in Versions, NEW file \in published'[p][v]
        PROVE  Readable(file) /\ file.version = v
    <3>1. file \in published[p][v] \/ (file = snapshot[p][v] /\ file # Missing)
      BY <1>6, <2>3 DEF Check
    <3>2. Problems(p) = {}
      BY <1>6 DEF Check
    <3> QED BY <3>1, <3>2, PassedCheck DEF PublishedOK
  <2>4. PublishedOK'
    BY <2>3 DEF PublishedOK
  <2> QED BY <2>1, <2>2, <2>4
<1>7. CASE StartArchive
  BY <1>7 DEF StartArchive, archiveVars, FilesOK, WriteOK, PublishedOK
<1>8. CASE EndArchive
  BY <1>8 DEF EndArchive, archiveVars, FilesOK, WriteOK, PublishedOK
<1>9. CASE Killed
  BY <1>9 DEF Killed, archiveVars, FilesOK, WriteOK, PublishedOK
<1>10. CASE UNCHANGED vars
  BY <1>10 DEF vars, archiveVars, runVars, FilesOK, WriteOK, PublishedOK
<1> QED
  BY <1>1, <1>2, <1>3, <1>4, <1>5, <1>6, <1>7, <1>8, <1>9, <1>10 DEF Next

(* What the properties rest on: a run writes only over a file that holds   *)
(* no document, and only documents are published.                          *)
THEOREM InvariantHolds == Spec => []IInv
BY InitInvariant, NextInvariant, PTL DEF Spec

-----------------------------------------------------------------------------
(* A run blocks a profile at most once: what it has blocked and what it has *)
(* yet to look at are never more than there are profiles, also after a run *)
(* that was killed.                                                        *)
RunOK ==
  /\ left \subseteq Profiles
  /\ phase \in {"idle", "looking", "copying", "writing"}
  /\ exit \in {-1, 0, 1}
  /\ blocked \in Nat /\ blocked + Cardinality(left) <= Cardinality(Profiles)

LEMMA LeftIsCounted ==
  ASSUME NEW some \in SUBSET Profiles
  PROVE  /\ Cardinality(some) \in Nat /\ Cardinality({}) = 0
         /\ \A p \in some : Cardinality(some \ {p}) = Cardinality(some) - 1
<1>1. IsFiniteSet(some)
  BY ArchiveAssumption, FS_Subset
<1> QED BY <1>1, FS_CardinalityType, FS_RemoveElement, FS_EmptySet

LEMMA NextKeepsRun == RunOK /\ [Next]_vars => RunOK'
<1> SUFFICES ASSUME RunOK, [Next]_vars PROVE RunOK'
  OBVIOUS
<1>1. Cardinality(left) \in Nat /\ Cardinality(Profiles) \in Nat /\ Cardinality({}) = 0
  BY LeftIsCounted DEF RunOK
<1>2. ASSUME NEW p \in Profiles, Look(p) PROVE RunOK'
  <2>1. left' = left \ {p} /\ Cardinality(left \ {p}) = Cardinality(left) - 1
    BY <1>2, LeftIsCounted DEF Look, RunOK
  <2>2. blocked' \in {blocked, blocked + 1} /\ phase' \in {phase, "copying"} /\ exit' = exit
    BY <1>2 DEF Look
  <2> QED BY <1>1, <2>1, <2>2 DEF RunOK
<1>3. CASE StartArchive
  BY <1>1, <1>3 DEF StartArchive, RunOK
<1>4. CASE EndArchive
  BY <1>4 DEF EndArchive, RunOK
<1>5. CASE Killed
  BY <1>1, <1>5 DEF Killed, RunOK
<1>6. ASSUME NEW p \in Profiles, Save(p) PROVE RunOK'
  BY <1>6 DEF Save, runVars, RunOK
<1>7. ASSUME NEW p \in Profiles, NEW v \in Versions, Damage(p, v) PROVE RunOK'
  BY <1>7 DEF Damage, runVars, RunOK
<1>8. CASE Copy \/ Filed
  BY <1>8 DEF Copy, Filed, RunOK
<1>9. CASE Check \/ UNCHANGED vars
  BY <1>9 DEF Check, vars, runVars, RunOK
<1> QED BY <1>2, <1>3, <1>4, <1>5, <1>6, <1>7, <1>8, <1>9 DEF Next

(* Every variable keeps its type; of a file that is missing nothing is     *)
(* published, and no run blocks more profiles than there are.              *)
THEOREM TypeCorrect == Spec => []TypeOK
<1>1. Init => RunOK
  BY LeftIsCounted DEF Init, RunOK
<1>2. ASSUME IInv, RunOK PROVE TypeOK
  <2>1. blocked \in 0 .. Cardinality(Profiles)
    BY <1>2, LeftIsCounted DEF RunOK
  <2>2. published \in [Profiles -> [Versions -> SUBSET (Documents \cup {Unparsable})]]
    <3>1. \A p \in Profiles, v \in Versions : published[p][v] \in SUBSET (Documents \cup {Unparsable})
      BY <1>2 DEF IInv, PublishedOK, Readable
    <3> QED BY <1>2, <3>1 DEF IInv, FilesOK
  <2> QED BY <1>2, <2>1, <2>2 DEF IInv, FilesOK, RunOK, TypeOK
<1>3. IInv /\ RunOK => TypeOK
  BY <1>2
<1> QED BY <1>1, <1>3, NextKeepsRun, InvariantHolds, PTL DEF Spec

-----------------------------------------------------------------------------
(* What is published under a version declares it, whatever is saved,       *)
(* killed or damaged in between.                                           *)
THEOREM UnderItsVersionTheorem == Spec => []PublishedUnderItsVersion
<1>1. IInv => PublishedUnderItsVersion
  BY DEF IInv, PublishedOK, PublishedUnderItsVersion, Declares
<1> QED BY <1>1, InvariantHolds, PTL

(* No step changes a snapshot that a check has published. *)
LEMMA NextKeepsPublished ==
  IInv /\ PublishedNeverChanges /\ [Next]_vars => PublishedNeverChanges'
<1> SUFFICES ASSUME IInv, PublishedNeverChanges, [Next]_vars PROVE PublishedNeverChanges'
  OBVIOUS
<1> USE DEF PublishedNeverChanges
<1>1. ASSUME NEW p \in Profiles, Save(p) PROVE PublishedNeverChanges'
  BY <1>1 DEF Save
<1>2. ASSUME NEW p \in Profiles, NEW v \in Versions, Damage(p, v) PROVE PublishedNeverChanges'
  BY <1>2 DEF Damage, IInv, FilesOK
<1>3. ASSUME NEW p \in Profiles, Look(p) PROVE PublishedNeverChanges'
  BY <1>3 DEF Look, archiveVars
<1>4. ASSUME NEW p \in Profiles, NEW v \in Versions, ~Readable(snapshot[p][v]), damage = 0
      PROVE  published[p][v] = {}
  BY <1>4 DEF IInv, PublishedOK
<1>5. ASSUME NEW p \in Profiles, NEW v \in Versions, NEW file \in Files,
             snapshot' = [snapshot EXCEPT ![p][v] = file], damage = 0 => published[p][v] = {},
             UNCHANGED <<published, damage>>
      PROVE  PublishedNeverChanges'
  <2>1. ASSUME damage = 0, NEW q \in Profiles, NEW w \in Versions
        PROVE  published'[q][w] \subseteq {snapshot'[q][w]}
    <3>1. CASE q = p /\ w = v
      BY <1>5, <2>1, <3>1
    <3>2. CASE ~(q = p /\ w = v)
      <4>1. snapshot'[q][w] = snapshot[q][w]
        BY <1>5, <3>2, OneSnapshotChanges DEF IInv
      <4> QED BY <1>5, <2>1, <4>1
    <3> QED BY <3>1, <3>2
  <2> QED BY <1>5, <2>1
<1>6. CASE Copy
  <2>1. PICK p \in Profiles, v \in Versions : at = <<p, v>> /\ ~Readable(snapshot[p][v])
    BY <1>6 DEF Copy, IInv, WriteOK
  <2>2. snapshot' = [snapshot EXCEPT ![p][v] = Unparsable]
    BY <1>6, <2>1 DEF Copy
  <2>3. damage = 0 => published[p][v] = {}
    BY <1>4, <2>1
  <2>4. Unparsable \in Files
    BY DEF Files
  <2> QED BY <1>5, <1>6, <2>2, <2>3, <2>4 DEF Copy
<1>7. CASE Filed
  <2>1. PICK p \in Profiles, v \in Versions, file \in Files :
          at = <<p, v, file>> /\ ~Readable(snapshot[p][v])
    BY <1>7 DEF Filed, IInv, WriteOK
  <2>2. snapshot' = [snapshot EXCEPT ![p][v] = file]
    BY <1>7, <2>1 DEF Filed
  <2>3. damage = 0 => published[p][v] = {}
    BY <1>4, <2>1
  <2> QED BY <1>5, <1>7, <2>2, <2>3 DEF Filed
<1>8. CASE Check
  BY <1>8 DEF Check, archiveVars
<1>9. CASE StartArchive \/ EndArchive \/ Killed
  BY <1>9 DEF StartArchive, EndArchive, Killed, archiveVars
<1>10. CASE UNCHANGED vars
  BY <1>10 DEF vars, archiveVars
<1> QED
  BY <1>1, <1>2, <1>3, <1>6, <1>7, <1>8, <1>9, <1>10 DEF Next

(* What a passing check has published keeps its content, as long as        *)
(* nothing but the tool writes snapshots.                                  *)
THEOREM NeverChangesTheorem == Spec => []PublishedNeverChanges
<1>1. Init => PublishedNeverChanges
  BY DEF Init, PublishedNeverChanges
<1>2. IInv /\ PublishedNeverChanges /\ [Next]_vars => PublishedNeverChanges'
  BY NextKeepsPublished
<1> QED BY <1>1, <1>2, InvariantHolds, PTL DEF Spec

-----------------------------------------------------------------------------
(* Releases.                                                               *)
ListedOK == listed \in [Profiles -> Versions]

(* What was released under a version is a document the archive still holds. *)
ServedOK ==
  /\ served \in [Profiles -> [Versions -> SUBSET Files]]
  /\ damage = 0 =>
       \A p \in Profiles, v \in Versions : \A file \in served[p][v] :
         Readable(file) /\ snapshot[p][v] = file

ReleasedInv == IInv /\ ListedOK /\ ServedOK

-----------------------------------------------------------------------------
(* A step of the archive without damage leaves every filed document as it  *)
(* is: it writes where no document is.                                     *)
LEMMA StepKeepsDocuments ==
  ASSUME IInv, Next, damage' = 0, NEW p \in Profiles, NEW v \in Versions,
         Readable(snapshot[p][v])
  PROVE  snapshot'[p][v] = snapshot[p][v] /\ damage = 0
<1>1. ASSUME NEW q \in Profiles, NEW w \in Versions, Damage(q, w) PROVE FALSE
  BY <1>1 DEF Damage, IInv, FilesOK
<1>2. CASE snapshot' = snapshot /\ damage' = damage
  BY <1>2
<1>3. ASSUME NEW q \in Profiles, NEW w \in Versions, NEW file \in Files,
             ~Readable(snapshot[q][w]), snapshot' = [snapshot EXCEPT ![q][w] = file],
             damage' = damage
      PROVE  snapshot'[p][v] = snapshot[p][v] /\ damage = 0
  <2>1. ~(p = q /\ v = w)
    BY <1>3
  <2> QED BY <1>3, <2>1, OneSnapshotChanges DEF IInv
<1>4. CASE Copy
  <2>1. PICK q \in Profiles, w \in Versions : at = <<q, w>> /\ ~Readable(snapshot[q][w])
    BY <1>4 DEF Copy, IInv, WriteOK
  <2>2. snapshot' = [snapshot EXCEPT ![q][w] = Unparsable] /\ damage' = damage
    BY <1>4, <2>1 DEF Copy
  <2>3. Unparsable \in Files
    BY DEF Files
  <2> QED BY <1>3, <2>1, <2>2, <2>3
<1>5. CASE Filed
  <2>1. PICK q \in Profiles, w \in Versions, file \in Files :
          at = <<q, w, file>> /\ ~Readable(snapshot[q][w])
    BY <1>5 DEF Filed, IInv, WriteOK
  <2>2. snapshot' = [snapshot EXCEPT ![q][w] = file] /\ damage' = damage
    BY <1>5, <2>1 DEF Filed
  <2> QED BY <1>3, <2>1, <2>2
<1>6. ASSUME NEW q \in Profiles, Save(q) \/ Look(q) PROVE snapshot' = snapshot /\ damage' = damage
  BY <1>6 DEF Save, Look, archiveVars
<1>7. CASE StartArchive \/ EndArchive \/ Killed \/ Check
  BY <1>2, <1>7 DEF StartArchive, EndArchive, Killed, Check, archiveVars
<1> QED BY <1>1, <1>2, <1>4, <1>5, <1>6, <1>7 DEF Next

(* In a release, the document under the version of the catalogue is the    *)
(* snapshot filed under it.                                                *)
LEMMA ReleaseServesSnapshots ==
  ASSUME ReleasedInv, Release, NEW p \in Profiles, NEW v \in Versions, manifest.under[p] = v
  PROVE  Readable(manifest.text[p]) /\ snapshot[p][v] = manifest.text[p]
<1>1. manifest.text = working /\ manifest.under = listed
  BY DEF Release, ManifestIsCurrent, Manifest
<1>2. Declares(working[p]) = v
  BY <1>1 DEF Release, bundledProfiles
<1>3. v # NoVersion
  BY ArchiveAssumption
<1>4. Readable(working[p])
  BY <1>2, <1>3 DEF Declares
<1>5. snapshot[p][v] = working[p]
  <2>1. {k \in {"missing or differs"} : snapshot[p][v] # working[p]} = {}
    BY <1>2, <1>3 DEF Release, Problems
  <2> QED BY <2>1
<1> QED BY <1>1, <1>4, <1>5

-----------------------------------------------------------------------------
LEMMA PublicationInitInvariant == PublicationInit => ReleasedInv
<1> SUFFICES ASSUME PublicationInit PROVE ReleasedInv
  OBVIOUS
<1>1. IInv
  BY InitInvariant DEF PublicationInit
<1>2. ListedOK /\ ServedOK
  BY DEF PublicationInit, ListedOK, ServedOK
<1> QED BY <1>1, <1>2 DEF ReleasedInv

LEMMA PublicationNextInvariant ==
  ReleasedInv /\ [PublicationNext]_<<vars, publicationVars>> => ReleasedInv'
<1> SUFFICES ASSUME ReleasedInv, [PublicationNext]_<<vars, publicationVars>>
             PROVE  ReleasedInv'
  OBVIOUS
<1>1. CASE Next /\ UNCHANGED publicationVars
  <2>1. IInv'
    BY <1>1, NextInvariant DEF ReleasedInv
  <2>2. ListedOK'
    BY <1>1 DEF publicationVars, ReleasedInv, ListedOK
  <2>3. served' = served
    BY <1>1 DEF publicationVars
  <2>4. ASSUME damage' = 0, NEW p \in Profiles, NEW v \in Versions, NEW file \in served[p][v]
        PROVE  Readable(file) /\ snapshot'[p][v] = file
    <3>1. damage = 0
      <4>1. \/ \E q \in Profiles, w \in Versions : Damage(q, w)
            \/ damage' = damage
        BY <1>1 DEF Next, Save, Look, StartArchive, Copy, Filed, EndArchive, Killed, Check
      <4> QED BY <2>4, <4>1 DEF Damage, ReleasedInv, IInv, FilesOK
    <3>2. Readable(file) /\ snapshot[p][v] = file
      BY <2>4, <3>1 DEF ReleasedInv, ServedOK
    <3> QED BY <1>1, <2>4, <3>2, StepKeepsDocuments DEF ReleasedInv
  <2>5. ServedOK'
    BY <2>3, <2>4 DEF ReleasedInv, ServedOK, Readable
  <2> QED BY <2>1, <2>2, <2>5 DEF ReleasedInv
<1>2. CASE Release
  <2>1. IInv'
    BY <1>2, NextInvariant DEF Release, ReleasedInv
  <2>2. ListedOK'
    BY <1>2 DEF Release, ReleasedInv, ListedOK
  <2>3. UNCHANGED <<snapshot, damage>>
    BY <1>2 DEF Release, vars, archiveVars
  <2>4. \A p \in Profiles : manifest.text[p] \in Files
    BY <1>2 DEF Release, ManifestIsCurrent, Manifest, ReleasedInv, IInv, FilesOK
  <2>5. served' \in [Profiles -> [Versions -> SUBSET Files]]
    BY <1>2, <2>4 DEF Release, ReleasedInv, ServedOK
  <2>6. ASSUME damage = 0, NEW p \in Profiles, NEW v \in Versions, NEW file \in served'[p][v]
        PROVE  Readable(file) /\ snapshot[p][v] = file
    <3>1. file \in served[p][v] \/ (manifest.under[p] = v /\ file = manifest.text[p])
      BY <1>2, <2>6 DEF Release
    <3> QED BY <1>2, <2>6, <3>1, ReleaseServesSnapshots DEF ReleasedInv, ServedOK
  <2>7. ServedOK'
    BY <2>3, <2>5, <2>6 DEF ServedOK, Readable
  <2> QED BY <2>1, <2>2, <2>7 DEF ReleasedInv
<1>3. ASSUME UNCHANGED <<vars, served>>, ListedOK' PROVE ReleasedInv'
  <2>1. IInv'
    BY <1>3, NextInvariant DEF ReleasedInv
  <2>2. ServedOK'
    BY <1>3 DEF ReleasedInv, ServedOK, vars, archiveVars, Readable
  <2> QED BY <1>3, <2>1, <2>2 DEF ReleasedInv
<1>4. ASSUME NEW p \in Profiles, Relist(p) PROVE ReleasedInv'
  BY <1>3, <1>4 DEF Relist, ReleasedInv, ListedOK
<1>5. CASE StartGenerator \/ Embed \/ Generated \/ GeneratorKilled
  BY <1>3, <1>5 DEF StartGenerator, Embed, Generated, GeneratorKilled, ReleasedInv, ListedOK
<1>6. CASE UNCHANGED <<vars, publicationVars>>
  BY <1>3, <1>6 DEF publicationVars, ReleasedInv, ListedOK
<1> QED BY <1>1, <1>2, <1>4, <1>5, <1>6 DEF PublicationNext

(* What a released server has ever enforced under a version of a profile   *)
(* is the document the archive holds under it, as long as nothing but the  *)
(* tool writes snapshots.                                                  *)
THEOREM OneVersionTheorem == PublicationSpec => []OneVersionOneDocument
<1>1. ReleasedInv => OneVersionOneDocument
  BY DEF ReleasedInv, ServedOK, OneVersionOneDocument
<1> QED
  BY <1>1, PublicationInitInvariant, PublicationNextInvariant, PTL DEF PublicationSpec
=============================================================================
