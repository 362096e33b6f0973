----------------------------- MODULE Publication -----------------------------
(***************************************************************************)
(* What becomes of an archived profile: the manifest of resources that is  *)
(* generated from the profiles (mcp/scripts/generate-resource-manifest.mjs)*)
(* and committed with them, and the releases of the server that is built   *)
(* from both.  The catalogue of the generator carries the version of each  *)
(* profile by hand, in its URI; the manifest carries URI and text; and the *)
(* server reads the version from each (mcp/src/engines.ts).                *)
(*                                                                         *)
(* A release is made of one checkout, if npm run verify passes on it.      *)
(***************************************************************************)
EXTENDS ProfileArchive

CONSTANT MaxListings   \* bound: how often the catalogue is edited

ASSUME ListingsAssumption == MaxListings \in Nat

VARIABLES
  listed,      \* CATALOGUE: per profile, the version in its URI
  manifest,    \* resource-manifest.generated.ts
  generator,   \* <<>>, <<"validated">>, or <<"writing", the manifest>>
  served,      \* per profile and version in a URI, what released servers enforce
  listings

publicationVars == <<listed, manifest, generator, served, listings>>

Manifest(texts, versions) == [text |-> texts, under |-> versions]

PublicationInit ==
  /\ Init
  /\ listed \in [Profiles -> Versions]
  /\ manifest = Missing /\ generator = << >>
  /\ served = [p \in Profiles |-> [v \in Versions |-> {}]]
  /\ listings = 0

Relist(p) ==
  /\ listings < MaxListings
  /\ listings' = listings + 1
  /\ \E v \in Versions : listed' = [listed EXCEPT ![p] = v]
  /\ UNCHANGED <<vars, manifest, generator, served>>

-----------------------------------------------------------------------------
(* The generator.  It reads every profile twice, to validate it and to     *)
(* embed it.  Bound: it is not run while the archive tool is.              *)

(* The definition schema asks for a version.  A file that does not parse,  *)
(* or is not valid, ends the generator.                                    *)
assertProfilesAreValid == \A p \in Profiles : Declares(working[p]) # NoVersion

StartGenerator ==
  /\ generator = << >> /\ phase = "idle"
  /\ assertProfilesAreValid
  /\ generator' = <<"validated">>
  /\ UNCHANGED <<vars, listed, manifest, served, listings>>

(* Each text is read, and the manifest is opened for writing. *)
Embed ==
  /\ generator = <<"validated">>
  /\ generator' = <<"writing", Manifest(working, listed)>>
  /\ manifest' = Unparsable
  /\ UNCHANGED <<vars, listed, served, listings>>

Generated ==
  /\ generator # << >> /\ generator[1] = "writing"
  /\ manifest' = generator[2] /\ generator' = << >>
  /\ UNCHANGED <<vars, listed, served, listings>>

GeneratorKilled ==
  /\ generator # << >>
  /\ generator' = << >>
  /\ UNCHANGED <<vars, listed, manifest, served, listings>>

-----------------------------------------------------------------------------
(* A release. *)

(* --check of the manifest. *)
ManifestIsCurrent == assertProfilesAreValid /\ manifest = Manifest(working, listed)

(* Slip: the version in the URI is taken for the profile's. *)
bundledProfilesByURI == TRUE

(* The server starts: the manifest that is part of it is read. *)
bundledProfiles ==
  \A p \in Profiles : Declares(manifest.text[p]) = manifest.under[p]

Release ==
  /\ phase = "idle" /\ generator = << >>
  /\ \A p \in Profiles : Problems(p) = {}
  /\ ManifestIsCurrent
  /\ bundledProfiles
  /\ served' = [p \in Profiles |-> [v \in Versions |->
                  served[p][v] \cup IF manifest.under[p] = v THEN {manifest.text[p]} ELSE {}]]
  /\ UNCHANGED <<vars, listed, manifest, generator, listings>>

PublicationNext ==
  \/ Next /\ (generator = << >> \/ phase' = "idle") /\ UNCHANGED publicationVars
  \/ \E p \in Profiles : Relist(p)
  \/ StartGenerator \/ Embed \/ Generated \/ GeneratorKilled \/ Release

PublicationSpec == PublicationInit /\ [][PublicationNext]_<<vars, publicationVars>>

-----------------------------------------------------------------------------
(* A version of a profile is one document, wherever it is read and for     *)
(* good: what a released server has ever enforced under a version is what  *)
(* the archive holds under it, although three files written by three tools *)
(* and one list kept by hand have to agree on it, and profiles are saved   *)
(* in between (engines.ts:104, archive-profile-versions.ts:8).             *)
OneVersionOneDocument ==
  damage = 0 =>
    \A p \in Profiles, v \in Versions : served[p][v] \subseteq {snapshot[p][v]}
=============================================================================
