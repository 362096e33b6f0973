------------------------- MODULE CheckpointVerdict --------------------------
(***************************************************************************)
(* What verify-checkpoint promises, without how it computes it: a verdict  *)
(* is a function of the set of events in the archive and of the claims,    *)
(* whatever order the events are met in and chains are walked in           *)
(* (specification/integrity.md, sections 7.1 to 7.3, and the comparison of *)
(* section 9).  VerifyCheckpoint is checked to implement it.               *)
(***************************************************************************)
EXTENDS SealedEvents, FiniteSets

VARIABLES archive, claims, verdict

verdictVars == <<archive, claims, verdict>>

Entries == 1 .. Len(archive)
Members(c) == {i \in Entries : archive[i].chain = c /\ Valid(archive[i])}
Strays == {i \in Entries : archive[i].chain \notin Chains \/ ~Valid(archive[i])}

Precedes(i, j) ==
  /\ archive[i].seq < archive[j].seq
  /\ \A k \in Members(archive[i].chain) :
       archive[k].seq <= archive[i].seq \/ archive[k].seq >= archive[j].seq

Consistent(c) ==
  /\ \A i \in Members(c) :
       /\ archive[i].seq # NoSequence
       /\ archive[i].scheme \in Supported
       /\ archive[i].hash = Digest(Input(archive[i]))
  /\ \A i, j \in Members(c) :
       /\ archive[i].scheme = archive[j].scheme
       /\ archive[i].seq = archive[j].seq => i = j
       /\ Precedes(i, j) => archive[j].prev = archive[i].hash

Reaches(c, claim) ==
  /\ \E i \in Members(c) : /\ archive[i].seq = claim.seq
                           /\ archive[i].hash = claim.hash
                           /\ archive[i].scheme = claim.scheme
  /\ claim.count # 0 =>
       Cardinality({i \in Members(c) : archive[i].seq <= claim.seq}) = claim.count

Judgement ==
  IF archive = << >> THEN "no-events"
  ELSE IF DOMAIN claims = {} THEN "none"
  ELSE IF \A c \in DOMAIN claims : Members(c) = {} THEN "no-chain"
  ELSE IF /\ Strays = {}
          /\ \A c \in Chains : Consistent(c)
          /\ \A c \in DOMAIN claims : Reaches(c, claims[c])
       THEN "agrees"
       ELSE "disagrees"

VerdictInit == verdict = "none"

(* Between two verdicts the archive and the claims are anybody's. *)
Change == verdict = "none" /\ verdict' = "none"

Judge == verdict' = Judgement /\ UNCHANGED <<archive, claims>>

Discard == verdict' = "none" /\ UNCHANGED <<archive, claims>>

VerdictNext == Change \/ Judge \/ Discard

VerdictSpec == VerdictInit /\ [][VerdictNext]_verdictVars
=============================================================================
