-------------------------- MODULE VerifyCheckpoint --------------------------
(***************************************************************************)
(* The comparison of an archive with a checkpoint                          *)
(* (conformance/src/integrity/verify-checkpoint.ts), composed with the     *)
(* chain verification it runs first and with the store.  The checkpoint is *)
(* the genuine one: a forged reference proves nothing, as the code says.   *)
(* It conforms to its schema and carries no signature.  A run without a    *)
(* checkpoint is verify-chain.                                             *)
(***************************************************************************)
EXTENDS VerifyChain

VARIABLES
  status,         \* per chain: unclaimed or pending, then the result
  claimFindings,  \* per chain, the findings of the comparison
  outcome         \* the report's outcome, "none" until there is one

compareVars == <<status, claimFindings, outcome>>
vars == <<storeVars, phase, chainVars, compareVars>>

Unclaimed == [c \in Chains |-> "unclaimed"]

Init ==
  /\ StoreInit
  /\ phase = "idle"
  /\ ChainInit
  /\ status = Unclaimed
  /\ claimFindings = Nothing
  /\ outcome = "none"

-----------------------------------------------------------------------------
(* indexArchive: what the comparison reads, and what it only counts. *)
Verified(c) ==
  {i \in 1 .. Len(archive) : /\ i \notin DOMAIN unassigned
                             /\ archive[i].chain = c
                             /\ archive[i].seq # NoSequence}

Unverified(c) == {i \in DOMAIN unassigned : archive[i].chain = c}

AtHead(c) == {i \in Verified(c) : archive[i].seq = claims[c].seq}

UpToHead(c) == {i \in Verified(c) : archive[i].seq <= claims[c].seq}

(* Slip: a head that is present but unverified is taken for a lost one. *)
HeadAbsentFindingsUnguarded(c) ==
  IF Sequenced(c) # {} /\ \A i \in Sequenced(c) : archive[i].seq < claims[c].seq
  THEN {"tail-truncated"}
  ELSE {"checkpoint-head-missing"}

(* No event at the recorded head: say no more than is known. *)
HeadAbsentFindings(c) ==
  IF Unverified(c) # {} THEN {}
  ELSE IF Sequenced(c) # {} /\ \A i \in Sequenced(c) : archive[i].seq < claims[c].seq
       THEN {"tail-truncated"}
       ELSE {"checkpoint-head-missing"}

(* The first event at the head, in archive order, speaks for the scheme. *)
HeadScheme(c) ==
  archive[CHOOSE i \in AtHead(c) : \A j \in AtHead(c) : i <= j].scheme

(* Slip: eventCount read as an upper bound. *)
HeadPresentFindingsAtMost(c) ==
  IF HeadScheme(c) # claims[c].scheme THEN {"checkpoint-algorithm-mismatch"}
  ELSE {k \in {"checkpoint-head-mismatch"} :
          \A i \in AtHead(c) : archive[i].hash # claims[c].hash}
       \cup
       {k \in {"checkpoint-count-mismatch"} :
          /\ claims[c].count # 0
          /\ Unverified(c) = {}
          /\ Cardinality(UpToHead(c)) > claims[c].count}

HeadPresentFindings(c) ==
  IF HeadScheme(c) # claims[c].scheme THEN {"checkpoint-algorithm-mismatch"}
  ELSE {k \in {"checkpoint-head-mismatch"} :
          \A i \in AtHead(c) : archive[i].hash # claims[c].hash}
       \cup
       {k \in {"checkpoint-count-mismatch"} :
          /\ claims[c].count # 0
          /\ Unverified(c) = {}
          /\ Cardinality(UpToHead(c)) # claims[c].count}

ClaimFindings(c) ==
  (IF AtHead(c) = {} THEN HeadAbsentFindings(c) ELSE HeadPresentFindings(c))
  \cup {k \in {"checkpoint-members-unverified"} : Unverified(c) # {}}

ClaimAgrees(c) == Intact(c) /\ ClaimFindings(c) = {} /\ Unverified(c) = {}

-----------------------------------------------------------------------------
(* No event in the input: the tool has nothing to run on. *)
RefuseEmpty ==
  /\ phase = "idle"
  /\ archive = << >>
  /\ phase' = "done"
  /\ outcome' = "no-events"
  /\ UNCHANGED <<chainVars, status, claimFindings>>

(* finishChains returns; without a checkpoint its report is the end. *)
FinishChains ==
  /\ ChainsFinished
  /\ phase' = IF claims = NoClaims THEN "done" ELSE "compare"
  /\ status' = [c \in Chains |-> IF c \in DOMAIN claims THEN "pending" ELSE "unclaimed"]
  /\ UNCHANGED <<chainVars, claimFindings, outcome>>

CompareClaim(c) ==
  /\ phase = "compare"
  /\ status[c] = "pending"
  /\ IF c \notin Present
     THEN /\ status' = [status EXCEPT ![c] = "missing"]
          /\ claimFindings' = [claimFindings EXCEPT ![c] = {"checkpoint-chain-missing"}]
     ELSE /\ status' = [status EXCEPT
                          ![c] = IF ClaimAgrees(c) THEN "agrees" ELSE "disagrees"]
          /\ claimFindings' = [claimFindings EXCEPT ![c] = ClaimFindings(c)]
  /\ UNCHANGED <<phase, chainVars, outcome>>

(* Slip: events that belong to no chain do not count against the report. *)
OutcomeOfNamedChains ==
  IF \A c \in DOMAIN claims : status[c] = "missing" THEN "no-chain"
  ELSE IF \A c \in DOMAIN claims : status[c] = "agrees"
       THEN "agrees"
       ELSE "disagrees"

Outcome ==
  IF \A c \in DOMAIN claims : status[c] = "missing" THEN "no-chain"
  ELSE IF ReportIntact /\ \A c \in DOMAIN claims : status[c] = "agrees"
       THEN "agrees"
       ELSE "disagrees"

Conclude ==
  /\ phase = "compare"
  /\ \A c \in Chains : status[c] # "pending"
  /\ outcome' = Outcome
  /\ phase' = "done"
  /\ UNCHANGED <<chainVars, status, claimFindings>>

(* The process has exited; the next run starts from nothing. *)
Forget ==
  /\ phase = "done"
  /\ phase' = "idle"
  /\ ChainReset
  /\ status' = Unclaimed
  /\ claimFindings' = Nothing
  /\ outcome' = "none"

Verify ==
  \/ StartRun /\ UNCHANGED compareVars
  \/ RefuseEmpty
  \/ AddChainEvent /\ UNCHANGED compareVars
  \/ FinishIntake /\ UNCHANGED compareVars
  \/ \E c \in Chains : OpenChain(c) /\ UNCHANGED compareVars
  \/ \E c \in Chains : WalkMember(c) /\ UNCHANGED compareVars
  \/ FinishChains
  \/ \E c \in Chains : CompareClaim(c)
  \/ Conclude
  \/ Forget

(* The archive does not change under a run.  What the readers do with a    *)
(* file that is written to meanwhile is the subject of LineReader.         *)
Next ==
  \/ Verify /\ UNCHANGED storeVars
  \/ phase = "idle" /\ StoreNext /\ UNCHANGED <<phase, chainVars, compareVars>>

Spec == Init /\ [][Next]_vars

TypeOK ==
  /\ StoreTypeOK
  /\ ChainTypeOK
  /\ \A c \in Chains :
       status[c] \in {"unclaimed", "pending", "agrees", "disagrees", "missing"}
  /\ outcome \in {"none", "agrees", "disagrees", "no-chain", "no-events"}

-----------------------------------------------------------------------------
(***************************************************************************)
(* Properties.                                                             *)
(***************************************************************************)
Done == phase = "done"

Agreed == Done /\ outcome = "agrees"

(* Archived events of a chain the comparison places at or below its head. *)
HeldUpToHead(c) ==
  {i \in 1 .. Len(archive) : /\ archive[i].chain = c
                             /\ archive[i].seq # NoSequence
                             /\ archive[i].seq <= claims[c].seq}

Holds(i, c, k) == Same(archive[i], history[c][k])

Held(c, k) == \E i \in 1 .. Len(archive) : Holds(i, c, k)

(* What an agreement promises (compareClaim after verifyOneChain): every   *)
(* event the archive holds of a named chain, at or below the recorded      *)
(* head, is one the producer sealed there; the head itself is held; and    *)
(* between the earliest of them and the head none is missing.              *)
AgreementAuthenticates ==
  Agreed =>
    \A c \in DOMAIN claims :
      \E j \in 1 .. Len(history[c]) :
        /\ history[c][j].seq = claims[c].seq
        /\ Held(c, j)
        /\ \A i \in HeldUpToHead(c) : \E k \in 1 .. j : Holds(i, c, k)
        /\ \A k, m \in 1 .. j : k <= m /\ Held(c, k) => Held(c, m)

(* A segment says so: an agreement whose chain carries no segment note     *)
(* covers everything that was sealed up to the head.                       *)
AgreementFromGenesisIsComplete ==
  Agreed =>
    \A c \in DOMAIN claims :
      "segment" \notin notes[c] =>
        \A k \in 1 .. Len(history[c]) :
          history[c][k].seq <= claims[c].seq => Held(c, k)

(* eventCount closes the gap a segment leaves: with it an agreement covers *)
(* everything sealed up to the head, note or no note.                      *)
CountedAgreementIsComplete ==
  Agreed =>
    \A c \in DOMAIN claims :
      claims[c].count # 0 =>
        \A k \in 1 .. Len(history[c]) :
          history[c][k].seq <= claims[c].seq => Held(c, k)

(* No false alarm: an archive that holds, in whatever order, each event of *)
(* each chain exactly once from some point on, past the recorded heads, in *)
(* a version and a scheme the verifier implements, agrees.                 *)
Window(c, k) ==
  /\ \A i \in 1 .. Len(archive) :
       archive[i].chain = c => \E m \in k .. Len(history[c]) : Holds(i, c, m)
  /\ \A m \in k .. Len(history[c]) :
       \E i \in 1 .. Len(archive) :
         Holds(i, c, m) /\ \A j \in 1 .. Len(archive) : Holds(j, c, m) => j = i

Undamaged ==
  /\ \A i \in 1 .. Len(archive) :
       /\ Valid(archive[i])
       /\ archive[i].chain \in Chains
       /\ \A j \in 1 .. Len(archive) :
            archive[i].chain = archive[j].chain => archive[i].scheme = archive[j].scheme
  /\ \A c \in Chains :
       LET lowest == IF c \in DOMAIN claims /\ claims[c].count = 0
                     THEN {k \in 1 .. Len(history[c]) : history[c][k].seq <= claims[c].seq}
                     ELSE {1}
       IN IF history[c] = << >>
          THEN \A i \in 1 .. Len(archive) : archive[i].chain # c
          ELSE \E k \in lowest : Window(c, k)

UndamagedArchiveAgrees ==
  Done /\ claims # NoClaims /\ Undamaged => outcome = "agrees"

(* The run implements the one-step verdict of CheckpointVerdict: reading   *)
(* order, label order and the order of chains leave no trace in it.        *)
Abstract == INSTANCE CheckpointVerdict WITH verdict <- outcome
ImplementsVerdict == Abstract!VerdictSpec

(* SECURITY.md:194: no deletion is inferred from events that are present.  *)
(* A finding that the tail or the head of a chain is gone means no event   *)
(* in the archive declares the chain at the recorded sequence.             *)
DeletionFindings == {"tail-truncated", "checkpoint-head-missing"}

NoDeletionInferred ==
  \A c \in DOMAIN claims :
    claimFindings[c] \cap DeletionFindings # {} =>
      \A i \in 1 .. Len(archive) :
        ~(archive[i].chain = c /\ archive[i].seq = claims[c].seq)

(* The same sentence for the finding that the whole chain is gone.         *)
NoChainDeletionInferred ==
  \A c \in DOMAIN claims :
    "checkpoint-chain-missing" \in claimFindings[c] =>
      \A i \in 1 .. Len(archive) : archive[i].chain # c
=============================================================================
