---------------------------- MODULE VerifyChain -----------------------------
(***************************************************************************)
(* Chain verification (conformance/src/integrity/verify-chain.ts): events  *)
(* are reduced one at a time to their chain membership, and once the last  *)
(* has arrived every chain is ordered and its links walked from the lowest *)
(* sequence to the highest.  A member is known by its position in the      *)
(* archive, which is what its label says.                                  *)
(***************************************************************************)
EXTENDS EventStore

VARIABLES
  phase,       \* where the run is: idle, intake, chains, compare, done
  read,        \* events the intake has taken, in archive order
  unassigned,  \* per event kept out of every chain, the finding that says why
  groups,      \* per chain, the members assigned so far
  opened,      \* chains whose members have been ordered
  walk,        \* per opened chain, its sequenced members in walking order
  pos,         \* per opened chain, how many members the link walk has passed
  findings,    \* per chain, the kinds of finding so far
  notes        \* per chain, the notes so far

intakeVars == <<read, unassigned, groups>>
walkVars == <<opened, walk, pos, findings, notes>>
chainVars == <<intakeVars, walkVars>>

Nothing == [c \in Chains |-> {}]

NoWalks == [c \in Chains |-> << >>]
NoSteps == [c \in Chains |-> 0]

(* startChainIntake *)
ChainInit ==
  /\ read = 0
  /\ unassigned = << >>
  /\ groups = Nothing
  /\ opened = {}
  /\ walk = NoWalks
  /\ pos = NoSteps
  /\ findings = Nothing
  /\ notes = Nothing

ChainReset ==
  /\ read' = 0
  /\ unassigned' = << >>
  /\ groups' = Nothing
  /\ opened' = {}
  /\ walk' = NoWalks
  /\ pos' = NoSteps
  /\ findings' = Nothing
  /\ notes' = Nothing

-----------------------------------------------------------------------------
(* Intake. *)

(* Why an event can belong to no chain, in the order the code asks. *)
WhyUnassigned(e) ==
  IF ~Valid(e) THEN "schema-invalid"
  ELSE IF e.chain = NoIntegrity THEN "integrity-missing"
  ELSE IF e.chain = NoChainId THEN "chain-id-missing"
  ELSE "none"

(* An empty input is refused before the first event is asked for. *)
StartRun ==
  /\ phase = "idle"
  /\ archive # << >>
  /\ phase' = "intake"
  /\ UNCHANGED chainVars

(* Slip: members labelled one position too high.                           *)
AddChainEventMislabelled ==
  /\ phase = "intake"
  /\ read < Len(archive)
  /\ read' = read + 1
  /\ groups' = [groups EXCEPT ![archive[read + 1].chain] = @ \cup {read + 2}]
  /\ UNCHANGED <<unassigned, phase, walkVars>>

AddChainEvent ==
  /\ phase = "intake"
  /\ read < Len(archive)
  /\ read' = read + 1
  /\ LET e == archive[read + 1] IN
       IF WhyUnassigned(e) # "none"
       THEN /\ unassigned' = [i \in DOMAIN unassigned \cup {read + 1} |->
                                IF i = read + 1 THEN WhyUnassigned(e) ELSE unassigned[i]]
            /\ UNCHANGED groups
       ELSE /\ groups' = [groups EXCEPT ![e.chain] = @ \cup {read + 1}]
            /\ UNCHANGED unassigned
  /\ UNCHANGED <<phase, walkVars>>

FinishIntake ==
  /\ phase = "intake"
  /\ read = Len(archive)
  /\ phase' = "chains"
  /\ UNCHANGED chainVars

-----------------------------------------------------------------------------
(* One chain at a time: verifyOneChain. *)

Sequenced(c) == {i \in groups[c] : archive[i].seq # NoSequence}

(* Slip: members walked in the order they were read.                       *)
OrderingsAsRead(S) ==
  {w \in [1 .. Cardinality(S) -> S] :
     \A p, q \in DOMAIN w : p < q => w[p] < w[q]}

(* Walking orders: by sequence.  Members of equal sequence are ordered by  *)
(* label, which no verdict depends on: any order among them is allowed.    *)
Orderings(S) ==
  {w \in [1 .. Cardinality(S) -> S] :
     /\ \A i \in S : \E p \in DOMAIN w : w[p] = i
     /\ \A p, q \in DOMAIN w :
          p < q => w[p] # w[q] /\ archive[w[p]].seq <= archive[w[q]].seq}

(* What is found before the links are walked. *)
MemberFindings(c) ==
  (UNION {DigestFindings(archive[i]) : i \in groups[c]})
  \cup {k \in {"algorithm-mismatch"} :
          \E i, j \in groups[c] : archive[i].scheme # archive[j].scheme}
  \cup {k \in {"sequence-missing"} : Sequenced(c) # groups[c]}
  \cup {k \in {"duplicate-sequence"} :
          \E i, j \in Sequenced(c) : i # j /\ archive[i].seq = archive[j].seq}

WalkFinished(c) == c \in opened /\ pos[c] = Len(walk[c])

OpenChain(c) ==
  /\ phase = "chains"
  /\ groups[c] # {}
  /\ c \notin opened
  /\ \A d \in opened : WalkFinished(d)
  /\ opened' = opened \cup {c}
  /\ \E w \in Orderings(Sequenced(c)) : walk' = [walk EXCEPT ![c] = w]
  /\ findings' = [findings EXCEPT ![c] = MemberFindings(c)]
  /\ UNCHANGED <<phase, intakeVars, pos, notes>>

(* Slip: a link is looked for and not compared. *)
LinkFindingsByPresence(predecessor, member) ==
  IF member.prev = Absent THEN {"previous-hash-missing"} ELSE {}

(* The finding on the link from a member back to its predecessor. *)
LinkFindings(predecessor, member) ==
  IF member.prev = Absent THEN {"previous-hash-missing"}
  ELSE IF predecessor.hash = Absent \/ member.prev # predecessor.hash
       THEN {"broken-link"}
       ELSE {}

(* Slip: no note for a chain of one member, where there is no link to walk. *)
WalkMemberQuietly(c) ==
  /\ phase = "chains"
  /\ c \in opened
  /\ pos[c] < Len(walk[c])
  /\ pos' = [pos EXCEPT ![c] = @ + 1]
  /\ LET member == archive[walk[c][pos[c] + 1]] IN
       IF pos[c] = 0
       THEN /\ notes' = [notes EXCEPT
                ![c] = @ \cup {k \in {"segment"} : Len(walk[c]) > 1 /\ member.prev # Absent}]
            /\ UNCHANGED findings
       ELSE /\ findings' = [findings EXCEPT
                              ![c] = @ \cup LinkFindings(archive[walk[c][pos[c]]], member)]
            /\ UNCHANGED notes
  /\ UNCHANGED <<phase, intakeVars, opened, walk>>

(* The lowest member has no predecessor: if it names one, that is a note. *)
WalkMember(c) ==
  /\ phase = "chains"
  /\ c \in opened
  /\ pos[c] < Len(walk[c])
  /\ pos' = [pos EXCEPT ![c] = @ + 1]
  /\ LET member == archive[walk[c][pos[c] + 1]] IN
       IF pos[c] = 0
       THEN /\ notes' = [notes EXCEPT
                           ![c] = @ \cup {k \in {"segment"} : member.prev # Absent}]
            /\ UNCHANGED findings
       ELSE /\ findings' = [findings EXCEPT
                              ![c] = @ \cup LinkFindings(archive[walk[c][pos[c]]], member)]
            /\ UNCHANGED notes
  /\ UNCHANGED <<phase, intakeVars, opened, walk>>

ChainsFinished ==
  /\ phase = "chains"
  /\ \A c \in Chains : groups[c] # {} => WalkFinished(c)

Intact(c) == findings[c] = {}

Present == {c \in Chains : groups[c] # {}}

(* ChainReport.intact *)
ReportIntact == DOMAIN unassigned = {} /\ \A c \in Present : Intact(c)

ChainTypeOK ==
  /\ phase \in {"idle", "intake", "chains", "compare", "done"}
  /\ read \in 0 .. Len(archive)
  /\ DOMAIN unassigned \subseteq 1 .. read
  /\ groups \in [Chains -> SUBSET (1 .. read)]
  /\ opened \subseteq Present
  /\ DOMAIN walk = Chains
  /\ \A c \in Chains : pos[c] \in 0 .. Len(walk[c])
=============================================================================
