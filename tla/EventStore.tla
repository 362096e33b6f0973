----------------------------- MODULE EventStore -----------------------------
(***************************************************************************)
(* What stands around the verifier: producers that seal events into        *)
(* chains, the store that keeps them, whoever takes a checkpoint of the    *)
(* chain heads and keeps it elsewhere, and the faults of the store between *)
(* two verifications.  None of it is code of the repository; it is the     *)
(* world specification/integrity.md describes, with the producer rules the *)
(* verifier relies on.                                                     *)
(***************************************************************************)
EXTENDS SealedEvents, FiniteSets

CONSTANTS MaxSequence,   \* bound: the largest sequence number
          MaxEdits       \* bound: faults of the store in a behaviour

ASSUME BoundsAssumption == MaxSequence \in Nat /\ MaxEdits \in Nat

VARIABLES
  history,   \* per chain, the events as they were sealed: nobody reads this
  archive,   \* the events in the store, in the order a reader meets them
  claims,    \* the checkpoint: per named chain, its head when it was taken
  edits      \* faults so far

storeVars == <<history, archive, claims, edits>>

NoClaims == [c \in {} |-> {}]

StoreInit ==
  /\ history = [c \in Chains |-> << >>]
  /\ archive = << >>
  /\ claims = NoClaims
  /\ edits = 0

LastEvent(c) == history[c][Len(history[c])]

(***************************************************************************)
(* The next event of a chain: sequence numbers grow and may skip, the      *)
(* first event omits previousHash, every later one carries the hash of its *)
(* predecessor.  Its body may be of a version the verifier does not know.  *)
(***************************************************************************)
Sealed(c, n, b, s) ==
  Seal([chain |-> c, seq |-> n, body |-> b, scheme |-> s, hash |-> Absent,
        prev |-> IF history[c] = << >> THEN Absent ELSE LastEvent(c).hash])

Produce(c, n, b, s) ==
  /\ history[c] # << >> => n > LastEvent(c).seq
  /\ history' = [history EXCEPT ![c] = Append(@, Sealed(c, n, b, s))]
  /\ archive' = Append(archive, Sealed(c, n, b, s))
  /\ UNCHANGED <<claims, edits>>

(* eventCount is optional in a checkpoint: 0 stands for a claim without. *)
Claim(c, counted) ==
  [seq |-> LastEvent(c).seq, hash |-> LastEvent(c).hash,
   scheme |-> LastEvent(c).scheme,
   count |-> IF counted THEN Len(history[c]) ELSE 0]

(* One document names its chains, and one scheme for all of them. *)
TakeCheckpoint(named, counted) ==
  /\ claims = NoClaims
  /\ named # {}
  /\ \A c \in named : history[c] # << >>
  /\ \A c, d \in named : LastEvent(c).scheme = LastEvent(d).scheme
  /\ claims' = [c \in named |-> Claim(c, counted)]
  /\ UNCHANGED <<history, archive, edits>>

-----------------------------------------------------------------------------
(* Faults of the store. *)

Remove(i) == [j \in 1 .. Len(archive) - 1 |-> archive[IF j < i THEN j ELSE j + 1]]

Hashes == {archive[i].hash : i \in 1 .. Len(archive)}

(* One field written over. *)
Overwritten(e) ==
       {[e EXCEPT !.body = b] : b \in Bodies}
  \cup {[e EXCEPT !.seq = n] : n \in 0 .. MaxSequence \cup {NoSequence}}
  \cup {[e EXCEPT !.chain = c] : c \in Chains \cup {NoChainId, NoIntegrity}}
  \cup {[e EXCEPT !.scheme = s] : s \in Schemes}
  \cup {[e EXCEPT !.prev = h] : h \in Hashes \cup {Absent}}
  \cup {[e EXCEPT !.hash = h] : h \in Hashes \cup {Absent}}

(* An event is lost, kept twice, met out of order or written over: as it   *)
(* is, or by a party that also recalculates its hash.                      *)
Fault ==
  /\ edits < MaxEdits
  /\ edits' = edits + 1
  /\ \E i \in 1 .. Len(archive) :
       \/ archive' = Remove(i)
       \/ archive' = Append(archive, archive[i])
       \/ archive' = Append(Remove(i), archive[i])
       \/ \E e \in Overwritten(archive[i]) :
            archive' \in {[archive EXCEPT ![i] = e], [archive EXCEPT ![i] = Seal(e)]}
  /\ UNCHANGED <<history, claims>>

StoreNext ==
  \/ \E c \in Chains, n \in 0 .. MaxSequence, b \in Bodies, s \in Supported :
       Produce(c, n, b, s)
  \/ \E named \in SUBSET Chains, counted \in BOOLEAN : TakeCheckpoint(named, counted)
  \/ Fault

StoreTypeOK ==
  /\ DOMAIN history = Chains
  /\ \A c \in Chains : \A i \in 1 .. Len(history[c]) : IsEvent(history[c][i])
  /\ \A i \in 1 .. Len(archive) : IsEvent(archive[i])
  /\ DOMAIN claims \subseteq Chains
  /\ edits \in 0 .. MaxEdits
=============================================================================
