----------------------- MODULE VerifyCheckpointProofs -----------------------
(***************************************************************************)
(* What an agreement with a genuine checkpoint establishes, proved for     *)
(* every number of chains, events, contents and faults.                    *)
(*                                                                         *)
(* The argument runs along the link walk.  A walked member that is one of  *)
(* the producer's events drags every member below it along: its link is    *)
(* the producer's link, digests have one preimage, so the member before it *)
(* is the producer's event before it, and so on down.  The walk goes       *)
(* upwards, so the fact is carried as an invariant (LinkOK): whatever      *)
(* member of the part already walked turns out to be authentic, the part   *)
(* below it is the stretch of the history below it.  The recorded head     *)
(* is a member that turns out to be authentic.                             *)
(*                                                                         *)
(* The second half proves that the run implements CheckpointVerdict, and   *)
(* from the judgement of that module that there is no false alarm.         *)
(***************************************************************************)
EXTENDS VerifyCheckpoint, CommonLemmas, FiniteSetTheorems

(* Whatever was done to the store, it holds events. *)
ArchiveOK ==
  /\ IsSeq(archive)
  /\ \A i \in 1 .. Len(archive) : IsEvent(archive[i])
  /\ edits \in 0 .. MaxEdits

(* The producer's rules, as the history keeps them. *)
HistoryOK ==
  /\ DOMAIN history = Chains
  /\ \A c \in Chains : IsSeq(history[c])
  /\ \A c \in Chains : \A k \in 1 .. Len(history[c]) :
       /\ IsEvent(history[c][k])
       /\ history[c][k].chain = c
       /\ history[c][k].seq \in Nat
       /\ history[c][k].hash = Digest(Input(history[c][k]))
       /\ k = 1 => history[c][k].prev = Absent
       /\ k > 1 => history[c][k].prev = history[c][k - 1].hash
  /\ \A c \in Chains : \A k, m \in 1 .. Len(history[c]) :
       k < m => history[c][k].seq < history[c][m].seq

(* A claim is an event of the history; its count, the event's place. *)
Records(c, j) ==
  /\ claims[c].seq = history[c][j].seq
  /\ claims[c].hash = history[c][j].hash
  /\ claims[c].count # 0 => claims[c].count = j

ClaimsOK ==
  /\ DOMAIN claims \subseteq Chains
  /\ \A c \in DOMAIN claims : \E j \in 1 .. Len(history[c]) : Records(c, j)

(* The groups are the events read so far that belong to a chain. *)
IntakeOK ==
  /\ read \in Nat
  /\ groups = [c \in Chains |-> {i \in 1 .. read : Valid(archive[i]) /\ archive[i].chain = c}]
  /\ DOMAIN unassigned = {i \in 1 .. read : WhyUnassigned(archive[i]) # "none"}
  /\ phase = "idle" => read = 0
  /\ phase \in {"chains", "compare", "done"} => read = Len(archive)

(* An opened chain without findings so far. *)
OrderOK(c) ==
  /\ \A i \in groups[c] : DigestFindings(archive[i]) = {} /\ archive[i].seq # NoSequence
  /\ \A i \in groups[c] : \E p \in 1 .. Len(walk[c]) : walk[c][p] = i
  /\ \A p, q \in 1 .. Len(walk[c]) : p < q => archive[walk[c][p]].seq < archive[walk[c][q]].seq

LinkOK(c) ==
  \A p \in 1 .. pos[c] : \A j \in 1 .. Len(history[c]) :
    Holds(walk[c][p], c, j) =>
      \A m \in 1 .. p : j - (p - m) >= 1 /\ Holds(walk[c][m], c, j - (p - m))

WalkOK ==
  /\ opened \subseteq Chains
  /\ phase \in {"idle", "intake"} => opened = {}
  /\ walk \in [Chains -> Seq(Nat)]
  /\ pos \in [Chains -> Nat]
  /\ DOMAIN findings = Chains
  /\ DOMAIN notes = Chains
  /\ \A c \in Chains : c \notin opened => pos[c] = 0
  /\ \A c \in opened :
       /\ pos[c] \in 0 .. Len(walk[c])
       /\ \A p \in 1 .. Len(walk[c]) : walk[c][p] \in groups[c]
       /\ findings[c] = {} => OrderOK(c) /\ LinkOK(c)
       /\ pos[c] > 0 /\ "segment" \notin notes[c] => archive[walk[c][1]].prev = Absent
  /\ phase \in {"compare", "done"} => \A c \in Present : WalkFinished(c)

StatusOK ==
  /\ phase \in {"idle", "intake", "chains", "compare", "done"}
  /\ DOMAIN status = Chains
  /\ \A c \in Chains :
       status[c] = "agrees" => phase \in {"compare", "done"} /\ c \in Present /\ ClaimAgrees(c)
  /\ outcome = "agrees" =>
       /\ phase = "done"
       /\ ReportIntact
       /\ \A c \in DOMAIN claims : status[c] = "agrees"

IInv == ArchiveOK /\ HistoryOK /\ ClaimsOK /\ IntakeOK /\ WalkOK /\ StatusOK
-----------------------------------------------------------------------------
(* Producing appends an event that keeps the producer's rules.             *)
LEMMA ProduceKeepsHistory ==
  ASSUME HistoryOK,
         NEW c \in Chains, NEW n \in Nat, NEW b \in Bodies, NEW s \in Supported,
         Produce(c, n, b, s)
  PROVE  HistoryOK' /\ IsEvent(Sealed(c, n, b, s))
<1> DEFINE h == history[c]
           e == Sealed(c, n, b, s)
<1>1. /\ DOMAIN history' = Chains
      /\ history'[c] = Append(h, e)
      /\ \A d \in Chains : d # c => history'[d] = history[d]
  BY DEF Produce, HistoryOK
<1>2. /\ IsSeq(h) /\ Len(h) \in Nat /\ DOMAIN h = 1 .. Len(h)
  BY SeqFacts DEF HistoryOK
<1>3. /\ IsSeq(Append(h, e))
      /\ Len(Append(h, e)) = Len(h) + 1
      /\ \A k \in 1 .. Len(h) : Append(h, e)[k] = h[k]
      /\ Append(h, e)[Len(h) + 1] = e
  BY <1>2, AppendFacts
<1>4. /\ e.chain = c
      /\ e.seq = n
      /\ e.hash = Digest(Input(e))
      /\ e.prev = IF h = << >> THEN Absent ELSE h[Len(h)].hash
  BY DEF Sealed, Seal, Input, LastEvent
<1>5. h = << >> <=> Len(h) = 0
  BY <1>2 DEF IsSeq
<1>10. IsEvent(e)
  <2>1. DOMAIN e = EventFields /\ e.body = b /\ e.scheme = s
    BY DEF Sealed, Seal, EventFields
  <2>2. IsDigest(e.hash)
    BY <1>4 DEF IsDigest, Digest
  <2>3. IsDigest(e.prev)
    <3>1. CASE h = << >>
      BY <3>1, <1>4 DEF IsDigest
    <3>2. CASE h # << >>
      <4>1. IsEvent(h[Len(h)])
        BY <3>2, <1>2, <1>5 DEF HistoryOK
      <4> QED
        BY <4>1, <3>2, <1>4 DEF IsEvent
    <3> QED
      BY <3>1, <3>2
  <2> QED
    BY <2>1, <2>2, <2>3, <1>4, SchemesAssumption DEF IsEvent
<1>6. \A k \in 1 .. Len(h) : h[k].seq < n
  <2>1. CASE Len(h) = 0
    BY <2>1
  <2>2. CASE Len(h) # 0
    <3>1. n > h[Len(h)].seq
      BY <2>2, <1>5 DEF Produce, LastEvent
    <3>2. \A k \in 1 .. Len(h) : k < Len(h) => h[k].seq < h[Len(h)].seq
      BY <1>2, <2>2 DEF HistoryOK
    <3>3. \A k \in 1 .. Len(h) : h[k].seq \in Nat
      BY DEF HistoryOK
    <3> QED
      BY <1>2, <2>2, <3>1, <3>2, <3>3
  <2> QED
    BY <2>1, <2>2
<1>7. \A d \in Chains : IsSeq(history'[d])
  BY <1>1, <1>3 DEF HistoryOK
<1>8. ASSUME NEW d \in Chains, NEW k \in 1 .. Len(history'[d])
      PROVE  /\ IsEvent(history'[d][k])
             /\ history'[d][k].chain = d
             /\ history'[d][k].seq \in Nat
             /\ history'[d][k].hash = Digest(Input(history'[d][k]))
             /\ k = 1 => history'[d][k].prev = Absent
             /\ k > 1 => history'[d][k].prev = history'[d][k - 1].hash
  <2>1. CASE d # c
    BY <2>1, <1>1, <1>8 DEF HistoryOK
  <2>2. CASE d = c /\ k <= Len(h)
    <3>1. /\ k \in 1 .. Len(h) /\ history'[d][k] = h[k]
          /\ k > 1 => history'[d][k - 1] = h[k - 1]
      BY <2>2, <1>1, <1>2, <1>3, <1>8
    <3> QED
      BY <3>1, <2>2 DEF HistoryOK
  <2>3. CASE d = c /\ k = Len(h) + 1
    <3>1. /\ history'[d][k] = e
          /\ k > 1 => history'[d][k - 1] = h[Len(h)]
      BY <2>3, <1>1, <1>2, <1>3, <1>8
    <3> QED
      BY <3>1, <2>3, <1>2, <1>4, <1>5, <1>10
  <2> QED
    BY <2>1, <2>2, <2>3, <1>1, <1>2, <1>3, <1>8
<1>9. ASSUME NEW d \in Chains,
             NEW k \in 1 .. Len(history'[d]), NEW m \in 1 .. Len(history'[d]), k < m
      PROVE  history'[d][k].seq < history'[d][m].seq
  <2>1. CASE d # c
    BY <2>1, <1>1, <1>9 DEF HistoryOK
  <2>2. CASE d = c /\ m <= Len(h)
    <3>1. /\ k \in 1 .. Len(h) /\ m \in 1 .. Len(h)
          /\ history'[d][k] = h[k] /\ history'[d][m] = h[m]
      BY <2>2, <1>1, <1>2, <1>3, <1>9
    <3> QED
      BY <3>1, <2>2, <1>9 DEF HistoryOK
  <2>3. CASE d = c /\ m = Len(h) + 1
    <3>1. k \in 1 .. Len(h) /\ history'[d][k] = h[k] /\ history'[d][m] = e
      BY <2>3, <1>1, <1>2, <1>3, <1>9
    <3> QED
      BY <3>1, <1>4, <1>6
  <2> QED
    BY <2>1, <2>2, <2>3, <1>1, <1>2, <1>3, <1>9
<1> QED
  BY <1>1, <1>7, <1>8, <1>9, <1>10 DEF HistoryOK

(* Losing, repeating or moving an event leaves a sequence of events.       *)
LEMMA FaultKeepsArchive ==
  ASSUME ArchiveOK, Fault
  PROVE  ArchiveOK'
<1> DEFINE n == Len(archive)
<1>1. n \in Nat /\ DOMAIN archive = 1 .. n /\ IsSeq(archive)
  BY SeqFacts DEF ArchiveOK
<1>2. PICK i \in 1 .. n :
       \/ archive' = Remove(i)
       \/ archive' = Append(archive, archive[i])
       \/ archive' = Append(Remove(i), archive[i])
       \/ \E e \in Overwritten(archive[i]) :
            archive' \in {[archive EXCEPT ![i] = e], [archive EXCEPT ![i] = Seal(e)]}
  BY DEF Fault
<1>3. edits' \in 0 .. MaxEdits
  BY BoundsAssumption DEF Fault, ArchiveOK
<1>4. IsEvent(archive[i])
  BY DEF ArchiveOK
<1>5. /\ IsSeq(Remove(i)) /\ Len(Remove(i)) = n - 1
      /\ \A j \in 1 .. n - 1 : IsEvent(Remove(i)[j])
  <2> DEFINE r == Remove(i)
             R == {r[k] : k \in DOMAIN r}
  <2>1. DOMAIN r = 1 .. n - 1 /\ \A j \in 1 .. n - 1 : IsEvent(r[j])
    BY <1>1 DEF Remove, ArchiveOK
  <2>2. r = [j \in 1 .. n - 1 |-> r[j]]
    BY <2>1 DEF Remove
  <2>3. \A j \in 1 .. n - 1 : r[j] \in R
    BY <2>1
  <2> HIDE DEF r, R
  <2>4. r \in [1 .. n - 1 -> R]
    BY <2>2, <2>3
  <2>5. r \in Seq(R) /\ Len(r) = n - 1
    <3>1. n - 1 \in Nat
      BY <1>1
    <3> QED
      BY <2>4, <3>1
  <2> QED
    BY <2>1, <2>5 DEF r, R, IsSeq
<1>6. \A s, e : IsSeq(s) /\ (\A j \in 1 .. Len(s) : IsEvent(s[j])) /\ IsEvent(e)
        => /\ IsSeq(Append(s, e))
           /\ \A j \in 1 .. Len(Append(s, e)) : IsEvent(Append(s, e)[j])
  BY AppendFacts, SeqFacts
<1>7. CASE archive' = Remove(i)
  BY <1>3, <1>5, <1>7 DEF ArchiveOK
<1>8. CASE archive' = Append(archive, archive[i])
  BY <1>3, <1>4, <1>6, <1>8 DEF ArchiveOK
<1>9. CASE archive' = Append(Remove(i), archive[i])
  BY <1>3, <1>4, <1>5, <1>6, <1>9 DEF ArchiveOK
<1>10. ASSUME NEW e, IsEvent(e), archive' = [archive EXCEPT ![i] = e]
       PROVE  ArchiveOK'
  <2> DEFINE t == [archive EXCEPT ![i] = e]
             R == {t[k] : k \in DOMAIN t}
  <2>1. DOMAIN t = 1 .. n /\ \A j \in 1 .. n : t[j] = IF j = i THEN e ELSE archive[j]
    BY <1>1
  <2>2. t = [j \in 1 .. n |-> t[j]]
    BY <2>1
  <2>3. \A j \in 1 .. n : t[j] \in R /\ IsEvent(t[j])
    BY <2>1, <1>10 DEF ArchiveOK
  <2> HIDE DEF t, R
  <2>4. t \in [1 .. n -> R]
    BY <2>2, <2>3
  <2>5. t \in Seq(R) /\ Len(t) = n
    BY <2>4, <1>1
  <2> QED
    BY <2>3, <2>5, <1>3, <1>10 DEF t, R, IsSeq, ArchiveOK
<1>11. ASSUME NEW e \in Overwritten(archive[i])
       PROVE  IsEvent(e) /\ IsEvent(Seal(e))
  <2> DEFINE a == archive[i]
  <2>1. /\ DOMAIN e = EventFields
        /\ e.chain \in Chains \cup {NoChainId, NoIntegrity}
        /\ e.seq \in Nat \cup {NoSequence}
        /\ e.body \in Bodies /\ e.scheme \in Schemes
        /\ e.prev \in Hashes \cup {Absent, a.prev}
        /\ e.hash \in Hashes \cup {Absent, a.hash}
    <3> DEFINE Changed(f, v) == e = [a EXCEPT ![f] = v]
    <3>1. \/ \E b \in Bodies : Changed("body", b)
          \/ \E q \in 0 .. MaxSequence \cup {NoSequence} : Changed("seq", q)
          \/ \E c \in Chains \cup {NoChainId, NoIntegrity} : Changed("chain", c)
          \/ \E s \in Schemes : Changed("scheme", s)
          \/ \E h \in Hashes \cup {Absent} : Changed("prev", h)
          \/ \E h \in Hashes \cup {Absent} : Changed("hash", h)
      BY DEF Overwritten
    <3>2. \A q \in 0 .. MaxSequence \cup {NoSequence} : q \in Nat \cup {NoSequence}
      BY BoundsAssumption
    <3> QED
      BY <1>4, <3>1, <3>2 DEF IsEvent, EventFields
  <2>2. \A h \in Hashes : IsDigest(h)
    BY DEF Hashes, ArchiveOK, IsEvent
  <2>3. IsDigest(e.prev) /\ IsDigest(e.hash)
    BY <2>1, <2>2, <1>4 DEF IsEvent, IsDigest
  <2>4. IsEvent(e)
    BY <2>1, <2>3 DEF IsEvent
  <2>5. IsDigest(Digest(Input(e)))
    BY DEF IsDigest, Digest
  <2> QED
    BY <2>4, <2>5 DEF Seal, IsEvent, EventFields
<1> QED
  BY <1>2, <1>7, <1>8, <1>9, <1>10, <1>11

-----------------------------------------------------------------------------
(* A link without a finding, from a member that is the producer's event j, *)
(* reaches down to the producer's event j - 1: digests have one preimage,  *)
(* and only the first event of a chain names no predecessor.               *)
LEMMA LinkReachesPredecessor ==
  ASSUME HistoryOK,
         NEW c \in Chains, NEW j \in 1 .. Len(history[c]),
         NEW e, NEW f,
         DigestFindings(f) = {},
         LinkFindings(f, e) = {},
         Same(e, history[c][j])
  PROVE  j > 1 /\ Same(f, history[c][j - 1])
<1> DEFINE h == history[c]
<1>1. e.prev # Absent /\ e.prev = f.hash
  BY DEF LinkFindings
<1>2. f.hash = Digest(Input(f))
  BY DEF DigestFindings
<1>3. e.prev = h[j].prev
  <2>1. Input(e).prev = Input(h[j]).prev
    BY DEF Same
  <2> QED
    BY <2>1 DEF Input
<1>4. Len(h) \in Nat
  BY SeqFacts DEF HistoryOK
<1>5. j > 1
  <2>1. j = 1 => h[j].prev = Absent
    BY DEF HistoryOK
  <2> QED
    BY <2>1, <1>1, <1>3, <1>4
<1>6. h[j].prev = h[j - 1].hash /\ h[j - 1].hash = Digest(Input(h[j - 1]))
  BY <1>5, <1>4 DEF HistoryOK
<1>7. Digest(Input(f)) = Digest(Input(h[j - 1])) /\ f.hash = h[j - 1].hash
  BY <1>1, <1>2, <1>3, <1>6
<1>8. Input(f) = Input(h[j - 1])
  <2>1. Digest(Input(f))[1] = Digest(Input(h[j - 1]))[1]
    BY <1>7
  <2> QED
    BY <2>1 DEF Digest
<1> QED
  BY <1>5, <1>7, <1>8 DEF Same

(* One step of the walk carries the invariant from the part walked so far  *)
(* to the member it passes.                                                *)
LEMMA WalkMemberKeepsLinks ==
  ASSUME HistoryOK, WalkOK, UNCHANGED storeVars,
         NEW c \in Chains, WalkMember(c), findings'[c] = {}
  PROVE  LinkOK(c)'
<1> DEFINE w == walk[c]
           n == pos[c]
           h == history[c]
<1>1. /\ n \in Nat /\ n < Len(w) /\ Len(w) \in Nat
      /\ c \in opened
      /\ walk' = walk /\ pos'[c] = n + 1
      /\ archive' = archive /\ history' = history
  BY DEF WalkMember, WalkOK, storeVars
<1>2. /\ findings[c] = {}
      /\ n # 0 => LinkFindings(archive[w[n]], archive[w[n + 1]]) = {}
  BY DEF WalkMember, WalkOK
<1>3. /\ LinkOK(c)
      /\ \A p \in 1 .. Len(w) : DigestFindings(archive[w[p]]) = {}
  BY <1>1, <1>2 DEF WalkOK, OrderOK
<1>4. Len(h) \in Nat
  BY SeqFacts DEF HistoryOK
<1>5. ASSUME NEW j \in 1 .. Len(h), Holds(w[n + 1], c, j), n # 0
      PROVE  j > 1 /\ Holds(w[n], c, j - 1)
  <2>0. n \in 1 .. Len(w)
    BY <1>1, <1>5
  <2>1. DigestFindings(archive[w[n]]) = {}
    BY <2>0, <1>3
  <2> QED
    BY <2>1, <1>2, <1>5, LinkReachesPredecessor DEF Holds
<1>6. \A p \in 1 .. n : \A j \in 1 .. Len(h) : Holds(w[p], c, j) =>
        \A m \in 1 .. p : j - (p - m) >= 1 /\ Holds(w[m], c, j - (p - m))
  BY <1>3 DEF LinkOK
<1> HIDE DEF w, n, h
<1>7. ASSUME NEW p \in 1 .. n + 1, NEW j \in 1 .. Len(h), Holds(w[p], c, j),
             NEW m \in 1 .. p, p = n + 1
      PROVE  j - (p - m) >= 1 /\ Holds(w[m], c, j - (p - m))
  <2>1. CASE m = p
    <3>1. j - (p - m) = j /\ j >= 1
      BY <2>1, <1>1, <1>4
    <3> QED
      BY <3>1, <2>1, <1>7
  <2>2. CASE m # p
    <3>1. n # 0 /\ n \in 1 .. n /\ m \in 1 .. n
      BY <2>2, <1>1, <1>7
    <3>2. j > 1 /\ Holds(w[n], c, j - 1)
      BY <3>1, <1>5, <1>7
    <3>3. /\ j - 1 \in 1 .. Len(h)
          /\ j - 1 - (n - m) = j - (p - m)
      BY <3>1, <3>2, <1>1, <1>4, <1>7
    <3>4. j - 1 - (n - m) >= 1 /\ Holds(w[m], c, j - 1 - (n - m))
      BY <3>1, <3>2, <3>3, <1>6
    <3> QED
      BY <3>3, <3>4
  <2> QED
    BY <2>1, <2>2
<1>8. ASSUME NEW p \in 1 .. n + 1, NEW j \in 1 .. Len(h), Holds(w[p], c, j)
      PROVE  \A m \in 1 .. p : j - (p - m) >= 1 /\ Holds(w[m], c, j - (p - m))
  <2>1. CASE p = n + 1
    BY <2>1, <1>7, <1>8
  <2>2. CASE p # n + 1
    <3>1. p \in 1 .. n
      BY <2>2, <1>1
    <3> QED
      BY <3>1, <1>6, <1>8
  <2> QED
    BY <2>1, <2>2
<1> QED
  BY <1>1, <1>8 DEF LinkOK, Holds, w, n, h

-----------------------------------------------------------------------------
(* The invariant holds initially and is kept by every step.                *)
LEMMA InitEstablishes == Init => IInv
<1> SUFFICES ASSUME Init PROVE IInv
  OBVIOUS
<1> USE DEF Init, StoreInit, ChainInit, Nothing, NoWalks, NoSteps, Unclaimed
<1>1. HistoryOK /\ ArchiveOK
  BY BoundsAssumption DEF HistoryOK, ArchiveOK, IsSeq
<1>2. ClaimsOK
  BY DEF ClaimsOK, NoClaims
<1>3. IntakeOK
  BY DEF IntakeOK
<1>4. WalkOK
  BY DEF WalkOK
<1>5. StatusOK
  BY DEF StatusOK
<1> QED
  BY <1>1, <1>2, <1>3, <1>4, <1>5 DEF IInv

(* Store steps happen between runs: nothing is assigned, opened or agreed. *)
LEMMA StoreStepKeeps ==
  ASSUME IInv, phase = "idle", StoreNext, UNCHANGED <<phase, chainVars, compareVars>>
  PROVE  IInv'
<1> USE DEF IInv
<1>1. /\ read' = read /\ unassigned' = unassigned /\ groups' = groups
      /\ opened' = opened /\ walk' = walk /\ pos' = pos
      /\ findings' = findings /\ notes' = notes /\ phase' = phase
      /\ status' = status /\ outcome' = outcome
  BY DEF chainVars, intakeVars, walkVars, compareVars
<1>2. ArchiveOK' /\ HistoryOK' /\ ClaimsOK'
  <2>1. ASSUME NEW c \in Chains, NEW n \in 0 .. MaxSequence, NEW b \in Bodies,
               NEW s \in Supported, Produce(c, n, b, s)
        PROVE  ArchiveOK' /\ HistoryOK' /\ ClaimsOK'
    <3>1. HistoryOK' /\ IsEvent(Sealed(c, n, b, s))
      BY <2>1, ProduceKeepsHistory, BoundsAssumption
    <3>5. ArchiveOK'
      BY <2>1, <3>1, AppendFacts, SeqFacts DEF Produce, ArchiveOK
    <3>2. /\ claims' = claims
          /\ \A d \in Chains : d # c => history'[d] = history[d]
          /\ history'[c] = Append(history[c], Sealed(c, n, b, s))
      BY <2>1 DEF Produce, HistoryOK
    <3>3. \A d \in Chains : \A j \in 1 .. Len(history[d]) :
            j \in 1 .. Len(history'[d]) /\ history'[d][j] = history[d][j]
      <4>1. \A d \in Chains : IsSeq(history[d]) /\ Len(history[d]) \in Nat
        BY SeqFacts DEF HistoryOK
      <4>2. /\ Len(history'[c]) = Len(history[c]) + 1
            /\ \A j \in 1 .. Len(history[c]) : history'[c][j] = history[c][j]
        BY <3>2, <4>1, AppendFacts
      <4> QED
        BY <3>2, <4>1, <4>2
    <3>4. ClaimsOK'
      <4>1. \A d \in DOMAIN claims : \A j \in 1 .. Len(history[d]) :
              Records(d, j) => j \in 1 .. Len(history'[d]) /\ Records(d, j)'
        BY <3>2, <3>3 DEF ClaimsOK, Records
      <4> QED
        BY <4>1, <3>2 DEF ClaimsOK
    <3> QED
      BY <3>1, <3>4, <3>5
  <2>2. ASSUME NEW named \in SUBSET Chains, NEW counted \in BOOLEAN,
               TakeCheckpoint(named, counted)
        PROVE  ArchiveOK' /\ HistoryOK' /\ ClaimsOK'
    <3>1. ArchiveOK' /\ HistoryOK'
      BY <2>2 DEF TakeCheckpoint, HistoryOK, ArchiveOK
    <3>2. \A c \in named : Len(history[c]) \in 1 .. Len(history[c])
      BY <2>2, SeqFacts DEF TakeCheckpoint, HistoryOK, IsSeq
    <3>3. ClaimsOK'
      BY <2>2, <3>2 DEF TakeCheckpoint, ClaimsOK, Records, Claim, LastEvent
    <3> QED
      BY <3>1, <3>3
  <2>3. CASE Fault
    <3>1. ArchiveOK'
      BY <2>3, FaultKeepsArchive
    <3> QED
      BY <2>3, <3>1 DEF Fault, HistoryOK, ClaimsOK, Records
  <2> QED
    BY <2>1, <2>2, <2>3 DEF StoreNext
<1>3. IntakeOK'
  BY <1>1 DEF IntakeOK
<1>4. WalkOK'
  BY <1>1 DEF WalkOK, Present
<1>5. StatusOK'
  BY <1>1 DEF StatusOK
<1> QED
  BY <1>2, <1>3, <1>4, <1>5

(* The steps of a run leave the store alone.                               *)
LEMMA StoreUntouched ==
  ASSUME ArchiveOK, HistoryOK, ClaimsOK, UNCHANGED storeVars
  PROVE  ArchiveOK' /\ HistoryOK' /\ ClaimsOK'
  BY DEF ArchiveOK, HistoryOK, ClaimsOK, Records, storeVars

LEMMA AddChainEventKeeps ==
  ASSUME IInv, AddChainEvent, UNCHANGED <<storeVars, compareVars>>
  PROVE  IInv'
<1> USE DEF IInv
<1>1. /\ archive' = archive /\ phase' = phase /\ phase = "intake"
      /\ opened' = opened /\ walk' = walk /\ pos' = pos /\ findings' = findings
      /\ notes' = notes
      /\ status' = status /\ outcome' = outcome /\ read' = read + 1
  BY DEF AddChainEvent, storeVars, walkVars, compareVars
<1>2. ArchiveOK' /\ HistoryOK' /\ ClaimsOK'
  BY StoreUntouched
<1>3. read \in Nat /\ \A i : i \in 1 .. read + 1 <=> i \in 1 .. read \/ i = read + 1
  BY DEF IntakeOK
<1>4. IntakeOK'
  <2> DEFINE e == archive[read + 1]
             G(c, n) == {i \in 1 .. n : Valid(archive[i]) /\ archive[i].chain = c}
             U(n) == {i \in 1 .. n : WhyUnassigned(archive[i]) # "none"}
  <2>1. groups = [c \in Chains |-> G(c, read)] /\ DOMAIN unassigned = U(read)
    BY DEF IntakeOK
  <2>2. CASE WhyUnassigned(e) # "none"
    <3>1. groups' = groups /\ DOMAIN unassigned' = DOMAIN unassigned \cup {read + 1}
      BY <2>2 DEF AddChainEvent
    <3>2. \A c \in Chains : G(c, read + 1) = G(c, read)
      BY <2>2, <1>3, ChainsAssumption DEF WhyUnassigned
    <3>3. U(read + 1) = U(read) \cup {read + 1}
      BY <2>2, <1>3
    <3>4. groups' = [c \in Chains |-> G(c, read + 1)] /\ DOMAIN unassigned' = U(read + 1)
      BY <2>1, <3>1, <3>2, <3>3
    <3> QED
      BY <3>4, <1>1, <1>3 DEF IntakeOK
  <2>3. CASE WhyUnassigned(e) = "none"
    <3>1. /\ groups' = [groups EXCEPT ![e.chain] = @ \cup {read + 1}]
          /\ unassigned' = unassigned
      BY <2>3 DEF AddChainEvent
    <3>2. Valid(e)
      BY <2>3 DEF WhyUnassigned
    <3>3. \A c \in Chains :
            G(c, read + 1) = IF c = e.chain THEN G(c, read) \cup {read + 1} ELSE G(c, read)
      BY <3>2, <1>3
    <3>4. U(read + 1) = U(read)
      BY <2>3, <1>3
    <3>5. \A c \in Chains : groups'[c] = G(c, read + 1)
      BY <2>1, <3>1, <3>3
    <3>6. groups' = [c \in Chains |-> G(c, read + 1)]
      BY <2>1, <3>1, <3>5
    <3>7. DOMAIN unassigned' = U(read + 1)
      BY <2>1, <3>1, <3>4
    <3> QED
      BY <3>6, <3>7, <1>1, <1>3 DEF IntakeOK
  <2> QED
    BY <2>2, <2>3
<1>5. WalkOK'
  BY <1>1 DEF WalkOK
<1>6. StatusOK'
  BY <1>1 DEF StatusOK
<1> QED
  BY <1>2, <1>4, <1>5, <1>6

(* Opening a chain orders its members; with nothing found among them the   *)
(* order is strict and no part of it is walked yet.                        *)
LEMMA OpenChainKeeps ==
  ASSUME IInv, NEW c \in Chains, OpenChain(c), UNCHANGED <<storeVars, compareVars>>
  PROVE  IInv'
<1> USE DEF IInv
<1>1. /\ archive' = archive /\ history' = history /\ claims' = claims
      /\ phase' = phase /\ phase = "chains" /\ groups' = groups /\ read' = read
      /\ unassigned' = unassigned /\ pos' = pos /\ notes' = notes
      /\ status' = status /\ outcome' = outcome
      /\ opened' = opened \cup {c} /\ c \notin opened
  BY DEF OpenChain, storeVars, intakeVars, compareVars
<1>2. ArchiveOK' /\ HistoryOK' /\ ClaimsOK'
  BY StoreUntouched
<1>3. IntakeOK'
  BY <1>1 DEF IntakeOK
<1>4. StatusOK'
  BY <1>1 DEF StatusOK
<1> DEFINE S == Sequenced(c)
<1>5. PICK w \in Orderings(S) : walk' = [walk EXCEPT ![c] = w]
  BY DEF OpenChain
<1>6. S \subseteq groups[c] /\ groups[c] \subseteq Nat /\ Cardinality(S) \in Nat
  <2>1. groups[c] \subseteq 1 .. read /\ read \in Nat
    BY DEF IntakeOK
  <2>2. S \subseteq groups[c]
    BY DEF Sequenced
  <2>3. IsFiniteSet(1 .. read)
    BY <2>1, FS_Interval
  <2>4. IsFiniteSet(S)
    BY <2>1, <2>2, <2>3, FS_Subset
  <2> QED
    BY <2>1, <2>2, <2>4, FS_CardinalityType
<1>7. /\ w \in [1 .. Cardinality(S) -> S]
      /\ \A i \in S : \E p \in DOMAIN w : w[p] = i
      /\ \A p, q \in DOMAIN w : p < q =>
           w[p] # w[q] /\ archive[w[p]].seq <= archive[w[q]].seq
  BY <1>5 DEF Orderings
<1>8. w \in Seq(Nat) /\ Len(w) = Cardinality(S) /\ DOMAIN w = 1 .. Len(w) /\ Len(w) \in Nat
  <2>1. w \in [1 .. Cardinality(S) -> Nat]
    BY <1>6, <1>7
  <2> QED
    BY <2>1, <1>6, <1>7
<1>9. /\ walk' \in [Chains -> Seq(Nat)] /\ walk'[c] = w
      /\ \A d \in Chains : d # c => walk'[d] = walk[d]
  BY <1>5, <1>8 DEF WalkOK
<1>10. /\ DOMAIN findings' = Chains /\ findings'[c] = MemberFindings(c)
       /\ \A d \in Chains : d # c => findings'[d] = findings[d]
  BY DEF OpenChain, WalkOK
<1>11. ASSUME MemberFindings(c) = {} PROVE OrderOK(c)'
  <2>0. /\ {k \in {"sequence-missing"} : Sequenced(c) # groups[c]} = {}
        /\ {k \in {"duplicate-sequence"} :
              \E i, j \in Sequenced(c) : i # j /\ archive[i].seq = archive[j].seq} = {}
        /\ UNION {DigestFindings(archive[i]) : i \in groups[c]} = {}
    <3> DEFINE D == UNION {DigestFindings(archive[i]) : i \in groups[c]}
               M == {k \in {"algorithm-mismatch"} :
                       \E i, j \in groups[c] : archive[i].scheme # archive[j].scheme}
               U == {k \in {"sequence-missing"} : Sequenced(c) # groups[c]}
               T == {k \in {"duplicate-sequence"} :
                       \E i, j \in Sequenced(c) : i # j /\ archive[i].seq = archive[j].seq}
    <3>1. D \cup M \cup U \cup T = {}
      BY <1>11 DEF MemberFindings
    <3> HIDE DEF D, M, U, T
    <3>2. D = {} /\ U = {} /\ T = {}
      BY <3>1
    <3> QED
      BY <3>2 DEF D, U, T
  <2>1. \A i \in groups[c] : DigestFindings(archive[i]) = {}
    BY <2>0
  <2>2. S = groups[c]
    BY <2>0
  <2>3. \A i, j \in S : i # j => archive[i].seq # archive[j].seq
    BY <2>0
  <2>4. \A i \in S : archive[i].seq # NoSequence
    BY DEF Sequenced
  <2>5. \A i \in groups[c] : \E p \in 1 .. Len(w) : w[p] = i
    BY <2>2, <1>7, <1>8
  <2>6. \A p, q \in 1 .. Len(w) : p < q => archive[w[p]].seq < archive[w[q]].seq
    <3>1. \A i \in S : archive[i].seq \in Int
      <4>1. \A i \in S : i \in 1 .. Len(archive)
        BY <1>1, <1>6 DEF IntakeOK
      <4> QED
        BY <4>1 DEF ArchiveOK, IsEvent, NoSequence
    <3>2. \A p \in 1 .. Len(w) : w[p] \in S
      BY <1>7, <1>8
    <3>3. ASSUME NEW p \in 1 .. Len(w), NEW q \in 1 .. Len(w), p < q
          PROVE  archive[w[p]].seq < archive[w[q]].seq
      <4>1. /\ w[p] # w[q] /\ archive[w[p]].seq <= archive[w[q]].seq
            /\ w[p] \in S /\ w[q] \in S
        BY <3>2, <3>3, <1>7, <1>8
      <4>2. archive[w[p]].seq # archive[w[q]].seq
        BY <4>1, <2>3
      <4> QED
        BY <4>1, <4>2, <3>1
    <3> QED
      BY <3>3
  <2> QED
    BY <1>1, <1>9, <2>1, <2>2, <2>4, <2>5, <2>6 DEF OrderOK
<1>12. LinkOK(c)'
  BY <1>1 DEF LinkOK, WalkOK
<1>13. WalkOK'
  <2>1. ASSUME NEW d \in opened'
        PROVE  /\ pos'[d] \in 0 .. Len(walk'[d])
               /\ \A p \in 1 .. Len(walk'[d]) : walk'[d][p] \in groups'[d]
               /\ findings'[d] = {} => OrderOK(d)' /\ LinkOK(d)'
               /\ pos'[d] > 0 /\ "segment" \notin notes'[d] => archive'[walk'[d][1]].prev = Absent
    <3>1. CASE d = c
      <4>1. pos'[d] \in 0 .. Len(walk'[d])
        BY <3>1, <1>1, <1>8, <1>9 DEF WalkOK
      <4>2. \A p \in 1 .. Len(walk'[d]) : walk'[d][p] \in groups'[d]
        BY <3>1, <1>1, <1>6, <1>7, <1>8, <1>9
      <4>3. findings'[d] = {} => OrderOK(d)' /\ LinkOK(d)'
        BY <3>1, <1>10, <1>11, <1>12
      <4>4. ~(pos'[d] > 0)
        BY <3>1, <1>1 DEF WalkOK
      <4> QED
        BY <4>1, <4>2, <4>3, <4>4
    <3>2. CASE d # c
      <4>1. /\ d \in opened /\ d \in Chains
            /\ walk'[d] = walk[d] /\ findings'[d] = findings[d]
        BY <2>1, <3>2, <1>1, <1>9, <1>10 DEF WalkOK
      <4>2. /\ OrderOK(d) => OrderOK(d)'
            /\ LinkOK(d) => LinkOK(d)'
        BY <4>1, <1>1 DEF OrderOK, LinkOK, Holds
      <4> QED
        BY <4>1, <4>2, <1>1 DEF WalkOK
    <3> QED
      BY <3>1, <3>2
  <2> QED
    BY <2>1, <1>1, <1>9, <1>10 DEF WalkOK
<1> QED
  BY <1>2, <1>3, <1>4, <1>13

LEMMA WalkMemberKeeps ==
  ASSUME IInv, NEW c \in Chains, WalkMember(c), UNCHANGED <<storeVars, compareVars>>
  PROVE  IInv'
<1> USE DEF IInv
<1>1. /\ archive' = archive /\ history' = history /\ claims' = claims
      /\ phase' = phase /\ phase = "chains" /\ groups' = groups /\ read' = read
      /\ unassigned' = unassigned /\ opened' = opened /\ walk' = walk
      /\ status' = status /\ outcome' = outcome
      /\ c \in opened /\ pos[c] < Len(walk[c])
      /\ pos' = [pos EXCEPT ![c] = @ + 1]
  BY DEF WalkMember, storeVars, intakeVars, compareVars
<1>2. ArchiveOK' /\ HistoryOK' /\ ClaimsOK'
  BY StoreUntouched
<1>3. IntakeOK'
  BY <1>1 DEF IntakeOK
<1>4. StatusOK'
  BY <1>1 DEF StatusOK
<1>5. /\ DOMAIN findings' = Chains /\ findings[c] \subseteq findings'[c]
      /\ \A d \in Chains : d # c => findings'[d] = findings[d] /\ notes'[d] = notes[d]
      /\ DOMAIN notes' = Chains
  BY DEF WalkMember, WalkOK
<1>6. findings'[c] = {} => LinkOK(c)'
  BY WalkMemberKeepsLinks
<1>7. WalkOK'
  <2>1. /\ pos' \in [Chains -> Nat] /\ pos'[c] = pos[c] + 1
        /\ \A d \in Chains : d # c => pos'[d] = pos[d]
    BY <1>1 DEF WalkOK
  <2>2. ASSUME NEW d \in opened
        PROVE  /\ pos'[d] \in 0 .. Len(walk[d])
               /\ \A p \in 1 .. Len(walk[d]) : walk[d][p] \in groups[d]
               /\ findings'[d] = {} => OrderOK(d)' /\ LinkOK(d)'
               /\ pos'[d] > 0 /\ "segment" \notin notes'[d] => archive'[walk'[d][1]].prev = Absent
    <3>1. CASE d = c
      <4>1. pos'[d] \in 0 .. Len(walk[d])
        BY <3>1, <2>1, <1>1 DEF WalkOK
      <4>2. findings'[d] = {} => OrderOK(d)'
        <5>1. findings'[d] = {} => OrderOK(d)
          BY <3>1, <1>1, <1>5 DEF WalkOK
        <5> QED
          BY <5>1, <1>1 DEF OrderOK
      <4>3. "segment" \notin notes'[c] => archive[walk[c][1]].prev = Absent
        <5>1. CASE pos[c] = 0
          BY <5>1, <1>1 DEF WalkMember, WalkOK
        <5>2. CASE pos[c] # 0
          BY <5>2, <1>1 DEF WalkMember, WalkOK
        <5> QED
          BY <5>1, <5>2
      <4> QED
        BY <4>1, <4>2, <4>3, <3>1, <1>1, <1>6 DEF WalkOK
    <3>2. CASE d # c
      <4>1. /\ d \in Chains /\ pos'[d] = pos[d] /\ findings'[d] = findings[d]
            /\ notes'[d] = notes[d]
        BY <3>2, <2>1, <2>2, <1>5 DEF WalkOK
      <4>2. /\ OrderOK(d) => OrderOK(d)'
            /\ LinkOK(d) => LinkOK(d)'
        BY <4>1, <1>1 DEF OrderOK, LinkOK, Holds
      <4>3. findings'[d] = {} => OrderOK(d)' /\ LinkOK(d)'
        BY <4>1, <4>2, <2>2 DEF WalkOK
      <4>4. /\ pos'[d] \in 0 .. Len(walk[d])
            /\ \A p \in 1 .. Len(walk[d]) : walk[d][p] \in groups[d]
            /\ pos'[d] > 0 /\ "segment" \notin notes'[d] => archive'[walk'[d][1]].prev = Absent
        BY <4>1, <1>1, <2>2 DEF WalkOK
      <4> QED
        BY <4>3, <4>4
    <3> QED
      BY <3>1, <3>2
  <2> QED
    BY <1>1, <1>5, <2>1, <2>2 DEF WalkOK
<1> QED
  BY <1>2, <1>3, <1>4, <1>7

(* The parts of the invariant depend on what they read and nothing else.   *)
LEMMA WalkUntouched ==
  ASSUME WalkOK,
         UNCHANGED <<archive, history, groups, opened, walk, pos, findings, notes>>,
         phase' \in {"idle", "intake"} => phase \in {"idle", "intake"},
         phase' \in {"compare", "done"} => \A c \in Present : WalkFinished(c)
  PROVE  WalkOK'
<1>1. \A c \in opened : OrderOK(c) => OrderOK(c)'
  BY DEF OrderOK
<1>2. \A c \in opened : LinkOK(c) => LinkOK(c)'
  BY DEF LinkOK, Holds
<1>3. Present' = Present /\ \A c \in Present : WalkFinished(c) => WalkFinished(c)'
  BY DEF Present, WalkFinished
<1> QED
  BY <1>1, <1>2, <1>3 DEF WalkOK

LEMMA ClaimUntouched ==
  ASSUME UNCHANGED <<archive, claims, unassigned, groups, findings>>, NEW c
  PROVE  /\ c \in Present => (c \in Present)'
         /\ ClaimAgrees(c) => ClaimAgrees(c)'
<1>1. Present' = Present /\ Unverified(c)' = Unverified(c) /\ Verified(c)' = Verified(c)
      /\ Sequenced(c)' = Sequenced(c)
  BY DEF Present, Unverified, Verified, Sequenced
<1>2. AtHead(c)' = AtHead(c) /\ UpToHead(c)' = UpToHead(c)
  BY <1>1 DEF AtHead, UpToHead
<1>3. HeadScheme(c)' = HeadScheme(c) /\ HeadAbsentFindings(c)' = HeadAbsentFindings(c)
  BY <1>1, <1>2 DEF HeadScheme, HeadAbsentFindings
<1>4. HeadPresentFindings(c)' = HeadPresentFindings(c)
  BY <1>1, <1>2, <1>3 DEF HeadPresentFindings
<1>5. ClaimFindings(c)' = ClaimFindings(c)
  BY <1>1, <1>2, <1>3, <1>4 DEF ClaimFindings
<1> QED
  BY <1>1, <1>5 DEF ClaimAgrees, Intact

(* The steps that only move the run along, and the comparison.             *)
LEMMA PhaseStepKeeps ==
  ASSUME IInv, UNCHANGED storeVars,
         \/ StartRun /\ UNCHANGED compareVars
         \/ RefuseEmpty
         \/ FinishIntake /\ UNCHANGED compareVars
         \/ FinishChains
         \/ \E c \in Chains : CompareClaim(c)
         \/ Conclude
         \/ Forget
  PROVE  IInv'
<1> USE DEF IInv
<1>1. /\ ArchiveOK' /\ HistoryOK' /\ ClaimsOK'
      /\ archive' = archive /\ history' = history /\ claims' = claims
  BY StoreUntouched DEF storeVars
<1>2. CASE StartRun /\ UNCHANGED compareVars
  <2>1. UNCHANGED <<read, unassigned, groups, opened, walk, pos, findings, notes, status, outcome>>
    BY <1>2 DEF StartRun, chainVars, intakeVars, walkVars, compareVars
  <2> QED
    BY <1>1, <1>2, <2>1 DEF StartRun, IntakeOK, WalkOK, StatusOK
<1>3. CASE RefuseEmpty
  <2>1. /\ UNCHANGED <<read, unassigned, groups, opened, walk, pos, findings, notes, status>>
        /\ phase = "idle" /\ phase' = "done" /\ outcome' = "no-events" /\ archive = << >>
    BY <1>3 DEF RefuseEmpty, chainVars, intakeVars, walkVars
  <2>2. IntakeOK'
    BY <1>1, <2>1 DEF IntakeOK
  <2>3. Present = {}
    BY <2>1 DEF IntakeOK, Present
  <2>4. WalkOK'
    BY <1>1, <2>1, <2>3 DEF WalkOK, Present
  <2>5. StatusOK'
    BY <1>1, <2>1 DEF StatusOK
  <2> QED
    BY <1>1, <2>2, <2>4, <2>5
<1>4. CASE FinishIntake /\ UNCHANGED compareVars
  <2>1. UNCHANGED <<read, unassigned, groups, opened, walk, pos, findings, notes, status, outcome>>
    BY <1>4 DEF FinishIntake, chainVars, intakeVars, walkVars, compareVars
  <2> QED
    BY <1>1, <1>4, <2>1 DEF FinishIntake, IntakeOK, WalkOK, StatusOK
<1>5. CASE FinishChains
  <2>1. /\ UNCHANGED <<read, unassigned, groups, opened, walk, pos, findings, notes, outcome>>
        /\ phase = "chains" /\ phase' \in {"done", "compare"}
        /\ \A c \in Present : WalkFinished(c)
        /\ DOMAIN status' = Chains /\ \A c \in Chains : status'[c] # "agrees"
    BY <1>5 DEF FinishChains, ChainsFinished, chainVars, intakeVars, walkVars, Present
  <2>2. IntakeOK' /\ StatusOK'
    BY <1>1, <2>1 DEF IntakeOK, StatusOK
  <2>3. WalkOK'
    BY <1>1, <2>1, WalkUntouched DEF WalkOK
  <2> QED
    BY <1>1, <2>2, <2>3
<1>6. ASSUME NEW c \in Chains, CompareClaim(c)
      PROVE  IInv'
  <2>1. /\ UNCHANGED <<read, unassigned, groups, opened, walk, pos, findings, notes, outcome>>
        /\ phase = "compare" /\ phase' = phase
        /\ DOMAIN status' = Chains
        /\ \A d \in Chains : d # c => status'[d] = status[d]
        /\ status'[c] = "agrees" => c \in Present /\ ClaimAgrees(c)
    BY <1>6 DEF CompareClaim, chainVars, intakeVars, walkVars, StatusOK
  <2>2. IntakeOK'
    BY <1>1, <2>1 DEF IntakeOK
  <2>3. WalkOK'
    BY <1>1, <2>1, WalkUntouched DEF WalkOK
  <2>4. \A d \in Chains : d \in Present /\ ClaimAgrees(d) => (d \in Present /\ ClaimAgrees(d))'
    BY <1>1, <2>1, ClaimUntouched
  <2>5. StatusOK'
    BY <1>1, <2>1, <2>4 DEF StatusOK
  <2> QED
    BY <1>1, <2>2, <2>3, <2>5
<1>7. CASE Conclude
  <2>1. /\ UNCHANGED <<read, unassigned, groups, opened, walk, pos, findings, notes, status>>
        /\ phase = "compare" /\ phase' = "done" /\ outcome' = Outcome
    BY <1>7 DEF Conclude, chainVars, intakeVars, walkVars
  <2>2. IntakeOK'
    BY <1>1, <2>1 DEF IntakeOK
  <2>3. WalkOK'
    BY <1>1, <2>1, WalkUntouched DEF WalkOK
  <2>4. \A d \in Chains : d \in Present /\ ClaimAgrees(d) => (d \in Present /\ ClaimAgrees(d))'
    BY <1>1, <2>1, ClaimUntouched
  <2>5. Outcome = "agrees" => ReportIntact /\ \A c \in DOMAIN claims : status[c] = "agrees"
    BY DEF Outcome
  <2>6. ReportIntact => ReportIntact'
    BY <2>1 DEF ReportIntact, Present, Intact
  <2>7. StatusOK'
    BY <1>1, <2>1, <2>4, <2>5, <2>6 DEF StatusOK
  <2> QED
    BY <1>1, <2>2, <2>3, <2>7
<1>8. CASE Forget
  <2> USE <1>8 DEF Forget, ChainReset, Nothing, NoWalks, NoSteps, Unclaimed
  <2>1. IntakeOK'
    BY DEF IntakeOK
  <2>2. WalkOK'
    BY DEF WalkOK
  <2>3. StatusOK'
    BY DEF StatusOK
  <2> QED
    BY <1>1, <2>1, <2>2, <2>3
<1> QED
  BY <1>2, <1>3, <1>4, <1>5, <1>6, <1>7, <1>8

(* The inductive invariant.                                                *)
THEOREM InvariantHolds == Spec => []IInv
<1>1. Init => IInv
  BY InitEstablishes
<1>2. IInv /\ [Next]_vars => IInv'
  <2> SUFFICES ASSUME IInv, [Next]_vars PROVE IInv'
    OBVIOUS
  <2>1. CASE Verify /\ UNCHANGED storeVars
    BY <2>1, AddChainEventKeeps, OpenChainKeeps, WalkMemberKeeps, PhaseStepKeeps DEF Verify
  <2>2. CASE phase = "idle" /\ StoreNext /\ UNCHANGED <<phase, chainVars, compareVars>>
    BY <2>2, StoreStepKeeps
  <2>3. CASE UNCHANGED vars
    <3>1. UNCHANGED <<archive, history, claims, edits, phase, read, unassigned, groups,
                      opened, walk, pos, findings, notes, status, outcome>>
      BY <2>3 DEF vars, storeVars, chainVars, intakeVars, walkVars, compareVars
    <3>2. ArchiveOK' /\ HistoryOK' /\ ClaimsOK'
      BY <3>1 DEF IInv, ArchiveOK, HistoryOK, ClaimsOK, Records
    <3>3. IntakeOK'
      BY <3>1 DEF IInv, IntakeOK
    <3>4. WalkOK'
      BY <3>1, WalkUntouched DEF IInv, WalkOK
    <3>5. \A d \in Chains : d \in Present /\ ClaimAgrees(d) => (d \in Present /\ ClaimAgrees(d))'
      BY <3>1, ClaimUntouched
    <3>6. ReportIntact => ReportIntact'
      BY <3>1 DEF ReportIntact, Present, Intact
    <3>7. StatusOK'
      BY <3>1, <3>5, <3>6 DEF IInv, StatusOK
    <3> QED
      BY <3>2, <3>3, <3>4, <3>7 DEF IInv
  <2> QED
    BY <2>1, <2>2, <2>3 DEF Next
<1> QED
  BY <1>1, <1>2, PTL DEF Spec

-----------------------------------------------------------------------------
(* What an agreement says of one chain: the recorded head is a member of   *)
(* the walk, and the walk up to it is the history up to it, end to end.    *)
LEMMA AgreementReachesDown ==
  ASSUME IInv, Agreed, NEW c \in DOMAIN claims
  PROVE  \E j \in 1 .. Len(history[c]) : \E p \in 1 .. Len(walk[c]) :
           /\ Records(c, j)
           /\ HeldUpToHead(c) = {walk[c][q] : q \in 1 .. p}
           /\ UpToHead(c) = HeldUpToHead(c)
           /\ \A q \in 1 .. p : j - (p - q) >= 1 /\ Holds(walk[c][q], c, j - (p - q))
<1> USE DEF IInv, Agreed, Done
<1> DEFINE w == walk[c]
<1>1. /\ c \in Chains /\ c \in Present /\ ClaimAgrees(c) /\ DOMAIN unassigned = {}
  BY DEF StatusOK, ClaimsOK, ReportIntact
<1>2. /\ findings[c] = {} /\ ClaimFindings(c) = {} /\ Unverified(c) = {}
  BY <1>1 DEF ClaimAgrees, Intact
<1>3. /\ c \in opened /\ pos[c] = Len(w) /\ Len(w) \in Nat
      /\ \A p \in 1 .. Len(w) : w[p] \in groups[c]
      /\ OrderOK(c) /\ LinkOK(c)
  BY <1>1, <1>2 DEF WalkOK, WalkFinished
<1>4. groups[c] = {i \in 1 .. Len(archive) : archive[i].chain = c}
  BY <1>1, ChainsAssumption DEF IntakeOK, WhyUnassigned
<1>5. PICK i \in AtHead(c) : archive[i].hash = claims[c].hash
  <2>1. AtHead(c) # {}
    <3>1. AtHead(c) = {} => HeadAbsentFindings(c) # {}
      BY <1>2 DEF HeadAbsentFindings
    <3> QED
      BY <3>1, <1>2 DEF ClaimFindings
  <2>2. HeadPresentFindings(c) = {}
    BY <2>1, <1>2 DEF ClaimFindings
  <2>3. HeadScheme(c) = claims[c].scheme
    BY <2>2 DEF HeadPresentFindings
  <2>4. {k \in {"checkpoint-head-mismatch"} :
           \A i \in AtHead(c) : archive[i].hash # claims[c].hash} = {}
    BY <2>2, <2>3 DEF HeadPresentFindings
  <2> QED
    BY <2>4
<1>6. i \in groups[c] /\ archive[i].seq = claims[c].seq
  BY <1>4 DEF AtHead, Verified
<1>7. PICK p \in 1 .. Len(w) : w[p] = i
  BY <1>3, <1>6 DEF OrderOK
<1>8. PICK j \in 1 .. Len(history[c]) : Records(c, j)
  BY <1>1 DEF ClaimsOK
<1>9. Holds(w[p], c, j)
  <2>1. archive[i].hash = Digest(Input(archive[i]))
    BY <1>3, <1>6 DEF OrderOK, DigestFindings
  <2>2. history[c][j].hash = Digest(Input(history[c][j]))
    BY <1>1 DEF HistoryOK
  <2>3. archive[i].hash = history[c][j].hash
    BY <1>5, <1>8 DEF Records
  <2>4. Digest(Input(archive[i]))[1] = Digest(Input(history[c][j]))[1]
    BY <2>1, <2>2, <2>3
  <2>5. Input(archive[i]) = Input(history[c][j])
    BY <2>4 DEF Digest
  <2> QED
    BY <2>3, <2>5, <1>7 DEF Holds, Same
<1>10. \A q \in 1 .. p : j - (p - q) >= 1 /\ Holds(w[q], c, j - (p - q))
  <2>1. p \in 1 .. pos[c]
    BY <1>3
  <2> QED
    BY <2>1, <1>9, <1>3 DEF LinkOK
<1>11. \A q \in 1 .. Len(w) : archive[w[q]].seq \in Int /\ archive[w[q]].seq # NoSequence
  <2>1. \A k \in groups[c] : archive[k].seq \in Int /\ archive[k].seq # NoSequence
    BY <1>3, <1>4 DEF ArchiveOK, IsEvent, NoSequence, OrderOK
  <2> QED
    BY <2>1, <1>3
<1>12. \A q \in 1 .. Len(w) : archive[w[q]].seq <= archive[w[p]].seq <=> q <= p
  <2>1. ASSUME NEW q \in 1 .. Len(w)
        PROVE  archive[w[q]].seq <= archive[w[p]].seq <=> q <= p
    <3>1. q < p => archive[w[q]].seq < archive[w[p]].seq
      BY <1>3 DEF OrderOK
    <3>2. p < q => archive[w[p]].seq < archive[w[q]].seq
      BY <1>3 DEF OrderOK
    <3> QED
      BY <3>1, <3>2, <1>11, <1>3
  <2> QED
    BY <2>1
<1>13. HeldUpToHead(c) = {w[q] : q \in 1 .. p}
  <2>1. HeldUpToHead(c) = {k \in groups[c] : archive[k].seq <= claims[c].seq}
    BY <1>3, <1>4 DEF HeldUpToHead, OrderOK
  <2>2. ASSUME NEW k \in groups[c], archive[k].seq <= claims[c].seq
        PROVE  k \in {w[q] : q \in 1 .. p}
    <3>1. PICK q \in 1 .. Len(w) : w[q] = k
      BY <1>3 DEF OrderOK
    <3>2. q <= p
      BY <3>1, <2>2, <1>6, <1>7, <1>12
    <3> QED
      BY <3>1, <3>2, <1>3
  <2>3. ASSUME NEW q \in 1 .. p
        PROVE  w[q] \in groups[c] /\ archive[w[q]].seq <= claims[c].seq
    <3>1. q \in 1 .. Len(w) /\ q <= p
      BY <1>3
    <3> QED
      BY <3>1, <1>3, <1>6, <1>7, <1>12
  <2> QED
    BY <2>1, <2>2, <2>3
<1>14. UpToHead(c) = HeldUpToHead(c)
  BY <1>1 DEF UpToHead, Verified, HeldUpToHead
<1> QED
  BY <1>8, <1>10, <1>13, <1>14

(* What the steps below need to know of a chain an agreement names.        *)
LEMMA AgreementInContext ==
  ASSUME IInv, Agreed, NEW c \in DOMAIN claims
  PROVE  /\ c \in Chains /\ Len(history[c]) \in Nat /\ Len(walk[c]) \in Nat
         /\ \A q \in 1 .. Len(walk[c]) : walk[c][q] \in 1 .. Len(archive)
         /\ c \in opened /\ pos[c] = Len(walk[c])
<1> USE DEF IInv, Agreed, Done
<1>1. c \in Chains /\ c \in Present
  BY DEF ClaimsOK, StatusOK
<1>2. c \in opened /\ pos[c] = Len(walk[c])
  BY <1>1 DEF WalkOK, WalkFinished
<1>3. groups[c] \subseteq 1 .. Len(archive)
  BY <1>1 DEF IntakeOK
<1>4. Len(history[c]) \in Nat /\ Len(walk[c]) \in Nat
  BY <1>1, SeqFacts DEF HistoryOK, WalkOK
<1> QED
  BY <1>1, <1>2, <1>3, <1>4 DEF WalkOK

(* An event of the history at or below the recorded one comes no later.    *)
LEMMA BelowTheHead ==
  ASSUME HistoryOK, NEW c \in Chains,
         NEW j \in 1 .. Len(history[c]), NEW k \in 1 .. Len(history[c])
  PROVE  /\ history[c][k].seq <= history[c][j].seq => k <= j
         /\ k <= j => history[c][k].seq <= history[c][j].seq
<1>1. Len(history[c]) \in Nat
  BY SeqFacts DEF HistoryOK
<1>2. history[c][k].seq \in Nat /\ history[c][j].seq \in Nat
  BY DEF HistoryOK
<1>3. /\ k < j => history[c][k].seq < history[c][j].seq
      /\ j < k => history[c][j].seq < history[c][k].seq
  BY DEF HistoryOK
<1> QED
  BY <1>1, <1>2, <1>3

(***************************************************************************)
(* An agreement authenticates what the archive holds up to the recorded    *)
(* head: nothing forged, nothing altered, the head there, no hole below it *)
(* down to the earliest event held.                                        *)
(***************************************************************************)
THEOREM AgreementTheorem == Spec => []AgreementAuthenticates
<1>1. ASSUME IInv PROVE AgreementAuthenticates
  <2> SUFFICES ASSUME Agreed, NEW c \in DOMAIN claims
               PROVE  \E j \in 1 .. Len(history[c]) :
                        /\ history[c][j].seq = claims[c].seq
                        /\ Held(c, j)
                        /\ \A i \in HeldUpToHead(c) : \E k \in 1 .. j : Holds(i, c, k)
                        /\ \A k, m \in 1 .. j : k <= m /\ Held(c, k) => Held(c, m)
    BY DEF AgreementAuthenticates
  <2> DEFINE w == walk[c]
             h == history[c]
  <2>1. PICK j \in 1 .. Len(h), p \in 1 .. Len(w) :
           /\ Records(c, j)
           /\ HeldUpToHead(c) = {w[q] : q \in 1 .. p}
           /\ \A q \in 1 .. p : j - (p - q) >= 1 /\ Holds(w[q], c, j - (p - q))
    BY <1>1, AgreementReachesDown
  <2>2. /\ c \in Chains /\ Len(h) \in Nat /\ Len(w) \in Nat
        /\ \A q \in 1 .. Len(w) : w[q] \in 1 .. Len(archive)
    BY <1>1, AgreementInContext
  <2>3. p \in 1 .. p /\ j - (p - p) = j
    BY <2>1, <2>2
  <2>4. \A q \in 1 .. p : w[q] \in 1 .. Len(archive)
    BY <2>1, <2>2
  <2>5. Held(c, j)
    BY <2>1, <2>3, <2>4 DEF Held
  <2>6. \A i \in HeldUpToHead(c) : \E k \in 1 .. j : Holds(i, c, k)
    <3>1. \A q \in 1 .. p : j - (p - q) \in 1 .. j
      BY <2>1, <2>2
    <3> QED
      BY <2>1, <3>1
  <2>7. ASSUME NEW k \in 1 .. j, NEW m \in 1 .. j, k <= m, Held(c, k)
        PROVE  Held(c, m)
    <3>1. k \in 1 .. Len(h) /\ m \in 1 .. Len(h) /\ k <= j
      BY <2>1, <2>2, <2>7
    <3>2. PICK i \in 1 .. Len(archive) : Holds(i, c, k)
      BY <2>7 DEF Held
    <3>3. archive[i].chain = c /\ archive[i].seq = h[k].seq
      <4>1. Input(archive[i]) = Input(h[k])
        BY <3>2 DEF Holds, Same
      <4>2. Input(archive[i]).chain = Input(h[k]).chain /\ Input(archive[i]).seq = Input(h[k]).seq
        BY <4>1
      <4> QED
        BY <4>2, <3>1, <2>2, <1>1 DEF Input, IInv, HistoryOK
    <3>4. i \in HeldUpToHead(c)
      <4>1. h[k].seq <= h[j].seq /\ h[k].seq \in Nat
        BY <3>1, <2>1, <2>2, <1>1, BelowTheHead DEF IInv, HistoryOK
      <4> QED
        BY <4>1, <3>3, <2>1 DEF HeldUpToHead, NoSequence, Records
    <3>5. PICK q \in 1 .. p : w[q] = i
      BY <3>4, <2>1
    <3>6. j - (p - q) \in 1 .. Len(h) /\ h[j - (p - q)].seq = h[k].seq
      <4>1. j - (p - q) \in 1 .. Len(h) /\ Holds(i, c, j - (p - q))
        <5>1. j - (p - q) >= 1 /\ Holds(w[q], c, j - (p - q))
          BY <2>1, <3>5
        <5>2. j - (p - q) \in 1 .. Len(h)
          BY <5>1, <2>2, <3>5
        <5> QED
          BY <5>1, <5>2, <3>5
      <4>2. Input(archive[i]) = Input(h[j - (p - q)])
        BY <4>1 DEF Holds, Same
      <4>3. Input(archive[i]).seq = Input(h[j - (p - q)]).seq
        BY <4>2
      <4> QED
        BY <4>1, <4>3, <3>3 DEF Input
    <3>7. k = j - (p - q)
      <4>1. /\ h[k].seq <= h[j - (p - q)].seq /\ h[j - (p - q)].seq <= h[k].seq
        BY <3>1, <3>6, <1>1, <2>2 DEF IInv, HistoryOK
      <4>2. k <= j - (p - q) /\ j - (p - q) <= k
        BY <4>1, <3>1, <3>6, <1>1, <2>2, BelowTheHead DEF IInv
      <4> QED
        BY <4>2, <3>1, <3>6
    <3>8. p - (j - m) \in 1 .. p /\ j - (p - (p - (j - m))) = m
      BY <3>7, <2>1, <2>2, <2>7, <3>1
    <3>9. Holds(w[p - (j - m)], c, m) /\ w[p - (j - m)] \in 1 .. Len(archive)
      BY <3>8, <2>1, <2>4
    <3> QED
      BY <3>9 DEF Held
  <2> QED
    BY <2>1, <2>5, <2>6, <2>7 DEF Records
<1> QED
  BY <1>1, InvariantHolds, PTL

(***************************************************************************)
(* An agreement whose chain carries no segment note covers the history     *)
(* from its first event to the recorded head.                              *)
(***************************************************************************)
THEOREM GenesisTheorem == Spec => []AgreementFromGenesisIsComplete
<1>1. ASSUME IInv PROVE AgreementFromGenesisIsComplete
  <2> SUFFICES ASSUME Agreed, NEW c \in DOMAIN claims, "segment" \notin notes[c],
                      NEW k \in 1 .. Len(history[c]), history[c][k].seq <= claims[c].seq
               PROVE  Held(c, k)
    BY DEF AgreementFromGenesisIsComplete
  <2> DEFINE w == walk[c]
             h == history[c]
  <2>1. PICK j \in 1 .. Len(h), p \in 1 .. Len(w) :
           /\ Records(c, j)
           /\ \A q \in 1 .. p : j - (p - q) >= 1 /\ Holds(w[q], c, j - (p - q))
    BY <1>1, AgreementReachesDown
  <2>2. /\ c \in Chains /\ Len(h) \in Nat /\ Len(w) \in Nat
        /\ \A q \in 1 .. Len(w) : w[q] \in 1 .. Len(archive)
        /\ c \in opened /\ pos[c] = Len(w)
    BY <1>1, AgreementInContext
  <2>3. archive[w[1]].prev = Absent
    BY <1>1, <2>1, <2>2 DEF IInv, WalkOK
  <2>4. 1 \in 1 .. p /\ j - (p - 1) \in 1 .. Len(h) /\ Holds(w[1], c, j - (p - 1))
    BY <2>1, <2>2
  <2>5. h[j - (p - 1)].prev = Absent
    <3>1. Input(archive[w[1]]) = Input(h[j - (p - 1)])
      BY <2>4 DEF Holds, Same
    <3>2. Input(archive[w[1]]).prev = Input(h[j - (p - 1)]).prev
      BY <3>1
    <3> QED
      BY <3>2, <2>3 DEF Input
  <2>6. j - (p - 1) = 1
    <3> DEFINE f == j - (p - 1)
    <3>1. SUFFICES ASSUME f > 1 PROVE FALSE
      BY <2>4
    <3>2. f - 1 \in 1 .. Len(h) /\ h[f].prev = h[f - 1].hash
      BY <3>1, <2>4, <2>2, <1>1 DEF IInv, HistoryOK
    <3>3. h[f - 1].hash = Digest(Input(h[f - 1]))
      BY <3>2, <2>2, <1>1 DEF IInv, HistoryOK
    <3>4. Digest(Input(h[f - 1])) = Absent
      BY <3>2, <3>3, <2>5
    <3>5. Len(Digest(Input(h[f - 1]))) = 1 /\ Len(Absent) = 0
      BY DEF Digest, Absent
    <3> QED
      BY <3>4, <3>5
  <2>7. k <= j
    BY <2>1, <2>2, <1>1, BelowTheHead DEF IInv, Records
  <2>8. k \in 1 .. p /\ j - (p - k) = k
    BY <2>1, <2>2, <2>6, <2>7
  <2>9. Holds(w[k], c, k) /\ w[k] \in 1 .. Len(archive)
    BY <2>1, <2>2, <2>8
  <2> QED
    BY <2>9 DEF Held
<1> QED
  BY <1>1, InvariantHolds, PTL

(***************************************************************************)
(* An agreement that compared an event count covers the history from its   *)
(* first event to the recorded head: a stretch of the right length that    *)
(* ends at the head starts at the beginning.                               *)
(***************************************************************************)
THEOREM CountTheorem == Spec => []CountedAgreementIsComplete
<1>1. ASSUME IInv PROVE CountedAgreementIsComplete
  <2> SUFFICES ASSUME Agreed, NEW c \in DOMAIN claims, claims[c].count # 0,
                      NEW k \in 1 .. Len(history[c]), history[c][k].seq <= claims[c].seq
               PROVE  Held(c, k)
    BY DEF CountedAgreementIsComplete
  <2> DEFINE w == walk[c]
             h == history[c]
  <2>1. PICK j \in 1 .. Len(h), p \in 1 .. Len(w) :
           /\ Records(c, j)
           /\ HeldUpToHead(c) = {w[q] : q \in 1 .. p}
           /\ UpToHead(c) = HeldUpToHead(c)
           /\ \A q \in 1 .. p : j - (p - q) >= 1 /\ Holds(w[q], c, j - (p - q))
    BY <1>1, AgreementReachesDown
  <2>2. /\ c \in Chains /\ Len(h) \in Nat /\ Len(w) \in Nat
        /\ \A q \in 1 .. Len(w) : w[q] \in 1 .. Len(archive)
    BY <1>1, AgreementInContext
  <2>3. Cardinality(UpToHead(c)) = j
    <3>1. ClaimFindings(c) = {} /\ Unverified(c) = {}
      BY <1>1, <2>2 DEF IInv, StatusOK, Agreed, ClaimAgrees
    <3>2. AtHead(c) # {}
      BY <3>1 DEF ClaimFindings, HeadAbsentFindings
    <3>3. HeadPresentFindings(c) = {}
      BY <3>1, <3>2 DEF ClaimFindings
    <3>4. HeadScheme(c) = claims[c].scheme
      BY <3>3 DEF HeadPresentFindings
    <3>5. {e \in {"checkpoint-count-mismatch"} :
             /\ claims[c].count # 0
             /\ Unverified(c) = {}
             /\ Cardinality(UpToHead(c)) # claims[c].count} = {}
      BY <3>3, <3>4 DEF HeadPresentFindings
    <3> QED
      BY <3>1, <3>5, <2>1 DEF Records
  <2>4. Cardinality(UpToHead(c)) = p
    <3> DEFINE S == UpToHead(c)
               f == [q \in 1 .. p |-> w[q]]
    <3>1. S = {w[q] : q \in 1 .. p} /\ p \in Nat
      BY <2>1, <2>2
    <3>2. \A q, r \in 1 .. p : q # r => w[q] # w[r]
      <4>1. OrderOK(c)
        BY <1>1, <2>2, AgreementInContext
           DEF IInv, WalkOK, StatusOK, Agreed, ClaimAgrees, Intact
      <4>2. \A q \in 1 .. Len(w) : archive[w[q]].seq \in Int
        BY <1>1, <2>2 DEF IInv, ArchiveOK, IsEvent, NoSequence
      <4>3. ASSUME NEW q \in 1 .. p, NEW r \in 1 .. p, q < r
            PROVE  w[q] # w[r]
        <5>1. q \in 1 .. Len(w) /\ r \in 1 .. Len(w)
          BY <2>2
        <5>2. archive[w[q]].seq < archive[w[r]].seq
          BY <4>1, <4>3, <5>1 DEF OrderOK
        <5> QED
          BY <5>1, <5>2, <4>2
      <4>4. \A q, r \in 1 .. p : q # r => q < r \/ r < q
        BY <3>1
      <4> QED
        BY <4>3, <4>4
    <3>3. f \in Bijection(1 .. p, S)
      BY <3>1, <3>2 DEF Bijection, Injection, Surjection, IsInjective
    <3>4. ExistsBijection(1 .. p, S)
      BY <3>3 DEF ExistsBijection
    <3> QED
      BY <3>1, <3>4, FS_CountingElements
  <2>5. k <= j /\ p = j
    BY <2>1, <2>2, <2>3, <2>4, <1>1, BelowTheHead DEF IInv, Records
  <2>6. k \in 1 .. p /\ j - (p - k) = k
    BY <2>1, <2>2, <2>5
  <2>7. Holds(w[k], c, k) /\ w[k] \in 1 .. Len(archive)
    BY <2>1, <2>2, <2>6
  <2> QED
    BY <2>7 DEF Held
<1> QED
  BY <1>1, InvariantHolds, PTL

(***************************************************************************)
(* The type invariant of the composed system.  What it adds to the         *)
(* inductive invariant are ranges.                                         *)
(***************************************************************************)
RangesOK ==
  /\ read <= Len(archive)
  /\ opened \subseteq {c \in Chains : groups[c] # {}}
  /\ \A c \in Chains :
       status[c] \in {"unclaimed", "pending", "agrees", "disagrees", "missing"}
  /\ outcome \in {"none", "agrees", "disagrees", "no-chain", "no-events"}

LEMMA RangesKept ==
  ASSUME IInv, IInv', RangesOK, [Next]_vars
  PROVE  RangesOK'
<1>1. /\ Len(archive) \in Nat /\ Len(archive') \in Nat /\ read \in Nat
      /\ DOMAIN status = Chains
  <2>1. IsSeq(archive) /\ IsSeq(archive') /\ read \in Nat /\ DOMAIN status = Chains
    BY DEF IInv, ArchiveOK, IntakeOK, StatusOK
  <2> QED
    BY <2>1, SeqFacts
<1>2. read' <= Len(archive')
  <2>1. CASE phase = "idle" /\ StoreNext /\ UNCHANGED <<phase, chainVars, compareVars>>
    BY <2>1, <1>1 DEF IInv, IntakeOK, chainVars, intakeVars
  <2>2. CASE Verify /\ UNCHANGED storeVars
    BY <2>2, <1>1 DEF RangesOK, Verify, StartRun, RefuseEmpty, AddChainEvent, FinishIntake,
         OpenChain, WalkMember, FinishChains, CompareClaim, Conclude, Forget, ChainReset,
         storeVars, chainVars, intakeVars
  <2> QED
    BY <2>1, <2>2 DEF RangesOK, Next, vars, storeVars, chainVars, intakeVars
<1>3. opened' \subseteq {c \in Chains : groups'[c] # {}}
  <2>1. CASE AddChainEvent
    BY <2>1 DEF AddChainEvent, walkVars, IInv, WalkOK
  <2>2. CASE \E c \in Chains : OpenChain(c)
    BY <2>2 DEF OpenChain, intakeVars, RangesOK
  <2>3. CASE Forget
    BY <2>3 DEF Forget, ChainReset
  <2>4. CASE UNCHANGED <<groups, opened>>
    BY <2>4 DEF RangesOK
  <2> QED
    BY <2>1, <2>2, <2>3, <2>4 DEF Next, Verify, StartRun, RefuseEmpty, FinishIntake,
       WalkMember, FinishChains, CompareClaim, Conclude, vars, chainVars, intakeVars, walkVars
<1>4. /\ \A c \in Chains :
           status'[c] \in {"unclaimed", "pending", "agrees", "disagrees", "missing"}
      /\ outcome' \in {"none", "agrees", "disagrees", "no-chain", "no-events"}
  <2>1. CASE FinishChains
    BY <2>1 DEF FinishChains, RangesOK
  <2>2. CASE \E c \in Chains : CompareClaim(c)
    BY <2>2, <1>1 DEF CompareClaim, RangesOK
  <2>3. CASE Conclude
    BY <2>3 DEF Conclude, Outcome, RangesOK
  <2>4. CASE Forget
    BY <2>4 DEF Forget, Unclaimed
  <2>5. CASE RefuseEmpty
    BY <2>5 DEF RefuseEmpty, RangesOK
  <2>6. CASE UNCHANGED <<status, outcome>>
    BY <2>6 DEF RangesOK
  <2> QED
    BY <2>1, <2>2, <2>3, <2>4, <2>5, <2>6 DEF Next, Verify, vars, compareVars
<1> QED
  BY <1>2, <1>3, <1>4 DEF RangesOK

THEOREM TypeTheorem == Spec => []TypeOK
<1>1. Init => RangesOK
  BY DEF Init, StoreInit, ChainInit, RangesOK, Unclaimed
<1>2. IInv /\ IInv' /\ RangesOK /\ [Next]_vars => RangesOK'
  BY RangesKept
<1>3. ASSUME IInv, RangesOK PROVE TypeOK
  <2>1. StoreTypeOK
    BY <1>3 DEF IInv, StoreTypeOK, ArchiveOK, HistoryOK, ClaimsOK
  <2>2. /\ phase \in {"idle", "intake", "chains", "compare", "done"}
        /\ read \in 0 .. Len(archive)
    <3>1. phase \in {"idle", "intake", "chains", "compare", "done"}
      BY <1>3 DEF IInv, StatusOK
    <3>2. read \in Nat /\ read <= Len(archive)
      BY <1>3 DEF IInv, IntakeOK, RangesOK
    <3>3. Len(archive) \in Nat
      BY <1>3, SeqFacts DEF IInv, ArchiveOK
    <3>4. read \in 0 .. Len(archive)
      BY <3>2, <3>3
    <3> QED
      BY <3>1, <3>4
  <2>3. DOMAIN unassigned \subseteq 1 .. read /\ groups \in [Chains -> SUBSET (1 .. read)]
    BY <1>3 DEF IInv, IntakeOK
  <2>4. opened \subseteq Present /\ DOMAIN walk = Chains
    BY <1>3 DEF IInv, WalkOK, RangesOK, Present
  <2>5. ASSUME NEW c \in Chains PROVE pos[c] \in 0 .. Len(walk[c])
    <3>1. WalkOK
      BY <1>3 DEF IInv
    <3>2. Len(walk[c]) \in Nat
      BY <3>1 DEF WalkOK
    <3> QED
      BY <3>1, <3>2 DEF WalkOK
  <2> QED
    BY <1>3, <2>1, <2>2, <2>3, <2>4, <2>5 DEF TypeOK, ChainTypeOK, RangesOK
<1> QED
  BY <1>1, <1>2, <1>3, InvariantHolds, PTL DEF Spec
-----------------------------------------------------------------------------
(* A finding that the tail or the head of a chain is gone is only made     *)
(* while no event stands at the head and none of the chain is unverified,  *)
(* and nothing is read or stored until the report is forgotten.            *)
NoEventAtHead(c) == AtHead(c) = {} /\ Unverified(c) = {}

DeletionOK ==
  /\ DOMAIN claimFindings = Chains
  /\ \A c \in Chains :
       claimFindings[c] \cap DeletionFindings # {} =>
         phase \in {"compare", "done"} /\ NoEventAtHead(c)

LEMMA DeletionFound ==
  ASSUME NEW c, ClaimFindings(c) \cap DeletionFindings # {}
  PROVE  NoEventAtHead(c)
<1>1. CASE AtHead(c) # {}
  <2>1. ClaimFindings(c) \subseteq {"checkpoint-algorithm-mismatch", "checkpoint-head-mismatch",
                                   "checkpoint-count-mismatch", "checkpoint-members-unverified"}
    BY <1>1 DEF ClaimFindings, HeadPresentFindings
  <2> QED
    BY <2>1 DEF DeletionFindings
<1>2. CASE AtHead(c) = {} /\ Unverified(c) # {}
  <2>1. ClaimFindings(c) \subseteq {"checkpoint-members-unverified"}
    BY <1>2 DEF ClaimFindings, HeadAbsentFindings
  <2> QED
    BY <2>1 DEF DeletionFindings
<1>3. CASE AtHead(c) = {} /\ Unverified(c) = {}
  BY <1>3 DEF NoEventAtHead
<1> QED
  BY <1>1, <1>2, <1>3

LEMMA DeletionKept == DeletionOK /\ [Next]_vars => DeletionOK'
<1> SUFFICES ASSUME DeletionOK, [Next]_vars PROVE DeletionOK'
  OBVIOUS
(* Before the comparison there is nothing to keep. *)
<1>1. ASSUME UNCHANGED claimFindings, phase \notin {"compare", "done"}
      PROVE  DeletionOK'
  BY <1>1 DEF DeletionOK
<1>2. ASSUME UNCHANGED <<storeVars, chainVars>>
      PROVE  \A c : NoEventAtHead(c)' <=> NoEventAtHead(c)
  BY <1>2 DEF storeVars, chainVars, intakeVars, NoEventAtHead, AtHead, Verified, Unverified
<1>3. CASE \E c \in Chains : CompareClaim(c) /\ UNCHANGED storeVars
  <2>1. PICK c \in Chains : CompareClaim(c) /\ UNCHANGED storeVars
    BY <1>3
  <2>2. \A d : NoEventAtHead(d)' <=> NoEventAtHead(d)
    BY <1>2, <2>1 DEF CompareClaim
  <2>3. /\ phase = "compare" /\ phase' = "compare"
        /\ \/ claimFindings' = [claimFindings EXCEPT ![c] = {"checkpoint-chain-missing"}]
           \/ claimFindings' = [claimFindings EXCEPT ![c] = ClaimFindings(c)]
    BY <2>1 DEF CompareClaim
  <2>4. ASSUME NEW d \in Chains, claimFindings'[d] \cap DeletionFindings # {}
        PROVE  NoEventAtHead(d)
    <3>1. CASE d # c
      BY <2>3, <2>4, <3>1 DEF DeletionOK
    <3>2. CASE d = c
      <4>1. claimFindings'[d] = ClaimFindings(d)
        BY <2>3, <2>4, <3>2 DEF DeletionOK, DeletionFindings
      <4> QED
        BY <2>4, <4>1, DeletionFound
    <3> QED
      BY <3>1, <3>2
  <2>5. DOMAIN claimFindings' = Chains
    BY <2>3 DEF DeletionOK
  <2> QED
    BY <2>2, <2>3, <2>4, <2>5 DEF DeletionOK
<1>4. CASE (Conclude /\ UNCHANGED storeVars) \/ UNCHANGED vars
  <2>1. /\ UNCHANGED <<storeVars, chainVars, claimFindings>>
        /\ phase \in {"compare", "done"} => phase' \in {"compare", "done"}
    BY <1>4 DEF Conclude, vars, compareVars
  <2> QED
    BY <1>2, <2>1 DEF DeletionOK
<1>5. CASE Forget
  <2>1. claimFindings' = [c \in Chains |-> {}]
    BY <1>5 DEF Forget, Nothing
  <2> QED
    BY <2>1 DEF DeletionOK
<1>6. CASE FinishChains \/ RefuseEmpty
  BY <1>1, <1>6 DEF FinishChains, ChainsFinished, RefuseEmpty
<1>7. CASE StartRun \/ AddChainEvent \/ FinishIntake
           \/ \E c \in Chains : OpenChain(c) \/ WalkMember(c)
  <2>1. phase \notin {"compare", "done"}
    BY <1>7 DEF StartRun, AddChainEvent, FinishIntake, OpenChain, WalkMember
  <2>2. CASE UNCHANGED compareVars
    BY <1>1, <2>1, <2>2 DEF compareVars
  <2>3. CASE ~UNCHANGED compareVars
    <3>1. UNCHANGED compareVars \/ FinishChains \/ RefuseEmpty \/ Forget
          \/ (\E c \in Chains : CompareClaim(c) /\ UNCHANGED storeVars)
          \/ (Conclude /\ UNCHANGED storeVars)
      BY DEF Next, Verify, vars, compareVars
    <3> QED
      BY <1>3, <1>4, <1>5, <1>6, <2>3, <3>1
  <2> QED
    BY <2>2, <2>3
<1>8. CASE phase = "idle" /\ StoreNext /\ UNCHANGED <<phase, chainVars, compareVars>>
  BY <1>1, <1>8 DEF compareVars
<1> QED
  BY <1>3, <1>4, <1>5, <1>6, <1>7, <1>8 DEF Next, Verify

(* No loss of a head is reported while an event of the chain stands at it, *)
(* verified or not, for any archive and any faults (SECURITY.md:194).      *)
THEOREM DeletionTheorem == Spec => []NoDeletionInferred
<1>1. Init => DeletionOK
  BY DEF Init, DeletionOK, Nothing
<1>2. ASSUME IInv, DeletionOK PROVE NoDeletionInferred
  <2> SUFFICES ASSUME NEW c \in DOMAIN claims, claimFindings[c] \cap DeletionFindings # {},
                      NEW i \in 1 .. Len(archive),
                      archive[i].chain = c, archive[i].seq = claims[c].seq
               PROVE  FALSE
    BY DEF NoDeletionInferred
  <2>1. c \in Chains
    BY <1>2 DEF IInv, ClaimsOK
  <2>2. NoEventAtHead(c)
    BY <1>2, <2>1 DEF DeletionOK
  <2>3. i \notin DOMAIN unassigned
    BY <2>2 DEF NoEventAtHead, Unverified
  <2>4. claims[c].seq # NoSequence
    <3>1. PICK j \in 1 .. Len(history[c]) : Records(c, j)
      BY <1>2 DEF IInv, ClaimsOK
    <3>2. history[c][j].seq \in Nat
      BY <1>2, <2>1 DEF IInv, HistoryOK
    <3> QED
      BY <3>1, <3>2 DEF Records, NoSequence
  <2>5. i \in AtHead(c)
    BY <2>3, <2>4 DEF AtHead, Verified
  <2> QED
    BY <2>2, <2>5 DEF NoEventAtHead
<1> QED
  BY <1>1, <1>2, DeletionKept, InvariantHolds, PTL DEF Spec

-----------------------------------------------------------------------------
(***************************************************************************)
(* The run implements CheckpointVerdict.  The names below say of the run's *)
(* variables what the abstract module says of the archive and the claims.  *)
(***************************************************************************)
Kept(c) == {i \in 1 .. Len(archive) : archive[i].chain = c /\ Valid(archive[i])}

Follows(c, i, j) ==
  /\ archive[i].seq < archive[j].seq
  /\ \A k \in Kept(c) : archive[k].seq <= archive[i].seq \/ archive[k].seq >= archive[j].seq

SoundChain(c) ==
  /\ \A i \in Kept(c) :
       /\ archive[i].seq # NoSequence
       /\ archive[i].scheme \in Supported
       /\ archive[i].hash = Digest(Input(archive[i]))
  /\ \A i, j \in Kept(c) :
       /\ archive[i].scheme = archive[j].scheme
       /\ archive[i].seq = archive[j].seq => i = j
       /\ Follows(c, i, j) => archive[j].prev = archive[i].hash

HeadReached(c) ==
  /\ \E i \in Kept(c) : /\ archive[i].seq = claims[c].seq
                        /\ archive[i].hash = claims[c].hash
                        /\ archive[i].scheme = claims[c].scheme
  /\ claims[c].count # 0 =>
       Cardinality({i \in Kept(c) : archive[i].seq <= claims[c].seq}) = claims[c].count

LEMMA AbstractMembers ==
  \A c : Abstract!Members(c) = Kept(c)
BY DEF Abstract!Members, Abstract!Entries, Abstract!Valid, Kept, Valid

LEMMA AbstractConsistent ==
  ASSUME NEW c
  PROVE  Abstract!Consistent(c) <=> SoundChain(c)
<1>1. \A i \in Kept(c) : \A j : Abstract!Precedes(i, j) <=> Follows(c, i, j)
  <2>1. \A i \in Kept(c) : archive[i].chain = c
    BY DEF Kept
  <2> QED
    BY <2>1, AbstractMembers DEF Abstract!Precedes, Follows
<1>2. \A e : Abstract!Digest(Abstract!Input(e)) = Digest(Input(e))
  BY DEF Abstract!Digest, Abstract!Input, Digest, Input
<1>3. Abstract!NoSequence = NoSequence
  BY DEF Abstract!NoSequence, NoSequence
<1> QED
  BY <1>1, <1>2, <1>3, AbstractMembers DEF Abstract!Consistent, SoundChain

LEMMA AbstractReaches ==
  ASSUME NEW c
  PROVE  Abstract!Reaches(c, claims[c]) <=> HeadReached(c)
<1>1. {i \in Abstract!Members(c) : archive[i].seq <= claims[c].seq}
        = {i \in Kept(c) : archive[i].seq <= claims[c].seq}
  BY AbstractMembers
<1>2. Abstract!Cardinality({i \in Abstract!Members(c) : archive[i].seq <= claims[c].seq})
        = Cardinality({i \in Kept(c) : archive[i].seq <= claims[c].seq})
  BY <1>1 DEF Abstract!Cardinality, Cardinality
<1> QED
  BY <1>2, AbstractMembers DEF Abstract!Reaches, HeadReached

LEMMA AbstractStrays ==
  Abstract!Strays = {i \in 1 .. Len(archive) : archive[i].chain \notin Chains \/ ~Valid(archive[i])}
BY DEF Abstract!Strays, Abstract!Entries, Abstract!Valid, Valid

-----------------------------------------------------------------------------
(* What an opened chain has found is decided by its members and the links  *)
(* walked so far, neither more nor less.                                   *)
Ordered(c) ==
  /\ \A p \in 1 .. Len(walk[c]) : walk[c][p] \in Sequenced(c)
  /\ \A i \in Sequenced(c) : \E p \in 1 .. Len(walk[c]) : walk[c][p] = i
  /\ \A p, q \in 1 .. Len(walk[c]) : p < q =>
       walk[c][p] # walk[c][q] /\ archive[walk[c][p]].seq <= archive[walk[c][q]].seq

NoLinkFound(c, n) ==
  \A p \in 1 .. n : p > 1 => LinkFindings(archive[walk[c][p - 1]], archive[walk[c][p]]) = {}

FoundOK(c) == findings[c] = {} <=> MemberFindings(c) = {} /\ NoLinkFound(c, pos[c])

ExactOK == \A c \in opened : Ordered(c) /\ FoundOK(c)

LEMMA OpenChainExact ==
  ASSUME IInv, ExactOK, NEW c \in Chains, OpenChain(c), UNCHANGED storeVars
  PROVE  ExactOK'
<1> USE DEF IInv
<1>1. /\ archive' = archive /\ groups' = groups /\ pos' = pos
      /\ opened' = opened \cup {c} /\ c \notin opened
  BY DEF OpenChain, storeVars, intakeVars
<1> DEFINE S == Sequenced(c)
<1>2. PICK w \in Orderings(S) : walk' = [walk EXCEPT ![c] = w]
  BY DEF OpenChain
<1>3. S \subseteq Nat /\ Cardinality(S) \in Nat
  <2>1. groups[c] \subseteq 1 .. read /\ read \in Nat
    BY DEF IntakeOK
  <2>2. S \subseteq groups[c]
    BY DEF Sequenced
  <2>4. IsFiniteSet(1 .. read)
    BY <2>1, FS_Interval
  <2>3. IsFiniteSet(S)
    BY <2>1, <2>2, <2>4, FS_Subset
  <2> QED
    BY <2>1, <2>2, <2>3, FS_CardinalityType
<1>4. /\ w \in [1 .. Cardinality(S) -> S]
      /\ \A i \in S : \E p \in DOMAIN w : w[p] = i
      /\ \A p, q \in DOMAIN w : p < q =>
           w[p] # w[q] /\ archive[w[p]].seq <= archive[w[q]].seq
  BY <1>2 DEF Orderings
<1>5. Len(w) = Cardinality(S) /\ DOMAIN w = 1 .. Len(w)
  <2>1. w \in [1 .. Cardinality(S) -> Nat]
    BY <1>3, <1>4
  <2> QED
    BY <2>1, <1>3, <1>4
<1>6. walk'[c] = w /\ \A d \in Chains : d # c => walk'[d] = walk[d]
  BY <1>2 DEF WalkOK
<1>7. findings'[c] = MemberFindings(c) /\ \A d \in Chains : d # c => findings'[d] = findings[d]
  BY DEF OpenChain, WalkOK
<1>8. \A d : Sequenced(d)' = Sequenced(d) /\ MemberFindings(d)' = MemberFindings(d)
  BY <1>1 DEF Sequenced, MemberFindings
<1>9. Ordered(c)'
  <2> HIDE DEF S
  <2>1. /\ \A p \in 1 .. Len(w) : w[p] \in S
        /\ \A i \in S : \E p \in 1 .. Len(w) : w[p] = i
        /\ \A p, q \in 1 .. Len(w) : p < q =>
             w[p] # w[q] /\ archive[w[p]].seq <= archive[w[q]].seq
    BY <1>4, <1>5
  <2>2. Sequenced(c)' = S
    BY <1>8 DEF S
  <2> QED
    BY <2>1, <2>2, <1>1, <1>6 DEF Ordered
<1>10. FoundOK(c)'
  <2>1. pos'[c] = 0
    BY <1>1 DEF WalkOK
  <2>2. NoLinkFound(c, pos[c])'
    BY <2>1 DEF NoLinkFound
  <2> QED
    BY <2>2, <1>7, <1>8 DEF FoundOK
<1>11. ASSUME NEW d \in opened PROVE Ordered(d)' /\ FoundOK(d)'
  <2>1. d \in Chains /\ d # c /\ walk'[d] = walk[d] /\ findings'[d] = findings[d]
    BY <1>1, <1>6, <1>7, <1>11 DEF WalkOK
  <2>2. Ordered(d) /\ FoundOK(d)
    BY <1>11 DEF ExactOK
  <2>3. Ordered(d)'
    BY <2>1, <2>2, <1>1, <1>8 DEF Ordered
  <2>4. NoLinkFound(d, pos[d])' <=> NoLinkFound(d, pos[d])
    BY <2>1, <1>1 DEF NoLinkFound
  <2> QED
    BY <2>1, <2>2, <2>3, <2>4, <1>8 DEF FoundOK
<1> QED
  BY <1>1, <1>9, <1>10, <1>11 DEF ExactOK

LEMMA WalkMemberExact ==
  ASSUME IInv, ExactOK, NEW c \in Chains, WalkMember(c), UNCHANGED storeVars
  PROVE  ExactOK'
<1> USE DEF IInv
<1>1. /\ archive' = archive /\ groups' = groups /\ walk' = walk /\ opened' = opened
      /\ c \in opened /\ pos' = [pos EXCEPT ![c] = @ + 1]
  BY DEF WalkMember, storeVars, intakeVars
<1>2. /\ pos[c] \in Nat /\ pos'[c] = pos[c] + 1
      /\ \A d \in Chains : d # c => pos'[d] = pos[d] /\ findings'[d] = findings[d]
  BY DEF WalkMember, WalkOK
<1>3. \A d : Sequenced(d)' = Sequenced(d) /\ MemberFindings(d)' = MemberFindings(d)
  BY <1>1 DEF Sequenced, MemberFindings
<1>4. \A d \in opened : Ordered(d)'
  BY <1>1, <1>3 DEF ExactOK, Ordered
<1>5. FoundOK(c)'
  <2> DEFINE n == pos[c]
             found(p) == LinkFindings(archive[walk[c][p - 1]], archive[walk[c][p]])
  <2>1. findings[c] = {} <=> MemberFindings(c) = {} /\ \A p \in 1 .. n : p > 1 => found(p) = {}
    BY <1>1 DEF ExactOK, FoundOK, NoLinkFound
  <2>2. findings'[c] = IF n = 0 THEN findings[c] ELSE findings[c] \cup found(n + 1)
    <3>1. (n + 1) - 1 = n
      BY <1>2
    <3> QED
      BY <3>1 DEF WalkMember, WalkOK
  <2>3. n \in Nat
    BY <1>2
  <2> HIDE DEF n, found
  <2>4. findings'[c] = {} <=>
          MemberFindings(c) = {} /\ \A p \in 1 .. n + 1 : p > 1 => found(p) = {}
    BY <2>1, <2>2, <2>3
  <2> QED
    BY <2>4, <1>1, <1>2, <1>3 DEF FoundOK, NoLinkFound, n, found
<1>6. ASSUME NEW d \in opened, d # c PROVE FoundOK(d)'
  <2>1. pos'[d] = pos[d] /\ findings'[d] = findings[d] /\ FoundOK(d)
    BY <1>2, <1>6 DEF ExactOK, WalkOK
  <2>2. NoLinkFound(d, pos[d])' <=> NoLinkFound(d, pos[d])
    BY <2>1, <1>1 DEF NoLinkFound
  <2> QED
    BY <2>1, <2>2, <1>3 DEF FoundOK
<1> QED
  BY <1>1, <1>4, <1>5, <1>6 DEF ExactOK

LEMMA ExactKept == IInv /\ ExactOK /\ [Next]_vars => ExactOK'
<1> SUFFICES ASSUME IInv, ExactOK, [Next]_vars PROVE ExactOK'
  OBVIOUS
<1>1. CASE opened' = {}
  BY <1>1 DEF ExactOK
<1>2. CASE UNCHANGED <<archive, groups, opened, walk, pos, findings>>
  <2>1. \A d : Sequenced(d)' = Sequenced(d) /\ MemberFindings(d)' = MemberFindings(d)
    BY <1>2 DEF Sequenced, MemberFindings
  <2>2. \A d \in opened : Ordered(d)'
    BY <1>2, <2>1 DEF ExactOK, Ordered
  <2>3. \A d : NoLinkFound(d, pos[d])' <=> NoLinkFound(d, pos[d])
    BY <1>2 DEF NoLinkFound
  <2> QED
    BY <1>2, <2>1, <2>2, <2>3 DEF ExactOK, FoundOK
<1>3. phase \in {"idle", "intake"} => opened = {}
  BY DEF IInv, WalkOK
<1>4. CASE phase = "idle" /\ StoreNext /\ UNCHANGED <<phase, chainVars, compareVars>>
  BY <1>1, <1>3, <1>4 DEF chainVars, walkVars
<1>5. CASE StartRun \/ AddChainEvent \/ FinishIntake \/ RefuseEmpty
  BY <1>1, <1>3, <1>5
     DEF StartRun, AddChainEvent, FinishIntake, RefuseEmpty, chainVars, walkVars
<1>6. CASE UNCHANGED storeVars /\ (FinishChains \/ Conclude \/ \E c \in Chains : CompareClaim(c))
  BY <1>2, <1>6 DEF FinishChains, Conclude, CompareClaim, chainVars, intakeVars, walkVars, storeVars
<1>7. CASE Forget
  BY <1>1, <1>7 DEF Forget, ChainReset
<1>8. CASE UNCHANGED storeVars /\ \E c \in Chains : OpenChain(c) \/ WalkMember(c)
  BY <1>8, OpenChainExact, WalkMemberExact
<1>9. CASE UNCHANGED vars
  BY <1>2, <1>9 DEF vars, chainVars, intakeVars, walkVars, storeVars
<1> QED
  BY <1>4, <1>5, <1>6, <1>7, <1>8, <1>9 DEF Next, Verify

-----------------------------------------------------------------------------
(* A run that compares has events and claims; a claim that was compared    *)
(* has the status the report gives it; before the end there is no outcome. *)
StatusOf(c) ==
  IF c \notin Present THEN "missing" ELSE IF ClaimAgrees(c) THEN "agrees" ELSE "disagrees"

RunOK ==
  /\ claims = NoClaims \/ DOMAIN claims # {}
  /\ phase \in {"intake", "chains", "compare"} => archive # << >>
  /\ phase = "compare" => DOMAIN claims # {}
  /\ outcome # "none" => phase = "done"
  /\ phase = "compare" =>
       \A c \in DOMAIN claims : status[c] = "pending" \/ status[c] = StatusOf(c)

LEMMA StatusUntouched ==
  ASSUME UNCHANGED <<archive, claims, unassigned, groups, findings>>, NEW c
  PROVE  StatusOf(c)' = StatusOf(c)
<1>1. Present' = Present /\ Unverified(c)' = Unverified(c) /\ Verified(c)' = Verified(c)
      /\ Sequenced(c)' = Sequenced(c)
  BY DEF Present, Unverified, Verified, Sequenced
<1>2. AtHead(c)' = AtHead(c) /\ UpToHead(c)' = UpToHead(c)
  BY <1>1 DEF AtHead, UpToHead
<1>3. HeadScheme(c)' = HeadScheme(c) /\ HeadAbsentFindings(c)' = HeadAbsentFindings(c)
  BY <1>1, <1>2 DEF HeadScheme, HeadAbsentFindings
<1>4. HeadPresentFindings(c)' = HeadPresentFindings(c)
  BY <1>1, <1>2, <1>3 DEF HeadPresentFindings
<1>5. ClaimFindings(c)' = ClaimFindings(c)
  BY <1>1, <1>2, <1>3, <1>4 DEF ClaimFindings
<1>6. ClaimAgrees(c)' <=> ClaimAgrees(c)
  BY <1>1, <1>5 DEF ClaimAgrees, Intact
<1> QED
  BY <1>1, <1>6 DEF StatusOf

LEMMA RunKept == IInv /\ RunOK /\ [Next]_vars => RunOK'
<1> SUFFICES ASSUME IInv, RunOK, [Next]_vars PROVE RunOK'
  OBVIOUS
<1> USE DEF RunOK
<1>1. CASE phase = "idle" /\ StoreNext /\ UNCHANGED <<phase, chainVars, compareVars>>
  <2>1. claims' = NoClaims \/ DOMAIN claims' # {}
    <3>1. ASSUME NEW named \in SUBSET Chains, NEW counted \in BOOLEAN,
                 TakeCheckpoint(named, counted)
          PROVE  DOMAIN claims' # {}
      BY <3>1 DEF TakeCheckpoint
    <3>2. CASE UNCHANGED claims
      BY <3>2
    <3> QED
      BY <1>1, <3>1, <3>2 DEF StoreNext, Produce, Fault
  <2> QED
    BY <1>1, <2>1 DEF compareVars
<1>2. CASE UNCHANGED storeVars /\ StartRun /\ UNCHANGED compareVars
  BY <1>2 DEF StartRun, storeVars, compareVars
<1>3. CASE UNCHANGED storeVars /\ RefuseEmpty
  BY <1>3 DEF RefuseEmpty, storeVars
<1>4. CASE UNCHANGED storeVars /\ UNCHANGED compareVars /\ (AddChainEvent \/ FinishIntake)
  BY <1>4 DEF AddChainEvent, FinishIntake, storeVars, compareVars
<1>5. CASE /\ UNCHANGED storeVars /\ UNCHANGED compareVars
           /\ \E c \in Chains : OpenChain(c) \/ WalkMember(c)
  BY <1>5 DEF OpenChain, WalkMember, storeVars, compareVars
<1>6. CASE UNCHANGED storeVars /\ FinishChains
  <2>1. /\ claims' = claims /\ archive' = archive /\ outcome' = outcome
        /\ phase = "chains" /\ phase' = IF claims = NoClaims THEN "done" ELSE "compare"
        /\ status' = [c \in Chains |-> IF c \in DOMAIN claims THEN "pending" ELSE "unclaimed"]
    BY <1>6 DEF FinishChains, ChainsFinished, storeVars
  <2>2. DOMAIN claims \subseteq Chains
    BY DEF IInv, ClaimsOK
  <2> QED
    BY <2>1, <2>2
<1>7. ASSUME UNCHANGED storeVars, NEW c \in Chains, CompareClaim(c) PROVE RunOK'
  <2>1. /\ UNCHANGED <<archive, claims, unassigned, groups, findings, phase, outcome>>
        /\ phase = "compare"
        /\ status' = [status EXCEPT ![c] = StatusOf(c)]
    BY <1>7 DEF CompareClaim, StatusOf, storeVars, chainVars, intakeVars, walkVars
  <2>2. \A d : StatusOf(d)' = StatusOf(d)
    BY <2>1, StatusUntouched
  <2>3. \A d \in DOMAIN claims : status'[d] = "pending" \/ status'[d] = StatusOf(d)
    BY <2>1 DEF IInv, ClaimsOK, StatusOK
  <2> QED
    BY <2>1, <2>2, <2>3
<1>8. CASE UNCHANGED storeVars /\ Conclude
  BY <1>8 DEF Conclude, storeVars
<1>9. CASE UNCHANGED storeVars /\ Forget
  BY <1>9 DEF Forget, storeVars
<1>10. CASE UNCHANGED vars
  <2>1. UNCHANGED <<archive, claims, unassigned, groups, findings, phase, outcome, status>>
    BY <1>10 DEF vars, storeVars, chainVars, intakeVars, walkVars, compareVars
  <2>2. \A d : StatusOf(d)' = StatusOf(d)
    BY <2>1, StatusUntouched
  <2> QED
    BY <2>1, <2>2
<1> QED
  BY <1>1, <1>2, <1>3, <1>4, <1>5, <1>6, <1>7, <1>8, <1>9, <1>10 DEF Next, Verify

-----------------------------------------------------------------------------
(* Once the input is read, the groups are the valid events of each chain,  *)
(* and what is unassigned are the others.                                  *)
LEMMA ReadIsKept ==
  ASSUME IInv, phase \in {"chains", "compare", "done"}, read = Len(archive)
  PROVE  /\ \A c \in Chains : groups[c] = Kept(c)
         /\ DOMAIN unassigned = Abstract!Strays
<1>1. \A i \in 1 .. Len(archive) : archive[i].chain \in Chains \cup {NoChainId, NoIntegrity}
  BY DEF IInv, ArchiveOK, IsEvent
<1>2. \A i \in 1 .. Len(archive) :
        WhyUnassigned(archive[i]) # "none" <=>
          archive[i].chain \notin Chains \/ ~Valid(archive[i])
  BY <1>1, ChainsAssumption DEF WhyUnassigned
<1> QED
  BY <1>2, AbstractStrays DEF IInv, IntakeOK, Kept

LEMMA DigestSound ==
  ASSUME NEW e
  PROVE  DigestFindings(e) = {} <=> e.scheme \in Supported /\ e.hash = Digest(Input(e))
<1>1. Digest(Input(e)) # Absent
  BY DEF Digest, Absent
<1> QED
  BY <1>1 DEF DigestFindings

MembersSound(c) ==
  /\ \A i \in Kept(c) :
       /\ archive[i].seq # NoSequence
       /\ archive[i].scheme \in Supported
       /\ archive[i].hash = Digest(Input(archive[i]))
  /\ \A i, j \in Kept(c) :
       /\ archive[i].scheme = archive[j].scheme
       /\ archive[i].seq = archive[j].seq => i = j

LEMMA MembersAreSound ==
  ASSUME NEW c, groups[c] = Kept(c)
  PROVE  MemberFindings(c) = {} <=> MembersSound(c)
<1> DEFINE D == UNION {DigestFindings(archive[i]) : i \in groups[c]}
           M == {k \in {"algorithm-mismatch"} :
                   \E i, j \in groups[c] : archive[i].scheme # archive[j].scheme}
           U == {k \in {"sequence-missing"} : Sequenced(c) # groups[c]}
           T == {k \in {"duplicate-sequence"} :
                   \E i, j \in Sequenced(c) : i # j /\ archive[i].seq = archive[j].seq}
<1>1. MemberFindings(c) = D \cup M \cup U \cup T
  BY DEF MemberFindings
<1>2. D = {} <=> \A i \in Kept(c) : archive[i].scheme \in Supported
                                    /\ archive[i].hash = Digest(Input(archive[i]))
  BY DigestSound
<1>3. M = {} <=> \A i, j \in Kept(c) : archive[i].scheme = archive[j].scheme
  OBVIOUS
<1>4. U = {} <=> \A i \in Kept(c) : archive[i].seq # NoSequence
  BY DEF Sequenced
<1>5. T = {} <=> \A i, j \in Sequenced(c) : archive[i].seq = archive[j].seq => i = j
  OBVIOUS
<1>6. U = {} => Sequenced(c) = Kept(c)
  OBVIOUS
<1>7. D \cup M \cup U \cup T = {} <=> D = {} /\ M = {} /\ U = {} /\ T = {}
  <2> HIDE DEF D, M, U, T
  <2> QED
    OBVIOUS
<1> HIDE DEF D, M, U, T
<1>8. Sequenced(c) \subseteq Kept(c)
  BY DEF Sequenced
<1> QED
  BY <1>1, <1>2, <1>3, <1>4, <1>5, <1>6, <1>7, <1>8 DEF MembersSound

(* Among sound members the walk is strictly ascending, so that two members *)
(* are neighbours in it exactly if one follows the other by sequence.      *)
LEMMA NeighboursFollow ==
  ASSUME IInv, NEW c \in Chains, c \in opened, Ordered(c), MembersSound(c), groups[c] = Kept(c)
  PROVE  /\ \A p \in 1 .. Len(walk[c]) : p > 1 => Follows(c, walk[c][p - 1], walk[c][p])
         /\ \A i, j \in Kept(c) : Follows(c, i, j) =>
              \E p \in 1 .. Len(walk[c]) : p > 1 /\ walk[c][p - 1] = i /\ walk[c][p] = j
<1> DEFINE w == walk[c]
           S(p) == archive[w[p]].seq
<1>1. Len(w) \in Nat
  BY DEF IInv, WalkOK
<1>2. Sequenced(c) = Kept(c)
  BY DEF MembersSound, Sequenced
<1>3. /\ \A p \in 1 .. Len(w) : w[p] \in Kept(c)
      /\ \A i \in Kept(c) : \E p \in 1 .. Len(w) : w[p] = i
  BY <1>2 DEF Ordered
<1>4. \A i \in Kept(c) : archive[i].seq \in Int
  BY DEF Kept, IInv, ArchiveOK, IsEvent, NoSequence
<1>5. \A p, q \in 1 .. Len(w) : p < q => S(p) < S(q)
  <2> SUFFICES ASSUME NEW p \in 1 .. Len(w), NEW q \in 1 .. Len(w), p < q
               PROVE  S(p) < S(q)
    OBVIOUS
  <2>1. w[p] # w[q] /\ S(p) <= S(q) /\ w[p] \in Kept(c) /\ w[q] \in Kept(c)
    BY <1>3 DEF Ordered
  <2>2. S(p) # S(q)
    BY <2>1 DEF MembersSound
  <2> QED
    BY <2>1, <2>2, <1>4
<1>6. \A p \in 1 .. Len(w) : S(p) \in Int
  BY <1>3, <1>4
<1>7. ASSUME NEW p \in 1 .. Len(w), p > 1 PROVE Follows(c, w[p - 1], w[p])
  <2>1. p - 1 \in 1 .. Len(w) /\ p - 1 < p
    BY <1>1, <1>7
  <2>2. S(p - 1) < S(p)
    BY <2>1, <1>5
  <2>3. ASSUME NEW k \in Kept(c) PROVE archive[k].seq <= S(p - 1) \/ archive[k].seq >= S(p)
    <3>1. PICK q \in 1 .. Len(w) : w[q] = k
      BY <1>3
    <3>2. q < p - 1 \/ q = p - 1 \/ q = p \/ p < q
      BY <1>1, <2>1
    <3>3. CASE q < p - 1
      BY <3>1, <3>3, <2>1, <1>5, <1>6
    <3>4. CASE q = p - 1
      BY <3>1, <3>4, <2>1, <1>6
    <3>5. CASE q = p
      BY <3>1, <3>5, <1>6
    <3>6. CASE p < q
      <4>1. S(p) < S(q)
        BY <3>6, <1>5
      <4>2. S(p) \in Int /\ S(q) \in Int
        BY <1>6
      <4> QED
        BY <4>1, <4>2, <3>1
    <3> QED
      BY <3>2, <3>3, <3>4, <3>5, <3>6
  <2> QED
    BY <2>2, <2>3 DEF Follows
<1>8. ASSUME NEW i \in Kept(c), NEW j \in Kept(c), Follows(c, i, j)
      PROVE  \E p \in 1 .. Len(w) : p > 1 /\ w[p - 1] = i /\ w[p] = j
  <2>1. PICK q \in 1 .. Len(w) : w[q] = i
    BY <1>3
  <2>2. PICK r \in 1 .. Len(w) : w[r] = j
    BY <1>3
  <2>3. S(q) < S(r)
    BY <1>8, <2>1, <2>2 DEF Follows
  <2>4. q < r
    <3>1. q = r \/ r < q \/ q < r
      BY <1>1
    <3>2. r < q => S(r) < S(q)
      BY <1>5
    <3> QED
      BY <3>1, <3>2, <2>3, <1>6
  <2>5. ~(q + 1 < r)
    <3> SUFFICES ASSUME q + 1 < r PROVE FALSE
      OBVIOUS
    <3>1. q + 1 \in 1 .. Len(w) /\ q < q + 1
      BY <1>1
    <3>2. S(q) < S(q + 1) /\ S(q + 1) < S(r)
      BY <3>1, <1>5
    <3>3. w[q + 1] \in Kept(c)
      BY <3>1, <1>3
    <3>4. S(q + 1) <= S(q) \/ S(q + 1) >= S(r)
      BY <3>3, <1>8, <2>1, <2>2 DEF Follows
    <3> QED
      BY <3>1, <3>2, <3>4, <1>6
  <2>6. r = q + 1 /\ r > 1 /\ r - 1 = q
    BY <2>4, <2>5, <1>1
  <2> QED
    BY <2>1, <2>2, <2>6
<1> QED
  BY <1>7, <1>8

(* A chain whose walk is over is intact exactly if it is sound.            *)
LEMMA IntactIsSound ==
  ASSUME IInv, ExactOK, NEW c \in Chains, WalkFinished(c), groups[c] = Kept(c)
  PROVE  Intact(c) <=> SoundChain(c)
<1> DEFINE w == walk[c]
<1>1. c \in opened /\ pos[c] = Len(w) /\ Ordered(c) /\ FoundOK(c)
  BY DEF WalkFinished, ExactOK
<1>2. Intact(c) <=> MembersSound(c) /\ NoLinkFound(c, Len(w))
  BY <1>1, MembersAreSound DEF Intact, FoundOK
<1>3. SoundChain(c) <=>
        MembersSound(c)
        /\ \A i, j \in Kept(c) : Follows(c, i, j) => archive[j].prev = archive[i].hash
  BY DEF SoundChain, MembersSound
<1>4. ASSUME MembersSound(c), NEW i \in Kept(c), NEW j \in Kept(c)
      PROVE  LinkFindings(archive[i], archive[j]) = {} <=> archive[j].prev = archive[i].hash
  <2>1. archive[i].hash # Absent
    BY <1>4 DEF MembersSound, Digest, Absent
  <2> QED
    BY <2>1 DEF LinkFindings
<1>5. ASSUME MembersSound(c)
      PROVE  NoLinkFound(c, Len(w)) <=>
               \A i, j \in Kept(c) : Follows(c, i, j) => archive[j].prev = archive[i].hash
  <2>1. /\ \A p \in 1 .. Len(w) : p > 1 => Follows(c, w[p - 1], w[p])
        /\ \A i, j \in Kept(c) : Follows(c, i, j) =>
             \E p \in 1 .. Len(w) : p > 1 /\ w[p - 1] = i /\ w[p] = j
    BY <1>1, <1>5, NeighboursFollow
  <2>2. \A p \in 1 .. Len(w) : w[p] \in Kept(c)
    BY <1>1 DEF Ordered, Sequenced
  <2>3. \A p \in 1 .. Len(w) : p > 1 => w[p - 1] \in Kept(c)
    <3>1. Len(w) \in Nat
      BY DEF IInv, WalkOK
    <3>2. \A p \in 1 .. Len(w) : p > 1 => p - 1 \in 1 .. Len(w)
      BY <3>1
    <3> QED
      BY <2>2, <3>2
  <2> HIDE DEF w
  <2>4. NoLinkFound(c, Len(w)) <=>
          \A p \in 1 .. Len(w) : p > 1 => LinkFindings(archive[w[p - 1]], archive[w[p]]) = {}
    BY DEF NoLinkFound, w
  <2>5. NoLinkFound(c, Len(w)) <=>
          \A p \in 1 .. Len(w) : p > 1 => archive[w[p]].prev = archive[w[p - 1]].hash
    BY <2>2, <2>3, <2>4, <1>4, <1>5
  <2> QED
    BY <2>1, <2>2, <2>3, <2>5
<1> QED
  BY <1>2, <1>3, <1>5

(* With nothing unassigned and a sound chain, a claim agrees exactly if    *)
(* the recorded head is reached.                                           *)
LEMMA AgreesIsReached ==
  ASSUME IInv, NEW c \in DOMAIN claims, DOMAIN unassigned = {}, groups[c] = Kept(c),
         Intact(c), SoundChain(c), Abstract!Strays = {}
  PROVE  StatusOf(c) = "agrees" <=> HeadReached(c)
<1> DEFINE H == AtHead(c)
<1>1. c \in Chains /\ claims[c].seq # NoSequence
  <2>1. c \in Chains
    BY DEF IInv, ClaimsOK
  <2>2. PICK j \in 1 .. Len(history[c]) : Records(c, j)
    BY DEF IInv, ClaimsOK
  <2>3. history[c][j].seq \in Nat
    BY <2>1 DEF IInv, HistoryOK
  <2> QED
    BY <2>1, <2>2, <2>3 DEF Records, NoSequence
<1>2. Verified(c) = Kept(c) /\ Unverified(c) = {}
  <2>1. \A i \in 1 .. Len(archive) : Valid(archive[i])
    BY AbstractStrays
  <2>2. \A i \in Kept(c) : archive[i].seq # NoSequence
    BY DEF SoundChain
  <2> QED
    BY <2>1, <2>2 DEF Verified, Unverified, Kept
<1>3. H = {i \in Kept(c) : archive[i].seq = claims[c].seq}
  BY <1>2 DEF AtHead
<1>4. \A i, j \in H : i = j
  BY <1>3 DEF SoundChain
<1>5. \A i \in H : HeadScheme(c) = archive[i].scheme
  <2> SUFFICES ASSUME NEW i \in H PROVE HeadScheme(c) = archive[i].scheme
    OBVIOUS
  <2>1. H = {i} /\ i \in Nat
    BY <1>3, <1>4 DEF Kept
  <2>2. (CHOOSE k \in H : \A j \in H : k <= j) = i
    BY <2>1
  <2> QED
    BY <2>2 DEF HeadScheme
<1>6. UpToHead(c) = {i \in Kept(c) : archive[i].seq <= claims[c].seq}
  BY <1>2 DEF UpToHead
<1>7. H # {} => c \in Present
  BY <1>1, <1>3 DEF Present
<1>8. StatusOf(c) = "agrees" <=> c \in Present /\ ClaimFindings(c) = {}
  BY <1>2 DEF StatusOf, ClaimAgrees
<1>9. H = {} => ClaimFindings(c) # {}
  BY <1>2 DEF ClaimFindings, HeadAbsentFindings
<1>10. ASSUME H # {}
       PROVE  ClaimFindings(c) = {} <=>
                /\ HeadScheme(c) = claims[c].scheme
                /\ \E i \in H : archive[i].hash = claims[c].hash
                /\ claims[c].count # 0 => Cardinality(UpToHead(c)) = claims[c].count
  <2>1. ClaimFindings(c) = HeadPresentFindings(c)
    BY <1>2, <1>10 DEF ClaimFindings
  <2>2. CASE HeadScheme(c) # claims[c].scheme
    BY <2>1, <2>2 DEF HeadPresentFindings
  <2>3. CASE HeadScheme(c) = claims[c].scheme
    <3> DEFINE A == {k \in {"checkpoint-head-mismatch"} :
                       \A i \in AtHead(c) : archive[i].hash # claims[c].hash}
               B == {k \in {"checkpoint-count-mismatch"} :
                       /\ claims[c].count # 0
                       /\ Unverified(c) = {}
                       /\ Cardinality(UpToHead(c)) # claims[c].count}
    <3>1. HeadPresentFindings(c) = A \cup B
      BY <2>3 DEF HeadPresentFindings
    <3>2. A = {} <=> \E i \in H : archive[i].hash = claims[c].hash
      OBVIOUS
    <3>3. B = {} <=> (claims[c].count # 0 => Cardinality(UpToHead(c)) = claims[c].count)
      BY <1>2
    <3> HIDE DEF A, B
    <3> QED
      BY <3>1, <3>2, <3>3, <2>1, <2>3
  <2> QED
    BY <2>2, <2>3
<1> HIDE DEF H
<1>11. CASE H = {}
  BY <1>11, <1>8, <1>9, <1>3 DEF HeadReached
<1>12. CASE H # {}
  <2>1. PICK i \in H : TRUE
    BY <1>12
  <2>2. H = {i} /\ HeadScheme(c) = archive[i].scheme
    BY <2>1, <1>4, <1>5
  <2>3. HeadReached(c) <=>
          /\ archive[i].hash = claims[c].hash /\ archive[i].scheme = claims[c].scheme
          /\ claims[c].count # 0 => Cardinality(UpToHead(c)) = claims[c].count
    BY <2>2, <1>3, <1>6 DEF HeadReached
  <2> QED
    BY <2>2, <2>3, <1>7, <1>8, <1>10, <1>12
<1> QED
  BY <1>11, <1>12

(* A chain without members is sound, and no recorded head is reached in it. *)
LEMMA EmptyChain ==
  ASSUME NEW c, Kept(c) = {}
  PROVE  SoundChain(c) /\ ~HeadReached(c)
BY DEF SoundChain, HeadReached

(* What the run concludes is the one-step judgement.                       *)
LEMMA OutcomeIsJudgement ==
  ASSUME IInv, ExactOK, RunOK, phase = "compare",
         \A c \in Chains : status[c] # "pending"
  PROVE  Outcome = Abstract!Judgement
<1>1. /\ archive # << >> /\ DOMAIN claims # {} /\ DOMAIN claims \subseteq Chains
      /\ \A c \in DOMAIN claims : status[c] = StatusOf(c)
  BY DEF RunOK, IInv, ClaimsOK
<1>2. read = Len(archive)
  BY DEF IInv, IntakeOK
<1>3. /\ \A c \in Chains : groups[c] = Kept(c)
      /\ DOMAIN unassigned = Abstract!Strays
  BY <1>2, ReadIsKept
<1>4. \A c \in Chains : c \in Present <=> Kept(c) # {}
  BY <1>3 DEF Present
<1>5. \A c \in Present : Intact(c) <=> SoundChain(c)
  <2>1. \A c \in Present : WalkFinished(c)
    BY DEF IInv, WalkOK
  <2> QED
    BY <1>3, <2>1, IntactIsSound DEF Present
<1>6. \A c \in Chains : status[c] = "missing" /\ c \in DOMAIN claims
                          <=> Kept(c) = {} /\ c \in DOMAIN claims
  BY <1>1, <1>4 DEF StatusOf
<1>7. (\A c \in DOMAIN claims : status[c] = "missing")
        <=> \A c \in DOMAIN claims : Abstract!Members(c) = {}
  BY <1>1, <1>6, AbstractMembers
<1>8. ReportIntact <=> Abstract!Strays = {} /\ \A c \in Chains : SoundChain(c)
  BY <1>3, <1>4, <1>5, EmptyChain DEF ReportIntact, Present
<1>9. ASSUME ReportIntact, NEW c \in DOMAIN claims
      PROVE  status[c] = "agrees" <=> HeadReached(c)
  <2>1. c \in Chains /\ SoundChain(c) /\ Abstract!Strays = {} /\ DOMAIN unassigned = {}
    BY <1>1, <1>8, <1>9 DEF ReportIntact
  <2>2. CASE c \in Present
    BY <2>1, <2>2, <1>1, <1>3, <1>5, <1>9, AgreesIsReached
  <2>3. CASE c \notin Present
    BY <2>1, <2>3, <1>1, <1>4, EmptyChain DEF StatusOf
  <2> QED
    BY <2>2, <2>3
<1>10. (ReportIntact /\ \A c \in DOMAIN claims : status[c] = "agrees")
         <=> /\ Abstract!Strays = {}
             /\ \A c \in Chains : Abstract!Consistent(c)
             /\ \A c \in DOMAIN claims : Abstract!Reaches(c, claims[c])
  <2>1. \A c : Abstract!Consistent(c) <=> SoundChain(c)
    BY AbstractConsistent
  <2>2. \A c : Abstract!Reaches(c, claims[c]) <=> HeadReached(c)
    BY AbstractReaches
  <2> QED
    BY <2>1, <2>2, <1>8, <1>9
<1> QED
  BY <1>1, <1>7, <1>10 DEF Outcome, Abstract!Judgement

LEMMA InitExact == Init => ExactOK /\ RunOK
BY DEF Init, ChainInit, StoreInit, ExactOK, RunOK

(* Every step of a run is a step of the verdict, or none of it is seen.    *)
LEMMA StepIsVerdictStep ==
  ASSUME IInv, ExactOK, RunOK, [Next]_vars
  PROVE  [Abstract!VerdictNext]_<<archive, claims, outcome>>
<1> USE DEF Abstract!VerdictNext
<1>1. CASE phase = "idle" /\ StoreNext /\ UNCHANGED <<phase, chainVars, compareVars>>
  BY <1>1 DEF RunOK, compareVars, Abstract!Change
<1>2. CASE UNCHANGED storeVars /\ UNCHANGED outcome
  BY <1>2 DEF storeVars
<1>3. CASE UNCHANGED storeVars /\ RefuseEmpty
  <2>1. outcome' = Abstract!Judgement
    BY <1>3 DEF RefuseEmpty, Abstract!Judgement
  <2> QED
    BY <1>3, <2>1 DEF storeVars, Abstract!Judge
<1>4. CASE UNCHANGED storeVars /\ Conclude
  <2>1. outcome' = Abstract!Judgement
    BY <1>4, OutcomeIsJudgement DEF Conclude
  <2> QED
    BY <1>4, <2>1 DEF storeVars, Abstract!Judge
<1>5. CASE UNCHANGED storeVars /\ Forget
  BY <1>5 DEF Forget, storeVars, Abstract!Discard
<1>6. CASE UNCHANGED storeVars /\ (FinishChains \/ \E c \in Chains : CompareClaim(c))
  BY <1>2, <1>6 DEF FinishChains, CompareClaim
<1>7. CASE UNCHANGED vars
  BY <1>2, <1>7 DEF vars, compareVars
<1> QED
  BY <1>1, <1>2, <1>3, <1>4, <1>5, <1>6, <1>7 DEF Next, Verify, compareVars

(* The run, with its intake, its orders and its walks, implements the      *)
(* verdict of one step that CheckpointVerdict states.                      *)
THEOREM RefinementTheorem == Spec => ImplementsVerdict
<1>1. Init => Abstract!VerdictInit
  BY DEF Init, Abstract!VerdictInit
<1>2. IInv /\ ExactOK /\ RunOK /\ [Next]_vars
        => [Abstract!VerdictNext]_Abstract!verdictVars
  BY StepIsVerdictStep DEF Abstract!verdictVars
<1>3. Spec => []ExactOK
  BY InitExact, ExactKept, InvariantHolds, PTL DEF Spec
<1>4. Spec => []RunOK
  BY InitExact, RunKept, InvariantHolds, PTL DEF Spec
<1>5. Spec => Abstract!VerdictSpec
  BY <1>1, <1>2, <1>3, <1>4, InvariantHolds, PTL DEF Spec, Abstract!VerdictSpec
<1> QED
  BY <1>5 DEF ImplementsVerdict

-----------------------------------------------------------------------------
(* What was sealed is sealed in a scheme the verifier implements, a claim  *)
(* records the scheme of its event, and a finished run has concluded the   *)
(* judgement.                                                              *)
SchemesOK ==
  /\ \A c \in Chains : \A k \in 1 .. Len(history[c]) : history[c][k].scheme \in Supported
  /\ \A c \in DOMAIN claims : \E j \in 1 .. Len(history[c]) :
       history[c][j].seq = claims[c].seq /\ history[c][j].scheme = claims[c].scheme

JudgedOK == phase = "done" /\ claims # NoClaims => outcome = Abstract!Judgement

LEMMA SchemesKept == IInv /\ SchemesOK /\ [Next]_vars => SchemesOK'
<1> SUFFICES ASSUME IInv, SchemesOK, [Next]_vars PROVE SchemesOK'
  OBVIOUS
<1> USE DEF IInv
<1>1. ASSUME NEW c \in Chains, NEW n \in 0 .. MaxSequence, NEW b \in Bodies,
             NEW s \in Supported, Produce(c, n, b, s)
      PROVE  SchemesOK'
  <2> DEFINE e == Sealed(c, n, b, s)
  <2>1. e.scheme = s
    BY DEF Sealed, Seal
  <2> HIDE DEF e
  <2>2. /\ claims' = claims
        /\ \A d \in Chains : d # c => history'[d] = history[d]
        /\ history'[c] = Append(history[c], e)
    BY <1>1 DEF Produce, HistoryOK, e
  <2>3. /\ Len(history'[c]) = Len(history[c]) + 1
        /\ \A k \in 1 .. Len(history[c]) : history'[c][k] = history[c][k]
        /\ history'[c][Len(history[c]) + 1] = e
    BY <2>2, AppendFacts DEF HistoryOK
  <2>4. \A d \in Chains : Len(history[d]) \in Nat
    BY SeqFacts DEF HistoryOK
  <2>5. \A d \in Chains : \A k \in 1 .. Len(history'[d]) : history'[d][k].scheme \in Supported
    BY <2>1, <2>2, <2>3, <2>4 DEF SchemesOK
  <2>6. \A d \in Chains : \A j \in 1 .. Len(history[d]) :
          j \in 1 .. Len(history'[d]) /\ history'[d][j] = history[d][j]
    BY <2>2, <2>3, <2>4
  <2>7. ASSUME NEW d \in DOMAIN claims
        PROVE  \E i \in 1 .. Len(history'[d]) :
                 history'[d][i].seq = claims[d].seq /\ history'[d][i].scheme = claims[d].scheme
    <3>1. PICK i \in 1 .. Len(history[d]) :
             history[d][i].seq = claims[d].seq /\ history[d][i].scheme = claims[d].scheme
      BY DEF SchemesOK
    <3>2. i \in 1 .. Len(history'[d]) /\ history'[d][i] = history[d][i]
      BY <2>6 DEF ClaimsOK
    <3> QED
      BY <3>1, <3>2
  <2> QED
    BY <2>2, <2>5, <2>7 DEF SchemesOK
<1>2. ASSUME NEW named \in SUBSET Chains, NEW counted \in BOOLEAN,
             TakeCheckpoint(named, counted)
      PROVE  SchemesOK'
  <2>1. \A c \in named : Len(history[c]) \in 1 .. Len(history[c])
    BY <1>2, SeqFacts DEF TakeCheckpoint, HistoryOK, IsSeq
  <2> QED
    BY <1>2, <2>1 DEF TakeCheckpoint, SchemesOK, Claim, LastEvent
<1>3. CASE UNCHANGED <<history, claims>>
  BY <1>3 DEF SchemesOK
<1> QED
  BY <1>1, <1>2, <1>3 DEF Next, StoreNext, Fault, vars, storeVars

LEMMA JudgedKept ==
  ASSUME IInv, ExactOK, RunOK, JudgedOK, [Next]_vars
  PROVE  JudgedOK'
<1>1. archive' = archive /\ claims' = claims => Abstract!Judgement' = Abstract!Judgement
  BY DEF Abstract!Judgement, Abstract!Strays, Abstract!Members, Abstract!Entries,
         Abstract!Consistent, Abstract!Precedes, Abstract!Reaches
<1>2. CASE UNCHANGED storeVars /\ RefuseEmpty
  BY <1>1, <1>2 DEF RefuseEmpty, storeVars, JudgedOK, Abstract!Judgement
<1>3. CASE UNCHANGED storeVars /\ FinishChains
  BY <1>3 DEF FinishChains, storeVars, JudgedOK
<1>4. CASE UNCHANGED storeVars /\ Conclude
  BY <1>1, <1>4, OutcomeIsJudgement DEF Conclude, storeVars, JudgedOK
<1>5. CASE UNCHANGED vars
  BY <1>1, <1>5 DEF vars, storeVars, compareVars, JudgedOK
<1>6. CASE phase' # "done"
  BY <1>6 DEF JudgedOK
<1>7. CASE phase = "idle" /\ StoreNext /\ UNCHANGED <<phase, chainVars, compareVars>>
  BY <1>6, <1>7
<1> QED
  BY <1>2, <1>3, <1>4, <1>5, <1>6, <1>7
     DEF Next, Verify, StartRun, AddChainEvent, FinishIntake, OpenChain, WalkMember,
         CompareClaim, Forget

-----------------------------------------------------------------------------
(* A chain of the archive that is a window of its history from event k on. *)
LEMMA WindowFacts ==
  ASSUME IInv, SchemesOK, Undamaged, NEW c \in Chains, history[c] # << >>,
         NEW k \in 1 .. Len(history[c]), Window(c, k)
  PROVE  /\ Len(history[c]) \in Nat
         /\ \A i \in Kept(c) : \E m \in k .. Len(history[c]) :
              /\ Holds(i, c, m)
              /\ archive[i].seq = history[c][m].seq
              /\ archive[i].scheme = history[c][m].scheme
              /\ archive[i].prev = history[c][m].prev
              /\ archive[i].hash = history[c][m].hash
         /\ \A m \in k .. Len(history[c]) : \E i \in Kept(c) :
              Holds(i, c, m) /\ \A j \in Kept(c) : Holds(j, c, m) => j = i
         /\ \A m, n \in 1 .. Len(history[c]) :
              m < n => history[c][m].seq < history[c][n].seq
         /\ \A m \in 1 .. Len(history[c]) : history[c][m].seq \in Nat
<1> USE DEF IInv
<1>1. Len(history[c]) \in Nat
  BY SeqFacts DEF HistoryOK
<1>2. \A i, m : Holds(i, c, m) =>
        /\ archive[i].seq = history[c][m].seq
        /\ archive[i].chain = history[c][m].chain
        /\ archive[i].scheme = history[c][m].scheme
        /\ archive[i].prev = history[c][m].prev
        /\ archive[i].hash = history[c][m].hash
  BY DEF Holds, Same, Input
<1>3. \A m \in k .. Len(history[c]) : m \in 1 .. Len(history[c])
  BY <1>1
<1>4. \A i \in 1 .. Len(archive) : Valid(archive[i])
  BY DEF Undamaged
<1>5. ASSUME NEW m \in k .. Len(history[c])
      PROVE  \E i \in Kept(c) : Holds(i, c, m) /\ \A j \in Kept(c) : Holds(j, c, m) => j = i
  <2>1. PICK i \in 1 .. Len(archive) :
           Holds(i, c, m) /\ \A j \in 1 .. Len(archive) : Holds(j, c, m) => j = i
    BY DEF Window
  <2>2. archive[i].chain = c
    BY <2>1, <1>2, <1>3 DEF HistoryOK
  <2>3. i \in Kept(c)
    BY <2>2, <1>4 DEF Kept
  <2> QED
    BY <2>1, <2>3 DEF Kept
<1>6. \A i \in Kept(c) : \E m \in k .. Len(history[c]) : Holds(i, c, m)
  BY DEF Window, Kept
<1> QED
  BY <1>1, <1>2, <1>5, <1>6 DEF HistoryOK

LEMMA WindowIsSound ==
  ASSUME IInv, SchemesOK, Undamaged, NEW c \in Chains, history[c] # << >>,
         NEW k \in 1 .. Len(history[c]), Window(c, k)
  PROVE  SoundChain(c)
<1> USE DEF IInv
<1> DEFINE h == history[c]
           At(i, m) == /\ Holds(i, c, m)
                       /\ archive[i].seq = h[m].seq
                       /\ archive[i].scheme = h[m].scheme
                       /\ archive[i].prev = h[m].prev
                       /\ archive[i].hash = h[m].hash
<1>1. /\ Len(h) \in Nat
      /\ \A i \in Kept(c) : \E m \in k .. Len(h) : At(i, m)
      /\ \A m \in k .. Len(h) : \E i \in Kept(c) :
           Holds(i, c, m) /\ \A j \in Kept(c) : Holds(j, c, m) => j = i
      /\ \A m, n \in 1 .. Len(h) : m < n => h[m].seq < h[n].seq
      /\ \A m \in 1 .. Len(h) : h[m].seq \in Nat
  BY WindowFacts
<1>2. k \in Nat /\ \A m \in k .. Len(h) : m \in 1 .. Len(h) /\ m \in Nat
  BY <1>1
<1>3. ASSUME NEW i \in Kept(c)
      PROVE  /\ archive[i].seq # NoSequence
             /\ archive[i].scheme \in Supported
             /\ archive[i].hash = Digest(Input(archive[i]))
  <2>1. PICK m \in k .. Len(h) : At(i, m)
    BY <1>1
  <2>2. h[m].scheme \in Supported /\ h[m].hash = Digest(Input(h[m])) /\ h[m].seq \in Nat
    BY <1>2 DEF SchemesOK, HistoryOK
  <2>3. Input(archive[i]) = Input(h[m])
    BY <2>1 DEF Holds, Same
  <2> QED
    BY <2>1, <2>2, <2>3 DEF NoSequence
<1>4. ASSUME NEW i \in Kept(c), NEW j \in Kept(c)
      PROVE  /\ archive[i].scheme = archive[j].scheme
             /\ archive[i].seq = archive[j].seq => i = j
             /\ Follows(c, i, j) => archive[j].prev = archive[i].hash
  <2>i. PICK m \in k .. Len(h) : At(i, m)
    BY <1>1
  <2>j. PICK n \in k .. Len(h) : At(j, n)
    BY <1>1
  <2>1. At(i, m) /\ At(j, n)
    BY <2>i, <2>j
  <2>2. m \in 1 .. Len(h) /\ n \in 1 .. Len(h) /\ m \in Nat /\ n \in Nat
    BY <1>2
  <2>3. m = n \/ m < n \/ n < m
    BY <2>2
  <2>4. archive[i].scheme = archive[j].scheme
    BY DEF Undamaged, Kept
  <2>5. m = n => i = j
    BY <2>1, <1>1
  <2>6. archive[i].seq = archive[j].seq => i = j
    <3>1. m < n => h[m].seq < h[n].seq
      BY <2>2, <1>1
    <3>2. n < m => h[n].seq < h[m].seq
      BY <2>2, <1>1
    <3>3. h[m].seq \in Nat /\ h[n].seq \in Nat
      BY <2>2, <1>1
    <3> QED
      BY <3>1, <3>2, <3>3, <2>1, <2>3, <2>5
  <2>7. ASSUME Follows(c, i, j) PROVE archive[j].prev = archive[i].hash
    <3>1. h[m].seq < h[n].seq
      BY <2>1, <2>7 DEF Follows
    <3>2. m < n
      <4>1. n < m => h[n].seq < h[m].seq
        BY <2>2, <1>1
      <4>2. h[m].seq \in Nat /\ h[n].seq \in Nat
        BY <2>2, <1>1
      <4> QED
        BY <4>1, <4>2, <2>3, <3>1
    <3>3. ~(m + 1 < n)
      <4> SUFFICES ASSUME m + 1 < n PROVE FALSE
        OBVIOUS
      <4>1. m + 1 \in k .. Len(h) /\ m + 1 \in 1 .. Len(h) /\ m < m + 1
        BY <2>2, <1>1, <1>2
      <4>2. h[m].seq < h[m + 1].seq /\ h[m + 1].seq < h[n].seq
        BY <4>1, <2>2, <1>1
      <4>3. PICK l \in Kept(c) : Holds(l, c, m + 1)
        BY <4>1, <1>1
      <4>4. archive[l].seq = h[m + 1].seq
        BY <4>3 DEF Holds, Same, Input
      <4>5. h[m + 1].seq <= h[m].seq \/ h[m + 1].seq >= h[n].seq
        BY <4>4, <2>1, <2>7 DEF Follows
      <4>6. h[m].seq \in Nat /\ h[m + 1].seq \in Nat /\ h[n].seq \in Nat
        BY <4>1, <2>2, <1>1
      <4> QED
        BY <4>2, <4>5, <4>6
    <3>4. n > 1 /\ n - 1 = m
      BY <3>2, <3>3, <2>2
    <3>5. h[n].prev = h[m].hash
      BY <3>4, <2>2 DEF HistoryOK
    <3> QED
      BY <3>5, <2>1
  <2> QED
    BY <2>4, <2>6, <2>7
<1> QED
  BY <1>3, <1>4 DEF SoundChain

(* Such a window that starts at or below the recorded head, at the         *)
(* beginning if the claim counts, reaches that head.                       *)
LEMMA WindowReaches ==
  ASSUME IInv, SchemesOK, Undamaged, NEW c \in DOMAIN claims, c \in Chains, history[c] # << >>,
         NEW k \in 1 .. Len(history[c]), Window(c, k),
         history[c][k].seq <= claims[c].seq, claims[c].count # 0 => k = 1
  PROVE  Kept(c) # {} /\ HeadReached(c)
<1> USE DEF IInv
<1> DEFINE h == history[c]
           At(i, m) == /\ Holds(i, c, m)
                       /\ archive[i].seq = h[m].seq
                       /\ archive[i].scheme = h[m].scheme
                       /\ archive[i].prev = h[m].prev
                       /\ archive[i].hash = h[m].hash
<1>1. /\ Len(h) \in Nat
      /\ \A i \in Kept(c) : \E m \in k .. Len(h) : At(i, m)
      /\ \A m \in k .. Len(h) : \E i \in Kept(c) :
           Holds(i, c, m) /\ \A j \in Kept(c) : Holds(j, c, m) => j = i
      /\ \A m, n \in 1 .. Len(h) : m < n => h[m].seq < h[n].seq
      /\ \A m \in 1 .. Len(h) : h[m].seq \in Nat
  BY WindowFacts
<1>2. PICK j \in 1 .. Len(h) : Records(c, j)
  BY DEF ClaimsOK
<1>3. claims[c].scheme = h[j].scheme
  <2>1. PICK n \in 1 .. Len(h) : h[n].seq = claims[c].seq /\ h[n].scheme = claims[c].scheme
    BY DEF SchemesOK
  <2>2. h[n].seq = h[j].seq
    BY <2>1, <1>2 DEF Records
  <2>3. n = j \/ n < j \/ j < n
    BY <1>1
  <2>4. /\ n < j => h[n].seq < h[j].seq
        /\ j < n => h[j].seq < h[n].seq
        /\ h[n].seq \in Nat /\ h[j].seq \in Nat
    BY <1>1
  <2> QED
    BY <2>1, <2>2, <2>3, <2>4
<1>4. k <= j /\ j \in k .. Len(h)
  <2>1. h[k].seq <= h[j].seq
    BY <1>2 DEF Records
  <2>2. j < k => h[j].seq < h[k].seq
    BY <1>1
  <2>3. h[j].seq \in Nat /\ h[k].seq \in Nat
    BY <1>1
  <2>4. ~(j < k)
    BY <2>1, <2>2, <2>3
  <2> QED
    BY <2>4, <1>1
<1>5. PICK i \in Kept(c) : Holds(i, c, j)
  BY <1>1, <1>4
<1>6. /\ archive[i].seq = claims[c].seq
      /\ archive[i].hash = claims[c].hash
      /\ archive[i].scheme = claims[c].scheme
  BY <1>2, <1>3, <1>5 DEF Holds, Same, Input, Records
<1>7. ASSUME claims[c].count # 0
      PROVE  Cardinality({l \in Kept(c) : archive[l].seq <= claims[c].seq}) = claims[c].count
  <2> DEFINE S == {l \in Kept(c) : archive[l].seq <= claims[c].seq}
             f == [m \in 1 .. j |-> CHOOSE l \in Kept(c) : Holds(l, c, m)]
  <2>1. k = 1 /\ claims[c].count = j /\ j \in Nat
    BY <1>1, <1>2, <1>7 DEF Records
  <2>2. \A m \in 1 .. j : m \in k .. Len(h) /\ m \in 1 .. Len(h) /\ h[m].seq <= h[j].seq
    <3>1. \A m \in 1 .. j : m \in k .. Len(h) /\ m \in 1 .. Len(h) /\ (m = j \/ m < j)
      BY <1>1, <2>1
    <3>2. \A m \in 1 .. j : m < j => h[m].seq < h[j].seq
      BY <1>1, <3>1
    <3>3. \A m \in 1 .. j : h[m].seq \in Nat
      BY <1>1, <3>1
    <3> QED
      BY <3>1, <3>2, <3>3, <2>1
  <2>3. \A m \in 1 .. j : f[m] \in Kept(c) /\ Holds(f[m], c, m)
    BY <1>1, <2>2
  <2> HIDE DEF f
  <2>4. \A m \in 1 .. j : archive[f[m]].seq = h[m].seq
    BY <2>3 DEF Holds, Same, Input
  <2>5. \A m \in 1 .. j : f[m] \in S
    BY <2>2, <2>3, <2>4, <1>2 DEF Records
  <2>6. \A m, n \in 1 .. j : f[m] = f[n] => m = n
    <3> SUFFICES ASSUME NEW m \in 1 .. j, NEW n \in 1 .. j, f[m] = f[n] PROVE m = n
      OBVIOUS
    <3>1. h[m].seq = h[n].seq
      BY <2>4
    <3>2. /\ m < n => h[m].seq < h[n].seq
          /\ n < m => h[n].seq < h[m].seq
          /\ h[m].seq \in Nat /\ h[n].seq \in Nat
      BY <1>1, <2>2
    <3>3. m = n \/ m < n \/ n < m
      BY <2>1
    <3> QED
      BY <3>1, <3>2, <3>3
  <2>7. \A l \in S : \E m \in 1 .. j : f[m] = l
    <3> SUFFICES ASSUME NEW l \in S PROVE \E m \in 1 .. j : f[m] = l
      OBVIOUS
    <3>1. PICK m \in k .. Len(h) : At(l, m)
      BY <1>1
    <3>2. m \in 1 .. Len(h) /\ h[m].seq <= h[j].seq
      BY <3>1, <2>1, <1>2 DEF Records
    <3>3. j < m => h[j].seq < h[m].seq
      BY <3>2, <1>1
    <3>4. h[j].seq \in Nat /\ h[m].seq \in Nat
      BY <3>2, <1>1
    <3>5. ~(j < m)
      BY <3>2, <3>3, <3>4
    <3>6. m \in 1 .. j
      BY <3>2, <3>5, <2>1
    <3>7. PICK i0 \in Kept(c) : \A l0 \in Kept(c) : Holds(l0, c, m) => l0 = i0
      BY <3>1, <1>1
    <3>8. f[m] = l
      BY <3>1, <3>6, <3>7, <2>3
    <3> QED
      BY <3>6, <3>8
  <2> HIDE DEF S
  <2>8. f \in Bijection(1 .. j, S)
    <3>1. f \in [1 .. j -> S]
      BY <2>5 DEF f
    <3> QED
      BY <3>1, <2>6, <2>7 DEF Bijection, Injection, Surjection, IsInjective
  <2>9. ExistsBijection(1 .. j, S)
    BY <2>8 DEF ExistsBijection
  <2>10. Cardinality(S) = j
    BY <2>1, <2>9, FS_CountingElements
  <2> QED
    BY <2>1, <2>10 DEF S
<1> QED
  BY <1>5, <1>6, <1>7 DEF HeadReached

(* No false alarm: an archive that holds the events of each chain exactly  *)
(* once from some point on, in any order, agrees with a genuine checkpoint *)
(* (verify-checkpoint.ts with verify-chain.ts).                            *)
THEOREM UndamagedTheorem == Spec => []UndamagedArchiveAgrees
<1>1. Init => SchemesOK /\ JudgedOK
  BY DEF Init, StoreInit, SchemesOK, JudgedOK, NoClaims
<1>2. Spec => []ExactOK
  BY InitExact, ExactKept, InvariantHolds, PTL DEF Spec
<1>3. Spec => []RunOK
  BY InitExact, RunKept, InvariantHolds, PTL DEF Spec
<1>4. Spec => []SchemesOK
  BY <1>1, SchemesKept, InvariantHolds, PTL DEF Spec
<1>5. Spec => []JudgedOK
  BY <1>1, <1>2, <1>3, JudgedKept, InvariantHolds, PTL DEF Spec
<1>6. ASSUME IInv, RunOK, SchemesOK, JudgedOK PROVE UndamagedArchiveAgrees
  <2> SUFFICES ASSUME Done, claims # NoClaims, Undamaged PROVE outcome = "agrees"
    BY DEF UndamagedArchiveAgrees
  <2>1. outcome = Abstract!Judgement /\ DOMAIN claims # {} /\ DOMAIN claims \subseteq Chains
    BY <1>6 DEF JudgedOK, RunOK, Done, IInv, ClaimsOK
  <2>2. Abstract!Strays = {}
    BY AbstractStrays DEF Undamaged
  <2>3. ASSUME NEW c \in Chains
        PROVE  /\ SoundChain(c)
               /\ c \in DOMAIN claims => Kept(c) # {} /\ HeadReached(c)
    <3>1. CASE history[c] = << >>
      <4>1. Kept(c) = {}
        BY <3>1 DEF Undamaged, Kept
      <4>2. c \notin DOMAIN claims
        BY <1>6, <3>1 DEF IInv, ClaimsOK
      <4> QED
        BY <4>1, <4>2, EmptyChain
    <3>2. CASE history[c] # << >> /\ c \in DOMAIN claims
      <4>1. PICK j \in 1 .. Len(history[c]) : Records(c, j)
        BY <1>6, <3>2 DEF IInv, ClaimsOK
      <4>2. /\ Len(history[c]) \in Nat
            /\ \A m, n \in 1 .. Len(history[c]) :
                 m < n => history[c][m].seq < history[c][n].seq
            /\ \A m \in 1 .. Len(history[c]) : history[c][m].seq \in Nat
        BY <1>6, SeqFacts DEF IInv, HistoryOK
      <4>3. 1 \in 1 .. Len(history[c]) /\ history[c][1].seq <= claims[c].seq
        <5>1. 1 \in 1 .. Len(history[c]) /\ (j = 1 \/ 1 < j)
          BY <4>2
        <5>2. 1 < j => history[c][1].seq < history[c][j].seq
          BY <4>2, <5>1
        <5>3. history[c][1].seq \in Nat /\ history[c][j].seq \in Nat
          BY <4>2, <5>1
        <5>4. history[c][1].seq <= history[c][j].seq
          BY <5>1, <5>2, <5>3
        <5> QED
          BY <5>1, <5>4, <4>1 DEF Records
      <4>4. PICK k \in 1 .. Len(history[c]) :
               /\ Window(c, k)
               /\ history[c][k].seq <= claims[c].seq
               /\ claims[c].count # 0 => k = 1
        <5>1. CASE claims[c].count = 0
          BY <5>1, <3>2 DEF Undamaged
        <5>2. CASE claims[c].count # 0
          BY <5>2, <3>2, <4>3 DEF Undamaged
        <5> QED
          BY <5>1, <5>2
      <4> QED
        BY <1>6, <3>2, <4>4, WindowIsSound, WindowReaches
    <3>3. CASE history[c] # << >> /\ c \notin DOMAIN claims
      <4>1. Window(c, 1)
        BY <3>3 DEF Undamaged
      <4>2. 1 \in 1 .. Len(history[c])
        <5>1. IsSeq(history[c]) /\ Len(history[c]) \in Nat
          BY <1>6, SeqFacts DEF IInv, HistoryOK
        <5> QED
          BY <5>1, <3>3 DEF IsSeq
      <4> QED
        BY <1>6, <3>3, <4>1, <4>2, WindowIsSound
    <3> QED
      BY <3>1, <3>2, <3>3
  <2>4. archive # << >>
    <3>1. PICK c \in DOMAIN claims : Kept(c) # {}
      BY <2>1, <2>3
    <3> QED
      BY <3>1 DEF Kept
  <2>5. /\ \A c \in Chains : Abstract!Consistent(c)
        /\ \A c \in DOMAIN claims : Abstract!Reaches(c, claims[c]) /\ Abstract!Members(c) # {}
    BY <2>1, <2>3, AbstractConsistent, AbstractReaches, AbstractMembers
  <2> QED
    BY <2>1, <2>2, <2>4, <2>5 DEF Abstract!Judgement
<1> QED
  BY <1>2, <1>3, <1>4, <1>5, <1>6, InvariantHolds, PTL
=============================================================================
