------------------------- MODULE MerkleProofProofs -------------------------
(***************************************************************************)
(* What a verified inclusion proof shows, and that every leaf has one,     *)
(* proved for trees of any size and any number of changes on the way.      *)
(*                                                                         *)
(* Two inductions carry it.  Along a presented path: wherever it comes to  *)
(* a hash of the tree, it came there from a leaf below that hash, by the   *)
(* sides that lead from the leaf, because leaves and nodes are told apart  *)
(* by their prefixes.  Over the slices of the tree: no two indices have    *)
(* the same sides, so the sides the verifier asks for fix the index; and   *)
(* the path that is cut comes to the hash of its slice.                    *)
(*                                                                         *)
(* Around them is what the verification of one event and of one declared   *)
(* signature guarantees for every event, document and key.                 *)
(***************************************************************************)
EXTENDS MerkleProof, CommonLemmas

(***************************************************************************)
(* The recursive functions satisfy their equations: a function that does   *)
(* so up to some argument can be extended by one, and the one up to the    *)
(* last argument is the one that was chosen.                               *)
(***************************************************************************)
LEMMA SplitDef ==
  ASSUME NEW n \in Nat, n > 1
  PROVE  \E f : /\ splitPoint(n) = f[1]
                /\ \A k \in 1 .. n : f[k] = IF 2 * k < n THEN f[2 * k] ELSE k
<1> DEFINE F == CHOOSE f : f = [k \in 1 .. n |-> IF 2 * k < n THEN f[2 * k] ELSE k]
           Sat(g, m) == \A k \in 1 .. n : n - k < m => g[k] = IF 2 * k < n THEN g[2 * k] ELSE k
           S == {m \in 0 .. n : \E g : Sat(g, m)}
<1>1. splitPoint(n) = F[1]
  BY DEF splitPoint
<1>2. 0 .. n \subseteq S
  <2>1. 0 \in S
    OBVIOUS
  <2>2. ASSUME NEW m \in 0 .. n - 1, m \in S PROVE m + 1 \in S
    <3>1. PICK g : Sat(g, m)
      BY <2>2
    <3> DEFINE h == [k \in 1 .. n |-> IF n - k < m THEN g[k] ELSE IF 2 * k < n THEN g[2 * k] ELSE k]
    <3>2. Sat(h, m + 1)
      BY <3>1
    <3> HIDE DEF h
    <3>3. m + 1 \in 0 .. n /\ Sat(h, m + 1)
      BY <3>2
    <3> QED
      BY <3>3
  <2> HIDE DEF S
  <2> QED
    BY <2>1, <2>2, StepInduction
<1>3. PICK g : Sat(g, n)
  BY <1>2
<1> DEFINE h == [k \in 1 .. n |-> g[k]]
<1>4. h = [k \in 1 .. n |-> IF 2 * k < n THEN h[2 * k] ELSE k]
  BY <1>3
<1> HIDE DEF h
<1>5. F = [k \in 1 .. n |-> IF 2 * k < n THEN F[2 * k] ELSE k]
  BY <1>4
<1> HIDE DEF F
<1> QED
  BY <1>1, <1>5

LEMMA SplitRange == \A n \in Nat : n > 1 => splitPoint(n) \in 1 .. n - 1
<1> SUFFICES ASSUME NEW n \in Nat, n > 1 PROVE splitPoint(n) \in 1 .. n - 1
  OBVIOUS
<1>1. PICK f : /\ splitPoint(n) = f[1]
               /\ \A k \in 1 .. n : f[k] = IF 2 * k < n THEN f[2 * k] ELSE k
  BY SplitDef
<1> DEFINE S == {m \in 1 .. n - 1 : f[n - m] \in 1 .. n - 1}
<1>2. ASSUME NEW m \in 1 .. n - 1, 1 .. m - 1 \subseteq S PROVE m \in S
  <2> DEFINE k == n - m
  <2>1. k \in 1 .. n /\ f[k] = IF 2 * k < n THEN f[2 * k] ELSE k
    BY <1>1
  <2>2. CASE 2 * k < n
    <3>1. n - 2 * k \in 1 .. m - 1 /\ n - (n - 2 * k) = 2 * k
      BY <2>2
    <3>2. f[2 * k] \in 1 .. n - 1
      BY <3>1, <1>2
    <3> QED
      BY <2>1, <2>2, <3>2
  <2>3. CASE ~(2 * k < n)
    BY <2>1, <2>3
  <2> QED
    BY <2>2, <2>3
<1>3. 1 .. n - 1 \subseteq S
  <2> HIDE DEF S
  <2> QED
    BY <1>2, CompleteInduction
<1>4. n - 1 \in S /\ n - (n - 1) = 1
  BY <1>3
<1> QED
  BY <1>1, <1>4

IsTree(T, hashes) ==
  \A n \in 1 .. Len(hashes) :
    T[n] = [a \in 1 .. Len(hashes) - n + 1 |->
              IF n = 1 THEN hashes[a]
              ELSE nodeHash(T[splitPoint(n)][a], T[n - splitPoint(n)][a + splitPoint(n)])]

LEMMA TreeDef ==
  ASSUME NEW hashes, Len(hashes) \in Nat
  PROVE  IsTree(treeHash(hashes), hashes)
<1> DEFINE N == Len(hashes)
           Body(g, n) == [a \in 1 .. N - n + 1 |->
                           IF n = 1 THEN hashes[a]
                           ELSE nodeHash(g[splitPoint(n)][a], g[n - splitPoint(n)][a + splitPoint(n)])]
           F == CHOOSE g : g = [n \in 1 .. N |-> Body(g, n)]
           Sat(g, m) == \A n \in 1 .. m : g[n] = Body(g, n)
           S == {m \in 0 .. N : \E g : Sat(g, m)}
<1>1. treeHash(hashes) = F
  BY DEF treeHash
<1>2. ASSUME NEW g, NEW h, NEW n \in 1 .. N, \A m \in 1 .. n - 1 : g[m] = h[m]
      PROVE  Body(g, n) = Body(h, n)
  <2>1. CASE n = 1
    BY <2>1
  <2>2. CASE n # 1
    <3>1. splitPoint(n) \in 1 .. n - 1 /\ n - splitPoint(n) \in 1 .. n - 1
      BY <2>2, SplitRange
    <3>2. g[splitPoint(n)] = h[splitPoint(n)] /\ g[n - splitPoint(n)] = h[n - splitPoint(n)]
      BY <3>1, <1>2
    <3> QED
      BY <3>2
  <2> QED
    BY <2>1, <2>2
<1>3. IsTree(F, hashes) <=> Sat(F, N)
  BY DEF IsTree
<1> HIDE DEF Body
<1>4. 0 .. N \subseteq S
  <2>1. 0 \in S
    OBVIOUS
  <2>2. ASSUME NEW m \in 0 .. N - 1, m \in S PROVE m + 1 \in S
    <3>1. PICK g : Sat(g, m)
      BY <2>2
    <3> DEFINE h == [n \in 1 .. N |-> IF n <= m THEN g[n] ELSE Body(g, n)]
    <3>2. ASSUME NEW n \in 1 .. m + 1 PROVE h[n] = Body(h, n)
      <4>1. \A i \in 1 .. n - 1 : g[i] = h[i]
        OBVIOUS
      <4>2. h[n] = Body(g, n)
        BY <3>1
      <4> QED
        BY <4>1, <4>2, <1>2
    <3> HIDE DEF h
    <3>3. m + 1 \in 0 .. N /\ Sat(h, m + 1)
      BY <3>2
    <3> QED
      BY <3>3
  <2> HIDE DEF S
  <2> QED
    BY <2>1, <2>2, StepInduction
<1>5. PICK g : Sat(g, N)
  BY <1>4
<1> DEFINE h == [n \in 1 .. N |-> g[n]]
<1>6. h = [n \in 1 .. N |-> Body(h, n)]
  <2>1. ASSUME NEW n \in 1 .. N PROVE h[n] = Body(h, n)
    BY <1>5, <1>2
  <2> HIDE DEF h
  <2>2. h = [n \in 1 .. N |-> h[n]]
    BY DEF h
  <2> QED
    BY <2>1, <2>2
<1> HIDE DEF h
<1>7. F = [n \in 1 .. N |-> Body(F, n)]
  BY <1>6
<1> HIDE DEF F
<1>8. Sat(F, N)
  BY <1>7
<1> QED
  BY <1>1, <1>3, <1>8
IsSides(S, N) ==
  \A n \in 1 .. N :
    S[n] = [i \in 0 .. n - 1 |->
              IF n = 1 THEN << >>
              ELSE IF i < splitPoint(n) THEN Append(S[splitPoint(n)][i], "right")
              ELSE Append(S[n - splitPoint(n)][i - splitPoint(n)], "left")]

LEMMA SidesDef ==
  ASSUME NEW leafCount \in Nat
  PROVE  \E F : IsSides(F, leafCount) /\ \A i : expectedSides(i, leafCount) = F[leafCount][i]
<1> DEFINE N == leafCount
           Body(g, n) == [i \in 0 .. n - 1 |->
              IF n = 1 THEN << >>
              ELSE IF i < splitPoint(n) THEN Append(g[splitPoint(n)][i], "right")
              ELSE Append(g[n - splitPoint(n)][i - splitPoint(n)], "left")]
           F == CHOOSE g : g = [n \in 1 .. N |-> Body(g, n)]
           Sat(g, m) == \A n \in 1 .. m : g[n] = Body(g, n)
           S == {m \in 0 .. N : \E g : Sat(g, m)}
<1>1. \A i : expectedSides(i, leafCount) = F[leafCount][i]
  BY DEF expectedSides
<1>2. ASSUME NEW g, NEW h, NEW n \in 1 .. N, \A m \in 1 .. n - 1 : g[m] = h[m]
      PROVE  Body(g, n) = Body(h, n)
  <2>1. CASE n = 1
    BY <2>1
  <2>2. CASE n # 1
    <3>1. splitPoint(n) \in 1 .. n - 1 /\ n - splitPoint(n) \in 1 .. n - 1
      BY <2>2, SplitRange
    <3>2. g[splitPoint(n)] = h[splitPoint(n)] /\ g[n - splitPoint(n)] = h[n - splitPoint(n)]
      BY <3>1, <1>2
    <3> QED
      BY <3>2
  <2> QED
    BY <2>1, <2>2
<1>3. IsSides(F, N) <=> Sat(F, N)
  BY DEF IsSides
<1> HIDE DEF Body
<1>4. 0 .. N \subseteq S
  <2>1. 0 \in S
    OBVIOUS
  <2>2. ASSUME NEW m \in 0 .. N - 1, m \in S PROVE m + 1 \in S
    <3>1. PICK g : Sat(g, m)
      BY <2>2
    <3> DEFINE h == [n \in 1 .. N |-> IF n <= m THEN g[n] ELSE Body(g, n)]
    <3>2. ASSUME NEW n \in 1 .. m + 1 PROVE h[n] = Body(h, n)
      <4>1. \A i \in 1 .. n - 1 : g[i] = h[i]
        OBVIOUS
      <4>2. h[n] = Body(g, n)
        BY <3>1
      <4> QED
        BY <4>1, <4>2, <1>2
    <3> HIDE DEF h
    <3>3. m + 1 \in 0 .. N /\ Sat(h, m + 1)
      BY <3>2
    <3> QED
      BY <3>3
  <2> HIDE DEF S
  <2> QED
    BY <2>1, <2>2, StepInduction
<1>5. PICK g : Sat(g, N)
  BY <1>4
<1> DEFINE h == [n \in 1 .. N |-> g[n]]
<1>6. h = [n \in 1 .. N |-> Body(h, n)]
  <2>1. ASSUME NEW n \in 1 .. N PROVE h[n] = Body(h, n)
    BY <1>5, <1>2
  <2> HIDE DEF h
  <2>2. h = [n \in 1 .. N |-> h[n]]
    BY DEF h
  <2> QED
    BY <2>1, <2>2
<1> HIDE DEF h
<1>7. F = [n \in 1 .. N |-> Body(F, n)]
  BY <1>6
<1> HIDE DEF F
<1>8. Sat(F, N)
  BY <1>7
<1> QED
  BY <1>1, <1>3, <1>8

IsPaths(P, hashes) ==
  \A n \in 1 .. Len(hashes) :
    P[n] = [a \in 1 .. Len(hashes) - n + 1 |-> [index \in 0 .. n - 1 |->
              IF n = 1 THEN << >>
              ELSE IF index < splitPoint(n)
              THEN Append(P[splitPoint(n)][a][index],
                          Step("right", treeHash(hashes)[n - splitPoint(n)][a + splitPoint(n)]))
              ELSE Append(P[n - splitPoint(n)][a + splitPoint(n)][index - splitPoint(n)],
                          Step("left", treeHash(hashes)[splitPoint(n)][a]))]]

LEMMA PathDef ==
  ASSUME NEW hashes, Len(hashes) \in Nat
  PROVE  IsPaths(pathOver(hashes), hashes)
<1> DEFINE N == Len(hashes)
           Body(g, n) == [a \in 1 .. N - n + 1 |-> [index \in 0 .. n - 1 |->
              IF n = 1 THEN << >>
              ELSE IF index < splitPoint(n)
              THEN Append(g[splitPoint(n)][a][index],
                          Step("right", treeHash(hashes)[n - splitPoint(n)][a + splitPoint(n)]))
              ELSE Append(g[n - splitPoint(n)][a + splitPoint(n)][index - splitPoint(n)],
                          Step("left", treeHash(hashes)[splitPoint(n)][a]))]]
           F == CHOOSE g : g = [n \in 1 .. N |-> Body(g, n)]
           Sat(g, m) == \A n \in 1 .. m : g[n] = Body(g, n)
           S == {m \in 0 .. N : \E g : Sat(g, m)}
<1>1. pathOver(hashes) = F
  BY DEF pathOver
<1>2. ASSUME NEW g, NEW h, NEW n \in 1 .. N, \A m \in 1 .. n - 1 : g[m] = h[m]
      PROVE  Body(g, n) = Body(h, n)
  <2>1. CASE n = 1
    BY <2>1
  <2>2. CASE n # 1
    <3>1. splitPoint(n) \in 1 .. n - 1 /\ n - splitPoint(n) \in 1 .. n - 1
      BY <2>2, SplitRange
    <3>2. g[splitPoint(n)] = h[splitPoint(n)] /\ g[n - splitPoint(n)] = h[n - splitPoint(n)]
      BY <3>1, <1>2
    <3> QED
      BY <3>2
  <2> QED
    BY <2>1, <2>2
<1>3. IsPaths(F, hashes) <=> Sat(F, N)
  BY DEF IsPaths
<1> HIDE DEF Body
<1>4. 0 .. N \subseteq S
  <2>1. 0 \in S
    OBVIOUS
  <2>2. ASSUME NEW m \in 0 .. N - 1, m \in S PROVE m + 1 \in S
    <3>1. PICK g : Sat(g, m)
      BY <2>2
    <3> DEFINE h == [n \in 1 .. N |-> IF n <= m THEN g[n] ELSE Body(g, n)]
    <3>2. ASSUME NEW n \in 1 .. m + 1 PROVE h[n] = Body(h, n)
      <4>1. \A i \in 1 .. n - 1 : g[i] = h[i]
        OBVIOUS
      <4>2. h[n] = Body(g, n)
        BY <3>1
      <4> QED
        BY <4>1, <4>2, <1>2
    <3> HIDE DEF h
    <3>3. m + 1 \in 0 .. N /\ Sat(h, m + 1)
      BY <3>2
    <3> QED
      BY <3>3
  <2> HIDE DEF S
  <2> QED
    BY <2>1, <2>2, StepInduction
<1>5. PICK g : Sat(g, N)
  BY <1>4
<1> DEFINE h == [n \in 1 .. N |-> g[n]]
<1>6. h = [n \in 1 .. N |-> Body(h, n)]
  <2>1. ASSUME NEW n \in 1 .. N PROVE h[n] = Body(h, n)
    BY <1>5, <1>2
  <2> HIDE DEF h
  <2>2. h = [n \in 1 .. N |-> h[n]]
    BY DEF h
  <2> QED
    BY <2>1, <2>2
<1> HIDE DEF h
<1>7. F = [n \in 1 .. N |-> Body(F, n)]
  BY <1>6
<1> HIDE DEF F
<1>8. Sat(F, N)
  BY <1>7
<1> QED
  BY <1>1, <1>3, <1>8

IsRoots(R, digest, path) ==
  /\ R[0] = leafHash(digest)
  /\ \A n \in 1 .. Len(path) :
       R[n] = IF path[n].side = "left" THEN nodeHash(path[n].hash, R[n - 1])
              ELSE nodeHash(R[n - 1], path[n].hash)

LEMMA RootDef ==
  ASSUME NEW digest, NEW path, Len(path) \in Nat
  PROVE  \E R : IsRoots(R, digest, path) /\ rootFromPath(digest, path) = R[Len(path)]
<1> DEFINE N == Len(path)
           Body(g, n) == IF n = 0 THEN leafHash(digest)
                         ELSE IF path[n].side = "left" THEN nodeHash(path[n].hash, g[n - 1])
                         ELSE nodeHash(g[n - 1], path[n].hash)
           F == CHOOSE g : g = [n \in 0 .. N |-> Body(g, n)]
           Sat(g, m) == \A n \in 0 .. m : g[n] = Body(g, n)
           S == {m \in 0 .. N : \E g : Sat(g, m)}
<1>1. rootFromPath(digest, path) = F[N]
  BY DEF rootFromPath
<1>2. ASSUME NEW g, NEW h, NEW n \in 0 .. N, n # 0 => g[n - 1] = h[n - 1]
      PROVE  Body(g, n) = Body(h, n)
  BY <1>2
<1>3. ASSUME Sat(F, N) PROVE IsRoots(F, digest, path)
  <2> HIDE DEF F
  <2>1. 0 \in 0 .. N /\ \A n \in 1 .. N : n \in 0 .. N /\ n # 0
    OBVIOUS
  <2>2. F[0] = Body(F, 0) /\ \A n \in 1 .. N : F[n] = Body(F, n)
    BY <1>3, <2>1
  <2> QED
    BY <2>1, <2>2 DEF IsRoots
<1> HIDE DEF Body
<1>4. 0 .. N \subseteq S
  <2>1. 0 \in S
    <3> DEFINE h == [n \in 0 .. N |-> Body(<< >>, n)]
    <3>1. Sat(h, 0)
      BY <1>2
    <3> HIDE DEF h
    <3> QED
      BY <3>1
  <2>2. ASSUME NEW m \in 0 .. N - 1, m \in S PROVE m + 1 \in S
    <3>1. PICK g : Sat(g, m)
      BY <2>2
    <3> DEFINE h == [n \in 0 .. N |-> IF n <= m THEN g[n] ELSE Body(g, n)]
    <3>2. ASSUME NEW n \in 0 .. m + 1 PROVE h[n] = Body(h, n)
      <4>1. n # 0 => g[n - 1] = h[n - 1]
        OBVIOUS
      <4>2. h[n] = Body(g, n)
        BY <3>1
      <4> QED
        BY <4>1, <4>2, <1>2
    <3> HIDE DEF h
    <3>3. m + 1 \in 0 .. N /\ Sat(h, m + 1)
      BY <3>2
    <3> QED
      BY <3>3
  <2> HIDE DEF S
  <2> QED
    BY <2>1, <2>2, StepInduction
<1>5. PICK g : Sat(g, N)
  BY <1>4
<1> DEFINE h == [n \in 0 .. N |-> g[n]]
<1>6. h = [n \in 0 .. N |-> Body(h, n)]
  <2>1. ASSUME NEW n \in 0 .. N PROVE h[n] = Body(h, n)
    BY <1>5, <1>2
  <2> HIDE DEF h
  <2>2. h = [n \in 0 .. N |-> h[n]]
    BY DEF h
  <2> QED
    BY <2>1, <2>2
<1> HIDE DEF h
<1>7. F = [n \in 0 .. N |-> Body(F, n)]
  BY <1>6
<1> HIDE DEF F
<1>8. Sat(F, N)
  BY <1>7
<1> QED
  BY <1>1, <1>3, <1>8

(* One more step of a path is one more node above what it came to.         *)
LEMMA RootAppend ==
  ASSUME NEW digest, NEW path, IsSeq(path), NEW step
  PROVE  rootFromPath(digest, Append(path, step)) =
           IF step.side = "left" THEN nodeHash(step.hash, rootFromPath(digest, path))
           ELSE nodeHash(rootFromPath(digest, path), step.hash)
<1> DEFINE longer == Append(path, step)
           N == Len(path)
<1>1. /\ N \in Nat /\ Len(longer) = N + 1
      /\ longer[N + 1] = step
      /\ \A n \in 1 .. N : longer[n] = path[n]
  BY SeqFacts, AppendFacts
<1> HIDE DEF longer
<1>2. PICK R : IsRoots(R, digest, path) /\ rootFromPath(digest, path) = R[N]
  BY <1>1, RootDef
<1>3. N + 1 \in Nat
  BY <1>1
<1>4. PICK Q : IsRoots(Q, digest, longer) /\ rootFromPath(digest, longer) = Q[N + 1]
  BY <1>1, <1>3, RootDef
<1> DEFINE S == {n \in 0 .. N : Q[n] = R[n]}
<1>5. 0 .. N \subseteq S
  <2>1. 0 \in S
    BY <1>1, <1>2, <1>4 DEF IsRoots
  <2>2. ASSUME NEW n \in 0 .. N - 1, n \in S PROVE n + 1 \in S
    <3>1. n + 1 \in 1 .. N /\ n + 1 \in 1 .. Len(longer) /\ (n + 1) - 1 = n
      BY <1>1
    <3>2. R[n + 1] = IF path[n + 1].side = "left" THEN nodeHash(path[n + 1].hash, R[n])
                     ELSE nodeHash(R[n], path[n + 1].hash)
      BY <1>2, <3>1 DEF IsRoots
    <3>3. Q[n + 1] = IF path[n + 1].side = "left" THEN nodeHash(path[n + 1].hash, Q[n])
                     ELSE nodeHash(Q[n], path[n + 1].hash)
      BY <1>1, <1>4, <3>1 DEF IsRoots
    <3> QED
      BY <1>1, <2>2, <3>1, <3>2, <3>3
  <2> HIDE DEF S
  <2> QED
    BY <1>1, <2>1, <2>2, StepInduction
<1>6. Q[N] = R[N]
  BY <1>1, <1>5
<1>7. N + 1 \in 1 .. Len(longer) /\ (N + 1) - 1 = N
  BY <1>1
<1>8. Q[N + 1] = IF longer[N + 1].side = "left" THEN nodeHash(longer[N + 1].hash, Q[N])
                 ELSE nodeHash(Q[N], longer[N + 1].hash)
  BY <1>4, <1>7 DEF IsRoots
<1> QED
  BY <1>1, <1>2, <1>4, <1>6, <1>8 DEF longer

LEMMA RootOfNone ==
  ASSUME NEW digest
  PROVE  rootFromPath(digest, << >>) = leafHash(digest)
<1>1. Len(<< >>) = 0
  OBVIOUS
<1> QED
  BY <1>1, RootDef DEF IsRoots

-----------------------------------------------------------------------------
(* What the verifier expects: sides, and of two indices never the same.    *)
LEMMA SidesAreSides ==
  ASSUME NEW N \in Nat, NEW S, IsSides(S, N)
  PROVE  \A n \in 1 .. N : \A i \in 0 .. n - 1 : S[n][i] \in Seq({"left", "right"})
<1> DEFINE D == {n \in 1 .. N : \A i \in 0 .. n - 1 : S[n][i] \in Seq({"left", "right"})}
<1>1. ASSUME NEW n \in 1 .. N, 1 .. n - 1 \subseteq D PROVE n \in D
  <2> SUFFICES ASSUME NEW i \in 0 .. n - 1 PROVE S[n][i] \in Seq({"left", "right"})
    OBVIOUS
  <2>1. CASE n = 1
    <3>1. S[n][i] = << >>
      BY <2>1 DEF IsSides
    <3>2. << >> \in Seq({"left", "right"})
      OBVIOUS
    <3> QED
      BY <3>1, <3>2
  <2>2. CASE n # 1
    <3> DEFINE k == splitPoint(n)
    <3>1. k \in 1 .. n - 1 /\ n - k \in 1 .. n - 1
      BY <2>2, SplitRange
    <3>2. S[n][i] = IF i < k THEN Append(S[k][i], "right") ELSE Append(S[n - k][i - k], "left")
      BY <2>2 DEF IsSides
    <3> HIDE DEF k
    <3>3. k \in D /\ n - k \in D
      BY <1>1, <3>1
    <3>4. CASE i < k
      <4>1. S[k][i] \in Seq({"left", "right"})
        BY <3>1, <3>3, <3>4
      <4> QED
        BY <3>2, <3>4, <4>1
    <3>5. CASE ~(i < k)
      <4>1. i - k \in 0 .. (n - k) - 1
        BY <3>1, <3>5
      <4>2. S[n - k][i - k] \in Seq({"left", "right"})
        BY <3>3, <4>1
      <4> QED
        BY <3>2, <3>5, <4>2
    <3> QED
      BY <3>4, <3>5
  <2> QED
    BY <2>1, <2>2
<1>2. 1 .. N \subseteq D
  <2> HIDE DEF D
  <2> QED
    BY <1>1, CompleteInduction
<1> QED
  BY <1>2

LEMMA AppendInjective ==
  ASSUME NEW T, NEW s \in Seq(T), NEW t \in Seq(T), NEW x \in T, NEW y \in T,
         Append(s, x) = Append(t, y)
  PROVE  s = t /\ x = y
<1>1. Len(s) + 1 = Len(t) + 1
  BY Len(Append(s, x)) = Len(s) + 1, Len(Append(t, y)) = Len(t) + 1
<1>2. Len(s) \in Nat /\ Len(t) \in Nat
  OBVIOUS
<1>3. Len(s) = Len(t)
  BY <1>1, <1>2
<1>4. x = y
  BY <1>3, Append(s, x)[Len(s) + 1] = x, Append(t, y)[Len(t) + 1] = y
<1>5. \A i \in 1 .. Len(s) : s[i] = t[i]
  <2>1. ASSUME NEW i \in 1 .. Len(s) PROVE s[i] = t[i]
    BY <1>3, Append(s, x)[i] = s[i], Append(t, y)[i] = t[i]
  <2> QED
    BY <2>1
<1> QED
  BY <1>3, <1>4, <1>5

LEMMA SidesTellApart ==
  ASSUME NEW N \in Nat, NEW S, IsSides(S, N)
  PROVE  \A n \in 1 .. N : \A i, j \in 0 .. n - 1 : S[n][i] = S[n][j] => i = j
<1> DEFINE LR == {"left", "right"}
           D == {n \in 1 .. N : \A i, j \in 0 .. n - 1 : S[n][i] = S[n][j] => i = j}
<1>1. ASSUME NEW n \in 1 .. N, 1 .. n - 1 \subseteq D PROVE n \in D
  <2> SUFFICES ASSUME NEW i \in 0 .. n - 1, NEW j \in 0 .. n - 1, S[n][i] = S[n][j]
               PROVE  i = j
    OBVIOUS
  <2>1. CASE n = 1
    BY <2>1
  <2>2. CASE n # 1
    <3> DEFINE k == splitPoint(n)
               below(m) == IF m < k THEN S[k][m] ELSE S[n - k][m - k]
               last(m) == IF m < k THEN "right" ELSE "left"
    <3>1. k \in 1 .. n - 1 /\ n - k \in 1 .. n - 1
      BY <2>2, SplitRange
    <3>2. \A m \in 0 .. n - 1 : S[n][m] = Append(below(m), last(m))
      BY <2>2 DEF IsSides
    <3> HIDE DEF k
    <3>3. k \in D /\ n - k \in D
      BY <1>1, <3>1
    <3>4. \A m \in 0 .. n - 1 : ~(m < k) => m - k \in 0 .. (n - k) - 1
      BY <3>1
    <3>5. \A m \in 0 .. n - 1 : below(m) \in Seq(LR)
      BY <3>1, <3>4, SidesAreSides
    <3>6. \A m \in 0 .. n - 1 : last(m) \in LR
      OBVIOUS
    <3>7. below(i) = below(j) /\ last(i) = last(j)
      <4>1. Append(below(i), last(i)) = Append(below(j), last(j))
        BY <3>2
      <4>2. below(i) \in Seq(LR) /\ below(j) \in Seq(LR) /\ last(i) \in LR /\ last(j) \in LR
        BY <3>5, <3>6
      <4> HIDE DEF below, last
      <4> QED
        BY <4>1, <4>2, AppendInjective
    <3>8. CASE i < k /\ j < k
      BY <3>1, <3>3, <3>7, <3>8
    <3>9. CASE ~(i < k) /\ ~(j < k)
      <4>1. i - k = j - k
        BY <3>3, <3>4, <3>7, <3>9
      <4> QED
        BY <4>1, <3>1
    <3> QED
      BY <3>7, <3>8, <3>9
  <2> QED
    BY <2>1, <2>2
<1>2. 1 .. N \subseteq D
  <2> HIDE DEF D
  <2> QED
    BY <1>1, CompleteInduction
<1> QED
  BY <1>2

-----------------------------------------------------------------------------
(* Leaves and nodes are told apart by their prefix (RFC 6962), and neither *)
(* is what is too short for a digest.                                      *)
LEMMA HashPrefixes ==
  /\ \A d, e : leafHash(d) = leafHash(e) => d = e
  /\ \A l, r, m, s : nodeHash(l, r) = nodeHash(m, s) => l = m /\ r = s
  /\ \A d, l, r : leafHash(d) # nodeHash(l, r)
  /\ \A d : IsDigest(leafHash(d))
  /\ \A l, r : IsDigest(nodeHash(l, r))
<1>1. ASSUME NEW d, NEW e, leafHash(d) = leafHash(e) PROVE d = e
  BY <1>1, <<"leaf", d>>[2] = d, <<"leaf", e>>[2] = e DEF leafHash
<1>2. ASSUME NEW l, NEW r, NEW m, NEW s, nodeHash(l, r) = nodeHash(m, s) PROVE l = m /\ r = s
  BY <1>2, <<"node", l, r>>[2] = l, <<"node", l, r>>[3] = r,
     <<"node", m, s>>[2] = m, <<"node", m, s>>[3] = s DEF nodeHash
<1>3. ASSUME NEW d, NEW l, NEW r PROVE leafHash(d) # nodeHash(l, r)
  BY <<"leaf", d>>[1] = "leaf", <<"node", l, r>>[1] = "node" DEF leafHash, nodeHash
<1>4. ASSUME NEW d PROVE IsDigest(leafHash(d))
  BY <<"leaf", d>>[1] = "leaf", <<"short">>[1] = "short" DEF leafHash, IsDigest, Short
<1>5. ASSUME NEW l, NEW r PROVE IsDigest(nodeHash(l, r))
  BY <<"node", l, r>>[1] = "node", <<"short">>[1] = "short" DEF nodeHash, IsDigest, Short
<1> QED
  BY <1>1, <1>2, <1>3, <1>4, <1>5

LEMMA LeafHashesSeq ==
  ASSUME NEW digests, IsSeq(digests)
  PROVE  /\ IsSeq(LeafHashes(digests))
         /\ Len(LeafHashes(digests)) = Len(digests)
         /\ \A a \in 1 .. Len(digests) : LeafHashes(digests)[a] = leafHash(digests[a])
<1>1. Len(digests) \in Nat /\ DOMAIN digests = 1 .. Len(digests)
  BY SeqFacts
<1>2. LeafHashes(digests) = [a \in 1 .. Len(digests) |-> leafHash(digests[a])]
  BY <1>1 DEF LeafHashes
<1>3. LeafHashes(digests) = [a \in 1 .. Len(digests) |-> LeafHashes(digests)[a]]
  BY <1>2
<1> QED
  BY <1>1, <1>2, <1>3, FunctionIsSeq

(* The tree, slice by slice.                                               *)
LEMMA TreeOver ==
  ASSUME NEW digests, IsSeq(digests),
         NEW n \in 1 .. Len(digests), NEW a \in 1 .. Len(digests) - n + 1
  PROVE  LET T == treeHash(LeafHashes(digests))
             k == splitPoint(n)
         IN  /\ n = 1 => T[n][a] = leafHash(digests[a])
             /\ n # 1 => /\ k \in 1 .. n - 1 /\ k \in 1 .. Len(digests)
                         /\ n - k \in 1 .. n - 1 /\ n - k \in 1 .. Len(digests)
                         /\ a \in 1 .. Len(digests) - k + 1
                         /\ a + k \in 1 .. Len(digests) - (n - k) + 1
                         /\ T[n][a] = nodeHash(T[k][a], T[n - k][a + k])
<1> DEFINE T == treeHash(LeafHashes(digests))
           k == splitPoint(n)
           hashes == LeafHashes(digests)
<1>1. Len(digests) \in Nat
  BY SeqFacts
<1>2. Len(hashes) = Len(digests) /\ \A i \in 1 .. Len(digests) : hashes[i] = leafHash(digests[i])
  BY LeafHashesSeq
<1>3. T[n] = [i \in 1 .. Len(digests) - n + 1 |->
                IF n = 1 THEN hashes[i] ELSE nodeHash(T[k][i], T[n - k][i + k])]
  BY <1>1, <1>2, TreeDef DEF IsTree
<1> HIDE DEF T, hashes
<1>4. CASE n = 1
  BY <1>1, <1>2, <1>3, <1>4 DEF T
<1>5. CASE n # 1
  <2>1. k \in 1 .. n - 1
    BY <1>1, <1>5, SplitRange
  <2> HIDE DEF k
  <2>2. /\ k \in 1 .. Len(digests)
        /\ n - k \in 1 .. n - 1 /\ n - k \in 1 .. Len(digests)
        /\ a \in 1 .. Len(digests) - k + 1
        /\ a + k \in 1 .. Len(digests) - (n - k) + 1
    BY <1>1, <2>1
  <2>3. T[n][a] = nodeHash(T[k][a], T[n - k][a + k])
    BY <1>3, <1>5
  <2> QED
    BY <1>5, <2>1, <2>2, <2>3 DEF T, k
<1> QED
  BY <1>4, <1>5

SideOf(step) == IF step.side = "left" THEN "left" ELSE "right"

ComesFromLeaf(digests, digest, path, S, n, a) ==
  \E i \in 0 .. n - 1 :
    /\ digest = digests[a + i]
    /\ Len(S[n][i]) = Len(path)
    /\ \A m \in 1 .. Len(path) : S[n][i][m] = SideOf(path[m])

(* Whatever hashes a path names, where it comes to a hash of the tree it   *)
(* came from a leaf below it, by exactly the sides that lead there.        *)
LEMMA PathLeadsToLeaf ==
  ASSUME NEW digests, IsSeq(digests), NEW digest, NEW path, IsSeq(path),
         NEW S, IsSides(S, Len(digests)), NEW R, IsRoots(R, digest, path),
         NEW n \in 1 .. Len(digests), NEW a \in 1 .. Len(digests) - n + 1,
         R[Len(path)] = treeHash(LeafHashes(digests))[n][a]
  PROVE  ComesFromLeaf(digests, digest, path, S, n, a)
<1> DEFINE T == treeHash(LeafHashes(digests))
           N == Len(digests)
           M == Len(path)
           Leads(j, b, c, i) ==
             /\ digest = digests[c + i]
             /\ Len(S[b][i]) = j
             /\ \A m \in 1 .. j : S[b][i][m] = SideOf(path[m])
           Reached(j) ==
             \A b \in 1 .. N : \A c \in 1 .. N - b + 1 :
               R[j] = T[b][c] => \E i \in 0 .. b - 1 : Leads(j, b, c, i)
           J == {j \in 0 .. M : Reached(j)}
<1>1. N \in Nat /\ M \in Nat
  BY SeqFacts
<1>2. \A b \in 1 .. N : \A c \in 1 .. N - b + 1 :
        LET k == splitPoint(b) IN
        /\ b = 1 => T[b][c] = leafHash(digests[c])
        /\ b # 1 => /\ k \in 1 .. b - 1 /\ k \in 1 .. N
                    /\ b - k \in 1 .. b - 1 /\ b - k \in 1 .. N
                    /\ c \in 1 .. N - k + 1
                    /\ c + k \in 1 .. N - (b - k) + 1
                    /\ T[b][c] = nodeHash(T[k][c], T[b - k][c + k])
  BY TreeOver
<1>3. /\ R[0] = leafHash(digest)
      /\ \A j \in 1 .. M : R[j] = IF path[j].side = "left" THEN nodeHash(path[j].hash, R[j - 1])
                                ELSE nodeHash(R[j - 1], path[j].hash)
  BY DEF IsRoots
<1>4. \A b \in 1 .. N : \A i \in 0 .. b - 1 :
        S[b][i] = IF b = 1 THEN << >>
                  ELSE IF i < splitPoint(b) THEN Append(S[splitPoint(b)][i], "right")
                  ELSE Append(S[b - splitPoint(b)][i - splitPoint(b)], "left")
  BY DEF IsSides
<1>5. \A b \in 1 .. N : \A i \in 0 .. b - 1 : S[b][i] \in Seq({"left", "right"})
  BY <1>1, SidesAreSides
<1>6. R[M] = T[n][a] /\ n \in 1 .. N /\ a \in 1 .. N - n + 1
  OBVIOUS
<1> HIDE DEF T, N, M
<1>7. Reached(0)
  <2> SUFFICES ASSUME NEW b \in 1 .. N, NEW c \in 1 .. N - b + 1, R[0] = T[b][c]
               PROVE  \E i \in 0 .. b - 1 : Leads(0, b, c, i)
    OBVIOUS
  <2>1. b = 1
    <3>1. b # 1 => T[b][c] = nodeHash(T[splitPoint(b)][c], T[b - splitPoint(b)][c + splitPoint(b)])
      BY <1>2
    <3>2. T[b][c] = leafHash(digest)
      BY <1>3
    <3>3. leafHash(digest) # nodeHash(T[splitPoint(b)][c], T[b - splitPoint(b)][c + splitPoint(b)])
      BY HashPrefixes
    <3> QED
      BY <3>1, <3>2, <3>3
  <2>2. digest = digests[c]
    <3>1. leafHash(digest) = leafHash(digests[c])
      BY <1>2, <1>3, <2>1
    <3> QED
      BY <3>1, HashPrefixes
  <2>3. 0 \in 0 .. b - 1 /\ c + 0 = c
    BY <1>1, <2>1
  <2>4. Len(S[b][0]) = 0
    BY <1>4, <2>1, <2>3
  <2>5. Leads(0, b, c, 0)
    BY <2>2, <2>3, <2>4
  <2> HIDE DEF Leads
  <2> QED
    BY <2>3, <2>5
<1>8. ASSUME NEW j \in 0 .. M - 1, Reached(j) PROVE Reached(j + 1)
  <2> SUFFICES ASSUME NEW b \in 1 .. N, NEW c \in 1 .. N - b + 1, R[j + 1] = T[b][c]
               PROVE  \E i \in 0 .. b - 1 : Leads(j + 1, b, c, i)
    OBVIOUS
  <2> DEFINE k == splitPoint(b)
  <2>1. R[j + 1] = IF path[j + 1].side = "left" THEN nodeHash(path[j + 1].hash, R[j])
                   ELSE nodeHash(R[j], path[j + 1].hash)
    <3>1. j + 1 \in 1 .. M /\ (j + 1) - 1 = j
      BY <1>1
    <3> QED
      BY <1>3, <3>1
  <2>2. b # 1
    <3>1. \A l, r : nodeHash(l, r) # leafHash(digests[c])
      BY HashPrefixes
    <3>2. T[b][c] # leafHash(digests[c])
      BY <2>1, <3>1
    <3> QED
      BY <1>2, <3>2
  <2>3. /\ k \in 1 .. b - 1 /\ k \in 1 .. N
        /\ b - k \in 1 .. b - 1 /\ b - k \in 1 .. N
        /\ c \in 1 .. N - k + 1
        /\ c + k \in 1 .. N - (b - k) + 1
    BY <1>2, <2>2
  <2>4. T[b][c] = nodeHash(T[k][c], T[b - k][c + k])
    BY <1>2, <2>2
  <2>5. \A i \in 0 .. b - 1 :
          S[b][i] = IF i < k THEN Append(S[k][i], "right") ELSE Append(S[b - k][i - k], "left")
    BY <1>4, <2>2
  <2> HIDE DEF k
  <2>6. CASE path[j + 1].side = "left"
    <3>1. R[j] = T[b - k][c + k]
      <4>1. nodeHash(path[j + 1].hash, R[j]) = nodeHash(T[k][c], T[b - k][c + k])
        BY <2>1, <2>4, <2>6
      <4> QED
        BY <4>1, HashPrefixes
    <3>2. \E i \in 0 .. (b - k) - 1 : Leads(j, b - k, c + k, i)
      BY <1>8, <2>3, <3>1
    <3>3. PICK i \in 0 .. (b - k) - 1 : Leads(j, b - k, c + k, i)
      BY <3>2
    <3>4. i + k \in 0 .. b - 1 /\ ~(i + k < k) /\ (i + k) - k = i /\ (c + k) + i = c + (i + k)
      BY <1>1, <2>3
    <3>5. S[b][i + k] = Append(S[b - k][i], "left")
      BY <2>5, <3>4
    <3>6. S[b - k][i] \in Seq({"left", "right"}) /\ Len(S[b - k][i]) = j
      BY <1>5, <2>3, <3>3
    <3>7. /\ Len(S[b][i + k]) = j + 1
          /\ \A m \in 1 .. j : S[b][i + k][m] = S[b - k][i][m]
          /\ S[b][i + k][j + 1] = "left"
      BY <3>5, <3>6
    <3>8. ASSUME NEW m \in 1 .. j + 1 PROVE S[b][i + k][m] = SideOf(path[m])
      <4>1. CASE m \in 1 .. j
        BY <3>3, <3>7, <4>1
      <4>2. CASE m = j + 1
        BY <2>6, <3>7, <4>2 DEF SideOf
      <4> QED
        BY <1>1, <4>1, <4>2
    <3>9. Leads(j + 1, b, c, i + k)
      BY <3>3, <3>4, <3>7, <3>8
    <3> HIDE DEF Leads
    <3> QED
      BY <3>4, <3>9
  <2>7. CASE path[j + 1].side # "left"
    <3>1. R[j] = T[k][c]
      <4>1. nodeHash(R[j], path[j + 1].hash) = nodeHash(T[k][c], T[b - k][c + k])
        BY <2>1, <2>4, <2>7
      <4> QED
        BY <4>1, HashPrefixes
    <3>2. \E i \in 0 .. k - 1 : Leads(j, k, c, i)
      BY <1>8, <2>3, <3>1
    <3>3. PICK i \in 0 .. k - 1 : Leads(j, k, c, i)
      BY <3>2
    <3>4. i \in 0 .. b - 1 /\ i < k
      BY <1>1, <2>3
    <3>5. S[b][i] = Append(S[k][i], "right")
      BY <2>5, <3>4
    <3>6. S[k][i] \in Seq({"left", "right"}) /\ Len(S[k][i]) = j
      BY <1>5, <2>3, <3>3
    <3>7. /\ Len(S[b][i]) = j + 1
          /\ \A m \in 1 .. j : S[b][i][m] = S[k][i][m]
          /\ S[b][i][j + 1] = "right"
      BY <3>5, <3>6
    <3>8. ASSUME NEW m \in 1 .. j + 1 PROVE S[b][i][m] = SideOf(path[m])
      <4>1. CASE m \in 1 .. j
        BY <3>3, <3>7, <4>1
      <4>2. CASE m = j + 1
        BY <2>7, <3>7, <4>2 DEF SideOf
      <4> QED
        BY <1>1, <4>1, <4>2
    <3>9. Leads(j + 1, b, c, i)
      BY <3>3, <3>7, <3>8
    <3> HIDE DEF Leads
    <3> QED
      BY <3>4, <3>9
  <2> QED
    BY <2>6, <2>7
<1>9. Reached(M)
  <2> HIDE DEF Reached
  <2>1. 0 \in J /\ \A j \in 0 .. M - 1 : j \in J => j + 1 \in J
    BY <1>1, <1>7, <1>8
  <2>2. 0 .. M \subseteq J
    <3> HIDE DEF J
    <3> QED
      BY <1>1, <2>1, StepInduction
  <2> QED
    BY <1>1, <2>2
<1>10. \E i \in 0 .. n - 1 : Leads(M, n, a, i)
  BY <1>6, <1>9
<1> QED
  BY <1>10 DEF M, ComesFromLeaf

LEMMA TreeIsDigests ==
  ASSUME NEW digests, IsSeq(digests),
         NEW n \in 1 .. Len(digests), NEW a \in 1 .. Len(digests) - n + 1
  PROVE  IsDigest(treeHash(LeafHashes(digests))[n][a])
<1> DEFINE T == treeHash(LeafHashes(digests))
           k == splitPoint(n)
<1>1. CASE n = 1
  <2>1. T[n][a] = leafHash(digests[a])
    BY <1>1, TreeOver
  <2> QED
    BY <2>1, HashPrefixes
<1>2. CASE n # 1
  <2>1. T[n][a] = nodeHash(T[k][a], T[n - k][a + k])
    BY <1>2, TreeOver
  <2> QED
    BY <2>1, HashPrefixes
<1> QED
  BY <1>1, <1>2

LeadsToLeaf(path, sides, leaf, root) ==
  /\ IsSeq(path) /\ Len(path) = Len(sides)
  /\ \A m \in 1 .. Len(path) : path[m].side = sides[m] /\ IsDigest(path[m].hash)
  /\ rootFromPath(leaf, path) = root

(* One step more keeps a path good.                                        *)
LEMMA LeadsOneStepMore ==
  ASSUME NEW path, NEW sides \in Seq({"left", "right"}), NEW leaf, NEW root, NEW side, NEW hash,
         LeadsToLeaf(path, sides, leaf, root), side \in {"left", "right"}, IsDigest(hash)
  PROVE  LeadsToLeaf(Append(path, Step(side, hash)), Append(sides, side), leaf,
                     IF side = "left" THEN nodeHash(hash, root) ELSE nodeHash(root, hash))
<1> DEFINE longer == Append(path, Step(side, hash))
           more == Append(sides, side)
<1>1. /\ IsSeq(path) /\ Len(path) = Len(sides) /\ Len(path) \in Nat
      /\ \A m \in 1 .. Len(path) : path[m].side = sides[m] /\ IsDigest(path[m].hash)
      /\ rootFromPath(leaf, path) = root
  BY SeqFacts DEF LeadsToLeaf
<1>2. /\ IsSeq(longer) /\ Len(longer) = Len(path) + 1
      /\ \A m \in 1 .. Len(path) : longer[m] = path[m]
      /\ longer[Len(path) + 1] = Step(side, hash)
  BY <1>1, AppendFacts
<1>3. /\ Len(more) = Len(sides) + 1
      /\ \A m \in 1 .. Len(sides) : more[m] = sides[m]
      /\ more[Len(sides) + 1] = side
  OBVIOUS
<1>4. Step(side, hash).side = side /\ Step(side, hash).hash = hash
  BY DEF Step
<1>5. rootFromPath(leaf, longer) = IF side = "left" THEN nodeHash(hash, root) ELSE nodeHash(root, hash)
  BY <1>4, <1>1, RootAppend
<1> HIDE DEF longer, more
<1>6. ASSUME NEW m \in 1 .. Len(longer) PROVE longer[m].side = more[m] /\ IsDigest(longer[m].hash)
  <2>1. CASE m \in 1 .. Len(path)
    BY <1>1, <1>2, <1>3, <2>1
  <2>2. CASE m = Len(path) + 1
    BY <1>1, <1>2, <1>3, <1>4, <2>2
  <2> QED
    BY <1>1, <1>2, <2>1, <2>2
<1>7. Len(longer) = Len(more)
  BY <1>1, <1>2, <1>3
<1> QED
  BY <1>2, <1>5, <1>6, <1>7 DEF longer, more, LeadsToLeaf

(* The path that was cut for a leaf has the sides that lead to it, and     *)
(* comes to the hash of its slice.                                         *)
LEMMA CutPathLeadsToLeaf ==
  ASSUME NEW digests, IsSeq(digests), NEW S, IsSides(S, Len(digests))
  PROVE  \A n \in 1 .. Len(digests) : \A a \in 1 .. Len(digests) - n + 1 : \A i \in 0 .. n - 1 :
           LeadsToLeaf(pathOver(LeafHashes(digests))[n][a][i], S[n][i], digests[a + i],
                       treeHash(LeafHashes(digests))[n][a])
<1> DEFINE T == treeHash(LeafHashes(digests))
           P == pathOver(LeafHashes(digests))
           N == Len(digests)
           Cut1(b) == \A c \in 1 .. N - b + 1 : \A j \in 0 .. b - 1 :
                        LeadsToLeaf(P[b][c][j], S[b][j], digests[c + j], T[b][c])
           D == {b \in 1 .. N : Cut1(b)}
<1>1. N \in Nat
  BY SeqFacts
<1>2. \A b \in 1 .. N : \A c \in 1 .. N - b + 1 :
        LET k == splitPoint(b) IN
        /\ b = 1 => T[b][c] = leafHash(digests[c])
        /\ b # 1 => /\ k \in 1 .. b - 1 /\ k \in 1 .. N
                    /\ b - k \in 1 .. b - 1 /\ b - k \in 1 .. N
                    /\ c \in 1 .. N - k + 1
                    /\ c + k \in 1 .. N - (b - k) + 1
                    /\ T[b][c] = nodeHash(T[k][c], T[b - k][c + k])
  BY TreeOver
<1>3. \A b \in 1 .. N : \A c \in 1 .. N - b + 1 : IsDigest(T[b][c])
  BY TreeIsDigests
<1>4. \A b \in 1 .. N : \A j \in 0 .. b - 1 :
        S[b][j] = IF b = 1 THEN << >>
                  ELSE IF j < splitPoint(b) THEN Append(S[splitPoint(b)][j], "right")
                  ELSE Append(S[b - splitPoint(b)][j - splitPoint(b)], "left")
  BY DEF IsSides
<1>5. \A b \in 1 .. N : \A j \in 0 .. b - 1 : S[b][j] \in Seq({"left", "right"})
  BY <1>1, SidesAreSides
<1>6. \A b \in 1 .. N : \A c \in 1 .. N - b + 1 : \A j \in 0 .. b - 1 :
        P[b][c][j] = IF b = 1 THEN << >>
                     ELSE IF j < splitPoint(b)
                     THEN Append(P[splitPoint(b)][c][j],
                                 Step("right", T[b - splitPoint(b)][c + splitPoint(b)]))
                     ELSE Append(P[b - splitPoint(b)][c + splitPoint(b)][j - splitPoint(b)],
                                 Step("left", T[splitPoint(b)][c]))
  <2>1. Len(LeafHashes(digests)) = N
    BY LeafHashesSeq
  <2>2. IsPaths(P, LeafHashes(digests))
    BY <1>1, <2>1, PathDef
  <2> HIDE DEF P
  <2>3. \A b \in 1 .. N :
          P[b] = [c \in 1 .. N - b + 1 |-> [j \in 0 .. b - 1 |->
                    IF b = 1 THEN << >>
                    ELSE IF j < splitPoint(b)
                    THEN Append(P[splitPoint(b)][c][j],
                                Step("right", T[b - splitPoint(b)][c + splitPoint(b)]))
                    ELSE Append(P[b - splitPoint(b)][c + splitPoint(b)][j - splitPoint(b)],
                                Step("left", T[splitPoint(b)][c]))]]
    BY <2>1, <2>2 DEF IsPaths
  <2> HIDE DEF T, N
  <2>4. ASSUME NEW b \in 1 .. N, NEW c \in 1 .. N - b + 1
        PROVE  P[b][c] = [j \in 0 .. b - 1 |->
                    IF b = 1 THEN << >>
                    ELSE IF j < splitPoint(b)
                    THEN Append(P[splitPoint(b)][c][j],
                                Step("right", T[b - splitPoint(b)][c + splitPoint(b)]))
                    ELSE Append(P[b - splitPoint(b)][c + splitPoint(b)][j - splitPoint(b)],
                                Step("left", T[splitPoint(b)][c]))]
    BY <2>3
  <2>5. ASSUME NEW b \in 1 .. N, NEW c \in 1 .. N - b + 1, NEW j \in 0 .. b - 1
        PROVE  P[b][c][j] = IF b = 1 THEN << >>
                     ELSE IF j < splitPoint(b)
                     THEN Append(P[splitPoint(b)][c][j],
                                 Step("right", T[b - splitPoint(b)][c + splitPoint(b)]))
                     ELSE Append(P[b - splitPoint(b)][c + splitPoint(b)][j - splitPoint(b)],
                                 Step("left", T[splitPoint(b)][c]))
    <3> DEFINE V(x) == IF b = 1 THEN << >>
                       ELSE IF x < splitPoint(b)
                       THEN Append(P[splitPoint(b)][c][x],
                                   Step("right", T[b - splitPoint(b)][c + splitPoint(b)]))
                       ELSE Append(P[b - splitPoint(b)][c + splitPoint(b)][x - splitPoint(b)],
                                   Step("left", T[splitPoint(b)][c]))
    <3>1. P[b][c] = [x \in 0 .. b - 1 |-> V(x)]
      BY <2>4
    <3>2. P[b][c][j] = V(j)
      <4> HIDE DEF V
      <4> QED
        BY <3>1
    <3> QED
      BY <3>2
  <2> QED
    BY <2>5, Zenon
<1> HIDE DEF T, P, N
<1>9. ASSUME NEW b \in 1 .. N, 1 .. b - 1 \subseteq D PROVE b \in D
  <2> SUFFICES ASSUME NEW c \in 1 .. N - b + 1, NEW j \in 0 .. b - 1
               PROVE  LeadsToLeaf(P[b][c][j], S[b][j], digests[c + j], T[b][c])
    OBVIOUS
  <2>1. CASE b = 1
    <3>1. P[b][c][j] = << >> /\ S[b][j] = << >>
      BY <1>4, <1>6, <2>1
    <3>2. T[b][c] = leafHash(digests[c]) /\ c + j = c
      BY <1>1, <1>2, <2>1
    <3>3. IsSeq(<< >>) /\ Len(<< >>) = 0
      BY DEF IsSeq
    <3>4. rootFromPath(digests[c], << >>) = leafHash(digests[c])
      BY RootOfNone
    <3> QED
      BY <3>1, <3>2, <3>3, <3>4 DEF LeadsToLeaf
  <2>2. CASE b # 1
    <3> DEFINE k == splitPoint(b)
    <3>1. /\ k \in 1 .. b - 1 /\ k \in 1 .. N
          /\ b - k \in 1 .. b - 1 /\ b - k \in 1 .. N
          /\ c \in 1 .. N - k + 1
          /\ c + k \in 1 .. N - (b - k) + 1
      BY <1>2, <2>2
    <3>2. T[b][c] = nodeHash(T[k][c], T[b - k][c + k])
      BY <1>2, <2>2
    <3>3. S[b][j] = IF j < k THEN Append(S[k][j], "right") ELSE Append(S[b - k][j - k], "left")
      BY <1>4, <2>2
    <3>4. P[b][c][j] = IF j < k THEN Append(P[k][c][j], Step("right", T[b - k][c + k]))
                       ELSE Append(P[b - k][c + k][j - k], Step("left", T[k][c]))
      BY <1>6, <2>2
    <3> HIDE DEF k
    <3>5. Cut1(k) /\ Cut1(b - k)
      BY <1>9, <3>1
    <3>6. IsDigest(T[k][c]) /\ IsDigest(T[b - k][c + k])
      BY <1>3, <3>1
    <3>7. CASE j < k
      <4>1. j \in 0 .. k - 1
        BY <1>1, <3>1, <3>7
      <4>2. LeadsToLeaf(P[k][c][j], S[k][j], digests[c + j], T[k][c])
        BY <3>1, <3>5, <4>1
      <4>3. S[k][j] \in Seq({"left", "right"})
        BY <1>5, <3>1, <4>1
      <4>4. LeadsToLeaf(Append(P[k][c][j], Step("right", T[b - k][c + k])), Append(S[k][j], "right"),
                 digests[c + j],
                 IF "right" = "left" THEN nodeHash(T[b - k][c + k], T[k][c])
                 ELSE nodeHash(T[k][c], T[b - k][c + k]))
        BY <3>6, <4>2, <4>3, LeadsOneStepMore
      <4> QED
        BY <3>2, <3>3, <3>4, <3>7, <4>4
    <3>8. CASE ~(j < k)
      <4>1. j - k \in 0 .. (b - k) - 1 /\ (c + k) + (j - k) = c + j
        BY <1>1, <3>1, <3>8
      <4>2. LeadsToLeaf(P[b - k][c + k][j - k], S[b - k][j - k], digests[c + j], T[b - k][c + k])
        BY <3>1, <3>5, <4>1
      <4>3. S[b - k][j - k] \in Seq({"left", "right"})
        BY <1>5, <3>1, <4>1
      <4>4. LeadsToLeaf(Append(P[b - k][c + k][j - k], Step("left", T[k][c])), Append(S[b - k][j - k], "left"),
                 digests[c + j],
                 IF "left" = "left" THEN nodeHash(T[k][c], T[b - k][c + k])
                 ELSE nodeHash(T[b - k][c + k], T[k][c]))
        BY <3>6, <4>2, <4>3, LeadsOneStepMore
      <4> QED
        BY <3>2, <3>3, <3>4, <3>8, <4>4
    <3> QED
      BY <3>7, <3>8
  <2> QED
    BY <2>1, <2>2
<1>10. 1 .. N \subseteq D
  <2> HIDE DEF D
  <2> QED
    BY <1>1, <1>9, CompleteInduction
<1>11. \A n \in 1 .. N : \A a \in 1 .. N - n + 1 : \A i \in 0 .. n - 1 :
         LeadsToLeaf(P[n][a][i], S[n][i], digests[a + i], T[n][a])
  <2> QED
    BY <1>10
<1> QED
  BY <1>11 DEF P, T, N

-----------------------------------------------------------------------------
Silent(data, declared, held) == SignatureFindings(data, declared, held) = {}

(* A signature that causes no finding under a key was made by its holder,  *)
(* over the bytes it is checked against, and the key is one that proves    *)
(* something (verifySignature).                                            *)
LEMMA SilentIsSigned ==
  ASSUME NEW data, NEW declared, NEW held, Silent(data, declared, held), NEW k \in held
  PROVE  \A s \in declared : s.key = k /\ s.data = data /\ k.grade = "sound"
<1> SUFFICES ASSUME NEW s \in declared
             PROVE  s.key = k /\ s.data = data /\ k.grade = "sound"
  OBVIOUS
<1>1. verifySignature(data, s, k) = {}
  BY DEF Silent, SignatureFindings, verifySignature
<1>2. k.grade = "sound" /\ Primitive(data, s, k)
  BY <1>1 DEF verifySignature
<1> QED
  BY <1>2 DEF Primitive

(* A key never turns a finding about a declared signature into none        *)
(* (checkSignature, checkDeclaredDocumentSignature).                       *)
LEMMA SilentWithoutKey ==
  ASSUME NEW data, NEW declared, NEW held,
         SignatureFindings(data, declared, held) = {}
  PROVE  SignatureFindings(data, declared, {}) = {}
<1>1. ASSUME NEW s \in declared PROVE isSupportedSignatureAlgorithm(s.algorithm)
  BY DEF SignatureFindings
<1> QED
  BY <1>1 DEF SignatureFindings

(* The signature is asked for last: an event with no finding conforms, and *)
(* its hash is the digest of what was presented (verifyEventIntegrity).    *)
LEMMA VerifiedParts ==
  ASSUME NEW e, NEW held, verifyEventIntegrity(e, held) = {}
  PROVE  /\ validateEvent(e) = {}
         /\ e.hash = calculateDigest(e)
         /\ SignatureFindings(Input(e), e.signature, held) = {}
BY DEF verifyEventIntegrity, checkSignature

(* An event verified with a key carries no signature but the key holder's, *)
(* over this very content: chain, sequence and hash algorithm included     *)
(* (specification/integrity.md:181).                                       *)
THEOREM VerifiedWasSigned ==
  ASSUME NEW e, NEW k, verifyEventIntegrity(e, {k}) = {}
  PROVE  /\ e.hash = calculateDigest(e)
         /\ \A s \in e.signature : s.key = k /\ s.data = Input(e) /\ k.grade = "sound"
<1>1. Silent(Input(e), e.signature, {k})
  BY VerifiedParts DEF Silent
<1>2. \A s \in e.signature : s.key = k /\ s.data = Input(e) /\ k.grade = "sound"
  BY <1>1, SilentIsSigned
<1> QED
  BY <1>2, VerifiedParts

(* What a key adds to the verification of an event is refusals: an event   *)
(* verified with one is verified without (specification/integrity.md:331). *)
THEOREM KeyOnlyRefuses ==
  ASSUME NEW e, NEW held, verifyEventIntegrity(e, held) = {}
  PROVE  verifyEventIntegrity(e, {}) = {}
<1>1. SignatureFindings(Input(e), e.signature, {}) = {}
  BY VerifiedParts, SilentWithoutKey
<1> QED
  BY <1>1 DEF verifyEventIntegrity, checkSignature
-----------------------------------------------------------------------------
(* A proof whose position and root cause no finding, against the root of a *)
(* tree, proves a leaf of that tree; with the tree's leaf count, the one   *)
(* at its index (verifyProof, expectedSides).                              *)
THEOREM ProofOfRootIsOfLeaf ==
  ASSUME NEW digests, IsSeq(digests), Len(digests) # 0,
         NEW p, IsSeq(p.path), p.index \in Nat, p.count \in Nat,
         PositionFindings(p) = {}, RootFindings(p) = {}, p.root = merkleRoot(digests)
  PROVE  /\ p.leaf \in ToSet(digests)
         /\ p.count = Len(digests) =>
              p.index < Len(digests) /\ digests[p.index + 1] = p.leaf
<1> DEFINE N == Len(digests)
<1>1. N \in Nat /\ N \in 1 .. N /\ 1 \in 1 .. N - N + 1 /\ DOMAIN digests = 1 .. N
  BY SeqFacts
<1>2. Len(p.path) \in Nat /\ DOMAIN p.path = 1 .. Len(p.path)
  BY SeqFacts
<1>3. PICK S : IsSides(S, N) /\ \A i : expectedSides(i, N) = S[N][i]
  BY <1>1, SidesDef
<1>4. PICK R : IsRoots(R, p.leaf, p.path) /\ rootFromPath(p.leaf, p.path) = R[Len(p.path)]
  BY <1>2, RootDef
<1>5. R[Len(p.path)] = treeHash(LeafHashes(digests))[N][1]
  BY <1>4 DEF RootFindings, merkleRoot
<1>6. PICK i \in 0 .. N - 1 :
        /\ p.leaf = digests[1 + i]
        /\ Len(S[N][i]) = Len(p.path)
        /\ \A m \in 1 .. Len(p.path) : S[N][i][m] = SideOf(p.path[m])
  <2>1. ComesFromLeaf(digests, p.leaf, p.path, S, N, 1)
    BY <1>1, <1>3, <1>4, <1>5, PathLeadsToLeaf
  <2> HIDE DEF N
  <2> QED
    BY <2>1 DEF ComesFromLeaf
<1> HIDE DEF N
<1>7. p.leaf \in ToSet(digests)
  <2>1. 1 + i \in 1 .. N
    BY <1>1
  <2> QED
    BY <1>1, <1>6, <2>1 DEF ToSet
<1>8. ASSUME p.count = N PROVE p.index < N /\ digests[p.index + 1] = p.leaf
  <2>1. p.index < p.count /\ Sides(p.path) = S[N][p.index]
    <3>1. ~(p.index >= p.count) /\ Sides(p.path) = expectedSides(p.index, p.count)
      BY DEF PositionFindings
    <3>2. p.index < p.count
      BY <3>1
    <3> QED
      BY <1>3, <1>8, <3>1, <3>2
  <2>2. p.index \in 0 .. N - 1
    BY <1>1, <1>8, <2>1
  <2>3. S[N][p.index] \in Seq({"left", "right"}) /\ S[N][i] \in Seq({"left", "right"})
    BY <1>1, <1>3, <2>2, SidesAreSides
  <2>4. \A m \in 1 .. Len(p.path) : S[N][p.index][m] = p.path[m].side
    BY <1>2, <2>1 DEF Sides
  <2>5. DOMAIN S[N][p.index] = 1 .. Len(p.path)
    BY <1>2, <2>1 DEF Sides
  <2>6. Len(S[N][p.index]) = Len(p.path)
    BY <1>2, <2>3, <2>5
  <2>7. \A m \in 1 .. Len(p.path) : S[N][p.index][m] \in {"left", "right"}
    BY <2>3, <2>6
  <2>8. \A m \in 1 .. Len(p.path) : S[N][p.index][m] = S[N][i][m]
    BY <1>6, <2>4, <2>7 DEF SideOf
  <2>9. S[N][p.index] = S[N][i]
    BY <1>2, <1>6, <2>3, <2>6, <2>8
  <2>10. p.index = i
    BY <1>1, <1>3, <2>2, <2>9, SidesTellApart
  <2>11. p.index + 1 = 1 + i
    BY <1>1, <2>10
  <2>12. p.index < N
    BY <1>1, <2>2
  <2> QED
    BY <1>6, <2>11, <2>12
<1> QED
  BY <1>7, <1>8 DEF N

(* Every leaf of every tree can be proven: the path cut for it causes no   *)
(* finding about its position or its root (auditPath, verifyProof).        *)
THEOREM CutProofsHold ==
  ASSUME NEW digests, IsSeq(digests), \A k \in 1 .. Len(digests) : IsDigest(digests[k]),
         NEW i \in 1 .. Len(digests),
         NEW p, p.leaf = digests[i], p.index = i - 1, p.path = auditPath(digests, i - 1),
         p.root = merkleRoot(digests), p.count = Len(digests)
  PROVE  PositionFindings(p) = {} /\ RootFindings(p) = {}
<1> DEFINE N == Len(digests)
<1>1. N \in Nat /\ N \in 1 .. N /\ 1 \in 1 .. N - N + 1 /\ i - 1 \in 0 .. N - 1 /\ 1 + (i - 1) = i
  BY SeqFacts
<1>2. PICK S : IsSides(S, N) /\ \A j : expectedSides(j, N) = S[N][j]
  BY <1>1, SidesDef
<1>3. p.path = pathOver(LeafHashes(digests))[N][1][i - 1]
  BY DEF auditPath
<1>4. /\ IsSeq(p.path) /\ Len(p.path) = Len(S[N][i - 1])
      /\ \A m \in 1 .. Len(p.path) : p.path[m].side = S[N][i - 1][m] /\ IsDigest(p.path[m].hash)
      /\ rootFromPath(digests[i], p.path) = treeHash(LeafHashes(digests))[N][1]
  <2>1. LeadsToLeaf(pathOver(LeafHashes(digests))[N][1][i - 1], S[N][i - 1], digests[1 + (i - 1)],
                    treeHash(LeafHashes(digests))[N][1])
    BY <1>1, <1>2, CutPathLeadsToLeaf
  <2> QED
    BY <1>1, <1>3, <2>1 DEF LeadsToLeaf
<1>5. Len(p.path) \in Nat /\ DOMAIN p.path = 1 .. Len(p.path)
  BY <1>4, SeqFacts
<1>6. PositionFindings(p) = {}
  <2>1. ~(p.index >= p.count)
    BY <1>1
  <2>2. S[N][i - 1] \in Seq({"left", "right"})
    BY <1>1, <1>2, SidesAreSides
  <2>3. Sides(p.path) = [m \in 1 .. Len(p.path) |-> S[N][i - 1][m]]
    BY <1>4, <1>5 DEF Sides
  <2>4. Sides(p.path) = S[N][i - 1]
    BY <1>4, <1>5, <2>2, <2>3
  <2> QED
    BY <1>2, <2>1, <2>4 DEF PositionFindings
<1>7. RootFindings(p) = {}
  <2>1. IsDigest(p.leaf)
    OBVIOUS
  <2>2. IsDigest(p.root)
    BY <1>1, TreeIsDigests DEF merkleRoot
  <2>3. rootFromPath(p.leaf, p.path) = p.root
    BY <1>4 DEF merkleRoot
  <2> QED
    BY <1>4, <1>5, <2>1, <2>2, <2>3 DEF RootFindings, BadLength
<1> QED
  BY <1>6, <1>7

-----------------------------------------------------------------------------
(***************************************************************************)
(* The invariant: whatever was changed, the tree is one over sealed        *)
(* events; a signature of the root that names the signer is over the root  *)
(* and leaf count of that tree; nothing changed is what was cut; and a     *)
(* verdict is the one verifyProof gives.                                   *)
(***************************************************************************)
TreeOK ==
  \/ leaves = << >> /\ edits = 0 /\ outcome = "none"
  \/ \E n \in 1 .. MaxLeaves : leaves = [k \in 1 .. n |-> E(k)]

IsSignature(s) == DOMAIN s = {"key", "algorithm", "data", "form"}

IsProof(p) ==
  /\ DOMAIN p = {"conforms", "supported", "leaf", "index", "path", "root", "count", "signature"}
  /\ p.index \in Nat /\ p.count \in Nat
  /\ IsSeq(p.path)

RecordedRoot == <<"root", merkleRoot(leaves), Len(leaves)>>

NoneForged(declared, recorded) ==
  \A s \in declared : IsSignature(s) /\ (s.key \in signer => s.data = recorded)

SignaturesOK(p) == NoneForged(p.signature, RecordedRoot)

UntouchedOK ==
  \E i \in 1 .. Len(leaves) :
    \/ signer = {} /\ proof = Genuine(leaves, i) /\ event = Stored(i)
    \/ \E k \in ProducerKeys :
         signer = {k} /\ proof = SignRoot(Genuine(leaves, i), k) /\ event = SignEvent(Stored(i), k)

OutcomeOK ==
  outcome \notin {"none", "refused"} =>
    /\ outcome = Outcome(proof, event, key)
    /\ key = {} \/ \E k \in Keys : key = {k}

Inv ==
  /\ TreeOK
  /\ edits \in Nat
  /\ signer \subseteq ProducerKeys
  /\ leaves # << >> => IsProof(proof) /\ SignaturesOK(proof)
  /\ leaves # << >> /\ edits = 0 => UntouchedOK
  /\ OutcomeOK

(* The sealed events' digests are digests, and of as many as there are     *)
(* leaves.                                                                 *)
LEMMA LeavesFacts ==
  ASSUME TreeOK, leaves # << >>
  PROVE  /\ IsSeq(leaves) /\ Len(leaves) \in 1 .. MaxLeaves
         /\ DOMAIN leaves = 1 .. Len(leaves)
         /\ \A k \in 1 .. Len(leaves) : leaves[k] = E(k) /\ IsDigest(leaves[k])
<1>1. PICK n \in 1 .. MaxLeaves : leaves = [k \in 1 .. n |-> E(k)]
  BY DEF TreeOK
<1>2. n \in Nat
  BY MerkleAssumption
<1>3. leaves = [k \in 1 .. n |-> leaves[k]] /\ \A k \in 1 .. n : leaves[k] = E(k)
  BY <1>1
<1>4. IsSeq(leaves) /\ Len(leaves) = n
  BY <1>2, <1>3, FunctionIsSeq
<1>5. ASSUME NEW k PROVE IsDigest(E(k))
  <2>1. E(k) = <<"event", Input(Event(k))>>
    BY DEF E, Stored, sealEvent, calculateDigest, Event
  <2> QED
    BY <2>1, <<"event", Input(Event(k))>>[1] = "event", <<"short">>[1] = "short"
       DEF IsDigest, Short
<1> QED
  BY <1>3, <1>4, <1>5, SeqFacts

LEMMA AuditPathIsSeq ==
  ASSUME NEW digests, IsSeq(digests), NEW i \in 1 .. Len(digests)
  PROVE  IsSeq(auditPath(digests, i - 1))
<1>1. Len(digests) \in Nat
  BY SeqFacts
<1>2. PICK S : IsSides(S, Len(digests))
  BY <1>1, SidesDef
<1>3. Len(digests) \in 1 .. Len(digests) /\ 1 \in 1 .. Len(digests) - Len(digests) + 1
      /\ i - 1 \in 0 .. Len(digests) - 1
  BY <1>1
<1>4. LeadsToLeaf(pathOver(LeafHashes(digests))[Len(digests)][1][i - 1], S[Len(digests)][i - 1],
                  digests[1 + (i - 1)], treeHash(LeafHashes(digests))[Len(digests)][1])
  BY <1>2, <1>3, CutPathLeadsToLeaf
<1> QED
  BY <1>4 DEF LeadsToLeaf, auditPath

LEMMA ChangedIsSeq ==
  ASSUME NEW s, IsSeq(s), NEW j \in DOMAIN s
  PROVE  IsSeq(RemoveAt(s, j)) /\ \A v : IsSeq([s EXCEPT ![j] = v])
<1> DEFINE T == {s[k] : k \in DOMAIN s}
<1>1. s \in Seq(T) /\ Len(s) \in Nat /\ j \in 1 .. Len(s)
  BY SeqFacts DEF IsSeq
<1> HIDE DEF T
<1>2. IsSeq(RemoveAt(s, j))
  <2>1. SubSeq(s, 1, j - 1) \in Seq(T) /\ SubSeq(s, j + 1, Len(s)) \in Seq(T)
    BY <1>1
  <2> DEFINE u == SubSeq(s, 1, j - 1) \o SubSeq(s, j + 1, Len(s))
  <2>2. u \in Seq(T)
    BY <2>1
  <2> HIDE DEF u
  <2>3. Len(u) \in Nat /\ u = [k \in 1 .. Len(u) |-> u[k]]
    BY <2>2
  <2>4. IsSeq(u)
    BY <2>3, FunctionIsSeq
  <2> QED
    BY <2>4 DEF u, RemoveAt
<1>3. ASSUME NEW v PROVE IsSeq([s EXCEPT ![j] = v])
  <2> DEFINE u == [s EXCEPT ![j] = v]
  <2>1. DOMAIN u = 1 .. Len(s)
    BY <1>1, SeqFacts
  <2>2. u = [k \in 1 .. Len(s) |-> u[k]]
    BY <1>1, SeqFacts
  <2> HIDE DEF u
  <2>3. IsSeq(u)
    BY <1>1, <2>2, FunctionIsSeq
  <2> QED
    BY <2>3 DEF u
<1> QED
  BY <1>2, <1>3

(* No change to a signature makes one of the signer's over other data.     *)
LEMMA AlteredSignaturesOK ==
  ASSUME signer \subseteq ProducerKeys, NEW declared, NEW data, NEW recorded,
         NoneForged(declared, recorded),
         NEW altered \in AlteredSignatures(declared, data)
  PROVE  NoneForged(altered, recorded)
<1>1. CASE altered = {}
  BY <1>1 DEF NoneForged
<1>2. ASSUME NEW k \in OtherKeys, altered = {Sign(k, AlgorithmOf(k), data)}
      PROVE  NoneForged(altered, recorded)
  <2>1. k \notin signer
    BY DEF OtherKeys, ProducerKeys
  <2> QED
    BY <1>2, <2>1 DEF Sign, IsSignature, NoneForged
<1>3. ASSUME NEW t \in declared, NEW f, altered = {[t EXCEPT !.form = f]}
      PROVE  NoneForged(altered, recorded)
  BY <1>3 DEF IsSignature, NoneForged
<1>4. ASSUME NEW t \in declared, NEW a, altered = {[t EXCEPT !.algorithm = a]}
      PROVE  NoneForged(altered, recorded)
  BY <1>4 DEF IsSignature, NoneForged
<1> QED
  BY <1>1, <1>2, <1>3, <1>4 DEF AlteredSignatures

(* No change makes of a proof document something else, or signs for the    *)
(* signer.                                                                 *)
LEMMA AlteredOK ==
  ASSUME signer \subseteq ProducerKeys, NEW p, IsProof(p), SignaturesOK(p), NEW q \in Altered(p)
  PROVE  IsProof(q) /\ SignaturesOK(q)
<1>1. CASE q \in {[p EXCEPT !.conforms = FALSE], [p EXCEPT !.supported = FALSE]}
  BY <1>1 DEF IsProof, SignaturesOK
<1>2. CASE q \in {[p EXCEPT !.leaf = h] : h \in Known} \cup {[p EXCEPT !.root = h] : h \in Known}
  BY <1>2 DEF IsProof, SignaturesOK
<1>3. CASE q \in {[p EXCEPT !.index = i] : i \in 0 .. MaxLeaves}
                 \cup {[p EXCEPT !.count = n] : n \in 1 .. MaxLeaves + 1}
  BY <1>3, MerkleAssumption DEF IsProof, SignaturesOK
<1>4. ASSUME NEW path, IsSeq(path), q = [p EXCEPT !.path = path]
      PROVE  IsProof(q) /\ SignaturesOK(q)
  BY <1>4 DEF IsProof, SignaturesOK
<1>5. ASSUME NEW s, NEW h, q = [p EXCEPT !.path = Append(@, Step(s, h))]
      PROVE  IsProof(q) /\ SignaturesOK(q)
  <2>1. IsSeq(Append(p.path, Step(s, h)))
    BY AppendFacts DEF IsProof
  <2>2. q = [p EXCEPT !.path = Append(p.path, Step(s, h))]
    BY <1>5
  <2> QED
    BY <1>4, <2>1, <2>2
<1>6. ASSUME NEW j \in DOMAIN p.path,
             \/ q = [p EXCEPT !.path = RemoveAt(@, j)]
             \/ q = [p EXCEPT !.path[j].side = IF @ = "left" THEN "right" ELSE "left"]
             \/ \E h \in Known : q = [p EXCEPT !.path[j].hash = h]
      PROVE  IsProof(q) /\ SignaturesOK(q)
  <2>1. IsSeq(RemoveAt(p.path, j)) /\ \A v : IsSeq([p.path EXCEPT ![j] = v])
    BY ChangedIsSeq DEF IsProof
  <2>2. CASE q = [p EXCEPT !.path = RemoveAt(@, j)]
    <3>1. q = [p EXCEPT !.path = RemoveAt(p.path, j)]
      BY <2>2
    <3> QED
      BY <1>4, <2>1, <3>1
  <2>3. CASE q = [p EXCEPT !.path[j].side = IF @ = "left" THEN "right" ELSE "left"]
    <3>1. PICK v : q = [p EXCEPT !.path = [p.path EXCEPT ![j] = v]]
      BY <2>3
    <3> QED
      BY <1>4, <2>1, <3>1
  <2>4. CASE \E h \in Known : q = [p EXCEPT !.path[j].hash = h]
    <3>1. PICK v : q = [p EXCEPT !.path = [p.path EXCEPT ![j] = v]]
      BY <2>4
    <3> QED
      BY <1>4, <2>1, <3>1
  <2> QED
    BY <1>6, <2>2, <2>3, <2>4
<1>7. ASSUME NEW s \in AlteredSignatures(p.signature, RootInput(p)), q = [p EXCEPT !.signature = s]
      PROVE  IsProof(q) /\ SignaturesOK(q)
  <2>1. NoneForged(s, RecordedRoot)
    BY AlteredSignaturesOK DEF SignaturesOK
  <2> QED
    BY <1>7, <2>1 DEF IsProof, SignaturesOK
<1> DEFINE Paths == {[p EXCEPT !.path = Append(@, Step(s, h))] : s \in {"left", "right"}, h \in Known}
           Steps == UNION {{[p EXCEPT !.path = RemoveAt(@, j)],
                            [p EXCEPT !.path[j].side = IF @ = "left" THEN "right" ELSE "left"]} :
                             j \in DOMAIN p.path}
           Hashes == {[p EXCEPT !.path[j].hash = h] : j \in DOMAIN p.path, h \in Known}
           Signed == {[p EXCEPT !.signature = s] : s \in AlteredSignatures(p.signature, RootInput(p))}
<1>8. CASE q \in Paths
  BY <1>5, <1>8
<1>9. CASE q \in Steps
  <2>1. PICK j \in DOMAIN p.path :
          q \in {[p EXCEPT !.path = RemoveAt(@, j)],
                [p EXCEPT !.path[j].side = IF @ = "left" THEN "right" ELSE "left"]}
    BY <1>9
  <2> QED
    BY <1>6, <2>1
<1>10. CASE q \in Hashes
  <2>1. PICK j \in DOMAIN p.path, h \in Known : q = [p EXCEPT !.path[j].hash = h]
    BY <1>10
  <2> QED
    BY <1>6, <2>1
<1>11. CASE q \in Signed
  BY <1>7, <1>11
<1> DEFINE Kinds == {[p EXCEPT !.conforms = FALSE], [p EXCEPT !.supported = FALSE]}
           Leaves == {[p EXCEPT !.leaf = h] : h \in Known}
           Roots == {[p EXCEPT !.root = h] : h \in Known}
           Indices == {[p EXCEPT !.index = i] : i \in 0 .. MaxLeaves}
           Counts == {[p EXCEPT !.count = n] : n \in 1 .. MaxLeaves + 1}
<1>12. Altered(p) = Kinds \cup Leaves \cup Roots \cup Indices \cup Counts
                    \cup Paths \cup Steps \cup Hashes \cup Signed
  BY DEF Altered
<1>13. CASE q \in Kinds
  BY <1>1, <1>13
<1>14. CASE q \in Leaves \cup Roots
  BY <1>2, <1>14
<1>15. CASE q \in Indices \cup Counts
  BY <1>3, <1>15
<1> HIDE DEF Kinds, Leaves, Roots, Indices, Counts, Paths, Steps, Hashes, Signed
<1> QED
  BY <1>8, <1>9, <1>10, <1>11, <1>12, <1>13, <1>14, <1>15

-----------------------------------------------------------------------------
LEMMA InitInv == Init => Inv
BY DEF Init, Inv, TreeOK, OutcomeOK

LEMMA CutInv == Inv /\ Cut => Inv'
<1> SUFFICES ASSUME Inv, Cut PROVE Inv'
  OBVIOUS
<1> USE DEF Inv
<1> DEFINE IsCut(i) ==
             \/ signer' = {} /\ proof' = Genuine(leaves', i) /\ event' = Stored(i)
             \/ \E k \in ProducerKeys :
                  /\ signer' = {k}
                  /\ proof' = SignRoot(Genuine(leaves', i), k)
                  /\ event' = SignEvent(Stored(i), k)
<1>0. PICK n \in 1 .. MaxLeaves :
        leaves' = [k \in 1 .. n |-> E(k)] /\ \E i \in 1 .. n : IsCut(i)
  BY DEF Cut
<1>1. PICK i \in 1 .. n : IsCut(i)
  BY <1>0
<1>2. edits' = edits /\ key' = key /\ outcome' = outcome /\ edits = 0 /\ outcome = "none"
  <2>1. leaves = << >> /\ UNCHANGED <<edits, key, outcome>>
    BY DEF Cut
  <2>2. ASSUME NEW m \in 1 .. MaxLeaves, leaves = [k \in 1 .. m |-> E(k)] PROVE FALSE
    <3>1. DOMAIN leaves = 1 .. m /\ 1 \in 1 .. m
      BY <2>2, MerkleAssumption
    <3> QED
      BY <2>1, <3>1
  <2> QED
    BY <2>1, <2>2 DEF TreeOK
<1>3. TreeOK'
  BY <1>0 DEF TreeOK
<1>4. signer' \subseteq ProducerKeys
  BY <1>1
<1>5. n \in Nat /\ leaves' = [k \in 1 .. n |-> leaves'[k]]
  BY <1>0, MerkleAssumption
<1>6. IsSeq(leaves') /\ Len(leaves') = n
  BY <1>5, FunctionIsSeq
<1>7. IsProof(Genuine(leaves', i)) /\ Genuine(leaves', i).signature = {}
      /\ RootInput(Genuine(leaves', i)) = RecordedRoot'
  <2>1. IsSeq(auditPath(leaves', i - 1))
    BY <1>6, AuditPathIsSeq
  <2> QED
    BY <1>5, <1>6, <2>1 DEF IsProof, Genuine, RootInput, RecordedRoot
<1>8. IsProof(proof') /\ SignaturesOK(proof)'
  <2>1. CASE proof' = Genuine(leaves', i)
    BY <1>7, <2>1 DEF SignaturesOK, NoneForged
  <2>2. ASSUME NEW k \in ProducerKeys, proof' = SignRoot(Genuine(leaves', i), k)
        PROVE  IsProof(proof') /\ SignaturesOK(proof)'
    <3> DEFINE s == Sign(k, AlgorithmOf(k), RecordedRoot')
    <3>1. proof' = [Genuine(leaves', i) EXCEPT !.signature = {s}]
      BY <1>7, <2>2 DEF SignRoot
    <3>2. IsProof(proof') /\ proof'.signature = {s}
      BY <1>7, <3>1 DEF IsProof
    <3>3. IsSignature(s) /\ s.data = RecordedRoot'
      BY DEF Sign, IsSignature
    <3> HIDE DEF s
    <3> QED
      BY <3>2, <3>3 DEF SignaturesOK, NoneForged
  <2> QED
    BY <1>1, <2>1, <2>2
<1>9. UntouchedOK'
  BY <1>1, <1>6 DEF UntouchedOK
<1> QED
  BY <1>2, <1>3, <1>4, <1>8, <1>9 DEF OutcomeOK, IsProof

LEMMA EditInv == Inv /\ Edit => Inv'
<1> SUFFICES ASSUME Inv, Edit PROVE Inv'
  OBVIOUS
<1> USE DEF Inv
<1>1. /\ leaves # << >> /\ outcome = "none" /\ edits' = edits + 1
      /\ leaves' = leaves /\ signer' = signer /\ key' = key /\ outcome' = outcome
      /\ proof' \in Altered(proof) \/ proof' = proof
  BY DEF Edit
<1>2. TreeOK'
  BY <1>1 DEF TreeOK
<1>3. IsProof(proof') /\ SignaturesOK(proof')
  BY <1>1, AlteredOK
<1>4. IsProof(proof') /\ SignaturesOK(proof)'
  BY <1>1, <1>3 DEF SignaturesOK, NoneForged, RecordedRoot
<1>5. edits' \in Nat /\ edits' # 0
  BY <1>1
<1> QED
  BY <1>1, <1>2, <1>4, <1>5 DEF OutcomeOK, IsProof

LEMMA VerifyInv == Inv /\ Verify => Inv'
<1> SUFFICES ASSUME Inv, Verify PROVE Inv'
  OBVIOUS
<1> USE DEF Inv
<1>1. /\ leaves # << >> /\ leaves' = leaves /\ proof' = proof /\ event' = event
      /\ signer' = signer /\ edits' = edits
  BY DEF Verify
<1>2. OutcomeOK'
  <2>1. PICK k \in {{}} \cup {{x} : x \in Keys} :
          \/ key' = k /\ outcome' = Outcome(proof, event, k)
          \/ outcome' = "refused"
    BY DEF Verify
  <2>2. k = {} \/ \E x \in Keys : k = {x}
    OBVIOUS
  <2> QED
    BY <1>1, <2>1, <2>2 DEF OutcomeOK
<1>3. TreeOK'
  BY <1>1 DEF TreeOK
<1>4. (SignaturesOK(proof))' <=> SignaturesOK(proof)
  BY <1>1 DEF SignaturesOK, NoneForged, RecordedRoot
<1>5. UntouchedOK' <=> UntouchedOK
  BY <1>1 DEF UntouchedOK
<1> QED
  BY <1>1, <1>2, <1>3, <1>4, <1>5 DEF IsProof

(* The invariant holds of every behaviour.                                 *)
THEOREM MerkleInvariant == Spec => []Inv
<1>1. Inv /\ [Next]_vars => Inv'
  <2>1. Inv /\ UNCHANGED vars => Inv'
    BY DEF vars, Inv, TreeOK, OutcomeOK, UntouchedOK, SignaturesOK, NoneForged, RecordedRoot
  <2> QED
    BY <2>1, CutInv, EditInv, VerifyInv DEF Next
<1> QED
  BY <1>1, InitInv, PTL DEF Spec

-----------------------------------------------------------------------------
(* What an outcome says of the checks behind it (verifyProof).             *)
LEMMA VerifiedMeans ==
  ASSUME NEW p, NEW e, NEW held, Outcome(p, e, held) = "verified"
  PROVE  /\ SignatureFindings(RootInput(p), p.signature, held) = {}
         /\ PositionFindings(p) = {} /\ RootFindings(p) = {}
         /\ verifyEventIntegrity(e, held) = {} /\ e.hash = p.leaf
<1>1. p.conforms /\ Findings(p, e, held) = {}
  BY DEF Outcome
<1>2. p.supported
  BY <1>1 DEF Findings
<1>3. /\ SignatureFindings(RootInput(p), p.signature, held) = {}
      /\ PositionFindings(p) = {} /\ RootFindings(p) = {} /\ LeafFindings(p, e, held) = {}
  BY <1>1, <1>2 DEF Findings, checkDeclaredDocumentSignature
<1>4. verifyEventIntegrity(e, held) = {} /\ e.hash = p.leaf
  BY <1>3 DEF LeafFindings
<1> QED
  BY <1>3, <1>4

LEMMA VerifiedFrom ==
  ASSUME NEW p, NEW e, NEW held, p.conforms, p.supported,
         SignatureFindings(RootInput(p), p.signature, held) = {},
         PositionFindings(p) = {}, RootFindings(p) = {},
         verifyEventIntegrity(e, held) = {}, e.hash = p.leaf
  PROVE  Outcome(p, e, held) = "verified"
<1>1. LeafFindings(p, e, held) = {}
  BY DEF LeafFindings
<1>2. Findings(p, e, held) = {}
  BY <1>1 DEF Findings, checkDeclaredDocumentSignature
<1> QED
  BY <1>2 DEF Outcome

(* A signature made with a key of the producer verifies under that key,    *)
(* and needs none.                                                         *)
LEMMA OwnSignatureIsSilent ==
  ASSUME NEW k \in ProducerKeys, NEW data, NEW held, held \in {{}, {k}}
  PROVE  SignatureFindings(data, {Sign(k, AlgorithmOf(k), data)}, held) = {}
<1> DEFINE s == Sign(k, AlgorithmOf(k), data)
<1>1. k.type \in {"ed25519", "rsa"} /\ k.grade = "sound"
  BY DEF ProducerKeys, Keys, Key
<1>2. KeyTypes["Ed25519"] = "ed25519" /\ KeyTypes["RSA-PSS-SHA256"] = "rsa"
      /\ "Ed25519" \in DOMAIN KeyTypes /\ "RSA-PSS-SHA256" \in DOMAIN KeyTypes
  BY DEF KeyTypes
<1>3. \E a \in DOMAIN KeyTypes : KeyTypes[a] = k.type
  BY <1>1, <1>2
<1>4. AlgorithmOf(k) \in DOMAIN KeyTypes /\ KeyTypes[AlgorithmOf(k)] = k.type
  BY <1>3 DEF AlgorithmOf
<1>5. s.algorithm = AlgorithmOf(k) /\ s.key = k /\ s.data = data /\ s.form = "sound"
  BY DEF Sign
<1> HIDE DEF s
<1>6. isSupportedSignatureAlgorithm(s.algorithm)
  BY <1>4, <1>5 DEF isSupportedSignatureAlgorithm
<1>7. verifySignature(data, s, k) = {}
  BY <1>1, <1>4, <1>5, <1>6 DEF verifySignature, Primitive
<1>8. SignatureFindings(data, {s}, held) = {}
  BY <1>6, <1>7 DEF SignatureFindings
<1> QED
  BY <1>8 DEF s

(* An event as it was sealed is verified with every key and with none.     *)
LEMMA StoredVerifies ==
  ASSUME NEW k, NEW held
  PROVE  /\ verifyEventIntegrity(Stored(k), held) = {}
         /\ Stored(k).hash = E(k) /\ calculateDigest(Stored(k)) = E(k)
<1> DEFINE e == Stored(k)
<1>1. /\ e.body = k /\ e.specVersion = "1.0" /\ e.shape = {"0.1", "1.0"} /\ e.canonical /\ e.integrity
      /\ e.canonicalization = "RFC8785" /\ e.hashAlgorithm = "SHA-256" /\ e.signature = {}
      /\ e.hash = calculateDigest(Event(k))
  BY DEF Stored, sealEvent, Event, SPEC_VERSION, SUPPORTED_SPEC_VERSIONS
<1>2. Input(e) = Input(Event(k))
  BY <1>1 DEF Input, Event, SPEC_VERSION, SUPPORTED_SPEC_VERSIONS
<1>3. e.hash = calculateDigest(e)
  BY <1>1, <1>2 DEF calculateDigest
<1> HIDE DEF e
<1>4. e.hash # NoDigest /\ e.hash # Short
  BY <1>3, <<"event", Input(e)>>[1] = "event", <<"short">>[1] = "short"
     DEF calculateDigest, NoDigest, Short
<1>5. validateEvent(e) = {}
  <2>1. declaredSpecVersion(e) = "supported"
    BY <1>1 DEF declaredSpecVersion, SUPPORTED_SPEC_VERSIONS
  <2>2. Conforms(e, e.specVersion)
    BY <1>1 DEF Conforms, None
  <2> QED
    BY <2>1, <2>2 DEF validateEvent
<1>6. checkSignature(e, held) = {}
  BY <1>1 DEF checkSignature, SignatureFindings
<1>7. verifyEventIntegrity(e, held) = {}
  BY <1>1, <1>3, <1>4, <1>5, <1>6 DEF verifyEventIntegrity
<1> QED
  BY <1>3, <1>7 DEF e, E

(* A signature changes nothing an event is verified by but the signature.  *)
LEMMA SignedVerifies ==
  ASSUME NEW j, NEW k \in ProducerKeys, NEW held, held \in {{}, {k}}
  PROVE  verifyEventIntegrity(SignEvent(Stored(j), k), held) = {}
         /\ SignEvent(Stored(j), k).hash = E(j)
<1> DEFINE e == Stored(j)
           f == SignEvent(e, k)
<1>1. /\ DOMAIN e = {"body", "specVersion", "shape", "canonical", "integrity",
                     "canonicalization", "hashAlgorithm", "hash", "signature"}
      /\ verifyEventIntegrity(e, held) = {} /\ e.hash = E(j) /\ calculateDigest(e) = E(j)
  BY StoredVerifies DEF Stored, sealEvent, Event
<1> HIDE DEF e
<1>2. /\ f.body = e.body /\ f.specVersion = e.specVersion /\ f.shape = e.shape
      /\ f.canonical = e.canonical /\ f.integrity = e.integrity
      /\ f.canonicalization = e.canonicalization /\ f.hashAlgorithm = e.hashAlgorithm
      /\ f.hash = e.hash /\ f.signature = {Sign(k, AlgorithmOf(k), Input(e))}
  BY <1>1 DEF SignEvent
<1> HIDE DEF f
<1>3. Input(f) = Input(e)
  BY <1>2 DEF Input
<1>4. calculateDigest(f) = calculateDigest(e)
  BY <1>3 DEF calculateDigest
<1>5. validateEvent(f) = validateEvent(e)
  BY <1>2 DEF validateEvent, declaredSpecVersion, Conforms
<1>6. checkSignature(f, held) = {}
  BY <1>2, <1>3, OwnSignatureIsSilent DEF checkSignature
<1>7. verifyEventIntegrity(f, held) = {}
  BY <1>1, <1>2, <1>4, <1>5, <1>6 DEF verifyEventIntegrity
<1> QED
  BY <1>1, <1>2, <1>7 DEF e, f

-----------------------------------------------------------------------------
(* A verified proof against the recorded root shows that the event is a    *)
(* member of the recorded tree, and with the recorded leaf count that it   *)
(* is the leaf at the claimed index, whatever path was presented           *)
(* (verifyProof, rootFromPath, expectedSides).                             *)
LEMMA ProvesTheLeaf == Inv => VerifiedIsTheLeaf
<1> SUFFICES ASSUME Inv, outcome = "verified", leaves # << >>, proof.root = merkleRoot(leaves)
             PROVE  /\ calculateDigest(event) \in ToSet(leaves)
                    /\ proof.count = Len(leaves) =>
                         proof.index < Len(leaves) /\ leaves[proof.index + 1] = calculateDigest(event)
  BY DEF VerifiedIsTheLeaf, IsRoot
<1>1. Outcome(proof, event, key) = "verified"
  BY DEF Inv, OutcomeOK
<1>2. PositionFindings(proof) = {} /\ RootFindings(proof) = {} /\ proof.leaf = calculateDigest(event)
  BY <1>1, VerifiedMeans, VerifiedParts
<1>3. IsSeq(leaves) /\ Len(leaves) # 0
  BY LeavesFacts DEF Inv
<1>4. IsSeq(proof.path) /\ proof.index \in Nat /\ proof.count \in Nat
  BY DEF Inv, IsProof
<1>5. /\ proof.leaf \in ToSet(leaves)
      /\ proof.count = Len(leaves) => proof.index < Len(leaves) /\ leaves[proof.index + 1] = proof.leaf
  BY <1>2, <1>3, <1>4, ProofOfRootIsOfLeaf
<1> QED
  BY <1>2, <1>5

(* A verified proof whose root is that of the tree is of an event that is  *)
(* a member of the tree, and with the recorded leaf count of the leaf at   *)
(* its index (verifyProof, expectedSides).                                 *)
THEOREM VerifiedIsTheLeafHolds == Spec => []VerifiedIsTheLeaf
  BY MerkleInvariant, ProvesTheLeaf, PTL

(* A root that carries the producer's signature need not be compared with  *)
(* the recorded one: verified with the producer's key, the proof is of the *)
(* leaf at its index (checkDeclaredDocumentSignature).                     *)
LEMMA SignatureIsAnchor == Inv => SignedRootProves
<1> SUFFICES ASSUME Inv, outcome = "verified", key # {}, key = signer, proof.signature # {}
             PROVE  proof.index < Len(leaves) /\ leaves[proof.index + 1] = calculateDigest(event)
  BY DEF SignedRootProves
<1>1. Outcome(proof, event, key) = "verified" /\ leaves # << >>
  BY DEF Inv, OutcomeOK, TreeOK
<1>2. PICK k \in Keys : key = {k}
  BY DEF Inv, OutcomeOK
<1>3. PICK s \in proof.signature : TRUE
  OBVIOUS
<1>4. Silent(RootInput(proof), proof.signature, key)
  BY <1>1, VerifiedMeans DEF Silent
<1>5. s.key = k /\ s.data = RootInput(proof)
  BY <1>2, <1>3, <1>4, SilentIsSigned
<1>6. s.data = RecordedRoot
  BY <1>1, <1>2, <1>3, <1>5 DEF Inv, SignaturesOK, NoneForged
<1>7. proof.root = merkleRoot(leaves) /\ proof.count = Len(leaves)
  BY <1>5, <1>6 DEF RootInput, RecordedRoot
<1> QED
  BY <1>1, <1>7, ProvesTheLeaf DEF VerifiedIsTheLeaf, IsRoot

(* With the producer's key the signature of the root stands for the        *)
(* recorded one: what verifies is the leaf at its index (verifyProof).     *)
THEOREM SignedRootProvesHolds == Spec => []SignedRootProves
  BY MerkleInvariant, SignatureIsAnchor, PTL

(* What was cut is verified: every leaf of every tree, signed or not, with *)
(* the published key or without one (auditPath, verifyProof).              *)
LEMMA CutIsVerified == Inv => GenuineProofsVerify
<1> SUFFICES ASSUME Inv, outcome \notin {"none", "refused"}, edits = 0, key \in {{}, signer}
             PROVE  outcome = "verified"
  BY DEF GenuineProofsVerify
<1>1. outcome = Outcome(proof, event, key) /\ leaves # << >>
  BY DEF Inv, OutcomeOK, TreeOK
<1>2. /\ IsSeq(leaves) /\ \A k \in 1 .. Len(leaves) : leaves[k] = E(k) /\ IsDigest(leaves[k])
  BY <1>1, LeavesFacts DEF Inv
<1>3. UntouchedOK
  BY <1>1 DEF Inv
<1>4. PICK i \in 1 .. Len(leaves) :
        \/ signer = {} /\ proof = Genuine(leaves, i) /\ event = Stored(i)
        \/ \E k \in ProducerKeys :
             signer = {k} /\ proof = SignRoot(Genuine(leaves, i), k) /\ event = SignEvent(Stored(i), k)
  BY <1>3 DEF UntouchedOK
<1> DEFINE g == Genuine(leaves, i)
<1>5. /\ DOMAIN g = {"conforms", "supported", "leaf", "index", "path", "root", "count", "signature"}
      /\ g.conforms /\ g.supported /\ g.leaf = leaves[i] /\ g.index = i - 1
      /\ g.path = auditPath(leaves, i - 1) /\ g.root = merkleRoot(leaves) /\ g.count = Len(leaves)
      /\ g.signature = {}
  BY DEF Genuine
<1> HIDE DEF g
<1>6. CASE signer = {} /\ proof = g /\ event = Stored(i)
  <2>1. PositionFindings(proof) = {} /\ RootFindings(proof) = {}
    BY <1>2, <1>5, <1>6, CutProofsHold
  <2>2. SignatureFindings(RootInput(proof), proof.signature, key) = {}
    BY <1>5, <1>6 DEF SignatureFindings
  <2>3. verifyEventIntegrity(event, key) = {} /\ event.hash = proof.leaf
    BY <1>2, <1>5, <1>6, StoredVerifies
  <2> QED
    BY <1>1, <1>5, <1>6, <2>1, <2>2, <2>3, VerifiedFrom
<1>7. ASSUME NEW k \in ProducerKeys,
             signer = {k}, proof = SignRoot(g, k), event = SignEvent(Stored(i), k)
      PROVE  outcome = "verified"
  <2>1. proof = [g EXCEPT !.signature = {Sign(k, AlgorithmOf(k), RootInput(g))}]
    BY <1>7 DEF SignRoot
  <2>2. /\ proof.conforms /\ proof.supported /\ proof.leaf = leaves[i] /\ proof.index = i - 1
        /\ proof.path = auditPath(leaves, i - 1) /\ proof.root = merkleRoot(leaves)
        /\ proof.count = Len(leaves)
        /\ proof.signature = {Sign(k, AlgorithmOf(k), RootInput(g))}
    BY <1>5, <2>1
  <2>3. RootInput(proof) = RootInput(g)
    BY <1>5, <2>2 DEF RootInput
  <2>4. PositionFindings(proof) = {} /\ RootFindings(proof) = {}
    BY <1>2, <2>2, CutProofsHold
  <2>5. SignatureFindings(RootInput(proof), proof.signature, key) = {}
    BY <1>7, <2>2, <2>3, OwnSignatureIsSilent
  <2>6. verifyEventIntegrity(event, key) = {} /\ event.hash = proof.leaf
    BY <1>2, <1>7, <2>2, SignedVerifies
  <2> QED
    BY <1>1, <2>2, <2>4, <2>5, <2>6, VerifiedFrom
<1> QED
  BY <1>4, <1>6, <1>7 DEF g

(* A proof nobody changed verifies, whatever the size of the tree, with    *)
(* the published key or without one (auditPath, verifyProof).              *)
THEOREM GenuineProofsVerifyHolds == Spec => []GenuineProofsVerify
  BY MerkleInvariant, CutIsVerified, PTL

(* No verdict about a leaf that is not at hand is given only where the     *)
(* event that is the leaf would have been verified (verifyProof).          *)
LEMMA NoVerdictNoFailure == Inv => NoLeafHidesNothing
<1> SUFFICES ASSUME Inv, outcome = "no-leaf", NEW k \in 0 .. MaxLeaves, proof.leaf = E(k)
             PROVE  Outcome(proof, Stored(k), key) = "verified"
  BY DEF NoLeafHidesNothing
<1>1. Outcome(proof, event, key) = "no-leaf"
  BY DEF Inv, OutcomeOK
<1>2. proof.conforms /\ Findings(proof, event, key) \subseteq {"proof-leaf-unavailable"}
  BY <1>1 DEF Outcome
<1>3. proof.supported
  BY <1>2 DEF Findings
<1>4. /\ SignatureFindings(RootInput(proof), proof.signature, key) \subseteq {"proof-leaf-unavailable"}
      /\ PositionFindings(proof) \subseteq {"proof-leaf-unavailable"}
      /\ RootFindings(proof) \subseteq {"proof-leaf-unavailable"}
  BY <1>2, <1>3 DEF Findings, checkDeclaredDocumentSignature
<1>5. PositionFindings(proof) = {} /\ RootFindings(proof) = {}
  BY <1>4 DEF PositionFindings, RootFindings
<1>6. "proof-leaf-unavailable" \notin SignatureFindings(RootInput(proof), proof.signature, key)
  BY DEF SignatureFindings, verifySignature
<1>7. verifyEventIntegrity(Stored(k), key) = {} /\ Stored(k).hash = proof.leaf
  BY StoredVerifies
<1> QED
  BY <1>2, <1>3, <1>4, <1>5, <1>6, <1>7, VerifiedFrom

(* Where the event given is not the leaf's, the event that is would have   *)
(* been verified: no failure is disguised as a verdict on another event.   *)
THEOREM NoLeafHidesNothingHolds == Spec => []NoLeafHidesNothing
  BY MerkleInvariant, NoVerdictNoFailure, PTL

(* With a key, nothing is verified but what its holder signed, as it       *)
(* stands, or what carries no signature (verifySignature).                 *)
LEMMA SignedByTheHolder == Inv => AcceptedWasSigned
<1> SUFFICES ASSUME Inv, outcome = "verified", NEW k \in key
             PROVE  /\ \A s \in event.signature : s.key = k /\ s.data = Input(event)
                    /\ \A s \in proof.signature : s.key = k /\ s.data = RootInput(proof)
  BY DEF AcceptedWasSigned
<1>1. key = {k} /\ Outcome(proof, event, key) = "verified"
  BY DEF Inv, OutcomeOK
<1>2. /\ verifyEventIntegrity(event, {k}) = {}
      /\ Silent(RootInput(proof), proof.signature, key)
  BY <1>1, VerifiedMeans DEF Silent
<1>3. \A s \in event.signature : s.key = k /\ s.data = Input(event)
  BY <1>2, VerifiedWasSigned
<1> QED
  BY <1>2, <1>3, SilentIsSigned

(* What is verified with a key was signed by its holder, event and root    *)
(* as they stand (verifySignature, isDegenerateKey).                       *)
THEOREM AcceptedWasSignedHolds == Spec => []AcceptedWasSigned
  BY MerkleInvariant, SignedByTheHolder, PTL

(* A key only adds refusals, and a signature that no key could check here  *)
(* is refused with a key and without one (checkSignature).                 *)
LEMMA KeyAddsRefusals == Inv => UncheckableNeverVerifies
<1> SUFFICES ASSUME Inv, outcome = "verified"
             PROVE  /\ Outcome(proof, event, {}) = "verified"
                    /\ \A s \in event.signature \cup proof.signature : \E k \in SoundKeys :
                         verifySignature(s.data, Sign(k, s.algorithm, s.data), k) = {}
  BY DEF UncheckableNeverVerifies
<1>1. Outcome(proof, event, key) = "verified"
  BY DEF Inv, OutcomeOK
<1>2. /\ SignatureFindings(RootInput(proof), proof.signature, key) = {}
      /\ PositionFindings(proof) = {} /\ RootFindings(proof) = {}
      /\ verifyEventIntegrity(event, key) = {} /\ event.hash = proof.leaf
  BY <1>1, VerifiedMeans
<1>3. proof.conforms /\ proof.supported
  BY <1>1 DEF Outcome, Findings
<1>4. /\ SignatureFindings(RootInput(proof), proof.signature, {}) = {}
      /\ verifyEventIntegrity(event, {}) = {}
  BY <1>2, SilentWithoutKey, KeyOnlyRefuses
<1>5. Outcome(proof, event, {}) = "verified"
  BY <1>2, <1>3, <1>4, VerifiedFrom
<1>6. ASSUME NEW s \in event.signature \cup proof.signature
      PROVE  isSupportedSignatureAlgorithm(s.algorithm)
  <2>1. SignatureFindings(Input(event), event.signature, {}) = {}
    BY <1>4, VerifiedParts
  <2> QED
    BY <1>4, <2>1 DEF SignatureFindings
<1>7. ASSUME NEW a \in DOMAIN KeyTypes, NEW data
      PROVE  \E k \in SoundKeys : verifySignature(data, Sign(k, a, data), k) = {}
  <2> DEFINE k == Key("anybody", KeyTypes[a], "sound")
             s == Sign(k, a, data)
  <2>1. k \in SoundKeys /\ k.type = KeyTypes[a] /\ k.grade = "sound"
    BY DEF SoundKeys, Key
  <2>2. s.key = k /\ s.data = data /\ s.algorithm = a /\ s.form = "sound"
    BY DEF Sign
  <2> HIDE DEF k, s
  <2>3. verifySignature(data, s, k) = {}
    BY <2>1, <2>2 DEF verifySignature, Primitive, isSupportedSignatureAlgorithm
  <2> QED
    BY <2>1, <2>3 DEF s
<1> QED
  BY <1>5, <1>6, <1>7 DEF isSupportedSignatureAlgorithm

(* A key only adds refusals, and a declared signature no key could check   *)
(* is never passed over (checkSignature).                                  *)
THEOREM UncheckableNeverVerifiesHolds == Spec => []UncheckableNeverVerifies
  BY MerkleInvariant, KeyAddsRefusals, PTL
=============================================================================
