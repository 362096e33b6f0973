-------------------------- MODULE LineReaderProofs --------------------------
(***************************************************************************)
(* What a reader of event files yields and holds, proved for files of any  *)
(* length and any bytes, for every size of a chunk and every limit, and    *)
(* whatever another process does to the file meanwhile.                    *)
(*                                                                         *)
(* The invariant splits what was read in two: the text that has become     *)
(* lines, and what is pending.  The lines of the first are the first lines *)
(* of the whole text, whatever is still to come; decoding can stop and go  *)
(* on at any byte, as long as the byte held back is kept; and a line that  *)
(* is too long stays so when it grows.                                     *)
(***************************************************************************)
EXTENDS LineReader, SequenceTheorems, FiniteSetTheorems, CommonLemmas

-----------------------------------------------------------------------------
(* Decoding.                                                               *)
States == [text : Texts, carry : BOOLEAN]

(* Characters decoded, and the byte that is held back.                     *)
Weight(st) == Len(st.text) + IF st.carry THEN 1 ELSE 0

LEMMA WeightOfState ==
  ASSUME NEW st \in States
  PROVE  /\ Weight(st) \in Nat /\ Len(st.text) \in Nat /\ Len(st.text) <= Weight(st)
         /\ ~st.carry => Weight(st) = Len(st.text)
         /\ st.carry => Weight(st) = Len(st.text) + 1
<1>1. st.text \in Seq(Characters) /\ st.carry \in BOOLEAN
  BY DEF States, Texts
<1>2. Len(st.text) \in Nat
  BY <1>1
<1>3. CASE st.carry
  BY <1>2, <1>3 DEF Weight
<1>4. CASE ~st.carry
  BY <1>2, <1>4 DEF Weight
<1> QED BY <1>2, <1>3, <1>4

LEMMA CharactersOfBytes ==
  ASSUME NEW b \in Alphabet
  PROVE  /\ b # Lead /\ b # Trail => b \in Characters
         /\ Wide \in Characters /\ Replacement \in Characters
         /\ Lead # Trail
BY DEF Characters, Lead, Trail, Wide, Replacement

LEMMA ByteIsDecoded ==
  ASSUME NEW st \in States, NEW b \in Alphabet
  PROVE  /\ DecodeByte(st, b) \in States
         /\ Weight(DecodeByte(st, b)) <= Weight(st) + 1
<1> DEFINE text == IF st.carry /\ b # Trail THEN Append(st.text, Replacement) ELSE st.text
<1>1. st.text \in Texts /\ st.carry \in BOOLEAN
  BY DEF States
<1>2. text \in Texts /\ Len(text) <= Weight(st)
  <2>1. Replacement \in Characters
    BY CharactersOfBytes
  <2>2. /\ Append(st.text, Replacement) \in Texts
        /\ Len(Append(st.text, Replacement)) = Len(st.text) + 1 /\ Len(st.text) \in Nat
    BY <1>1, <2>1 DEF Texts
  <2>3. CASE st.carry /\ b # Trail
    BY <2>2, <2>3 DEF Weight
  <2>4. CASE ~(st.carry /\ b # Trail)
    <3>1. text = st.text
      BY <2>4
    <3>2. Len(st.text) <= Weight(st)
      BY WeightOfState
    <3> HIDE DEF text
    <3> QED BY <1>1, <3>1, <3>2
  <2> QED BY <2>3, <2>4
<1>3. DecodeByte(st, b) =
        CASE b = Lead -> [text |-> text, carry |-> TRUE]
          [] b = Trail -> [text |-> Append(text, IF st.carry THEN Wide ELSE Replacement),
                           carry |-> FALSE]
          [] OTHER -> [text |-> Append(text, b), carry |-> FALSE]
  BY DEF DecodeByte
<1> HIDE DEF text
<1>4. CASE b = Lead
  <2>1. DecodeByte(st, b) = [text |-> text, carry |-> TRUE]
    BY <1>3, <1>4, CharactersOfBytes
  <2> QED BY <1>1, <1>2, <2>1 DEF States, Weight, Texts
<1>5. ASSUME NEW c \in Characters, DecodeByte(st, b) = [text |-> Append(text, c), carry |-> FALSE]
      PROVE  DecodeByte(st, b) \in States /\ Weight(DecodeByte(st, b)) <= Weight(st) + 1
  BY <1>1, <1>2, <1>5 DEF States, Weight, Texts
<1>6. CASE b = Trail
  <2> DEFINE c == IF st.carry THEN Wide ELSE Replacement
  <2>1. DecodeByte(st, b) = [text |-> Append(text, c), carry |-> FALSE]
    BY <1>3, <1>6, CharactersOfBytes
  <2>2. c \in Characters
    BY CharactersOfBytes
  <2> HIDE DEF c
  <2> QED BY <1>5, <2>1, <2>2
<1>7. CASE b # Lead /\ b # Trail
  <2>1. DecodeByte(st, b) = [text |-> Append(text, b), carry |-> FALSE]
    BY <1>3, <1>7
  <2> QED BY <1>5, <1>7, <2>1, CharactersOfBytes
<1> QED BY <1>4, <1>6, <1>7

(* What was decoded before stays as it is.                                 *)
LEMMA ByteIsAppended ==
  ASSUME NEW t \in Texts, NEW u \in Texts, NEW h \in BOOLEAN, NEW b \in Alphabet
  PROVE  /\ DecodeByte([text |-> t \o u, carry |-> h], b).text
              = t \o DecodeByte([text |-> u, carry |-> h], b).text
         /\ DecodeByte([text |-> t \o u, carry |-> h], b).carry
              = DecodeByte([text |-> u, carry |-> h], b).carry
<1>1. ASSUME NEW v \in Texts, NEW c \in Characters
      PROVE  Append(t \o v, c) = t \o Append(v, c) /\ Append(v, c) \in Texts
  BY <1>1 DEF Texts
<1>2. Wide \in Characters /\ Replacement \in Characters /\ Lead # Trail
  BY CharactersOfBytes
<1> DEFINE Held(w) == IF h /\ b # Trail THEN Append(w, Replacement) ELSE w
<1>3. Held(u) \in Texts /\ Held(t \o u) = t \o Held(u)
  BY <1>1, <1>2
<1>4. \A w : DecodeByte([text |-> w, carry |-> h], b) =
        CASE b = Lead -> [text |-> Held(w), carry |-> TRUE]
          [] b = Trail -> [text |-> Append(Held(w), IF h THEN Wide ELSE Replacement), carry |-> FALSE]
          [] OTHER -> [text |-> Append(Held(w), b), carry |-> FALSE]
  BY DEF DecodeByte
<1> HIDE DEF Held
<1> DEFINE Onto(w) == DecodeByte([text |-> w, carry |-> h], b)
<1> SUFFICES Onto(t \o u).text = t \o Onto(u).text /\ Onto(t \o u).carry = Onto(u).carry
  OBVIOUS
<1>0. \A w : Onto(w) =
        CASE b = Lead -> [text |-> Held(w), carry |-> TRUE]
          [] b = Trail -> [text |-> Append(Held(w), IF h THEN Wide ELSE Replacement), carry |-> FALSE]
          [] OTHER -> [text |-> Append(Held(w), b), carry |-> FALSE]
  BY <1>4
<1> HIDE DEF Onto
<1>5. CASE b = Lead
  <2>1. \A w : Onto(w) = [text |-> Held(w), carry |-> TRUE]
    BY <1>2, <1>0, <1>5
  <2>2. Onto(t \o u) = [text |-> t \o Held(u), carry |-> TRUE]
    BY <1>3, <2>1
  <2>3. Onto(u) = [text |-> Held(u), carry |-> TRUE]
    BY <2>1
  <2> QED BY <2>2, <2>3
<1>6. ASSUME NEW c \in Characters,
             \A w : Onto(w) = [text |-> Append(Held(w), c), carry |-> FALSE]
      PROVE  Onto(t \o u).text = t \o Onto(u).text /\ Onto(t \o u).carry = Onto(u).carry
  <2> DEFINE x == Append(Held(u), c)
  <2>1. Append(t \o Held(u), c) = t \o x
    BY <1>1, <1>3
  <2>2. Onto(t \o u) = [text |-> t \o x, carry |-> FALSE]
    BY <1>3, <1>6, <2>1
  <2>3. Onto(u) = [text |-> x, carry |-> FALSE]
    BY <1>6
  <2> HIDE DEF x
  <2> QED BY <2>2, <2>3
<1>7. CASE b = Trail
  <2> DEFINE c == IF h THEN Wide ELSE Replacement
  <2>1. \A w : Onto(w) = [text |-> Append(Held(w), c), carry |-> FALSE]
    BY <1>2, <1>0, <1>7
  <2>2. c \in Characters
    BY <1>2
  <2> HIDE DEF c
  <2> QED BY <1>6, <2>1, <2>2
<1>8. CASE b # Lead /\ b # Trail
  <2>1. \A w : Onto(w) = [text |-> Append(Held(w), b), carry |-> FALSE]
    BY <1>0, <1>8
  <2> QED BY <1>6, <1>8, <2>1, CharactersOfBytes
<1> QED BY <1>5, <1>7, <1>8

IsDecoding(f, st, bytes) ==
  /\ f[0] = st
  /\ \A n \in 1 .. Len(bytes) : f[n] = DecodeByte(f[n - 1], bytes[n])

LEMMA DecodeDef ==
  ASSUME NEW st \in States, NEW bytes \in Seq(Alphabet)
  PROVE  \E f : IsDecoding(f, st, bytes) /\ DecodeFrom(st, bytes) = f[Len(bytes)]
<1> DEFINE N == Len(bytes)
           F == CHOOSE f : f = [n \in 0 .. N |-> IF n = 0 THEN st ELSE DecodeByte(f[n - 1], bytes[n])]
           step == [n \in 1 .. N |-> [x \in States |-> DecodeByte(x, bytes[n])]]
<1>1. N \in Nat /\ \A n \in 1 .. N : bytes[n] \in Alphabet
  OBVIOUS
<1>2. step \in [1 .. N -> [States -> States]]
  BY <1>1, ByteIsDecoded
<1>3. \A n \in 1 .. N : \A x \in States : step[n][x] = DecodeByte(x, bytes[n])
  OBVIOUS
<1>4. DecodeFrom(st, bytes) = F[N]
  BY DEF DecodeFrom
<1> HIDE DEF step
<1>5. PICK g : Recurs(g, N, States, st, step)
  BY <1>1, <1>2, LinearRecursion DEF IsStep
<1>6. \A n \in 1 .. N : g[n] = DecodeByte(g[n - 1], bytes[n])
  BY <1>1, <1>3, <1>5 DEF Recurs
<1>7. g = [n \in 0 .. N |-> IF n = 0 THEN st ELSE DecodeByte(g[n - 1], bytes[n])]
  BY <1>1, <1>5, <1>6 DEF Recurs
<1>8. F = [n \in 0 .. N |-> IF n = 0 THEN st ELSE DecodeByte(F[n - 1], bytes[n])]
  BY <1>7
<1> HIDE DEF F
<1>9. IsDecoding(F, st, bytes)
  <2>1. F[0] = st
    BY <1>1, <1>8
  <2>2. ASSUME NEW n \in 1 .. N PROVE F[n] = DecodeByte(F[n - 1], bytes[n])
    <3>1. n \in 0 .. N /\ n # 0
      BY <1>1
    <3> QED BY <1>8, <3>1
  <2> QED BY <2>1, <2>2 DEF IsDecoding
<1> QED BY <1>4, <1>9

(* One more byte.                                                          *)
LEMMA DecodeAppend ==
  ASSUME NEW st \in States, NEW bytes \in Seq(Alphabet), NEW b \in Alphabet
  PROVE  DecodeFrom(st, Append(bytes, b)) = DecodeByte(DecodeFrom(st, bytes), b)
<1> DEFINE N == Len(bytes)
           longer == Append(bytes, b)
<1>1. /\ N \in Nat /\ longer \in Seq(Alphabet) /\ Len(longer) = N + 1
      /\ longer[N + 1] = b /\ \A n \in 1 .. N : longer[n] = bytes[n]
  BY AppendProperties
<1> HIDE DEF longer
<1>2. PICK f : IsDecoding(f, st, bytes) /\ DecodeFrom(st, bytes) = f[N]
  BY DecodeDef
<1>3. PICK g : IsDecoding(g, st, longer) /\ DecodeFrom(st, longer) = g[N + 1]
  BY <1>1, DecodeDef
<1>4. f[0] = g[0]
  BY <1>2, <1>3 DEF IsDecoding
<1>5. ASSUME NEW n \in 1 .. N, f[n - 1] = g[n - 1] PROVE f[n] = g[n]
  <2>1. n \in 1 .. Len(longer)
    BY <1>1
  <2>2. f[n] = DecodeByte(f[n - 1], bytes[n]) /\ g[n] = DecodeByte(g[n - 1], longer[n])
    BY <1>2, <1>3, <2>1 DEF IsDecoding
  <2> QED BY <1>1, <1>5, <2>2
<1>6. f[N] = g[N]
  <2>1. \A n \in 0 .. N : f[n] = g[n]
    BY <1>1, <1>4, <1>5, LinearRecursionIsUnique
  <2> QED BY <1>1, <2>1
<1>7. N + 1 \in 1 .. Len(longer) /\ (N + 1) - 1 = N
  BY <1>1
<1>8. g[N + 1] = DecodeByte(g[(N + 1) - 1], longer[N + 1])
  BY <1>3, <1>7 DEF IsDecoding
<1> QED BY <1>1, <1>2, <1>3, <1>6, <1>7, <1>8 DEF longer

LEMMA DecodeNothing ==
  ASSUME NEW st \in States
  PROVE  DecodeFrom(st, << >>) = st
<1>1. << >> \in Seq(Alphabet) /\ Len(<< >>) = 0
  OBVIOUS
<1> QED BY <1>1, DecodeDef DEF IsDecoding

(* No more characters than bytes, with the one that is held back.          *)
LEMMA DecodeIsState ==
  ASSUME NEW st \in States, NEW bytes \in Seq(Alphabet)
  PROVE  /\ DecodeFrom(st, bytes) \in States
         /\ Weight(DecodeFrom(st, bytes)) <= Weight(st) + Len(bytes)
<1>0. \A x \in States : Weight(x) \in Nat
  BY DEF States, Texts, Weight
<1> DEFINE Holds(bs) == /\ DecodeFrom(st, bs) \in States
                        /\ Weight(DecodeFrom(st, bs)) <= Weight(st) + Len(bs)
           Good == {bs \in Seq(Alphabet) : Holds(bs)}
<1>1. << >> \in Good
  <2>1. << >> \in Seq(Alphabet) /\ Len(<< >>) = 0
    OBVIOUS
  <2> QED BY <1>0, <2>1, DecodeNothing
<1>2. ASSUME NEW bs \in Seq(Alphabet), NEW b \in Alphabet, bs \in Good
      PROVE  Append(bs, b) \in Good
  <2>1. /\ Append(bs, b) \in Seq(Alphabet) /\ Len(Append(bs, b)) = Len(bs) + 1 /\ Len(bs) \in Nat
    OBVIOUS
  <2>2. DecodeFrom(st, Append(bs, b)) = DecodeByte(DecodeFrom(st, bs), b)
    BY DecodeAppend
  <2>3. Holds(bs)
    BY <1>2
  <2>4. Holds(Append(bs, b))
    BY <1>0, <2>1, <2>2, <2>3, ByteIsDecoded
  <2> HIDE DEF Holds
  <2> QED BY <2>1, <2>4
<1>3. Seq(Alphabet) \subseteq Good
  <2> HIDE DEF Good
  <2> QED BY <1>1, <1>2, SequenceInduction
<1> QED BY <1>3

(* Decoding can stop at any byte and go on there.                          *)
LEMMA DecodeGoesOn ==
  ASSUME NEW st \in States, NEW first \in Seq(Alphabet), NEW bytes \in Seq(Alphabet)
  PROVE  DecodeFrom(st, first \o bytes) = DecodeFrom(DecodeFrom(st, first), bytes)
<1> DEFINE Good == {bs \in Seq(Alphabet) :
                      DecodeFrom(st, first \o bs) = DecodeFrom(DecodeFrom(st, first), bs)}
<1>0. DecodeFrom(st, first) \in States
  BY DecodeIsState
<1>1. << >> \in Good
  <2>1. << >> \in Seq(Alphabet) /\ first \o << >> = first
    OBVIOUS
  <2> QED BY <1>0, <2>1, DecodeNothing
<1>2. ASSUME NEW bs \in Seq(Alphabet), NEW b \in Alphabet, bs \in Good
      PROVE  Append(bs, b) \in Good
  <2>1. /\ Append(bs, b) \in Seq(Alphabet) /\ first \o bs \in Seq(Alphabet)
        /\ first \o Append(bs, b) = Append(first \o bs, b)
    OBVIOUS
  <2>2. DecodeFrom(st, Append(first \o bs, b)) = DecodeByte(DecodeFrom(st, first \o bs), b)
    BY <2>1, DecodeAppend
  <2>3. DecodeFrom(DecodeFrom(st, first), Append(bs, b))
          = DecodeByte(DecodeFrom(DecodeFrom(st, first), bs), b)
    BY <1>0, DecodeAppend
  <2> QED BY <1>2, <2>1, <2>2, <2>3
<1>3. Seq(Alphabet) \subseteq Good
  <2> HIDE DEF Good
  <2> QED BY <1>1, <1>2, SequenceInduction
<1> QED BY <1>3

LEMMA DecodeAppends ==
  ASSUME NEW t \in Texts, NEW u \in Texts, NEW h \in BOOLEAN, NEW bytes \in Seq(Alphabet)
  PROVE  LET alone == DecodeFrom([text |-> u, carry |-> h], bytes)
         IN DecodeFrom([text |-> t \o u, carry |-> h], bytes)
              = [text |-> t \o alone.text, carry |-> alone.carry]
<1> DEFINE Alone(bs) == DecodeFrom([text |-> u, carry |-> h], bs)
           After(bs) == DecodeFrom([text |-> t \o u, carry |-> h], bs)
           Good == {bs \in Seq(Alphabet) :
                      After(bs) = [text |-> t \o Alone(bs).text, carry |-> Alone(bs).carry]}
<1>0. [text |-> u, carry |-> h] \in States /\ [text |-> t \o u, carry |-> h] \in States
  BY DEF States, Texts
<1>1. << >> \in Good
  <2>1. << >> \in Seq(Alphabet)
    OBVIOUS
  <2>2. Alone(<< >>) = [text |-> u, carry |-> h]
    BY <1>0, DecodeNothing
  <2>3. After(<< >>) = [text |-> t \o u, carry |-> h]
    BY <1>0, DecodeNothing
  <2> HIDE DEF Alone, After
  <2> QED BY <2>1, <2>2, <2>3
<1>2. ASSUME NEW bs \in Seq(Alphabet), NEW b \in Alphabet, bs \in Good
      PROVE  Append(bs, b) \in Good
  <2>1. Append(bs, b) \in Seq(Alphabet)
    OBVIOUS
  <2>2. Alone(bs) \in States
    BY <1>0, DecodeIsState
  <2>3. After(bs) = [text |-> t \o Alone(bs).text, carry |-> Alone(bs).carry]
    BY <1>2
  <2>4. Alone(Append(bs, b)) = DecodeByte(Alone(bs), b)
    BY <1>0, DecodeAppend
  <2>5. After(Append(bs, b)) = DecodeByte(After(bs), b)
    BY <1>0, DecodeAppend
  <2> HIDE DEF Alone, After
  <2>6. /\ Alone(bs).text \in Texts /\ Alone(bs).carry \in BOOLEAN
        /\ Alone(bs) = [text |-> Alone(bs).text, carry |-> Alone(bs).carry]
    BY <2>2 DEF States
  <2>7. /\ After(Append(bs, b)).text = t \o Alone(Append(bs, b)).text
        /\ After(Append(bs, b)).carry = Alone(Append(bs, b)).carry
    <3> DEFINE w == Alone(bs).text
               k == Alone(bs).carry
    <3>1. w \in Texts /\ k \in BOOLEAN /\ Alone(bs) = [text |-> w, carry |-> k]
      BY <2>6
    <3>2. After(bs) = [text |-> t \o w, carry |-> k]
      BY <2>3
    <3> HIDE DEF w, k
    <3>3. /\ DecodeByte([text |-> t \o w, carry |-> k], b).text
               = t \o DecodeByte([text |-> w, carry |-> k], b).text
          /\ DecodeByte([text |-> t \o w, carry |-> k], b).carry
               = DecodeByte([text |-> w, carry |-> k], b).carry
      BY <3>1, ByteIsAppended
    <3> QED BY <2>4, <2>5, <3>1, <3>2, <3>3
  <2>8. After(Append(bs, b)) \in States
    <3>1. After(bs) \in States
      BY <2>3, <2>6 DEF States, Texts
    <3> QED BY <2>5, <3>1, ByteIsDecoded
  <2>9. After(Append(bs, b)) = [text |-> t \o Alone(Append(bs, b)).text,
                                carry |-> Alone(Append(bs, b)).carry]
    BY <2>7, <2>8 DEF States
  <2> QED BY <2>1, <2>9
<1>3. Seq(Alphabet) \subseteq Good
  <2> HIDE DEF Good
  <2> QED BY <1>1, <1>2, SequenceInduction
<1> QED BY <1>3

-----------------------------------------------------------------------------
(* Splitting into lines.                                                   *)
NextLines(lines, c) ==
  IF c = Newline THEN Append(lines, << >>)
  ELSE [lines EXCEPT ![Len(lines)] = Append(@, c)]

IsSplitting(f, text) ==
  /\ f[0] = << << >> >>
  /\ \A n \in 1 .. Len(text) : f[n] = NextLines(f[n - 1], text[n])

SomeLines == Seq(Texts) \ {<< >>}

LEMMA LinesAndLast ==
  ASSUME NEW lines \in SomeLines
  PROVE  \E ended \in Seq(Texts), last \in Texts : lines = Append(ended, last)
BY SequenceEmptyOrAppend DEF SomeLines

LEMMA AppendIsSomeLines ==
  ASSUME NEW ended \in Seq(Texts), NEW last \in Texts
  PROVE  Append(ended, last) \in SomeLines
BY AppendProperties DEF SomeLines

(* A newline ends the last line, any other character goes on with it.      *)
LEMMA NextLinesOf ==
  ASSUME NEW ended \in Seq(Texts), NEW last \in Texts, NEW c \in Characters
  PROVE  NextLines(Append(ended, last), c) =
           IF c = Newline THEN Append(Append(ended, last), << >>)
           ELSE Append(ended, Append(last, c))
<1>1. CASE c = Newline
  BY <1>1 DEF NextLines
<1>2. CASE c # Newline
  <2> DEFINE lines == Append(ended, last)
             longer == Append(last, c)
  <2>1. longer \in Texts
    BY DEF Texts
  <2>2. /\ lines \in Seq(Texts) /\ Len(lines) = Len(ended) + 1 /\ Len(ended) \in Nat
        /\ lines[Len(ended) + 1] = last /\ \A i \in 1 .. Len(ended) : lines[i] = ended[i]
    BY AppendProperties
  <2>3. NextLines(lines, c) = [lines EXCEPT ![Len(ended) + 1] = longer]
    BY <1>2, <2>2 DEF NextLines
  <2> HIDE DEF lines, longer
  <2>4. /\ [lines EXCEPT ![Len(ended) + 1] = longer] \in Seq(Texts)
        /\ Len([lines EXCEPT ![Len(ended) + 1] = longer]) = Len(ended) + 1
        /\ \A i \in 1 .. Len(ended) + 1 :
             [lines EXCEPT ![Len(ended) + 1] = longer][i] = IF i = Len(ended) + 1 THEN longer ELSE lines[i]
    BY <2>1, <2>2, ExceptSeq
  <2> DEFINE changed == [lines EXCEPT ![Len(ended) + 1] = longer]
             wanted == Append(ended, longer)
  <2>5. /\ wanted \in Seq(Texts) /\ Len(wanted) = Len(ended) + 1
        /\ wanted[Len(ended) + 1] = longer /\ \A i \in 1 .. Len(ended) : wanted[i] = ended[i]
    BY <2>1, AppendProperties
  <2> HIDE DEF changed, wanted
  <2>6. changed = wanted
    <3>1. changed \in Seq(Texts) /\ Len(changed) = Len(ended) + 1
      BY <2>4 DEF changed
    <3>2. \A i \in 1 .. Len(ended) + 1 : changed[i] = IF i = Len(ended) + 1 THEN longer ELSE lines[i]
      BY <2>4 DEF changed
    <3>3. \A i \in 1 .. Len(changed) : changed[i] = wanted[i]
      BY <2>2, <2>5, <3>1, <3>2
    <3> QED BY <2>5, <3>1, <3>3, SeqEqual
  <2> QED BY <1>2, <2>3, <2>6 DEF changed, wanted, lines, longer
<1> QED BY <1>1, <1>2

LEMMA NextLinesIsSome ==
  ASSUME NEW lines \in SomeLines, NEW c \in Characters
  PROVE  NextLines(lines, c) \in SomeLines
<1>1. PICK ended \in Seq(Texts), last \in Texts : lines = Append(ended, last)
  BY LinesAndLast
<1>2. Append(last, c) \in Texts /\ << >> \in Texts /\ Append(ended, last) \in Seq(Texts)
  BY DEF Texts
<1> QED BY <1>1, <1>2, NextLinesOf, AppendIsSomeLines

LEMMA LinesDef ==
  ASSUME NEW text \in Texts
  PROVE  \E f : IsSplitting(f, text) /\ LinesOf(text) = f[Len(text)]
<1> DEFINE N == Len(text)
           first == << << >> >>
           F == CHOOSE f : f = [n \in 0 .. N |-> IF n = 0 THEN first
                                                 ELSE NextLines(f[n - 1], text[n])]
           step == [n \in 1 .. N |-> [x \in SomeLines |-> NextLines(x, text[n])]]
<1>1. N \in Nat /\ \A n \in 1 .. N : text[n] \in Characters
  BY DEF Texts
<1>2. step \in [1 .. N -> [SomeLines -> SomeLines]]
  BY <1>1, NextLinesIsSome
<1>3. \A n \in 1 .. N : \A x \in SomeLines : step[n][x] = NextLines(x, text[n])
  OBVIOUS
<1>4. LinesOf(text) = F[N]
  BY DEF LinesOf, NextLines
<1> HIDE DEF step
<1>0. first \in SomeLines
  BY DEF SomeLines, Texts
<1> HIDE DEF first
<1>5. PICK g : Recurs(g, N, SomeLines, first, step)
  BY <1>0, <1>1, <1>2, LinearRecursion DEF IsStep
<1>6. \A n \in 1 .. N : g[n] = NextLines(g[n - 1], text[n])
  BY <1>1, <1>3, <1>5 DEF Recurs
<1>7. g = [n \in 0 .. N |-> IF n = 0 THEN first ELSE NextLines(g[n - 1], text[n])]
  <2>1. \A n \in 0 .. N : g[n] = IF n = 0 THEN first ELSE NextLines(g[n - 1], text[n])
    BY <1>1, <1>5, <1>6 DEF Recurs
  <2>2. g = [n \in 0 .. N |-> g[n]]
    BY <1>5 DEF Recurs
  <2> QED BY <2>1, <2>2
<1>8. F = [n \in 0 .. N |-> IF n = 0 THEN first ELSE NextLines(F[n - 1], text[n])]
  BY <1>7
<1> HIDE DEF F
<1>9. IsSplitting(F, text)
  <2>1. F[0] = first
    BY <1>1, <1>8
  <2>2. ASSUME NEW n \in 1 .. N PROVE F[n] = NextLines(F[n - 1], text[n])
    <3>1. n \in 0 .. N /\ n # 0
      BY <1>1
    <3> QED BY <1>8, <3>1
  <2> QED BY <2>1, <2>2 DEF IsSplitting, first
<1> QED BY <1>4, <1>9

LEMMA LinesOfNothing == LinesOf(<< >>) = << << >> >>
<1>1. << >> \in Texts /\ Len(<< >>) = 0
  BY DEF Texts
<1> QED BY <1>1, LinesDef DEF IsSplitting

LEMMA LinesAppend ==
  ASSUME NEW text \in Texts, NEW c \in Characters
  PROVE  LinesOf(Append(text, c)) = NextLines(LinesOf(text), c)
<1> DEFINE N == Len(text)
           longer == Append(text, c)
<1>1. /\ N \in Nat /\ longer \in Texts /\ Len(longer) = N + 1
      /\ longer[N + 1] = c /\ \A n \in 1 .. N : longer[n] = text[n]
  BY AppendProperties DEF Texts
<1> HIDE DEF longer
<1>2. PICK f : IsSplitting(f, text) /\ LinesOf(text) = f[N]
  BY LinesDef
<1>3. PICK g : IsSplitting(g, longer) /\ LinesOf(longer) = g[N + 1]
  BY <1>1, LinesDef
<1>4. f[0] = g[0]
  BY <1>2, <1>3 DEF IsSplitting
<1>5. ASSUME NEW n \in 1 .. N, f[n - 1] = g[n - 1] PROVE f[n] = g[n]
  <2>1. n \in 1 .. Len(longer)
    BY <1>1
  <2>2. f[n] = NextLines(f[n - 1], text[n]) /\ g[n] = NextLines(g[n - 1], longer[n])
    BY <1>2, <1>3, <2>1 DEF IsSplitting
  <2> QED BY <1>1, <1>5, <2>2
<1>6. f[N] = g[N]
  <2>1. \A n \in 0 .. N : f[n] = g[n]
    BY <1>1, <1>4, <1>5, LinearRecursionIsUnique
  <2> QED BY <1>1, <2>1
<1>7. N + 1 \in 1 .. Len(longer) /\ (N + 1) - 1 = N
  BY <1>1
<1>8. g[N + 1] = NextLines(g[(N + 1) - 1], longer[N + 1])
  BY <1>3, <1>7 DEF IsSplitting
<1> QED BY <1>1, <1>2, <1>3, <1>6, <1>7, <1>8 DEF longer

LEMMA LineAssociates ==
  ASSUME NEW ended \in Seq(Texts), NEW lines \in Seq(Texts), NEW line \in Texts
  PROVE  /\ Append(ended \o lines, line) = ended \o Append(lines, line)
         /\ ended \o lines \in Seq(Texts)
  OBVIOUS

(* The lines that have ended stay the first lines, whatever is still to    *)
(* come.                                                                   *)
LEMMA EndedLinesStay ==
  ASSUME NEW text \in Texts, NEW ended \in Seq(Texts), NEW last \in Texts,
         LinesOf(text) = Append(ended, last), NEW more \in Texts
  PROVE  \E rest \in SomeLines : LinesOf(text \o more) = ended \o rest
<1> DEFINE Good == {u \in Seq(Characters) : \E rest \in SomeLines : LinesOf(text \o u) = ended \o rest}
<1>1. << >> \in Good
  <2>1. << >> \in Seq(Characters) /\ text \o << >> = text
    BY DEF Texts
  <2>2. Append(ended, last) = ended \o << last >> /\ << last >> \in SomeLines
    BY AppendIsConcat DEF SomeLines
  <2> QED BY <2>1, <2>2
<1>2. ASSUME NEW u \in Seq(Characters), NEW c \in Characters, u \in Good
      PROVE  Append(u, c) \in Good
  <2>1. /\ Append(u, c) \in Seq(Characters) /\ text \o u \in Texts
        /\ text \o Append(u, c) = Append(text \o u, c)
    BY DEF Texts
  <2>2. PICK rest \in SomeLines : LinesOf(text \o u) = ended \o rest
    BY <1>2
  <2>3. PICK start \in Seq(Texts), l \in Texts : rest = Append(start, l)
    BY LinesAndLast
  <2>4. ended \o rest = Append(ended \o start, l) /\ ended \o start \in Seq(Texts)
    BY <2>3
  <2>5. LinesOf(Append(text \o u, c)) = NextLines(Append(ended \o start, l), c)
    BY <2>1, <2>2, <2>4, LinesAppend
  <2>6. CASE c = Newline
    <3>1. LinesOf(Append(text \o u, c)) = Append(Append(ended \o start, l), << >>)
      BY <2>4, <2>5, <2>6, NextLinesOf
    <3>2. << >> \in Texts
      BY DEF Texts
    <3>3. Append(Append(ended \o start, l), << >>) = ended \o Append(rest, << >>)
      <4> DEFINE empty == << >>
      <4>1. empty \in Texts /\ rest \in Seq(Texts)
        BY <3>2 DEF SomeLines
      <4> HIDE DEF empty
      <4>2. Append(ended \o rest, empty) = ended \o Append(rest, empty)
        BY <4>1, LineAssociates
      <4> QED BY <2>4, <4>2 DEF empty
    <3>4. Append(rest, << >>) \in SomeLines
      BY <3>2, AppendProperties DEF SomeLines
    <3> QED BY <2>1, <3>1, <3>3, <3>4
  <2>7. CASE c # Newline
    <3>1. LinesOf(Append(text \o u, c)) = Append(ended \o start, Append(l, c))
      BY <2>4, <2>5, <2>7, NextLinesOf
    <3>2. Append(l, c) \in Texts
      BY DEF Texts
    <3>3. Append(ended \o start, Append(l, c)) = ended \o Append(start, Append(l, c))
      <4> DEFINE longer == Append(l, c)
      <4>1. longer \in Texts
        BY <3>2
      <4> HIDE DEF longer
      <4>2. Append(ended \o start, longer) = ended \o Append(start, longer)
        BY <4>1, LineAssociates
      <4> QED BY <4>2 DEF longer
    <3>4. Append(start, Append(l, c)) \in SomeLines
      BY <3>2, AppendIsSomeLines
    <3> QED BY <2>1, <3>1, <3>3, <3>4
  <2> QED BY <2>6, <2>7
<1>3. Seq(Characters) \subseteq Good
  <2> HIDE DEF Good
  <2> QED BY <1>1, <1>2, SequenceInduction
<1> QED BY <1>3 DEF Texts

(* Text without a newline goes on with the last line.                      *)
LEMMA LastLineGoesOn ==
  ASSUME NEW text \in Texts, NEW ended \in Seq(Texts), NEW last \in Texts,
         LinesOf(text) = Append(ended, last), NEW more \in Texts,
         \A i \in 1 .. Len(more) : more[i] # Newline
  PROVE  LinesOf(text \o more) = Append(ended, last \o more)
<1> DEFINE Plain(u) == \A i \in 1 .. Len(u) : u[i] # Newline
           Good == {u \in Seq(Characters) : Plain(u) => LinesOf(text \o u) = Append(ended, last \o u)}
<1>1. << >> \in Good
  <2>1. << >> \in Seq(Characters) /\ text \o << >> = text /\ last \o << >> = last
    BY DEF Texts
  <2> QED BY <2>1
<1>2. ASSUME NEW u \in Seq(Characters), NEW c \in Characters, u \in Good
      PROVE  Append(u, c) \in Good
  <2> SUFFICES ASSUME Plain(Append(u, c))
               PROVE  LinesOf(text \o Append(u, c)) = Append(ended, last \o Append(u, c))
    BY AppendProperties
  <2>1. /\ text \o u \in Texts /\ text \o Append(u, c) = Append(text \o u, c)
        /\ last \o u \in Texts /\ last \o Append(u, c) = Append(last \o u, c)
    <3>1. last \in Seq(Characters) /\ text \in Seq(Characters)
      BY DEF Texts
    <3> QED BY <3>1, AppendAssociates DEF Texts
  <2>2. /\ Len(Append(u, c)) = Len(u) + 1 /\ Len(u) \in Nat /\ Append(u, c)[Len(u) + 1] = c
        /\ \A i \in 1 .. Len(u) : Append(u, c)[i] = u[i]
    BY AppendProperties
  <2>3. Plain(u) /\ c # Newline
    BY <2>2
  <2>4. LinesOf(text \o u) = Append(ended, last \o u)
    BY <1>2, <2>3
  <2>5. LinesOf(Append(text \o u, c)) = NextLines(Append(ended, last \o u), c)
    BY <2>1, <2>4, LinesAppend
  <2>6. NextLines(Append(ended, last \o u), c) = Append(ended, Append(last \o u, c))
    BY <2>1, <2>3, NextLinesOf
  <2> QED BY <2>1, <2>5, <2>6
<1>3. Seq(Characters) \subseteq Good
  <2> HIDE DEF Good
  <2> QED BY <1>1, <1>2, SequenceInduction
<1> QED BY <1>3 DEF Texts

-----------------------------------------------------------------------------
(* Judging lines.                                                          *)
EventSet == [kind : {"event"}, line : Nat, text : Texts]

LEMMA LeastOfText ==
  ASSUME NEW N \in Nat, NEW T \in SUBSET (1 .. N), T # {}
  PROVE  /\ \E i \in T : \A j \in T : i <= j
         /\ \E i \in T : \A j \in T : i >= j
<1>1. \E i \in T : \A j \in T : i <= j
  <2>1. T \in SUBSET Nat
    OBVIOUS
  <2> QED BY <2>1, LeastNumber
<1>2. \E i \in T : \A j \in T : i >= j
  <2> DEFINE U == {k \in Nat : N - k \in T}
  <2>1. PICK t \in T : TRUE
    OBVIOUS
  <2>2. N - t \in Nat /\ N - (N - t) = t
    OBVIOUS
  <2>3. U \in SUBSET Nat /\ U # {}
    BY <2>2
  <2>4. PICK n \in U : \A m \in U : n <= m
    <3> HIDE DEF U
    <3> QED BY <2>3, LeastNumber
  <2>5. ASSUME NEW j \in T PROVE N - n >= j
    <3>1. N - j \in Nat /\ N - (N - j) = j /\ j \in Nat
      OBVIOUS
    <3>2. N - j \in U
      BY <3>1
    <3> QED BY <2>4, <3>1, <3>2
  <2> QED BY <2>4, <2>5
<1> QED BY <1>1, <1>2

LEMMA TrimFacts ==
  ASSUME NEW text \in Texts
  PROVE  /\ Trim(text) \in Texts
         /\ Len(Trim(text)) \in Nat /\ Len(text) \in Nat /\ Len(Trim(text)) <= Len(text)
<1>1. text \in Seq(Characters) /\ Len(text) \in Nat /\ DOMAIN text = 1 .. Len(text)
  BY DEF Texts
<1> DEFINE solid == {i \in DOMAIN text : text[i] \notin Whitespace}
           a == CHOOSE i \in solid : \A j \in solid : i <= j
           b == CHOOSE i \in solid : \A j \in solid : i >= j
<1>2. CASE solid = {}
  <2>1. Trim(text) = << >>
    BY <1>2 DEF Trim
  <2> QED BY <1>1, <2>1 DEF Texts
<1>3. CASE solid # {}
  <2>1. Trim(text) = SubSeq(text, a, b)
    BY <1>3 DEF Trim
  <2>2. solid \in SUBSET (1 .. Len(text))
    BY <1>1
  <2> HIDE DEF solid
  <2>3. a \in solid /\ b \in solid
    BY <1>1, <1>3, <2>2, LeastOfText
  <2> HIDE DEF a, b
  <2>4. a \in 1 .. Len(text) /\ b \in 1 .. Len(text)
    BY <2>2, <2>3
  <2>5. /\ SubSeq(text, a, b) \in Seq(Characters)
        /\ Len(SubSeq(text, a, b)) = IF a <= b THEN b - a + 1 ELSE 0
    BY <1>1, <2>4
  <2> QED BY <1>1, <2>1, <2>4, <2>5 DEF Texts
<1> QED BY <1>2, <1>3

LEMMA TrimOfNothing == << >> \in Texts /\ Trim(<< >>) = << >>
BY DEF Trim, Texts

LEMMA EventInSet ==
  ASSUME NEW n \in Nat, NEW text \in Texts
  PROVE  Event(n, text) \in EventSet /\ Event(n, text).text = Trim(text)
BY TrimFacts DEF Event, EventSet

AnyFatal(lines) == \E m \in 1 .. Len(lines) : Fatal(lines[m])

NextEvents(events, lines, n) ==
  IF Trim(lines[n]) = << >> \/ \E m \in 1 .. n : Fatal(lines[m]) THEN events
  ELSE Append(events, Event(n, lines[n]))

IsJudging(f, lines) ==
  /\ f[0] = << >>
  /\ \A n \in 1 .. Len(lines) : f[n] = NextEvents(f[n - 1], lines, n)
  /\ \A n \in 0 .. Len(lines) : f[n] \in Seq(EventSet)

LEMMA EventsDef ==
  ASSUME NEW lines \in Seq(Texts)
  PROVE  \E f : IsJudging(f, lines) /\ EventsOf(lines) = f[Len(lines)]
<1> DEFINE N == Len(lines)
           X == Seq(EventSet)
           none == << >>
           F == CHOOSE f : f = [n \in 0 .. N |-> IF n = 0 THEN none
                                                 ELSE NextEvents(f[n - 1], lines, n)]
           step == [n \in 1 .. N |-> [x \in X |-> NextEvents(x, lines, n)]]
<1>1. N \in Nat /\ \A n \in 1 .. N : lines[n] \in Texts
  OBVIOUS
<1>2. step \in [1 .. N -> [X -> X]]
  <2>1. ASSUME NEW n \in 1 .. N, NEW x \in X PROVE NextEvents(x, lines, n) \in X
    <3>1. Event(n, lines[n]) \in EventSet
      BY <1>1, EventInSet
    <3> DEFINE e == Event(n, lines[n])
    <3> HIDE DEF e
    <3>2. Append(x, e) \in X
      BY <3>1 DEF e
    <3> HIDE DEF X
    <3> QED BY <3>2 DEF NextEvents, e
  <2> HIDE DEF X
  <2> QED BY <2>1
<1>3. \A n \in 1 .. N : \A x \in X : step[n][x] = NextEvents(x, lines, n)
  OBVIOUS
<1>4. EventsOf(lines) = F[N]
  BY DEF EventsOf, NextEvents
<1> HIDE DEF step
<1>0. none \in X
  OBVIOUS
<1>00. IsStep(step, N, X)
  BY <1>2 DEF IsStep
<1> HIDE DEF none, X
<1>5. PICK g : Recurs(g, N, X, none, step)
  BY <1>0, <1>1, <1>00, LinearRecursion
<1>6. \A n \in 1 .. N : g[n] = NextEvents(g[n - 1], lines, n)
  <2> SUFFICES ASSUME NEW n \in 1 .. N PROVE g[n] = NextEvents(g[n - 1], lines, n)
    OBVIOUS
  <2>1. n - 1 \in 0 .. N
    BY <1>1
  <2>2. g[n - 1] \in X /\ g[n] = step[n][g[n - 1]]
    BY <1>5, <2>1 DEF Recurs
  <2> QED BY <1>3, <2>2
<1>7. g = [n \in 0 .. N |-> IF n = 0 THEN none ELSE NextEvents(g[n - 1], lines, n)]
  <2>1. \A n \in 0 .. N : g[n] = IF n = 0 THEN none ELSE NextEvents(g[n - 1], lines, n)
    BY <1>1, <1>5, <1>6 DEF Recurs
  <2>2. g = [n \in 0 .. N |-> g[n]]
    BY <1>5 DEF Recurs
  <2> QED BY <2>1, <2>2
<1>8. F = [n \in 0 .. N |-> IF n = 0 THEN none ELSE NextEvents(F[n - 1], lines, n)]
  BY <1>7
<1> HIDE DEF F
<1>9. \A n \in 1 .. N : F[n] = NextEvents(F[n - 1], lines, n)
  <2> SUFFICES ASSUME NEW n \in 1 .. N PROVE F[n] = NextEvents(F[n - 1], lines, n)
    OBVIOUS
  <2>1. n \in 0 .. N /\ n # 0
    BY <1>1
  <2> QED BY <1>8, <2>1
<1>10. F[0] = none
  BY <1>1, <1>8
<1>11. \A n \in 0 .. N : F[n] = g[n]
  <2>1. g[0] = F[0]
    BY <1>5, <1>10 DEF Recurs
  <2>2. ASSUME NEW n \in 1 .. N, F[n - 1] = g[n - 1] PROVE F[n] = g[n]
    BY <1>6, <1>9, <2>2
  <2> QED BY <1>1, <2>1, <2>2, LinearRecursionIsUnique
<1>12. IsJudging(F, lines)
  <2>1. \A n \in 0 .. N : F[n] \in X
    BY <1>5, <1>11 DEF Recurs
  <2> QED BY <1>9, <1>10, <2>1 DEF IsJudging, none, X
<1> QED BY <1>4, <1>12

LEMMA EventsAreEvents ==
  ASSUME NEW lines \in Seq(Texts)
  PROVE  EventsOf(lines) \in Seq(EventSet)
<1>1. Len(lines) \in 0 .. Len(lines)
  OBVIOUS
<1> QED BY <1>1, EventsDef DEF IsJudging

LEMMA EventsOfNothing == EventsOf(<< >>) = << >>
<1>1. << >> \in Seq(Texts) /\ Len(<< >>) = 0
  OBVIOUS
<1> QED BY <1>1, EventsDef DEF IsJudging

(* One more line.                                                          *)
LEMMA EventsAppend ==
  ASSUME NEW lines \in Seq(Texts), NEW line \in Texts
  PROVE  /\ EventsOf(Append(lines, line)) =
              IF Trim(line) = << >> \/ AnyFatal(lines) \/ Fatal(line) THEN EventsOf(lines)
              ELSE Append(EventsOf(lines), Event(Len(lines) + 1, line))
         /\ AnyFatal(Append(lines, line)) <=> AnyFatal(lines) \/ Fatal(line)
<1> DEFINE N == Len(lines)
           longer == Append(lines, line)
<1>1. /\ N \in Nat /\ longer \in Seq(Texts) /\ Len(longer) = N + 1
      /\ longer[N + 1] = line /\ \A n \in 1 .. N : longer[n] = lines[n]
  BY AppendProperties
<1> HIDE DEF longer
<1>2. PICK f : IsJudging(f, lines) /\ EventsOf(lines) = f[N]
  BY EventsDef
<1>3. PICK g : IsJudging(g, longer) /\ EventsOf(longer) = g[N + 1]
  BY <1>1, EventsDef
<1>4. f[0] = g[0]
  BY <1>2, <1>3 DEF IsJudging
<1>5. ASSUME NEW n \in 1 .. N, f[n - 1] = g[n - 1] PROVE f[n] = g[n]
  <2>1. n \in 1 .. Len(longer)
    BY <1>1
  <2>2. f[n] = NextEvents(f[n - 1], lines, n) /\ g[n] = NextEvents(g[n - 1], longer, n)
    BY <1>2, <1>3, <2>1 DEF IsJudging
  <2>3. \A m \in 1 .. n : longer[m] = lines[m]
    BY <1>1
  <2>4. longer[n] = lines[n]
    BY <1>1
  <2> QED BY <1>5, <2>2, <2>3, <2>4 DEF NextEvents
<1>6. f[N] = g[N]
  <2>0. N \in Nat /\ \A n \in 1 .. N : f[n - 1] = g[n - 1] => f[n] = g[n]
    BY <1>1, <1>5
  <2> HIDE DEF N
  <2>1. \A n \in 0 .. N : f[n] = g[n]
    BY <1>4, <2>0, LinearRecursionIsUnique
  <2>2. N \in 0 .. N
    BY <2>0
  <2> QED BY <2>1, <2>2
<1>7. N + 1 \in 1 .. Len(longer) /\ (N + 1) - 1 = N
  BY <1>1
<1>8. g[N + 1] = NextEvents(g[(N + 1) - 1], longer, N + 1)
  BY <1>3, <1>7 DEF IsJudging
<1>9. (\E m \in 1 .. N + 1 : Fatal(longer[m])) <=> AnyFatal(lines) \/ Fatal(line)
  <2>1. 1 .. N + 1 = (1 .. N) \cup {N + 1}
    BY <1>1
  <2> QED BY <1>1, <2>1 DEF AnyFatal
<1>10. EventsOf(longer) = NextEvents(EventsOf(lines), longer, N + 1)
  BY <1>2, <1>3, <1>6, <1>7, <1>8
<1>11. AnyFatal(longer) <=> AnyFatal(lines) \/ Fatal(line)
  BY <1>1, <1>9 DEF AnyFatal
<1>12. EventsOf(longer) = IF Trim(line) = << >> \/ AnyFatal(lines) \/ Fatal(line) THEN EventsOf(lines)
                         ELSE Append(EventsOf(lines), Event(N + 1, line))
  BY <1>1, <1>9, <1>10 DEF NextEvents
<1> QED BY <1>11, <1>12 DEF longer

LEMMA EventAssociates ==
  ASSUME NEW events \in Seq(EventSet), NEW later \in Seq(EventSet), NEW e \in EventSet
  PROVE  Append(events \o later, e) = events \o Append(later, e)
OBVIOUS

(* More lines add events, and none once a line was no event.               *)
LEMMA EventsGoOn ==
  ASSUME NEW lines \in Seq(Texts), NEW more \in Seq(Texts)
  PROVE  /\ \E later \in Seq(EventSet) : EventsOf(lines \o more) = EventsOf(lines) \o later
         /\ AnyFatal(lines) => EventsOf(lines \o more) = EventsOf(lines) /\ AnyFatal(lines \o more)
<1> DEFINE Later(ms) == \E later \in Seq(EventSet) : EventsOf(lines \o ms) = EventsOf(lines) \o later
           Closed(ms) == AnyFatal(lines) => EventsOf(lines \o ms) = EventsOf(lines) /\ AnyFatal(lines \o ms)
           Good == {ms \in Seq(Texts) : Later(ms) /\ Closed(ms)}
<1>0. EventsOf(lines) \in Seq(EventSet)
  BY EventsAreEvents
<1>1. << >> \in Good
  <2>1. << >> \in Seq(Texts) /\ lines \o << >> = lines
    OBVIOUS
  <2>2. EventsOf(lines) = EventsOf(lines) \o << >> /\ << >> \in Seq(EventSet)
    BY <1>0
  <2>3. Later(<< >>)
    BY <2>1, <2>2
  <2>4. Closed(<< >>)
    BY <2>1
  <2> HIDE DEF Later, Closed
  <2> QED BY <2>1, <2>3, <2>4
<1>2. ASSUME NEW ms \in Seq(Texts), NEW m \in Texts, ms \in Good
      PROVE  Append(ms, m) \in Good
  <2>1. /\ Append(ms, m) \in Seq(Texts) /\ lines \o ms \in Seq(Texts)
        /\ lines \o Append(ms, m) = Append(lines \o ms, m)
    BY LineAssociates, AppendProperties
  <2>2. EventsOf(Append(lines \o ms, m)) =
          IF Trim(m) = << >> \/ AnyFatal(lines \o ms) \/ Fatal(m) THEN EventsOf(lines \o ms)
          ELSE Append(EventsOf(lines \o ms), Event(Len(lines \o ms) + 1, m))
    BY <2>1, EventsAppend
  <2>3. AnyFatal(Append(lines \o ms, m)) <=> AnyFatal(lines \o ms) \/ Fatal(m)
    BY <2>1, EventsAppend
  <2>4. Closed(Append(ms, m))
    BY <1>2, <2>1, <2>2, <2>3
  <2>5. PICK later \in Seq(EventSet) : EventsOf(lines \o ms) = EventsOf(lines) \o later
    BY <1>2
  <2>6. Later(Append(ms, m))
    <3> DEFINE e == Event(Len(lines \o ms) + 1, m)
    <3>1. e \in EventSet
      <4>1. Len(lines \o ms) + 1 \in Nat
        BY <2>1
      <4> QED BY <4>1, EventInSet
    <3>2. \/ EventsOf(Append(lines \o ms, m)) = EventsOf(lines \o ms)
          \/ EventsOf(Append(lines \o ms, m)) = Append(EventsOf(lines \o ms), e)
      BY <2>2
    <3> HIDE DEF e
    <3>3. Append(EventsOf(lines) \o later, e) = EventsOf(lines) \o Append(later, e)
      <4> DEFINE events == EventsOf(lines)
      <4>1. events \in Seq(EventSet)
        BY <1>0
      <4> HIDE DEF events
      <4>2. Append(events \o later, e) = events \o Append(later, e)
        BY <3>1, <4>1, EventAssociates
      <4> QED BY <4>2 DEF events
    <3>4. Append(later, e) \in Seq(EventSet)
      BY <3>1, AppendProperties
    <3>5. CASE EventsOf(Append(lines \o ms, m)) = EventsOf(lines \o ms)
      BY <2>1, <2>5, <3>5
    <3>6. CASE EventsOf(Append(lines \o ms, m)) = Append(EventsOf(lines \o ms), e)
      <4>1. EventsOf(lines \o Append(ms, m)) = EventsOf(lines) \o Append(later, e)
        BY <2>1, <2>5, <3>3, <3>6
      <4> QED BY <3>4, <4>1
    <3> QED BY <3>2, <3>5, <3>6
  <2> HIDE DEF Later, Closed
  <2> QED BY <2>1, <2>4, <2>6
<1>3. Seq(Texts) \subseteq Good
  <2> HIDE DEF Good
  <2> QED BY <1>1, <1>2, SequenceInduction
<1> QED BY <1>3

-----------------------------------------------------------------------------
(* Measures.                                                               *)
IsCounting(f, events) ==
  /\ f[0] = 0
  /\ \A n \in 1 .. Len(events) : f[n] = f[n - 1] + Len(events[n].text)
  /\ \A n \in 0 .. Len(events) : f[n] \in Nat

LEMMA KeptDef ==
  ASSUME NEW events \in Seq(EventSet)
  PROVE  \E f : IsCounting(f, events) /\ Kept(events) = f[Len(events)]
<1> DEFINE N == Len(events)
           long == [n \in 1 .. N |-> Len(events[n].text)]
           F == CHOOSE f : f = [n \in 0 .. N |-> IF n = 0 THEN 0 ELSE f[n - 1] + Len(events[n].text)]
           step == [n \in 1 .. N |-> [x \in Nat |-> x + long[n]]]
<1>1. N \in Nat /\ \A n \in 1 .. N : long[n] \in Nat /\ long[n] = Len(events[n].text)
  <2>1. ASSUME NEW n \in 1 .. N PROVE Len(events[n].text) \in Nat
    <3>1. events[n] \in EventSet
      OBVIOUS
    <3>2. events[n].text \in Seq(Characters)
      BY <3>1 DEF EventSet, Texts
    <3> QED BY <3>2
  <2> QED BY <2>1
<1>4. Kept(events) = F[N]
  BY DEF Kept
<1> HIDE DEF long
<1>2. step \in [1 .. N -> [Nat -> Nat]]
  BY <1>1
<1>3. \A n \in 1 .. N : \A x \in Nat : step[n][x] = x + long[n]
  OBVIOUS
<1> HIDE DEF step
<1>5. PICK g : Recurs(g, N, Nat, 0, step)
  BY <1>1, <1>2, LinearRecursion DEF IsStep
<1>6. \A n \in 1 .. N : g[n] = g[n - 1] + Len(events[n].text)
  <2> SUFFICES ASSUME NEW n \in 1 .. N PROVE g[n] = g[n - 1] + long[n]
    BY <1>1
  <2>1. n - 1 \in 0 .. N
    BY <1>1
  <2>2. g[n - 1] \in Nat /\ g[n] = step[n][g[n - 1]]
    BY <1>5, <2>1 DEF Recurs
  <2> QED BY <1>3, <2>2
<1>7. g = [n \in 0 .. N |-> IF n = 0 THEN 0 ELSE g[n - 1] + Len(events[n].text)]
  <2>1. \A n \in 0 .. N : g[n] = IF n = 0 THEN 0 ELSE g[n - 1] + Len(events[n].text)
    BY <1>1, <1>5, <1>6 DEF Recurs
  <2>2. g = [n \in 0 .. N |-> g[n]]
    BY <1>5 DEF Recurs
  <2> QED BY <2>1, <2>2
<1>8. F = [n \in 0 .. N |-> IF n = 0 THEN 0 ELSE F[n - 1] + Len(events[n].text)]
  BY <1>7
<1> HIDE DEF F
<1>9. \A n \in 1 .. N : F[n] = F[n - 1] + Len(events[n].text)
  <2> SUFFICES ASSUME NEW n \in 1 .. N PROVE F[n] = F[n - 1] + Len(events[n].text)
    OBVIOUS
  <2>1. n \in 0 .. N /\ n # 0
    BY <1>1
  <2> QED BY <1>8, <2>1
<1>10. F[0] = 0
  BY <1>1, <1>8
<1>11. \A n \in 0 .. N : F[n] = g[n]
  <2>1. g[0] = F[0]
    BY <1>5, <1>10 DEF Recurs
  <2>2. ASSUME NEW n \in 1 .. N, F[n - 1] = g[n - 1] PROVE F[n] = g[n]
    BY <1>6, <1>9, <2>2
  <2> QED BY <1>1, <2>1, <2>2, LinearRecursionIsUnique
<1>12. IsCounting(F, events)
  <2>1. \A n \in 0 .. N : F[n] \in Nat
    BY <1>5, <1>11 DEF Recurs
  <2> QED BY <1>9, <1>10, <2>1 DEF IsCounting
<1> QED BY <1>4, <1>12

LEMMA KeptFacts ==
  /\ Kept(<< >>) = 0
  /\ \A events \in Seq(EventSet) : Kept(events) \in Nat
<1>1. << >> \in Seq(EventSet) /\ Len(<< >>) = 0
  OBVIOUS
<1>2. Kept(<< >>) = 0
  BY <1>1, KeptDef DEF IsCounting
<1>3. ASSUME NEW events \in Seq(EventSet) PROVE Kept(events) \in Nat
  <2>1. Len(events) \in 0 .. Len(events)
    OBVIOUS
  <2> QED BY <2>1, KeptDef DEF IsCounting
<1> QED BY <1>2, <1>3

LEMMA KeptAppend ==
  ASSUME NEW events \in Seq(EventSet), NEW e \in EventSet
  PROVE  Kept(Append(events, e)) = Kept(events) + Len(e.text)
<1> DEFINE N == Len(events)
           longer == Append(events, e)
<1>1. /\ N \in Nat /\ longer \in Seq(EventSet) /\ Len(longer) = N + 1
      /\ longer[N + 1] = e /\ \A n \in 1 .. N : longer[n] = events[n]
  BY AppendProperties
<1> HIDE DEF longer
<1>2. PICK f : IsCounting(f, events) /\ Kept(events) = f[N]
  BY KeptDef
<1>3. PICK g : IsCounting(g, longer) /\ Kept(longer) = g[N + 1]
  BY <1>1, KeptDef
<1>4. f[0] = g[0]
  BY <1>2, <1>3 DEF IsCounting
<1>5. ASSUME NEW n \in 1 .. N, f[n - 1] = g[n - 1] PROVE f[n] = g[n]
  <2>1. n \in 1 .. Len(longer)
    BY <1>1
  <2>2. f[n] = f[n - 1] + Len(events[n].text) /\ g[n] = g[n - 1] + Len(longer[n].text)
    BY <1>2, <1>3, <2>1 DEF IsCounting
  <2> QED BY <1>1, <1>5, <2>2
<1>6. f[N] = g[N]
  <2>0. N \in Nat /\ \A n \in 1 .. N : f[n - 1] = g[n - 1] => f[n] = g[n]
    BY <1>1, <1>5
  <2> HIDE DEF N
  <2>1. \A n \in 0 .. N : f[n] = g[n]
    BY <1>4, <2>0, LinearRecursionIsUnique
  <2>2. N \in 0 .. N
    BY <2>0
  <2> QED BY <2>1, <2>2
<1>7. N + 1 \in 1 .. Len(longer) /\ (N + 1) - 1 = N
  BY <1>1
<1>8. g[N + 1] = g[(N + 1) - 1] + Len(longer[N + 1].text)
  BY <1>3, <1>7 DEF IsCounting
<1> QED BY <1>1, <1>2, <1>3, <1>6, <1>7, <1>8 DEF longer

LEMMA OccurrencesGrow ==
  ASSUME NEW text \in Texts, NEW c, NEW d \in Characters
  PROVE  /\ Occurrences(c, text) \in Nat /\ Occurrences(c, Append(text, d)) \in Nat
         /\ Occurrences(c, text) <= Occurrences(c, Append(text, d))
<1> DEFINE S == {i \in DOMAIN text : text[i] = c}
           T == {i \in DOMAIN Append(text, d) : Append(text, d)[i] = c}
<1>1. /\ Len(text) \in Nat /\ DOMAIN text = 1 .. Len(text)
      /\ DOMAIN Append(text, d) = 1 .. Len(text) + 1
      /\ \A i \in 1 .. Len(text) : Append(text, d)[i] = text[i]
  BY AppendProperties DEF Texts
<1>2. S \subseteq T /\ T \subseteq 1 .. Len(text) + 1
  BY <1>1
<1>3. Occurrences(c, text) = Cardinality(S) /\ Occurrences(c, Append(text, d)) = Cardinality(T)
  BY DEF Occurrences
<1> HIDE DEF S, T
<1>4. IsFiniteSet(1 .. Len(text) + 1)
  BY <1>1, FS_Interval
<1>5. IsFiniteSet(T)
  BY <1>2, <1>4, FS_Subset
<1>6. IsFiniteSet(S) /\ Cardinality(S) <= Cardinality(T)
  BY <1>2, <1>5, FS_Subset
<1> QED BY <1>3, <1>5, <1>6, FS_CardinalityType

(* A line that is too long stays so, and one that is not is no longer than *)
(* the limit.                                                              *)
LEMMA TooLongStays ==
  ASSUME NEW text \in Texts
  PROVE  /\ TooLong(text) => TooLong(Append(text, Replacement))
         /\ ~TooLong(text) => Len(text) <= MaxLine
<1> DEFINE more == Append(text, Replacement)
<1>1. Replacement \in Characters /\ MaxLine \in Nat
  BY CharactersOfBytes, SizesAssumption DEF Characters
<1>2. Len(text) \in Nat /\ Len(more) = Len(text) + 1
  BY <1>1 DEF Texts
<1>3. /\ Occurrences(Wide, text) \in Nat /\ Occurrences(Wide, more) \in Nat
      /\ Occurrences(Wide, text) <= Occurrences(Wide, more)
      /\ Occurrences(Replacement, text) \in Nat /\ Occurrences(Replacement, more) \in Nat
      /\ Occurrences(Replacement, text) <= Occurrences(Replacement, more)
  BY <1>1, OccurrencesGrow
<1> HIDE DEF more
<1>4. /\ ByteLength(text) \in Nat /\ ByteLength(more) \in Nat
      /\ Len(text) <= ByteLength(text) /\ ByteLength(text) <= ByteLength(more)
  BY <1>2, <1>3 DEF ByteLength
<1>5. TooLong(text) => TooLong(more)
  BY <1>1, <1>2, <1>4 DEF TooLong
<1>6. ~TooLong(text) => Len(text) <= MaxLine
  BY <1>1, <1>2, <1>4 DEF TooLong
<1> QED BY <1>5, <1>6 DEF more

Plain(text) == \A i \in 1 .. Len(text) : text[i] # Newline

LEMMA NewlineFacts ==
  ASSUME NEW text \in Texts
  PROVE  /\ NewlineAt(text) = 0 => Plain(text)
         /\ NewlineAt(text) # 0 => /\ NewlineAt(text) \in 1 .. Len(text)
                                   /\ text[NewlineAt(text)] = Newline
                                   /\ \A i \in 1 .. NewlineAt(text) - 1 : text[i] # Newline
<1> DEFINE I == {i \in 1 .. Len(text) : text[i] = Newline}
           least == CHOOSE x \in I : \A y \in I : x <= y
<1>1. NewlineAt(text) = IF I # {} THEN least ELSE 0
  BY DEF NewlineAt, SelectInSeq, Min
<1>2. Len(text) \in Nat
  BY DEF Texts
<1>3. CASE I = {}
  BY <1>1, <1>3 DEF Plain
<1>4. CASE I # {}
  <2>1. I \in SUBSET (1 .. Len(text))
    OBVIOUS
  <2>2. \E i \in I : \A j \in I : i <= j
    <3> HIDE DEF I
    <3> QED BY <1>2, <1>4, <2>1, LeastOfText
  <2>3. least \in I /\ \A y \in I : least <= y
    <3> HIDE DEF I
    <3> QED BY <2>2
  <2> HIDE DEF least
  <2>4. least \in 1 .. Len(text) /\ text[least] = Newline
    BY <2>3
  <2>5. ASSUME NEW i \in 1 .. least - 1 PROVE text[i] # Newline
    <3>1. i \in 1 .. Len(text) /\ ~(least <= i)
      BY <1>2, <2>4
    <3> QED BY <2>3, <3>1
  <2> QED BY <1>1, <1>2, <1>4, <2>4, <2>5
<1> QED BY <1>3, <1>4

-----------------------------------------------------------------------------
(* What was read, in two parts: P has become lines, the rest is pending.   *)

IsRead(P, rest, held, bytes) == Decode(<< >>, FALSE, bytes) = [text |-> P \o rest, carry |-> held]

SplitAt(P, ended) == LinesOf(P) = Append(ended, << >>) /\ ~AnyFatal(ended)

LEMMA FlushFacts ==
  ASSUME NEW text \in Texts, NEW held \in BOOLEAN
  PROVE  /\ Flush(text, held) \in Texts
         /\ Len(Flush(text, held)) = Weight([text |-> text, carry |-> held])
         /\ Plain(text) => Plain(Flush(text, held))
         /\ TooLong(text) => TooLong(Flush(text, held))
<1> DEFINE more == Append(text, Replacement)
<1>0. Replacement # Newline
  BY DEF Replacement, Newline
<1>1. Replacement \in Characters /\ Replacement # Newline
  BY <1>0 DEF Characters
<1>2. /\ more \in Texts /\ Len(text) \in Nat /\ Len(more) = Len(text) + 1
      /\ more[Len(text) + 1] = Replacement /\ \A i \in 1 .. Len(text) : more[i] = text[i]
  BY <1>1, AppendProperties DEF Texts
<1>3. TooLong(text) => TooLong(more)
  BY TooLongStays
<1> HIDE DEF more
<1>4. Plain(text) => Plain(more)
  BY <1>1, <1>2 DEF Plain
<1>5. CASE held
  BY <1>2, <1>3, <1>4, <1>5 DEF Flush, Weight, more
<1>6. CASE ~held
  BY <1>2, <1>6 DEF Flush, Weight
<1> QED BY <1>5, <1>6

LEMMA WholeIsText ==
  ASSUME NEW bytes \in Seq(Alphabet)
  PROVE  /\ WholeOf(bytes) \in Texts
         /\ Len(WholeOf(bytes)) \in Nat /\ Len(WholeOf(bytes)) <= Len(bytes)
<1> DEFINE start == [text |-> << >>, carry |-> FALSE]
           st == Decode(<< >>, FALSE, bytes)
<1>1. start \in States /\ Weight(start) = 0
  BY DEF States, Texts, Weight
<1>2. st \in States /\ Weight(st) <= Weight(start) + Len(bytes)
  BY <1>1, DecodeIsState DEF Decode
<1>3. WholeOf(bytes) = Flush(st.text, st.carry)
  BY DEF WholeOf
<1> HIDE DEF st, start
<1>4. st.text \in Texts /\ st.carry \in BOOLEAN /\ st = [text |-> st.text, carry |-> st.carry]
  BY <1>2 DEF States
<1>5. Flush(st.text, st.carry) \in Texts /\ Len(Flush(st.text, st.carry)) = Weight(st)
  BY <1>4, FlushFacts
<1>6. Len(bytes) \in Nat /\ Weight(st) \in Nat
  BY <1>2, WeightOfState
<1> QED BY <1>1, <1>2, <1>3, <1>5, <1>6

LEMMA WholeIs ==
  ASSUME NEW P \in Texts, NEW rest \in Texts, NEW held \in BOOLEAN, NEW bytes,
         IsRead(P, rest, held, bytes)
  PROVE  WholeOf(bytes) = P \o Flush(rest, held)
<1> DEFINE st == Decode(<< >>, FALSE, bytes)
<1>1. st = [text |-> P \o rest, carry |-> held]
  BY DEF IsRead
<1>2. WholeOf(bytes) = Flush(st.text, st.carry)
  BY DEF WholeOf
<1> HIDE DEF st
<1>3. WholeOf(bytes) = Flush(P \o rest, held)
  BY <1>1, <1>2
<1>4. Append(P \o rest, Replacement) = P \o Append(rest, Replacement)
  BY CharactersOfBytes DEF Texts
<1> QED BY <1>3, <1>4 DEF Flush

(* Reading goes on where it stopped.                                       *)
LEMMA MoreIsRead ==
  ASSUME NEW P \in Texts, NEW rest \in Texts, NEW held \in BOOLEAN,
         NEW bytes \in Seq(Alphabet), IsRead(P, rest, held, bytes), NEW more \in Seq(Alphabet)
  PROVE  LET st == Decode(rest, held, more)
         IN /\ st \in States
            /\ Weight(st) <= Weight([text |-> rest, carry |-> held]) + Len(more)
            /\ IsRead(P, st.text, st.carry, bytes \o more)
<1> DEFINE start == [text |-> << >>, carry |-> FALSE]
           alone == [text |-> rest, carry |-> held]
           after == [text |-> P \o rest, carry |-> held]
<1>1. start \in States /\ alone \in States
  BY DEF States, Texts
<1>2. DecodeFrom(start, bytes \o more) = DecodeFrom(DecodeFrom(start, bytes), more)
  <2> HIDE DEF start
  <2> QED BY <1>1, DecodeGoesOn
<1>3. DecodeFrom(start, bytes) = after
  BY DEF IsRead, Decode
<1>4. DecodeFrom(after, more) = [text |-> P \o DecodeFrom(alone, more).text,
                                carry |-> DecodeFrom(alone, more).carry]
  BY DecodeAppends
<1>5. DecodeFrom(alone, more) \in States /\ Weight(DecodeFrom(alone, more)) <= Weight(alone) + Len(more)
  <2> HIDE DEF alone
  <2> QED BY <1>1, DecodeIsState
<1>6. DecodeFrom(start, bytes \o more) = [text |-> P \o DecodeFrom(alone, more).text,
                                         carry |-> DecodeFrom(alone, more).carry]
  BY <1>2, <1>3, <1>4
<1> QED BY <1>5, <1>6 DEF IsRead, Decode

LEMMA NothingIsRead == IsRead(<< >>, << >>, FALSE, << >>) /\ SplitAt(<< >>, << >>)
<1>1. [text |-> << >>, carry |-> FALSE] \in States /\ << >> \o << >> = << >>
  BY DEF States, Texts
<1>2. IsRead(<< >>, << >>, FALSE, << >>)
  BY <1>1, DecodeNothing DEF IsRead, Decode
<1>3. ~AnyFatal(<< >>)
  BY DEF AnyFatal
<1>4. Append(<< >>, << >>) = << << >> >>
  OBVIOUS
<1> QED BY <1>2, <1>3, <1>4, LinesOfNothing DEF SplitAt

LEMMA LinesIsSome ==
  ASSUME NEW text \in Texts
  PROVE  LinesOf(text) \in Seq(Texts)
<1> DEFINE none == << >>
<1>1. none \in Texts /\ none \in Seq(Texts) /\ LinesOf(none) = Append(none, none)
  BY NothingIsRead DEF SplitAt, Texts
<1>2. \A t : t \in Seq(Characters) => none \o t = t
  OBVIOUS
<1>3. \A t : t \in Seq(Texts) => none \o t = t
  OBVIOUS
<1> HIDE DEF none
<1>4. PICK rest \in SomeLines : LinesOf(none \o text) = none \o rest
  BY <1>1, EndedLinesStay
<1> QED BY <1>2, <1>3, <1>4 DEF SomeLines, Texts

LEMMA FatalLine ==
  ASSUME NEW ended \in Seq(Texts), ~AnyFatal(ended), NEW line \in Texts, Fatal(line),
         NEW more \in Seq(Texts)
  PROVE  /\ EventsOf(Append(ended, line) \o more) = EventsOf(ended)
         /\ AnyFatal(Append(ended, line) \o more)
         /\ EventsOf(Append(ended, line)) = EventsOf(ended) /\ AnyFatal(Append(ended, line))
<1> DEFINE lines == Append(ended, line)
<1>1. lines \in Seq(Texts)
  BY AppendProperties
<1>2. EventsOf(lines) = EventsOf(ended) /\ AnyFatal(lines)
  BY EventsAppend
<1> HIDE DEF lines
<1>3. EventsOf(lines \o more) = EventsOf(lines) /\ AnyFatal(lines \o more)
  BY <1>1, <1>2, EventsGoOn
<1> QED BY <1>2, <1>3 DEF lines

(* The events of the lines that have ended are the first events of the     *)
(* whole text.                                                             *)
LEMMA LinesGoOn ==
  ASSUME NEW P \in Texts, NEW ended \in Seq(Texts), SplitAt(P, ended), NEW more \in Texts
  PROVE  \E later \in Seq(EventSet) : EventsOf(LinesOf(P \o more)) = EventsOf(ended) \o later
<1>1. << >> \in Texts
  BY DEF Texts
<1>2. PICK rest \in SomeLines : LinesOf(P \o more) = ended \o rest
  <2> DEFINE none == << >>
  <2>1. none \in Texts /\ LinesOf(P) = Append(ended, none)
    BY <1>1 DEF SplitAt
  <2> HIDE DEF none
  <2> QED BY <2>1, EndedLinesStay
<1>3. rest \in Seq(Texts)
  BY DEF SomeLines
<1>4. \E later \in Seq(EventSet) : EventsOf(ended \o rest) = EventsOf(ended) \o later
  BY <1>3, EventsGoOn
<1> QED BY <1>2, <1>4

LEMMA PlainLine ==
  ASSUME NEW P \in Texts, NEW ended \in Seq(Texts), SplitAt(P, ended),
         NEW line \in Texts, Plain(line)
  PROVE  LinesOf(P \o line) = Append(ended, line)
<1> DEFINE none == << >>
<1>1. none \in Texts /\ LinesOf(P) = Append(ended, none) /\ none \o line = line
  BY DEF SplitAt, Texts
<1> HIDE DEF none
<1>2. LinesOf(P \o line) = Append(ended, none \o line)
  BY <1>1, LastLineGoesOn DEF Plain
<1> QED BY <1>1, <1>2

LEMMA LineEnds ==
  ASSUME NEW P \in Texts, NEW ended \in Seq(Texts), SplitAt(P, ended),
         NEW line \in Texts, Plain(line), Newline \in Characters
  PROVE  /\ Append(P \o line, Newline) \in Texts
         /\ LinesOf(Append(P \o line, Newline)) = Append(Append(ended, line), << >>)
<1>1. P \o line \in Texts /\ Append(P \o line, Newline) \in Texts
  BY DEF Texts
<1>2. LinesOf(Append(P \o line, Newline)) = NextLines(LinesOf(P \o line), Newline)
  BY <1>1, LinesAppend
<1>3. LinesOf(P \o line) = Append(ended, line)
  BY PlainLine
<1>4. NextLines(Append(ended, line), Newline) = Append(Append(ended, line), << >>)
  BY NextLinesOf
<1> QED BY <1>1, <1>2, <1>3, <1>4

LEMMA CharactersAppend ==
  ASSUME NEW s \in Seq(Characters), NEW t \in Seq(Characters), NEW c \in Characters
  PROVE  Append(s \o t, c) = s \o Append(t, c)
OBVIOUS

LEMMA CharactersAssociate ==
  ASSUME NEW s \in Seq(Characters), NEW t \in Seq(Characters), NEW u \in Seq(Characters)
  PROVE  s \o (t \o u) = (s \o t) \o u
BY ConcatAssociative

LEMMA PendingSplits ==
  ASSUME NEW P \in Texts, NEW text \in Texts, NEW k \in 1 .. Len(text), text[k] = Newline
  PROVE  /\ Newline \in Characters
         /\ SubSeq(text, 1, k - 1) \in Texts /\ SubSeq(text, k + 1, Len(text)) \in Texts
         /\ Len(SubSeq(text, 1, k - 1)) = k - 1
         /\ Len(SubSeq(text, k + 1, Len(text))) = Len(text) - k
         /\ \A i \in 1 .. k - 1 : SubSeq(text, 1, k - 1)[i] = text[i]
         /\ P \o text = Append(P \o SubSeq(text, 1, k - 1), Newline) \o SubSeq(text, k + 1, Len(text))
<1>1. /\ text \in Seq(Characters) /\ P \in Seq(Characters) /\ Len(text) \in Nat /\ k \in Nat
      /\ Newline \in Characters
  BY DEF Texts
<1> DEFINE a == SubSeq(text, 1, k - 1)
           b == SubSeq(text, k + 1, Len(text))
<1>2. /\ a \in Seq(Characters) /\ Len(a) = k - 1 /\ \A i \in 1 .. k - 1 : a[i] = text[i]
  BY <1>1
<1>3. /\ b \in Seq(Characters) /\ Len(b) = Len(text) - k
      /\ \A i \in 1 .. Len(text) - k : b[i] = text[k + i]
  BY <1>1
<1> HIDE DEF a, b
<1> DEFINE d == Append(a, Newline)
<1>4. d \in Seq(Characters) /\ Len(d) = k /\ d[k] = Newline /\ \A j \in 1 .. k - 1 : d[j] = a[j]
  BY <1>1, <1>2, AppendProperties
<1>5. Append(P \o a, Newline) = P \o d
  BY <1>1, <1>2, CharactersAppend
<1> HIDE DEF d
<1> DEFINE c == d \o b
<1>6. /\ c \in Seq(Characters) /\ Len(c) = Len(d) + Len(b)
      /\ \A i \in 1 .. Len(d) + Len(b) : c[i] = IF i <= Len(d) THEN d[i] ELSE b[i - Len(d)]
  BY <1>3, <1>4, ConcatProperties
<1> HIDE DEF c
<1>7. ASSUME NEW i \in 1 .. Len(text) PROVE c[i] = text[i]
  <2>1. c[i] = IF i <= k THEN d[i] ELSE b[i - k]
    BY <1>1, <1>3, <1>4, <1>6
  <2>2. CASE i <= k
    <3>1. i \in 1 .. k - 1 \/ i = k
      BY <1>1, <2>2
    <3> QED BY <1>2, <1>4, <2>1, <2>2, <3>1
  <2>3. CASE i > k
    <3>1. i - k \in 1 .. Len(text) - k /\ k + (i - k) = i /\ ~(i <= k)
      BY <1>1, <2>3
    <3> QED BY <1>3, <2>1, <3>1
  <2> QED BY <1>1, <2>2, <2>3
<1>8. c = text
  <2>1. Len(c) = Len(text)
    BY <1>1, <1>3, <1>4, <1>6
  <2> QED BY <1>1, <1>6, <1>7, <2>1, SeqEqual
<1>9. P \o (d \o b) = (P \o d) \o b
  BY <1>1, <1>3, <1>4, CharactersAssociate
<1>10. P \o text = Append(P \o a, Newline) \o b
  BY <1>5, <1>8, <1>9 DEF c
<1> QED BY <1>1, <1>2, <1>3, <1>10 DEF a, b, Texts

-----------------------------------------------------------------------------
(* The invariant.                                                          *)
Active == phase \in {"closed", "reading", "splitting", "tail"}

Shape ==
  /\ suspended => phase \in {"splitting", "drained"}
  /\ phase \in {"splitting", "tail"} => mode # "document"
  /\ phase = "closed" => /\ seen = << >> /\ pending = << >> /\ carry = FALSE
                         /\ number = 0 /\ items = << >>
  /\ phase = "tail" => carry = FALSE
  /\ phase = "reading" /\ mode = "document" => items = << >> /\ size <= MaxDocument
  /\ Len(pending) <= MaxLine + ChunkBytes + 1
  /\ phase = "reading" => ~TooLong(pending)
  /\ phase \in {"reading", "tail"} => Plain(pending)

(* A stream that goes on: ended are the lines split off.                   *)
GoesOn(m, ph, held, rest, n, its, bytes, P, ended) ==
  /\ P \in Texts /\ ended \in Seq(Texts)
  /\ SplitAt(P, ended) /\ Len(ended) = n /\ its = EventsOf(ended)
  /\ IF ph = "tail" THEN WholeOf(bytes) = P \o rest ELSE IsRead(P, rest, held, bytes)
  /\ Kept(its) + Weight([text |-> rest, carry |-> held]) <= Len(bytes)
  /\ m = "limited" => Len(bytes) <= MaxDocument

(* A stream that is over: events, and a failure after them or none.        *)
Broken == {"unreadable", "too-large", "grew"}

IsOver(m, ph, its, bytes, events) ==
  LET lines == LinesOf(WholeOf(bytes)) IN
  /\ events \in Seq(EventSet)
  /\ m # "lines" => Kept(events) <= MaxDocument
  /\ m # "document" => \E later \in Seq(EventSet) : EventsOf(lines) = events \o later
  /\ \/ /\ its = events
        /\ m # "document" /\ ph # "left" => EventsOf(lines) = events /\ ~AnyFatal(lines)
     \/ \E why : /\ its = Append(events, Failure(why))
                 /\ m # "document" /\ why \notin Broken => EventsOf(lines) = events /\ AnyFatal(lines)

Runs ==
  /\ Active /\ mode # "document" =>
       \E P, ended : GoesOn(mode, phase, carry, pending, number, items, seen, P, ended)
  /\ ~Active => \E events : IsOver(mode, phase, items, seen, events)

IInv == TypeOK /\ Shape /\ Runs

-----------------------------------------------------------------------------
(* Types.                                                                  *)
LEMMA AvailableFacts ==
  ASSUME TypeOK, NEW limit \in Int, NEW bytes \in Available(limit)
  PROVE  /\ bytes \in Seq(Alphabet) /\ Len(bytes) \in Nat /\ Len(bytes) <= limit
         /\ seen \o bytes \in Seq(Alphabet) /\ Len(seen \o bytes) = Len(seen) + Len(bytes)
         /\ Len(seen) \in Nat
<1>1. file \in Seq(Alphabet) /\ seen \in Seq(Alphabet) /\ Len(file) \in Nat /\ Len(seen) \in Nat
  BY DEF TypeOK
<1>2. PICK n \in 1 .. limit : Len(seen) + n <= Len(file) /\ bytes = SubSeq(file, Len(seen) + 1, Len(seen) + n)
  BY DEF Available
<1>3. bytes \in Seq(Alphabet) /\ Len(bytes) = n
  BY <1>1, <1>2
<1> QED BY <1>1, <1>2, <1>3

LEMMA DecodeHolds ==
  ASSUME NEW text \in Texts, NEW held \in BOOLEAN, NEW bytes \in Seq(Alphabet)
  PROVE  /\ Decode(text, held, bytes) \in States
         /\ Decode(text, held, bytes).text \in Texts /\ Decode(text, held, bytes).carry \in BOOLEAN
         /\ Weight(Decode(text, held, bytes)) <= Weight([text |-> text, carry |-> held]) + Len(bytes)
<1> DEFINE st == [text |-> text, carry |-> held]
<1>1. st \in States
  BY DEF States
<1>2. DecodeFrom(st, bytes) \in States /\ Weight(DecodeFrom(st, bytes)) <= Weight(st) + Len(bytes)
  <2> HIDE DEF st
  <2> QED BY <1>1, DecodeIsState
<1>3. \A x \in States : x.text \in Texts /\ x.carry \in BOOLEAN
  BY DEF States
<1> QED BY <1>2, <1>3 DEF Decode

(* What the consumer does with a line.                                     *)
LineTaken(next) ==
  /\ number' = number + 1
  /\ phase' \in {next, "drained", "done"}
  /\ suspended' \in BOOLEAN
  /\ suspended' => phase' = next
  /\ descriptor' \in {descriptor, "none", "closed"}

(* A failure of a line, and not of reading.                                *)
Stopping == {"line-too-long", "malformed", "too-deep"}

LEMMA StoppingIsNotBroken == \A why \in Stopping : why \notin Broken /\ why # "changed"
BY DEF Stopping, Broken

LEMMA TakeLineFacts ==
  ASSUME NEW text, NEW next, TakeLine(text, next)
  PROVE  LineTaken(next)
<1>1. Event(number + 1, text).kind = "event" /\ Failure(Judge(text)).kind = "failure"
  BY DEF Event, Failure
<1> QED BY <1>1 DEF TakeLine, HandOver, Finish, LineTaken

LEMMA TakeLineCases ==
  ASSUME NEW text, NEW next, TakeLine(text, next),
         items \in Seq(EventSet), number \in Nat, text \in Texts
  PROVE  \/ /\ phase' \in {"drained", "done"} /\ suspended' = FALSE /\ Fatal(text)
            /\ \E why : why \in Stopping /\ items' = items \o <<Failure(why)>>
         \/ /\ phase' = next /\ ~Fatal(text) /\ Trim(text) = << >> /\ items' = items
         \/ /\ phase' = next /\ ~Fatal(text) /\ Trim(text) # << >>
            /\ items' = Append(items, Event(number + 1, text))
<1>1. "line-too-long" \in Stopping
  BY DEF Stopping
<1>2. Judge(text) # "event" => Judge(text) \in Stopping
  BY DEF Judge, Stopping
<1>4. items \o <<Event(number + 1, text)>> = Append(items, Event(number + 1, text))
  <2>1. Event(number + 1, text) \in EventSet
    BY EventInSet
  <2> QED BY <2>1, AppendIsConcat
<1>5. CASE TooLong(text)
  BY <1>1, <1>5 DEF TakeLine, Finish, Fatal
<1>9. Failure(Judge(text)).kind = "failure"
  BY DEF Failure
<1>6. CASE ~TooLong(text) /\ Trim(text) = << >>
  BY <1>6 DEF TakeLine, Fatal
<1>7. CASE ~TooLong(text) /\ Trim(text) # << >> /\ Judge(text) # "event"
  BY <1>2, <1>7, <1>9 DEF TakeLine, HandOver, Fatal
<1>8. CASE ~TooLong(text) /\ Trim(text) # << >> /\ Judge(text) = "event"
  BY <1>4, <1>8 DEF TakeLine, HandOver, Fatal
<1> QED BY <1>5, <1>6, <1>7, <1>8

LEMMA NextKeepsTypes ==
  ASSUME TypeOK, [Next]_vars
  PROVE  TypeOK'
<1> USE DEF TypeOK
<1>1. \A text \in Texts : \A i, j \in Int : 1 <= i /\ j <= Len(text) => SubSeq(text, i, j) \in Texts
  BY DEF Texts
<1>2. << >> \in Texts /\ Len(file) \in Nat /\ Len(pending) \in Nat
  BY DEF Texts
<1>3. Flush(pending, carry) \in Texts
  BY FlushFacts
<1>4. CASE Open
  BY <1>2, <1>4 DEF Open, fileVars
<1>5. CASE ReadChunk
  <2>1. PICK bytes \in Available(ChunkBytes) :
          /\ seen' = seen \o bytes
          /\ IF mode = "limited" /\ Len(seen') > MaxDocument
             THEN /\ Finish(<<Failure("grew")>>)
                  /\ UNCHANGED <<carry, pending>>
             ELSE /\ pending' = Decode(pending, carry, bytes).text
                  /\ carry' = Decode(pending, carry, bytes).carry
                  /\ phase' = "splitting"
                  /\ suspended' = FALSE
                  /\ UNCHANGED <<descriptor, items>>
    BY <1>5 DEF ReadChunk
  <2>2. bytes \in Seq(Alphabet) /\ seen \o bytes \in Seq(Alphabet)
    BY SizesAssumption, AvailableFacts
  <2>3. Decode(pending, carry, bytes).text \in Texts /\ Decode(pending, carry, bytes).carry \in BOOLEAN
    BY <2>2, DecodeHolds
  <2>4. UNCHANGED <<fileVars, mode, size, number>>
    BY <1>5 DEF ReadChunk
  <2> QED BY <2>1, <2>2, <2>3, <2>4 DEF Finish, fileVars
<1>6. CASE SplitLine
  <2>1. NewlineAt(pending) \in 1 .. Len(pending)
    BY <1>6, NewlineFacts DEF SplitLine
  <2>2. SubSeq(pending, NewlineAt(pending) + 1, Len(pending)) \in Texts
    BY <1>1, <1>2, <2>1
  <2>3. /\ TakeLine(SubSeq(pending, 1, NewlineAt(pending) - 1), "splitting")
        /\ pending' = SubSeq(pending, NewlineAt(pending) + 1, Len(pending))
        /\ UNCHANGED <<fileVars, mode, size, seen, carry>>
    BY <1>6 DEF SplitLine
  <2>4. LineTaken("splitting")
    BY <2>3, TakeLineFacts
  <2> QED BY <2>2, <2>3, <2>4 DEF fileVars, LineTaken
<1>7. CASE KeepRest
  BY <1>7 DEF KeepRest, Finish, fileVars
<1>8. CASE EndOfFile
  BY <1>3, <1>8 DEF EndOfFile, fileVars
<1>9. CASE LastLine
  <2>1. pending' = << >> /\ UNCHANGED <<fileVars, mode, size, seen, carry>>
    BY <1>9 DEF LastLine
  <2>2. CASE pending = << >>
    BY <1>2, <1>9, <2>1, <2>2 DEF LastLine, Finish, fileVars
  <2>3. CASE pending # << >>
    <3>1. TakeLine(pending, "drained")
      BY <1>9, <2>3 DEF LastLine
    <3>2. LineTaken("drained")
      BY <3>1, TakeLineFacts
    <3> QED BY <1>2, <2>1, <3>2 DEF fileVars, LineTaken
  <2> QED BY <2>2, <2>3
<1>10. CASE ReadDocument
  <2>1. PICK bytes \in Available(size + 1 - Len(seen)) : seen' = seen \o bytes
    BY <1>10 DEF ReadDocument
  <2>2. size + 1 - Len(seen) \in Int
    OBVIOUS
  <2>3. seen \o bytes \in Seq(Alphabet)
    BY <2>2, AvailableFacts
  <2> QED BY <1>10, <2>1, <2>3 DEF ReadDocument, fileVars
<1>11. CASE FinishDocument
  <2>1. /\ phase' \in {"drained", "done"} /\ descriptor' \in {"none", "closed"}
        /\ suspended' \in BOOLEAN
    BY <1>11 DEF FinishDocument, Finish, HandOver
  <2>2. UNCHANGED <<fileVars, mode, size, seen, carry, pending, number>>
    BY <1>11 DEF FinishDocument
  <2> QED BY <2>1, <2>2 DEF fileVars
<1>18. CASE Drain
  BY <1>18 DEF Drain, Finish, fileVars
<1>12. CASE OpenFails
  BY <1>12 DEF OpenFails, Finish, fileVars
<1>13. CASE ReadFails
  BY <1>13 DEF ReadFails, Finish, fileVars
<1>14. CASE Abandon
  BY <1>14 DEF Abandon, fileVars
<1>15. CASE Write
  BY <1>15 DEF Write
<1>16. CASE Truncate
  BY <1>16 DEF Truncate
<1>17. CASE UNCHANGED vars
  BY <1>17 DEF vars, fileVars
<1> QED BY <1>4, <1>5, <1>6, <1>7, <1>8, <1>9, <1>10, <1>11, <1>12, <1>13, <1>14, <1>15, <1>16,
           <1>17, <1>18 DEF Next, Proceed

LEMMA InitHasTypes == Init => TypeOK
<1>1. << >> \in Texts /\ << >> \in Seq(Alphabet)
  BY DEF Texts
<1> SUFFICES ASSUME Init PROVE TypeOK
  OBVIOUS
<1>2. file = << >> /\ seen = << >> /\ pending = << >>
  BY DEF Init
<1>3. file \in Seq(Alphabet) /\ seen \in Seq(Alphabet) /\ pending \in Texts
  BY <1>1, <1>2, Zenon
<1> QED BY <1>3 DEF Init, TypeOK

(* The reader's variables keep their types (streamFile, readLines): what   *)
(* is pending is whole characters, and no byte of a broken encoding gets   *)
(* into a text, wherever a chunk ended.                                    *)
THEOREM TypeCorrect == Spec => []TypeOK
BY InitHasTypes, NextKeepsTypes, PTL DEF Spec

-----------------------------------------------------------------------------
(* Steps.                                                                  *)
LEMMA NextKeepsShape ==
  ASSUME TypeOK, Shape, [Next]_vars
  PROVE  Shape'
<1> USE DEF Shape
<1>0. /\ pending \in Texts /\ carry \in BOOLEAN /\ Len(pending) \in Nat
      /\ MaxLine \in Nat /\ ChunkBytes \in Nat /\ MaxDocument \in Nat
      /\ phase \in {"closed", "reading", "splitting", "tail", "drained", "done", "left"}
      /\ mode \in {"lines", "limited", "document"} /\ suspended \in BOOLEAN
  BY SizesAssumption DEF TypeOK, Texts
<1>1. /\ Len(Flush(pending, carry)) <= Len(pending) + 1 /\ Len(Flush(pending, carry)) \in Nat
      /\ Plain(pending) => Plain(Flush(pending, carry))
      /\ Weight([text |-> pending, carry |-> carry]) <= Len(pending) + 1
      /\ Weight([text |-> pending, carry |-> carry]) \in Nat
  <2>1. [text |-> pending, carry |-> carry] \in States
    BY <1>0 DEF States
  <2>2. /\ Weight([text |-> pending, carry |-> carry]) <= Len(pending) + 1
        /\ Weight([text |-> pending, carry |-> carry]) \in Nat
    BY <1>0 DEF Weight
  <2>3. /\ Len(Flush(pending, carry)) = Weight([text |-> pending, carry |-> carry])
        /\ Plain(pending) => Plain(Flush(pending, carry))
    BY <1>0, FlushFacts
  <2> QED BY <1>0, <2>2, <2>3
<1>2. ~TooLong(pending) => Len(pending) <= MaxLine
  BY <1>0, TooLongStays
<1>3. Len(<< >>) = 0 /\ ~TooLong(<< >>) /\ Plain(<< >>)
  BY <1>0 DEF TooLong, Plain
<1>4. CASE Open
  <2>1. pending' = << >>
    BY <1>4 DEF Open
  <2>2. Len(pending') <= MaxLine + ChunkBytes + 1 /\ ~TooLong(pending') /\ Plain(pending')
    BY <1>0, <1>3, <2>1
  <2>3. Len(file) \in Nat
    BY DEF TypeOK
  <2> QED BY <1>0, <1>4, <2>2, <2>3 DEF Open
<1>5. CASE ReadChunk
  <2>1. PICK bytes \in Available(ChunkBytes) :
          IF mode = "limited" /\ Len(seen') > MaxDocument
          THEN /\ Finish(<<Failure("grew")>>)
               /\ UNCHANGED <<carry, pending>>
          ELSE /\ pending' = Decode(pending, carry, bytes).text
               /\ carry' = Decode(pending, carry, bytes).carry
               /\ phase' = "splitting"
               /\ suspended' = FALSE
    BY <1>5 DEF ReadChunk
  <2>2. bytes \in Seq(Alphabet) /\ Len(bytes) \in Nat /\ Len(bytes) <= ChunkBytes
    BY <1>0, AvailableFacts
  <2>3. phase = "reading" /\ mode # "document" /\ UNCHANGED mode
    BY <1>5 DEF ReadChunk
  <2>4. CASE Finish(<<Failure("grew")>>) /\ UNCHANGED <<carry, pending>>
    BY <2>3, <2>4 DEF Finish
  <2>5. CASE /\ pending' = Decode(pending, carry, bytes).text
             /\ phase' = "splitting" /\ suspended' = FALSE
    <3> DEFINE st == Decode(pending, carry, bytes)
    <3>1. /\ st \in States
          /\ Weight(st) <= Weight([text |-> pending, carry |-> carry]) + Len(bytes)
      BY <1>0, <2>2, DecodeHolds
    <3> HIDE DEF st
    <3>2. Len(st.text) \in Nat /\ Weight(st) \in Nat /\ Len(st.text) <= Weight(st)
      BY <3>1, WeightOfState
    <3>3. Len(st.text) <= MaxLine + ChunkBytes + 1
      BY <1>0, <1>1, <1>2, <2>2, <2>3, <3>1, <3>2
    <3>4. pending' = st.text
      BY <2>5 DEF st
    <3>5. Len(pending') <= MaxLine + ChunkBytes + 1
      BY <3>3, <3>4
    <3> QED BY <2>3, <2>5, <3>5
  <2> QED BY <2>1, <2>4, <2>5
<1>6. CASE SplitLine
  <2>1. NewlineAt(pending) \in 1 .. Len(pending) /\ pending[NewlineAt(pending)] = Newline
    BY <1>0, <1>6, NewlineFacts DEF SplitLine
  <2>2. pending' = SubSeq(pending, NewlineAt(pending) + 1, Len(pending))
    BY <1>6 DEF SplitLine
  <2>3. Len(pending') = Len(pending) - NewlineAt(pending)
    BY <1>0, <2>1, <2>2, PendingSplits
  <2>4. Len(pending') <= MaxLine + ChunkBytes + 1
    BY <1>0, <2>1, <2>3
  <2>5. LineTaken("splitting")
    BY <1>6, TakeLineFacts DEF SplitLine
  <2> QED BY <1>6, <2>4, <2>5 DEF LineTaken, SplitLine
<1>7. CASE KeepRest
  <2>1. Plain(pending)
    BY <1>0, <1>7, NewlineFacts DEF KeepRest
  <2> QED BY <1>7, <2>1 DEF KeepRest, Finish
<1>8. CASE EndOfFile
  <2>1. Len(pending') <= MaxLine + ChunkBytes + 1 /\ Plain(pending')
    BY <1>0, <1>1, <1>2, <1>8 DEF EndOfFile
  <2> QED BY <1>8, <2>1 DEF EndOfFile
<1>9. CASE LastLine
  <2>1. pending' = << >> /\ phase = "tail" /\ UNCHANGED mode
    BY <1>9 DEF LastLine
  <2>2. Len(pending') <= MaxLine + ChunkBytes + 1
    BY <1>0, <1>3, <2>1
  <2>3. phase' \in {"drained", "done"} /\ (suspended' => phase' = "drained")
    <3>1. CASE pending = << >>
      BY <1>9, <3>1 DEF LastLine, Finish
    <3>2. CASE pending # << >>
      <4>1. TakeLine(pending, "drained")
        BY <1>9, <3>2 DEF LastLine
      <4>2. LineTaken("drained")
        BY <4>1, TakeLineFacts
      <4> QED BY <4>2 DEF LineTaken
    <3> QED BY <3>1, <3>2
  <2> QED BY <2>1, <2>2, <2>3
<1>10. CASE ReadDocument
  BY <1>10 DEF ReadDocument
<1>11. CASE FinishDocument
  <2>1. phase' \in {"drained", "done"} /\ (suspended' => phase' = "drained")
    BY <1>11 DEF FinishDocument, Finish, HandOver
  <2>2. UNCHANGED <<mode, carry, pending>>
    BY <1>11 DEF FinishDocument
  <2> QED BY <2>1, <2>2
<1>18. CASE Drain
  BY <1>18 DEF Drain, Finish
<1>12. CASE OpenFails
  BY <1>12 DEF OpenFails, Finish
<1>13. CASE ReadFails
  BY <1>13 DEF ReadFails, Finish
<1>14. CASE Abandon
  BY <1>14 DEF Abandon
<1>15. CASE Write
  BY <1>15 DEF Write
<1>16. CASE Truncate
  BY <1>16 DEF Truncate
<1>17. CASE UNCHANGED vars
  BY <1>17 DEF vars, fileVars
<1> QED BY <1>4, <1>5, <1>6, <1>7, <1>8, <1>9, <1>10, <1>11, <1>12, <1>13, <1>14, <1>15, <1>16,
           <1>17, <1>18 DEF Next, Proceed

(* Whatever is read next, the events yielded come first.                   *)
ComeFirst(m, its, bytes) ==
  /\ its \in Seq(EventSet)
  /\ m = "limited" => Kept(its) <= MaxDocument
  /\ \E later \in Seq(EventSet) : EventsOf(LinesOf(WholeOf(bytes))) = its \o later

LEMMA EventsComeFirst ==
  ASSUME NEW m, NEW ph, ph # "tail", NEW held \in BOOLEAN, NEW rest \in Texts, NEW n, NEW its,
         NEW bytes \in Seq(Alphabet), NEW P, NEW ended,
         GoesOn(m, ph, held, rest, n, its, bytes, P, ended), NEW more \in Seq(Alphabet)
  PROVE  ComeFirst(m, its, bytes \o more)
<1>1. /\ P \in Texts /\ ended \in Seq(Texts) /\ SplitAt(P, ended) /\ its = EventsOf(ended)
      /\ IsRead(P, rest, held, bytes)
      /\ Kept(its) + Weight([text |-> rest, carry |-> held]) <= Len(bytes)
      /\ m = "limited" => Len(bytes) <= MaxDocument
  BY DEF GoesOn
<1>2. its \in Seq(EventSet)
  BY <1>1, EventsAreEvents
<1>3. m = "limited" => Kept(its) <= MaxDocument
  <2>1. [text |-> rest, carry |-> held] \in States
    BY DEF States
  <2>2. Weight([text |-> rest, carry |-> held]) \in Nat
    BY <2>1, WeightOfState
  <2>3. Kept(its) \in Nat /\ Len(bytes) \in Nat /\ MaxDocument \in Nat
    BY <1>2, KeptFacts, SizesAssumption
  <2> QED BY <1>1, <2>2, <2>3
<1> DEFINE st == Decode(rest, held, more)
<1>4. st \in States /\ IsRead(P, st.text, st.carry, bytes \o more)
  BY <1>1, MoreIsRead
<1> HIDE DEF st
<1>5. st.text \in Texts /\ st.carry \in BOOLEAN
  BY <1>4 DEF States
<1>6. WholeOf(bytes \o more) = P \o Flush(st.text, st.carry)
  BY <1>1, <1>4, <1>5, WholeIs
<1>7. Flush(st.text, st.carry) \in Texts
  BY <1>5, FlushFacts
<1>8. \E later \in Seq(EventSet) : EventsOf(LinesOf(P \o Flush(st.text, st.carry))) = EventsOf(ended) \o later
  BY <1>1, <1>7, LinesGoOn
<1> QED BY <1>1, <1>2, <1>3, <1>6, <1>8 DEF ComeFirst

(* A stream that is left, or breaks off.                                   *)
LEMMA BreaksOff ==
  ASSUME NEW m \in {"lines", "limited"}, NEW ph, ph # "tail", NEW held \in BOOLEAN,
         NEW rest \in Texts, NEW n, NEW its,
         NEW bytes \in Seq(Alphabet), NEW P, NEW ended,
         GoesOn(m, ph, held, rest, n, its, bytes, P, ended), NEW more \in Seq(Alphabet)
  PROVE  /\ IsOver(m, "left", its, bytes, its)
         /\ \A why \in Broken : IsOver(m, "done", Append(its, Failure(why)), bytes \o more, its)
<1>1. ComeFirst(m, its, bytes \o more)
  BY EventsComeFirst
<1>2. ComeFirst(m, its, bytes)
  <2> DEFINE none == << >>
  <2>1. none \in Seq(Alphabet) /\ bytes \o none = bytes
    OBVIOUS
  <2> HIDE DEF none
  <2>2. ComeFirst(m, its, bytes \o none)
    BY <2>1, EventsComeFirst
  <2> QED BY <2>1, <2>2
<1>3. IsOver(m, "left", its, bytes, its)
  BY <1>1, <1>2 DEF IsOver, ComeFirst
<1>4. \A why \in Broken : IsOver(m, "done", Append(its, Failure(why)), bytes \o more, its)
  BY <1>1 DEF IsOver, ComeFirst
<1> QED BY <1>3, <1>4

(* One line of the pending text is split off.                              *)
LEMMA LineSplits ==
  ASSUME NEW m \in {"lines", "limited"}, NEW held \in BOOLEAN, NEW text \in Texts, NEW n \in Nat,
         NEW its, NEW bytes \in Seq(Alphabet), NEW P, NEW ended,
         GoesOn(m, "splitting", held, text, n, its, bytes, P, ended),
         NEW k \in 1 .. Len(text), text[k] = Newline, \A i \in 1 .. k - 1 : text[i] # Newline,
         NEW line, line = SubSeq(text, 1, k - 1), NEW rest, rest = SubSeq(text, k + 1, Len(text))
  PROVE  /\ Fatal(line) =>
              \A why : why \notin Broken => IsOver(m, "done", Append(its, Failure(why)), bytes, its)
         /\ ~Fatal(line) /\ Trim(line) = << >> =>
              \E Q, lines : GoesOn(m, "splitting", held, rest, n + 1, its, bytes, Q, lines)
         /\ ~Fatal(line) /\ Trim(line) # << >> =>
              \E Q, lines : GoesOn(m, "splitting", held, rest, n + 1,
                                   Append(its, Event(n + 1, line)), bytes, Q, lines)
<1> DEFINE Q == Append(P \o line, Newline)
           lines == Append(ended, line)
<1>1. /\ P \in Texts /\ ended \in Seq(Texts) /\ SplitAt(P, ended) /\ its = EventsOf(ended)
      /\ IsRead(P, text, held, bytes) /\ Len(ended) = n /\ ~AnyFatal(ended)
      /\ Kept(its) + Weight([text |-> text, carry |-> held]) <= Len(bytes)
      /\ m = "limited" => Len(bytes) <= MaxDocument
  BY DEF GoesOn, SplitAt
<1>2. /\ Newline \in Characters /\ line \in Texts /\ rest \in Texts
      /\ Len(line) = k - 1 /\ Len(rest) = Len(text) - k
      /\ \A i \in 1 .. k - 1 : line[i] = text[i]
      /\ P \o text = Q \o rest
  BY <1>1, PendingSplits
<1>3. Plain(line)
  BY <1>2 DEF Plain
<1>4. Q \in Texts /\ LinesOf(Q) = Append(lines, << >>)
  BY <1>1, <1>2, <1>3, LineEnds
<1>5. IsRead(Q, rest, held, bytes)
  BY <1>1, <1>2 DEF IsRead
<1>6. lines \in Seq(Texts) /\ Len(lines) = n + 1
  BY <1>1, <1>2, AppendProperties
<1>7. /\ EventsOf(lines) = IF Trim(line) = << >> \/ AnyFatal(ended) \/ Fatal(line) THEN EventsOf(ended)
                           ELSE Append(EventsOf(ended), Event(n + 1, line))
      /\ AnyFatal(lines) <=> AnyFatal(ended) \/ Fatal(line)
  BY <1>1, <1>2, EventsAppend
<1>8. its \in Seq(EventSet)
  BY <1>1, EventsAreEvents
<1>9. /\ Kept(its) \in Nat /\ Len(bytes) \in Nat /\ Len(text) \in Nat /\ Len(Trim(line)) \in Nat
      /\ Len(Trim(line)) <= k - 1
      /\ Kept(Append(its, Event(n + 1, line))) = Kept(its) + Len(Trim(line))
  <2>1. Event(n + 1, line) \in EventSet /\ Event(n + 1, line).text = Trim(line)
    BY <1>2, EventInSet
  <2>2. Kept(Append(its, Event(n + 1, line))) = Kept(its) + Len(Trim(line))
    BY <1>8, <2>1, KeptAppend
  <2>3. Len(Trim(line)) \in Nat /\ Len(Trim(line)) <= k - 1
    BY <1>2, TrimFacts
  <2> QED BY <1>8, <2>2, <2>3, KeptFacts DEF Texts
<1>10. /\ Weight([text |-> rest, carry |-> held]) \in Nat
       /\ Weight([text |-> rest, carry |-> held]) + k = Weight([text |-> text, carry |-> held])
  <2>1. k \in Nat /\ Len(rest) \in Nat /\ Len(rest) + k = Len(text)
    BY <1>2, <1>9
  <2>2. CASE held
    BY <1>9, <2>1, <2>2 DEF Weight
  <2>3. CASE ~held
    BY <1>9, <2>1, <2>3 DEF Weight
  <2> QED BY <2>2, <2>3
<1> HIDE DEF Q, lines
<1>11. /\ Kept(its) + Weight([text |-> rest, carry |-> held]) <= Len(bytes)
       /\ Kept(Append(its, Event(n + 1, line))) + Weight([text |-> rest, carry |-> held]) <= Len(bytes)
  <2> DEFINE w == Weight([text |-> rest, carry |-> held])
             v == Weight([text |-> text, carry |-> held])
  <2>1. w \in Nat /\ w + k = v /\ Kept(its) + v <= Len(bytes)
    BY <1>1, <1>10
  <2> HIDE DEF w, v
  <2>2. Kept(its) + w <= Len(bytes) /\ Kept(its) + Len(Trim(line)) + w <= Len(bytes)
    BY <1>9, <2>1
  <2> QED BY <1>9, <2>2 DEF w
<1>12. ASSUME Fatal(line), NEW why, why \notin Broken
       PROVE  IsOver(m, "done", Append(its, Failure(why)), bytes, its)
  <2>0. Flush(rest, held) \in Texts
    BY <1>2, FlushFacts
  <2>split. Q \in Texts
    BY <1>4
  <2>flushed. WholeOf(bytes) = Q \o Flush(rest, held)
    BY <1>2, <1>5, <2>split, WholeIs
  <2>1. WholeOf(bytes) = Q \o Flush(rest, held) /\ Flush(rest, held) \in Texts
    BY <2>0, <2>flushed
  <2>2. PICK more \in SomeLines : LinesOf(Q \o Flush(rest, held)) = lines \o more
    <3> DEFINE none == << >>
    <3>1. none \in Texts /\ LinesOf(Q) = Append(lines, none)
      BY <1>4 DEF Texts
    <3> HIDE DEF none
    <3> QED BY <1>4, <1>6, <2>1, <3>1, EndedLinesStay
  <2>3. more \in Seq(Texts)
    BY DEF SomeLines
  <2>4. EventsOf(lines \o more) = EventsOf(ended) /\ AnyFatal(lines \o more)
    BY <1>1, <1>2, <1>12, <2>3, FatalLine DEF lines
  <2>5. EventsOf(LinesOf(WholeOf(bytes))) = its /\ AnyFatal(LinesOf(WholeOf(bytes)))
    BY <1>1, <2>1, <2>2, <2>4
  <2>6. m = "limited" => Kept(its) <= MaxDocument
    BY <1>1, <1>9, <1>10, <1>11, SizesAssumption
  <2>7. \E later \in Seq(EventSet) : its = its \o later
    <3>1. << >> \in Seq(EventSet) /\ its = its \o << >>
      BY <1>8
    <3> QED BY <3>1
  <2> QED BY <1>8, <2>5, <2>6, <2>7 DEF IsOver
<1>13. ASSUME ~Fatal(line)
       PROVE  /\ P \in Texts /\ Q \in Texts /\ lines \in Seq(Texts)
              /\ SplitAt(Q, lines) /\ Len(lines) = n + 1
              /\ EventsOf(lines) = IF Trim(line) = << >> THEN its ELSE Append(its, Event(n + 1, line))
  BY <1>1, <1>4, <1>6, <1>7, <1>13 DEF SplitAt
<1>14. ASSUME ~Fatal(line), Trim(line) = << >>
       PROVE  GoesOn(m, "splitting", held, rest, n + 1, its, bytes, Q, lines)
  BY <1>1, <1>5, <1>11, <1>13, <1>14 DEF GoesOn
<1>15. ASSUME ~Fatal(line), Trim(line) # << >>
       PROVE  GoesOn(m, "splitting", held, rest, n + 1, Append(its, Event(n + 1, line)), bytes, Q, lines)
  BY <1>1, <1>5, <1>11, <1>13, <1>15 DEF GoesOn
<1> QED BY <1>12, <1>14, <1>15

(* The text ends with this line.                                           *)
LEMMA LastLineIs ==
  ASSUME NEW m \in {"lines", "limited"}, NEW its, NEW bytes \in Seq(Alphabet),
         NEW ended \in Seq(Texts), ~AnyFatal(ended), its = EventsOf(ended), NEW line \in Texts,
         LinesOf(WholeOf(bytes)) = Append(ended, line), NEW n \in Nat, Len(ended) = n,
         m = "limited" => Kept(its) + Len(line) <= MaxDocument
  PROVE  /\ Fatal(line) =>
              \A why : why \notin Broken => IsOver(m, "done", Append(its, Failure(why)), bytes, its)
         /\ ~Fatal(line) /\ Trim(line) = << >> => IsOver(m, "done", its, bytes, its)
         /\ ~Fatal(line) /\ Trim(line) # << >> =>
              IsOver(m, "done", Append(its, Event(n + 1, line)), bytes, Append(its, Event(n + 1, line)))
<1> DEFINE e == Event(n + 1, line)
           more == Append(its, e)
           whole == LinesOf(WholeOf(bytes))
<1>1. its \in Seq(EventSet) /\ e \in EventSet /\ e.text = Trim(line)
  BY EventsAreEvents, EventInSet
<1>2. /\ EventsOf(whole) = IF Trim(line) = << >> \/ Fatal(line) THEN its ELSE more
      /\ AnyFatal(whole) <=> Fatal(line)
  BY EventsAppend
<1>3. Kept(its) \in Nat /\ Len(Trim(line)) \in Nat /\ Len(line) \in Nat /\ Len(Trim(line)) <= Len(line)
  BY <1>1, KeptFacts, TrimFacts
<1> HIDE DEF e
<1>4. more \in Seq(EventSet) /\ Kept(more) = Kept(its) + Len(Trim(line))
  BY <1>1, KeptAppend, AppendProperties
<1>5. /\ m # "lines" => Kept(its) <= MaxDocument
      /\ m # "lines" => Kept(more) <= MaxDocument
  BY <1>3, <1>4, SizesAssumption
<1> HIDE DEF more, whole
<1>6. \A x \in Seq(EventSet) : \E later \in Seq(EventSet) : x = x \o later
  <2>1. << >> \in Seq(EventSet)
    OBVIOUS
  <2>2. \A x \in Seq(EventSet) : x = x \o << >>
    OBVIOUS
  <2> QED BY <2>1, <2>2
<1>7. ASSUME Fatal(line), NEW why, why \notin Broken
      PROVE  IsOver(m, "done", Append(its, Failure(why)), bytes, its)
  <2>1. EventsOf(whole) = its /\ AnyFatal(whole)
    BY <1>2, <1>7
  <2> QED BY <1>1, <1>5, <1>6, <2>1 DEF IsOver, whole
<1>8. ASSUME ~Fatal(line), Trim(line) = << >> PROVE IsOver(m, "done", its, bytes, its)
  <2>1. EventsOf(whole) = its /\ ~AnyFatal(whole)
    BY <1>2, <1>8
  <2> QED BY <1>1, <1>5, <1>6, <2>1 DEF IsOver, whole
<1>9. ASSUME ~Fatal(line), Trim(line) # << >> PROVE IsOver(m, "done", more, bytes, more)
  <2>1. EventsOf(whole) = more /\ ~AnyFatal(whole)
    BY <1>2, <1>9
  <2> QED BY <1>4, <1>5, <1>6, <2>1 DEF IsOver, whole
<1> QED BY <1>7, <1>8, <1>9 DEF more, e

(* A stream that was given its last item is over, but for being closed.    *)
LEMMA DrainedIsOver ==
  ASSUME NEW m, NEW its, NEW bytes, NEW events
  PROVE  /\ IsOver(m, "done", its, bytes, events) <=> IsOver(m, "drained", its, bytes, events)
         /\ IsOver(m, "drained", its, bytes, events) => IsOver(m, "left", its, bytes, events)
BY DEF IsOver

LEMMA OneFailure ==
  ASSUME NEW its \in Seq(EventSet), NEW e
  PROVE  its \o <<e>> = Append(its, e)
<1> DEFINE S == EventSet \cup {e}
<1>1. EventSet \subseteq S /\ e \in S
  OBVIOUS
<1> HIDE DEF S
<1>2. its \in Seq(S)
  BY <1>1
<1> QED BY <1>1, <1>2, AppendIsConcat

LEMMA RunsGoesOn ==
  ASSUME Runs, Active, mode # "document"
  PROVE  \E P, ended : GoesOn(mode, phase, carry, pending, number, items, seen, P, ended)
BY DEF Runs

LEMMA StreamBreaks ==
  ASSUME TypeOK, Shape, Runs, phase \in {"closed", "reading"}, NEW why \in Broken,
         NEW more \in Seq(Alphabet)
  PROVE  \E events : IsOver(mode, "done", items \o <<Failure(why)>>, seen \o more, events)
<1>1. CASE mode = "document"
  <2>1. items = << >>
    BY <1>1 DEF Shape
  <2>2. items \in Seq(EventSet) /\ Kept(items) <= MaxDocument
    <3>1. Kept(items) = 0
      BY <2>1, KeptFacts
    <3>2. << >> \in Seq(EventSet)
      OBVIOUS
    <3>3. items \in Seq(EventSet)
      BY <2>1, <3>2, Zenon
    <3> QED BY <3>1, <3>3, SizesAssumption
  <2>3. items \o <<Failure(why)>> = Append(items, Failure(why))
    BY <2>2, OneFailure
  <2>4. IsOver(mode, "done", Append(items, Failure(why)), seen \o more, items)
    BY <1>1, <2>2 DEF IsOver
  <2> QED BY <2>3, <2>4
<1>2. CASE mode # "document"
  <2>1. PICK P, ended : GoesOn(mode, phase, carry, pending, number, items, seen, P, ended)
    BY <1>2, RunsGoesOn DEF Active
  <2>2. /\ mode \in {"lines", "limited"} /\ carry \in BOOLEAN /\ pending \in Texts
        /\ seen \in Seq(Alphabet) /\ phase # "tail"
    BY <1>2 DEF TypeOK
  <2>3. IsOver(mode, "done", Append(items, Failure(why)), seen \o more, items)
    BY <2>1, <2>2, BreaksOff
  <2>4. items \in Seq(EventSet)
    BY <2>1, EventsAreEvents DEF GoesOn
  <2>5. items \o <<Failure(why)>> = Append(items, Failure(why))
    BY <2>4, OneFailure
  <2> QED BY <2>3, <2>5
<1> QED BY <1>1, <1>2

LEMMA StreamBreaksNow ==
  ASSUME TypeOK, Shape, Runs, phase \in {"closed", "reading"}, NEW why \in Broken
  PROVE  \E events : IsOver(mode, "done", items \o <<Failure(why)>>, seen, events)
<1> DEFINE none == << >>
<1>1. none \in Seq(Alphabet) /\ seen \o none = seen
  BY DEF TypeOK
<1> HIDE DEF none
<1>2. \E events : IsOver(mode, "done", items \o <<Failure(why)>>, seen \o none, events)
  BY <1>1, StreamBreaks
<1> QED BY <1>1, <1>2

LEMMA OverIsRuns ==
  ASSUME phase' \in {"drained", "done", "left"},
         \E events : IsOver(mode', phase', items', seen', events)
  PROVE  Runs'
BY DEF Runs, Active

LEMMA OpenKeepsRuns ==
  ASSUME TypeOK, Shape, Runs, Open
  PROVE  Runs'
<1>1. phase = "closed" /\ UNCHANGED <<mode, seen, carry, pending, number>>
  BY DEF Open
<1>2. CASE mode # "lines" /\ Len(file) > MaxDocument
  <2>1. phase' = "done" /\ items' = <<Failure("too-large")>>
    BY <1>2 DEF Open
  <2>2. "too-large" \in Broken
    BY DEF Broken
  <2>3. \E events : IsOver(mode, "done", items \o <<Failure("too-large")>>, seen, events)
    BY <1>1, <2>2, StreamBreaksNow
  <2>4. items \o <<Failure("too-large")>> = <<Failure("too-large")>>
    BY <1>1 DEF Shape
  <2> QED BY <1>1, <2>1, <2>3, <2>4, OverIsRuns
<1>3. CASE ~(mode # "lines" /\ Len(file) > MaxDocument)
  <2>1. phase' = "reading" /\ UNCHANGED items
    BY <1>3 DEF Open
  <2>2. ASSUME mode # "document"
        PROVE  \E P, ended : GoesOn(mode', phase', carry', pending', number', items', seen', P, ended)
    <3>1. PICK P, ended : GoesOn(mode, phase, carry, pending, number, items, seen, P, ended)
      BY <1>1, <2>2, RunsGoesOn DEF Active
    <3>2. GoesOn(mode, "reading", carry, pending, number, items, seen, P, ended)
      BY <1>1, <3>1 DEF GoesOn
    <3> QED BY <1>1, <2>1, <3>2
  <2> QED BY <1>1, <2>1, <2>2 DEF Runs, Active
<1> QED BY <1>2, <1>3

LEMMA FailsKeepRuns ==
  ASSUME TypeOK, Shape, Runs, OpenFails \/ ReadFails
  PROVE  Runs'
<1>1. /\ phase \in {"closed", "reading"} /\ phase' = "done"
      /\ items' = items \o <<Failure("unreadable")>> /\ UNCHANGED <<mode, seen>>
  BY DEF OpenFails, ReadFails, Finish
<1>2. "unreadable" \in Broken
  BY DEF Broken
<1>3. \E events : IsOver(mode, "done", items \o <<Failure("unreadable")>>, seen, events)
  BY <1>1, <1>2, StreamBreaksNow
<1> QED BY <1>1, <1>3, OverIsRuns

LEMMA ReadChunkKeepsRuns ==
  ASSUME TypeOK, Shape, Runs, ReadChunk
  PROVE  Runs'
<1>1. phase = "reading" /\ mode # "document" /\ UNCHANGED <<mode, number>>
  BY DEF ReadChunk
<1>2. PICK bytes \in Available(ChunkBytes) :
        /\ seen' = seen \o bytes
        /\ IF mode = "limited" /\ Len(seen') > MaxDocument
           THEN Finish(<<Failure("grew")>>)
           ELSE /\ pending' = Decode(pending, carry, bytes).text
                /\ carry' = Decode(pending, carry, bytes).carry
                /\ phase' = "splitting"
                /\ UNCHANGED items
  BY DEF ReadChunk
<1>3. /\ bytes \in Seq(Alphabet) /\ seen \o bytes \in Seq(Alphabet)
      /\ Len(seen \o bytes) = Len(seen) + Len(bytes) /\ Len(seen) \in Nat /\ Len(bytes) \in Nat
  BY SizesAssumption, AvailableFacts
<1>4. CASE mode = "limited" /\ Len(seen') > MaxDocument
  <2>1. phase' = "done" /\ items' = items \o <<Failure("grew")>>
    BY <1>2, <1>4 DEF Finish
  <2>2. "grew" \in Broken
    BY DEF Broken
  <2>3. \E events : IsOver(mode, "done", items \o <<Failure("grew")>>, seen \o bytes, events)
    BY <1>1, <1>3, <2>2, StreamBreaks
  <2> QED BY <1>1, <1>2, <2>1, <2>3, OverIsRuns
<1>5. CASE ~(mode = "limited" /\ Len(seen') > MaxDocument)
  <2>1. PICK P, ended : GoesOn(mode, phase, carry, pending, number, items, seen, P, ended)
    BY <1>1, RunsGoesOn DEF Active
  <2> DEFINE st == Decode(pending, carry, bytes)
  <2>2. phase' = "splitting" /\ items' = items /\ pending' = st.text /\ carry' = st.carry
    BY <1>2, <1>5
  <2>3. pending \in Texts /\ carry \in BOOLEAN /\ seen \in Seq(Alphabet)
    BY DEF TypeOK
  <2>4. /\ P \in Texts /\ ended \in Seq(Texts) /\ SplitAt(P, ended) /\ Len(ended) = number
        /\ items = EventsOf(ended) /\ IsRead(P, pending, carry, seen)
        /\ Kept(items) + Weight([text |-> pending, carry |-> carry]) <= Len(seen)
    BY <1>1, <2>1 DEF GoesOn
  <2>5. /\ st \in States
        /\ Weight(st) <= Weight([text |-> pending, carry |-> carry]) + Len(bytes)
        /\ IsRead(P, st.text, st.carry, seen \o bytes)
    BY <1>3, <2>3, <2>4, MoreIsRead
  <2> HIDE DEF st
  <2>6. st = [text |-> st.text, carry |-> st.carry]
    BY <2>5 DEF States
  <2>7. Kept(items) + Weight(st) <= Len(seen \o bytes)
    <3> DEFINE w == Weight([text |-> pending, carry |-> carry])
    <3>1. w \in Nat
      <4>1. [text |-> pending, carry |-> carry] \in States
        BY <2>3 DEF States
      <4> QED BY <4>1, WeightOfState
    <3>2. Weight(st) \in Nat /\ Weight(st) <= w + Len(bytes) /\ Kept(items) + w <= Len(seen)
      BY <2>4, <2>5, WeightOfState
    <3>3. Kept(items) \in Nat
      BY <2>4, EventsAreEvents, KeptFacts
    <3> HIDE DEF w
    <3> QED BY <1>3, <3>1, <3>2, <3>3
  <2>8. mode = "limited" => Len(seen \o bytes) <= MaxDocument
    BY <1>2, <1>3, <1>5, SizesAssumption
  <2>9. GoesOn(mode, "splitting", st.carry, st.text, number, items, seen \o bytes, P, ended)
    <3>1. Kept(items) + Weight([text |-> st.text, carry |-> st.carry]) <= Len(seen \o bytes)
      BY <2>6, <2>7
    <3> QED BY <2>4, <2>5, <2>8, <3>1 DEF GoesOn
  <2>10. GoesOn(mode', phase', carry', pending', number', items', seen', P, ended)
    BY <1>1, <1>2, <2>2, <2>9
  <2> QED BY <2>2, <2>10 DEF Runs, Active
<1> QED BY <1>4, <1>5

LEMMA SplitLineKeepsRuns ==
  ASSUME TypeOK, Shape, Runs, SplitLine
  PROVE  Runs'
<1> DEFINE k == NewlineAt(pending)
           line == SubSeq(pending, 1, k - 1)
           rest == SubSeq(pending, k + 1, Len(pending))
<1>1. /\ phase = "splitting" /\ k # 0 /\ TakeLine(line, "splitting") /\ pending' = rest
      /\ UNCHANGED <<mode, seen, carry>>
  BY DEF SplitLine
<1>2. /\ mode \in {"lines", "limited"} /\ pending \in Texts /\ carry \in BOOLEAN
      /\ seen \in Seq(Alphabet) /\ number \in Nat
  BY <1>1 DEF TypeOK, Shape
<1>3. k \in 1 .. Len(pending) /\ pending[k] = Newline /\ \A i \in 1 .. k - 1 : pending[i] # Newline
  BY <1>1, <1>2, NewlineFacts
<1>4. PICK P, ended : GoesOn(mode, "splitting", carry, pending, number, items, seen, P, ended)
  BY <1>1, <1>2, RunsGoesOn DEF Active
<1>5. items \in Seq(EventSet)
  BY <1>4, EventsAreEvents DEF GoesOn
<1>6. line \in Texts
  BY <1>2, <1>3, PendingSplits
<1> HIDE DEF k
<1>7. line = SubSeq(pending, 1, k - 1) /\ rest = SubSeq(pending, k + 1, Len(pending))
  OBVIOUS
<1> HIDE DEF line, rest
<1>8. /\ Fatal(line) =>
           \A why : why \notin Broken => IsOver(mode, "done", Append(items, Failure(why)), seen, items)
      /\ ~Fatal(line) /\ Trim(line) = << >> =>
           \E Q, lines : GoesOn(mode, "splitting", carry, rest, number + 1, items, seen, Q, lines)
      /\ ~Fatal(line) /\ Trim(line) # << >> =>
           \E Q, lines : GoesOn(mode, "splitting", carry, rest, number + 1,
                                Append(items, Event(number + 1, line)), seen, Q, lines)
  BY <1>2, <1>3, <1>4, <1>7, LineSplits
<1>9. number' = number + 1
  BY <1>1, TakeLineFacts DEF LineTaken
<1>10. \/ /\ phase' \in {"drained", "done"} /\ Fatal(line)
          /\ \E why : why \in Stopping /\ items' = items \o <<Failure(why)>>
       \/ /\ phase' = "splitting" /\ ~Fatal(line) /\ Trim(line) = << >> /\ items' = items
       \/ /\ phase' = "splitting" /\ ~Fatal(line) /\ Trim(line) # << >>
          /\ items' = Append(items, Event(number + 1, line))
  BY <1>1, <1>2, <1>5, <1>6, TakeLineCases
<1>11. CASE /\ phase' \in {"drained", "done"} /\ Fatal(line)
            /\ \E why : why \in Stopping /\ items' = items \o <<Failure(why)>>
  <2>1. PICK why : why \in Stopping /\ items' = items \o <<Failure(why)>>
    BY <1>11
  <2>2. items' = Append(items, Failure(why))
    BY <1>5, <2>1, OneFailure
  <2>3. IsOver(mode', phase', items', seen', items)
    BY <1>1, <1>8, <1>11, <2>1, <2>2, StoppingIsNotBroken, DrainedIsOver
  <2> QED BY <1>11, <2>3, OverIsRuns
<1>12. CASE phase' = "splitting" /\ ~Fatal(line) /\ Trim(line) = << >> /\ items' = items
  <2>1. \E Q, lines : GoesOn(mode', phase', carry', pending', number', items', seen', Q, lines)
    BY <1>1, <1>8, <1>9, <1>12
  <2> QED BY <1>12, <2>1 DEF Runs, Active
<1>13. CASE /\ phase' = "splitting" /\ ~Fatal(line) /\ Trim(line) # << >>
            /\ items' = Append(items, Event(number + 1, line))
  <2>1. \E Q, lines : GoesOn(mode', phase', carry', pending', number', items', seen', Q, lines)
    BY <1>1, <1>8, <1>9, <1>13
  <2> QED BY <1>13, <2>1 DEF Runs, Active
<1> QED BY <1>10, <1>11, <1>12, <1>13

LEMMA KeepRestKeepsRuns ==
  ASSUME TypeOK, Shape, Runs, KeepRest
  PROVE  Runs'
<1>1. /\ phase = "splitting" /\ NewlineAt(pending) = 0
      /\ UNCHANGED <<mode, seen, carry, pending, number>>
  BY DEF KeepRest
<1>2. /\ mode \in {"lines", "limited"} /\ pending \in Texts /\ carry \in BOOLEAN
      /\ seen \in Seq(Alphabet) /\ number \in Nat
  BY <1>1 DEF TypeOK, Shape
<1>3. PICK P, ended : GoesOn(mode, "splitting", carry, pending, number, items, seen, P, ended)
  BY <1>1, <1>2, RunsGoesOn DEF Active
<1>4. CASE TooLong(pending)
  <2> DEFINE none == << >>
             last == Flush(pending, carry)
  <2>1. phase' = "done" /\ items' = items \o <<Failure("line-too-long")>>
    BY <1>4 DEF KeepRest, Finish
  <2>2. /\ P \in Texts /\ ended \in Seq(Texts) /\ SplitAt(P, ended) /\ items = EventsOf(ended)
        /\ IsRead(P, pending, carry, seen) /\ ~AnyFatal(ended)
    BY <1>3 DEF GoesOn, SplitAt
  <2>3. Plain(last) /\ TooLong(last) /\ last \in Texts
    BY <1>1, <1>2, <1>4, NewlineFacts, FlushFacts
  <2>4. WholeOf(seen) = P \o last
    BY <1>2, <2>2, WholeIs
  <2> HIDE DEF last
  <2>5. LinesOf(WholeOf(seen)) = Append(ended, last)
    BY <2>2, <2>3, <2>4, PlainLine
  <2>6. Fatal(last)
    BY <2>3 DEF Fatal
  <2>7. EventsOf(Append(ended, last)) = EventsOf(ended) /\ AnyFatal(Append(ended, last))
    BY <2>2, <2>3, <2>6, EventsAppend
  <2>8. items \in Seq(EventSet) /\ (mode = "limited" => Kept(items) <= MaxDocument)
    <3>1. none \in Seq(Alphabet)
      OBVIOUS
    <3> HIDE DEF none
    <3>2. ComeFirst(mode, items, seen \o none)
      BY <1>2, <1>3, <3>1, EventsComeFirst
    <3> QED BY <3>2 DEF ComeFirst
  <2>9. \E later \in Seq(EventSet) : items = items \o later
    <3>1. none \in Seq(EventSet) /\ items = items \o none
      BY <2>8
    <3> QED BY <3>1
  <2>10. IsOver(mode, "done", Append(items, Failure("line-too-long")), seen, items)
    <3>1. EventsOf(LinesOf(WholeOf(seen))) = items /\ AnyFatal(LinesOf(WholeOf(seen)))
      BY <2>2, <2>5, <2>7
    <3> QED BY <1>2, <2>8, <2>9, <3>1 DEF IsOver
  <2>11. items' = Append(items, Failure("line-too-long"))
    BY <2>1, <2>8, OneFailure
  <2>12. IsOver(mode', phase', items', seen', items)
    BY <1>1, <2>1, <2>10, <2>11
  <2> QED BY <2>1, <2>12, OverIsRuns
<1>5. CASE ~TooLong(pending)
  <2>1. phase' = "reading" /\ UNCHANGED items
    BY <1>5 DEF KeepRest
  <2>2. GoesOn(mode, "reading", carry, pending, number, items, seen, P, ended)
    BY <1>3 DEF GoesOn
  <2>3. GoesOn(mode', phase', carry', pending', number', items', seen', P, ended)
    BY <1>1, <2>1, <2>2
  <2> QED BY <2>1, <2>3 DEF Runs, Active
<1> QED BY <1>4, <1>5

LEMMA EndOfFileKeepsRuns ==
  ASSUME TypeOK, Shape, Runs, EndOfFile
  PROVE  Runs'
<1> DEFINE last == Flush(pending, carry)
<1>1. /\ phase = "reading" /\ mode # "document" /\ pending' = last /\ carry' = FALSE
      /\ phase' = "tail" /\ UNCHANGED <<mode, seen, number, items>>
  BY DEF EndOfFile
<1>2. pending \in Texts /\ carry \in BOOLEAN /\ seen \in Seq(Alphabet)
  BY DEF TypeOK
<1>3. PICK P, ended : GoesOn(mode, phase, carry, pending, number, items, seen, P, ended)
  BY <1>1, RunsGoesOn DEF Active
<1>4. /\ P \in Texts /\ ended \in Seq(Texts) /\ SplitAt(P, ended) /\ Len(ended) = number
      /\ items = EventsOf(ended) /\ IsRead(P, pending, carry, seen)
      /\ Kept(items) + Weight([text |-> pending, carry |-> carry]) <= Len(seen)
      /\ mode = "limited" => Len(seen) <= MaxDocument
  BY <1>1, <1>3 DEF GoesOn
<1>5. WholeOf(seen) = P \o last
  BY <1>2, <1>4, WholeIs
<1>6. last \in Texts /\ Len(last) = Weight([text |-> pending, carry |-> carry])
  BY <1>2, FlushFacts
<1> HIDE DEF last
<1>7. Weight([text |-> last, carry |-> FALSE]) = Len(last)
  <2>1. Len(last) \in Nat
    BY <1>6 DEF Texts
  <2> QED BY <2>1 DEF Weight
<1>8. GoesOn(mode, "tail", FALSE, last, number, items, seen, P, ended)
  BY <1>4, <1>5, <1>6, <1>7 DEF GoesOn
<1>9. GoesOn(mode', phase', carry', pending', number', items', seen', P, ended)
  BY <1>1, <1>8
<1> QED BY <1>1, <1>9 DEF Runs, Active

LEMMA LastLineKeepsRuns ==
  ASSUME TypeOK, Shape, Runs, LastLine
  PROVE  Runs'
<1>1. phase = "tail" /\ carry = FALSE /\ Plain(pending) /\ UNCHANGED <<mode, seen>>
  BY DEF LastLine, Shape
<1>2. /\ mode \in {"lines", "limited"} /\ pending \in Texts
      /\ seen \in Seq(Alphabet) /\ number \in Nat
  BY <1>1 DEF TypeOK, Shape
<1>3. PICK P, ended : GoesOn(mode, "tail", FALSE, pending, number, items, seen, P, ended)
  BY <1>1, <1>2, RunsGoesOn DEF Active
<1>4. /\ P \in Texts /\ ended \in Seq(Texts) /\ SplitAt(P, ended) /\ Len(ended) = number
      /\ items = EventsOf(ended) /\ WholeOf(seen) = P \o pending /\ ~AnyFatal(ended)
      /\ Kept(items) + Weight([text |-> pending, carry |-> FALSE]) <= Len(seen)
      /\ mode = "limited" => Len(seen) <= MaxDocument
  BY <1>3 DEF GoesOn, SplitAt
<1>5. items \in Seq(EventSet) /\ Kept(items) \in Nat
  BY <1>4, EventsAreEvents, KeptFacts
<1>6. mode = "limited" => Kept(items) + Len(pending) <= MaxDocument
  <2>1. Weight([text |-> pending, carry |-> FALSE]) = Len(pending) /\ Len(pending) \in Nat
    BY <1>2 DEF Weight, Texts
  <2>2. Len(seen) \in Nat /\ MaxDocument \in Nat
    BY <1>2, SizesAssumption
  <2> QED BY <1>4, <1>5, <2>1, <2>2
<1>7. LinesOf(WholeOf(seen)) = Append(ended, pending)
  BY <1>1, <1>2, <1>4, PlainLine
<1>8. /\ Fatal(pending) =>
           \A why : why \notin Broken => IsOver(mode, "done", Append(items, Failure(why)), seen, items)
      /\ ~Fatal(pending) /\ Trim(pending) = << >> => IsOver(mode, "done", items, seen, items)
      /\ ~Fatal(pending) /\ Trim(pending) # << >> =>
           IsOver(mode, "done", Append(items, Event(number + 1, pending)), seen,
                  Append(items, Event(number + 1, pending)))
  BY <1>2, <1>4, <1>6, <1>7, LastLineIs
<1>9. CASE pending = << >>
  <2>1. phase' = "done" /\ items' = items \o << >>
    BY <1>9 DEF LastLine, Finish
  <2>2. items' = items
    BY <1>5, <2>1
  <2>3. ~Fatal(pending) /\ Trim(pending) = << >>
    <3>1. Trim(pending) = << >>
      BY <1>9, TrimOfNothing
    <3>2. ~TooLong(<< >>)
      BY SizesAssumption DEF TooLong
    <3>3. ~TooLong(pending)
      BY <1>9, <3>2
    <3> QED BY <3>1, <3>3 DEF Fatal
  <2>4. IsOver(mode', phase', items', seen', items)
    BY <1>1, <1>8, <2>1, <2>2, <2>3
  <2> QED BY <2>1, <2>4, OverIsRuns
<1>10. CASE pending # << >>
  <2>1. TakeLine(pending, "drained")
    BY <1>10 DEF LastLine
  <2>2. phase' \in {"drained", "done"}
    BY <2>1, TakeLineFacts DEF LineTaken
  <2>3. \/ /\ Fatal(pending)
           /\ \E why : why \in Stopping /\ items' = items \o <<Failure(why)>>
        \/ ~Fatal(pending) /\ Trim(pending) = << >> /\ items' = items
        \/ /\ ~Fatal(pending) /\ Trim(pending) # << >>
           /\ items' = Append(items, Event(number + 1, pending))
    BY <1>2, <1>5, <2>1, TakeLineCases
  <2>4. CASE Fatal(pending) /\ \E why : why \in Stopping /\ items' = items \o <<Failure(why)>>
    <3>1. PICK why : why \in Stopping /\ items' = items \o <<Failure(why)>>
      BY <2>4
    <3>2. items' = Append(items, Failure(why))
      BY <1>5, <3>1, OneFailure
    <3>3. IsOver(mode', phase', items', seen', items)
      BY <1>1, <1>8, <2>2, <2>4, <3>1, <3>2, StoppingIsNotBroken, DrainedIsOver
    <3> QED BY <2>2, <3>3, OverIsRuns
  <2>5. CASE ~Fatal(pending) /\ Trim(pending) = << >> /\ items' = items
    <3>1. IsOver(mode', phase', items', seen', items)
      BY <1>1, <1>8, <2>2, <2>5, DrainedIsOver
    <3> QED BY <2>2, <3>1, OverIsRuns
  <2>6. CASE ~Fatal(pending) /\ Trim(pending) # << >> /\ items' = Append(items, Event(number + 1, pending))
    <3>1. IsOver(mode', phase', items', seen', items')
      BY <1>1, <1>8, <2>2, <2>6, DrainedIsOver
    <3> QED BY <2>2, <3>1, OverIsRuns
  <2> QED BY <2>3, <2>4, <2>5, <2>6
<1> QED BY <1>9, <1>10

LEMMA FinishDocumentKeepsRuns ==
  ASSUME TypeOK, Shape, Runs, FinishDocument
  PROVE  Runs'
<1> DEFINE text == WholeOf(seen)
           e == Event(0, text)
           none == << >>
<1>1. /\ phase = "reading" /\ mode = "document" /\ items = none /\ size <= MaxDocument
      /\ UNCHANGED <<mode, seen>>
  BY DEF FinishDocument, Shape
<1>2. /\ phase' \in {"drained", "done"}
      /\ \/ \E why : items' = items \o <<Failure(why)>>
         \/ Len(seen) <= size /\ items' = items \o <<e>>
  <2>1. Len(seen) \in Nat /\ size \in Nat
    BY DEF TypeOK
  <2>2. \/ Finish(<<Failure("changed")>>)
        \/ Finish(<<Failure(Judge(text))>>)
        \/ ~(Len(seen) > size) /\ HandOver(Event(0, text), "drained")
    BY DEF FinishDocument, WholeOf
  <2> HIDE DEF text
  <2>3. \A why : Finish(<<Failure(why)>>) => phase' = "done" /\ items' = items \o <<Failure(why)>>
    BY DEF Finish
  <2>4. HandOver(e, "drained") => phase' = "drained" /\ items' = items \o <<e>>
    BY DEF HandOver
  <2> QED BY <2>1, <2>2, <2>3, <2>4
<1>3. none \in Seq(EventSet) /\ items \in Seq(EventSet) /\ Kept(items) = 0
  <2>1. none \in Seq(EventSet)
    OBVIOUS
  <2>2. Kept(items) = 0
    BY <1>1, KeptFacts
  <2> HIDE DEF none
  <2> QED BY <1>1, <2>1, <2>2
<1>4. CASE \E why : items' = items \o <<Failure(why)>>
  <2>1. PICK why : items' = items \o <<Failure(why)>>
    BY <1>4
  <2>2. items' = Append(items, Failure(why))
    BY <1>3, <2>1, OneFailure
  <2>3. IsOver("document", "done", Append(items, Failure(why)), seen, items)
    BY <1>3, SizesAssumption DEF IsOver
  <2>4. IsOver(mode', phase', items', seen', items)
    BY <1>1, <1>2, <2>2, <2>3, DrainedIsOver
  <2> QED BY <1>2, <2>4, OverIsRuns
<1>5. CASE Len(seen) <= size /\ items' = items \o <<e>>
  <2>1. /\ text \in Texts /\ Len(text) \in Nat /\ Len(text) <= Len(seen)
        /\ Len(seen) \in Nat /\ size \in Nat /\ MaxDocument \in Nat
    BY WholeIsText, SizesAssumption DEF TypeOK
  <2>2. e \in EventSet /\ e.text = Trim(text) /\ Len(Trim(text)) <= Len(text) /\ Len(Trim(text)) \in Nat
    BY <2>1, EventInSet, TrimFacts
  <2> HIDE DEF text, e
  <2>3. items' = Append(items, e)
    BY <1>3, <1>5, OneFailure
  <2> DEFINE one == Append(items, e)
  <2>4. one \in Seq(EventSet) /\ Kept(one) = Len(Trim(text))
    BY <1>3, <2>2, KeptAppend, AppendProperties
  <2> HIDE DEF one
  <2>5. Kept(one) <= MaxDocument
    BY <1>1, <1>5, <2>1, <2>2, <2>4
  <2>6. IsOver("document", "done", one, seen, one)
    BY <2>4, <2>5 DEF IsOver
  <2>7. IsOver(mode', phase', items', seen', one)
    BY <1>1, <1>2, <2>3, <2>6, DrainedIsOver DEF one
  <2> QED BY <1>2, <2>7, OverIsRuns
<1> QED BY <1>2, <1>4, <1>5

LEMMA AbandonKeepsRuns ==
  ASSUME TypeOK, Shape, Runs, Abandon
  PROVE  Runs'
<1>0. phase' = "left" /\ UNCHANGED <<items, mode, seen>>
  BY DEF Abandon
<1>7. CASE phase = "drained"
  <2>1. PICK events : IsOver(mode, phase, items, seen, events)
    BY <1>7 DEF Runs, Active
  <2>2. IsOver(mode', phase', items', seen', events)
    BY <1>0, <1>7, <2>1, DrainedIsOver
  <2> QED BY <1>0, <2>2, OverIsRuns
<1> SUFFICES ASSUME phase = "splitting" PROVE Runs'
  BY <1>7 DEF Abandon, Shape
<1>1. phase = "splitting" /\ mode # "document" /\ phase' = "left" /\ UNCHANGED <<items, mode, seen>>
  BY <1>0 DEF Shape
<1>2. /\ mode \in {"lines", "limited"} /\ pending \in Texts /\ carry \in BOOLEAN
      /\ seen \in Seq(Alphabet) /\ number \in Nat
  BY <1>1 DEF TypeOK
<1>3. PICK P, ended : GoesOn(mode, phase, carry, pending, number, items, seen, P, ended)
  BY <1>1, RunsGoesOn DEF Active
<1> DEFINE none == << >>
<1>4. none \in Seq(Alphabet)
  OBVIOUS
<1> HIDE DEF none
<1>5. IsOver(mode, "left", items, seen, items)
  BY <1>1, <1>2, <1>3, <1>4, BreaksOff
<1>6. IsOver(mode', phase', items', seen', items)
  BY <1>1, <1>5
<1> QED BY <1>1, <1>6, OverIsRuns

LEMMA NothingAppended ==
  ASSUME Runs, ~Active
  PROVE  items \o << >> = items
<1>1. PICK events : IsOver(mode, phase, items, seen, events)
  BY DEF Runs
<1>2. events \in Seq(EventSet) /\ (items = events \/ \E why : items = Append(events, Failure(why)))
  BY <1>1 DEF IsOver
<1>3. ASSUME NEW S, NEW s \in Seq(S) PROVE s \o << >> = s
  OBVIOUS
<1>4. ASSUME NEW why, items = Append(events, Failure(why)) PROVE items \o << >> = items
  <2> DEFINE S == EventSet \cup {Failure(why)}
  <2>1. EventSet \subseteq S /\ Failure(why) \in S
    OBVIOUS
  <2> HIDE DEF S
  <2>2. items \in Seq(S)
    BY <1>2, <1>4, <2>1
  <2> QED BY <1>3, <2>2
<1> QED BY <1>2, <1>3, <1>4

LEMMA DrainKeepsRuns ==
  ASSUME TypeOK, Runs, Drain
  PROVE  Runs'
<1>1. phase = "drained" /\ phase' = "done" /\ UNCHANGED <<mode, seen>> /\ items' = items \o << >>
  BY DEF Drain, Finish
<1>2. PICK events : IsOver(mode, phase, items, seen, events)
  BY <1>1 DEF Runs, Active
<1>3. items \o << >> = items
  BY <1>1, NothingAppended DEF Active
<1>4. IsOver(mode', phase', items', seen', events)
  BY <1>1, <1>2, <1>3, DrainedIsOver
<1> QED BY <1>1, <1>4, OverIsRuns

LEMMA NextKeepsRuns ==
  ASSUME TypeOK, Shape, Runs, [Next]_vars
  PROVE  Runs'
<1>1. CASE ReadDocument
  BY <1>1 DEF ReadDocument, Runs, Active
<1>2. CASE Write
  BY <1>2 DEF Write, Runs, Active
<1>3. CASE Truncate
  BY <1>3 DEF Truncate, Runs, Active
<1>4. CASE UNCHANGED vars
  BY <1>4 DEF vars, fileVars, Runs, Active
<1> QED BY <1>1, <1>2, <1>3, <1>4, OpenKeepsRuns, FailsKeepRuns, ReadChunkKeepsRuns,
           SplitLineKeepsRuns, KeepRestKeepsRuns, EndOfFileKeepsRuns, LastLineKeepsRuns,
           FinishDocumentKeepsRuns, DrainKeepsRuns, AbandonKeepsRuns DEF Next, Proceed

LEMMA InitRuns == Init => Shape /\ Runs
<1> SUFFICES ASSUME Init PROVE Shape /\ Runs
  OBVIOUS
<1> DEFINE none == << >>
<1>1. /\ phase = "closed" /\ suspended = FALSE /\ number = 0 /\ carry = FALSE
      /\ items = none /\ pending = none /\ seen = none
  BY DEF Init
<1>2. MaxLine \in Nat /\ ChunkBytes \in Nat /\ MaxDocument \in Nat /\ Len(none) = 0
  BY SizesAssumption
<1>3. Shape
  BY <1>1, <1>2 DEF Shape
<1>4. none \in Texts /\ none \in Seq(Texts)
  BY DEF Texts
<1>5. /\ Kept(none) = 0 /\ EventsOf(none) = none
      /\ SplitAt(none, none) /\ IsRead(none, none, FALSE, none)
  BY KeptFacts, EventsOfNothing, NothingIsRead
<1>6. Weight([text |-> none, carry |-> FALSE]) = 0
  BY DEF Weight
<1> HIDE DEF none
<1>7. GoesOn(mode, "closed", FALSE, none, 0, none, none, none, none)
  <2>1. Kept(none) + Weight([text |-> none, carry |-> FALSE]) <= Len(none) /\ Len(none) <= MaxDocument
    BY <1>2, <1>5, <1>6
  <2>2. IF "closed" = "tail" THEN WholeOf(none) = none \o none ELSE IsRead(none, none, FALSE, none)
    BY <1>5
  <2> QED BY <1>2, <1>4, <1>5, <2>1, <2>2 DEF GoesOn
<1>8. GoesOn(mode, phase, carry, pending, number, items, seen, none, none)
  BY <1>1, <1>7
<1>9. Runs
  BY <1>1, <1>8 DEF Runs, Active
<1> QED BY <1>3, <1>9

LEMMA Invariant == Spec => []IInv
<1>1. Init => IInv
  BY InitHasTypes, InitRuns DEF IInv
<1>2. IInv /\ [Next]_vars => IInv'
  BY NextKeepsTypes, NextKeepsShape, NextKeepsRuns DEF IInv
<1> QED BY <1>1, <1>2, PTL DEF Spec

-----------------------------------------------------------------------------
(* What the invariant says.                                                *)
(* Events and failures of any items.                                       *)
FailedIn(its) == its # << >> /\ Last(its).kind = "failure"
EventsIn(its) == IF FailedIn(its) THEN Front(its) ELSE its
FailuresIn(its) == IF FailedIn(its) THEN {Last(its).why} ELSE {}

LEMMA InItems == Events = EventsIn(items) /\ Failures = FailuresIn(items)
BY DEF Events, Failures, Failed, EventsIn, FailuresIn, FailedIn

LEMMA EventsInEvents ==
  ASSUME NEW events \in Seq(EventSet)
  PROVE  EventsIn(events) = events /\ FailuresIn(events) = {}
<1>1. ~FailedIn(events)
  <2>1. CASE events = << >>
    BY <2>1 DEF FailedIn
  <2>2. CASE events # << >>
    <3>1. Len(events) \in Nat /\ Len(events) # 0
      BY <2>2
    <3>2. Last(events) \in EventSet
      BY <3>1 DEF Last
    <3> QED BY <3>2 DEF FailedIn, EventSet
  <2> QED BY <2>1, <2>2
<1> QED BY <1>1 DEF EventsIn, FailuresIn

LEMMA EventsOfStream ==
  ASSUME NEW events \in Seq(EventSet), items = events
  PROVE  Events = events /\ Failures = {}
BY InItems, EventsInEvents

LEMMA FrontOfAppend ==
  ASSUME NEW S, NEW s \in Seq(S), NEW x \in S
  PROVE  Front(Append(s, x)) = s /\ Last(Append(s, x)) = x /\ Append(s, x) # << >>
<1> DEFINE whole == Append(s, x)
           N == Len(s)
<1>1. /\ whole \in Seq(S) /\ Len(whole) = N + 1 /\ N \in Nat
      /\ whole[N + 1] = x /\ \A i \in 1 .. N : whole[i] = s[i]
  BY AppendProperties
<1> HIDE DEF whole
<1>2. SubSeq(whole, 1, N) \in Seq(S) /\ Len(SubSeq(whole, 1, N)) = N
  BY <1>1
<1>3. \A i \in 1 .. N : SubSeq(whole, 1, N)[i] = s[i]
  BY <1>1
<1>4. SubSeq(whole, 1, N) = s
  BY <1>2, <1>3, SeqEqual
<1>5. Len(whole) - 1 = N
  BY <1>1
<1>6. Front(whole) = s /\ Last(whole) = x /\ whole # << >>
  BY <1>1, <1>4, <1>5 DEF Front, Last
<1> QED BY <1>6 DEF whole

LEMMA EventsInFailure ==
  ASSUME NEW events \in Seq(EventSet), NEW why
  PROVE  /\ EventsIn(Append(events, Failure(why))) = events
         /\ FailuresIn(Append(events, Failure(why))) = {why}
<1> DEFINE S == EventSet \cup {Failure(why)}
           f == Failure(why)
           whole == Append(events, f)
<1>1. events \in Seq(S) /\ f \in S /\ f.kind = "failure" /\ f.why = why
  BY DEF Failure
<1> HIDE DEF S, f
<1>2. Front(whole) = events /\ Last(whole) = f /\ whole # << >>
  BY <1>1, FrontOfAppend
<1> HIDE DEF whole
<1>3. FailedIn(whole)
  BY <1>1, <1>2 DEF FailedIn
<1> QED BY <1>1, <1>2, <1>3 DEF EventsIn, FailuresIn, whole, f

LEMMA EventsOfFailure ==
  ASSUME NEW events \in Seq(EventSet), NEW why, items = Append(events, Failure(why))
  PROVE  Events = events /\ Failures = {why}
BY InItems, EventsInFailure

LEMMA IsPrefixOf ==
  ASSUME NEW events \in Seq(EventSet), NEW later \in Seq(EventSet)
  PROVE  IsPrefix(events, events \o later)
<1> DEFINE whole == events \o later
           N == Len(events)
<1>1. /\ whole \in Seq(EventSet) /\ Len(whole) = N + Len(later) /\ N \in Nat /\ Len(later) \in Nat
      /\ \A i \in 1 .. N : whole[i] = events[i]
  BY ConcatProperties
<1> HIDE DEF whole
<1>2. SubSeq(whole, 1, N) = events
  <2>1. SubSeq(whole, 1, N) \in Seq(EventSet) /\ Len(SubSeq(whole, 1, N)) = N
    BY <1>1
  <2>2. \A i \in 1 .. N : SubSeq(whole, 1, N)[i] = events[i]
    BY <1>1
  <2> QED BY <2>1, <2>2, SeqEqual
<1>3. SubSeq(events, 1, N) = events
  OBVIOUS
<1> QED BY <1>1, <1>2, <1>3 DEF IsPrefix, whole

(* Events and failures of a stream that goes on, or is over.               *)
LEMMA StreamOf ==
  ASSUME IInv
  PROVE  \E events \in Seq(EventSet) :
           /\ Events = events
           /\ mode # "lines" => Kept(events) <= MaxDocument
           /\ mode # "document" =>
                /\ \E later \in Seq(EventSet) : Reference = events \o later
                /\ phase \in {"drained", "done"} /\ Failures \cap Broken = {} =>
                     /\ Reference = events
                     /\ AnyFatal(LinesOf(WholeText)) <=> Failures # {}
<1>1. TypeOK /\ Shape /\ Runs
  BY DEF IInv
<1>2. WholeText = WholeOf(seen) /\ Reference = EventsOf(LinesOf(WholeOf(seen)))
  BY DEF WholeText, WholeOf, Reference
<1>3. CASE Active /\ mode # "document"
  <2>1. PICK P, ended : GoesOn(mode, phase, carry, pending, number, items, seen, P, ended)
    BY <1>1, <1>3, RunsGoesOn
  <2>2. mode \in {"lines", "limited"} /\ pending \in Texts /\ carry \in BOOLEAN /\ seen \in Seq(Alphabet)
    BY <1>1, <1>3 DEF TypeOK
  <2>3. ComeFirst(mode, items, seen)
    <3>1. CASE phase # "tail"
      <4> DEFINE none == << >>
      <4>1. none \in Seq(Alphabet) /\ seen \o none = seen
        BY <2>2
      <4> HIDE DEF none
      <4>2. ComeFirst(mode, items, seen \o none)
        BY <2>1, <2>2, <3>1, <4>1, EventsComeFirst
      <4> QED BY <4>1, <4>2
    <3>2. CASE phase = "tail"
      <4>1. /\ P \in Texts /\ ended \in Seq(Texts) /\ SplitAt(P, ended) /\ items = EventsOf(ended)
            /\ WholeOf(seen) = P \o pending
            /\ Kept(items) + Weight([text |-> pending, carry |-> carry]) <= Len(seen)
            /\ mode = "limited" => Len(seen) <= MaxDocument
        BY <2>1, <3>2 DEF GoesOn
      <4>2. \E later \in Seq(EventSet) : EventsOf(LinesOf(P \o pending)) = EventsOf(ended) \o later
        BY <2>2, <4>1, LinesGoOn
      <4>3. items \in Seq(EventSet) /\ Kept(items) \in Nat
        BY <4>1, EventsAreEvents, KeptFacts
      <4>4. Weight([text |-> pending, carry |-> carry]) \in Nat
        <5>1. [text |-> pending, carry |-> carry] \in States
          BY <2>2 DEF States
        <5> QED BY <5>1, WeightOfState
      <4>5. mode = "limited" => Kept(items) <= MaxDocument
        <5>1. Len(seen) \in Nat /\ MaxDocument \in Nat
          BY <2>2, SizesAssumption
        <5> QED BY <4>1, <4>3, <4>4, <5>1
      <4> QED BY <4>1, <4>2, <4>3, <4>5 DEF ComeFirst
    <3> QED BY <3>1, <3>2
  <2>4. items \in Seq(EventSet)
    BY <2>3 DEF ComeFirst
  <2>5. Events = items
    BY <2>4, EventsOfStream
  <2>6. phase \notin {"drained", "done"}
    BY <1>3 DEF Active
  <2> QED BY <1>2, <2>2, <2>3, <2>4, <2>5, <2>6 DEF ComeFirst
<1>4. CASE Active /\ mode = "document"
  <2>1. items = << >>
    BY <1>1, <1>4 DEF Shape, Active
  <2>2. << >> \in Seq(EventSet) /\ Kept(<< >>) <= MaxDocument
    BY KeptFacts, SizesAssumption
  <2>3. items \in Seq(EventSet) /\ Kept(items) <= MaxDocument
    BY <2>1, <2>2, Zenon
  <2>4. Events = items
    BY <2>3, EventsOfStream
  <2> QED BY <1>4, <2>3, <2>4
<1>5. CASE ~Active
  <2>1. PICK events : IsOver(mode, phase, items, seen, events)
    BY <1>1, <1>5 DEF Runs
  <2> DEFINE lines == LinesOf(WholeOf(seen))
  <2>2. /\ events \in Seq(EventSet)
        /\ mode # "lines" => Kept(events) <= MaxDocument
        /\ mode # "document" => \E later \in Seq(EventSet) : EventsOf(lines) = events \o later
    BY <2>1 DEF IsOver
  <2>3. \/ /\ items = events
           /\ mode # "document" /\ phase # "left" => EventsOf(lines) = events /\ ~AnyFatal(lines)
        \/ \E why : /\ items = Append(events, Failure(why))
                    /\ mode # "document" /\ why \notin Broken => EventsOf(lines) = events /\ AnyFatal(lines)
    BY <2>1 DEF IsOver
  <2> HIDE DEF lines
  <2>4. CASE /\ items = events
             /\ mode # "document" /\ phase # "left" => EventsOf(lines) = events /\ ~AnyFatal(lines)
    <3>1. Events = events /\ Failures = {}
      BY <2>2, <2>4, EventsOfStream
    <3> QED BY <1>2, <2>2, <2>4, <3>1 DEF lines
  <2>5. CASE \E why : /\ items = Append(events, Failure(why))
                      /\ mode # "document" /\ why \notin Broken => EventsOf(lines) = events /\ AnyFatal(lines)
    <3>1. PICK why : /\ items = Append(events, Failure(why))
                     /\ mode # "document" /\ why \notin Broken => EventsOf(lines) = events /\ AnyFatal(lines)
      BY <2>5
    <3>2. Events = events /\ Failures = {why}
      BY <2>2, <3>1, EventsOfFailure
    <3> QED BY <1>2, <2>2, <3>1, <3>2 DEF lines
  <2> QED BY <2>3, <2>4, <2>5
<1> QED BY <1>3, <1>4, <1>5

LEMMA InvariantBoundsHeld == IInv => HeldIsBounded
<1> SUFFICES ASSUME IInv PROVE HeldIsBounded
  OBVIOUS
<1>1. Len(pending) <= MaxLine + ChunkBytes + 1
  BY DEF IInv, Shape
<1>2. mode # "lines" => Kept(Events) <= MaxDocument
  BY StreamOf
<1> QED BY <1>1, <1>2 DEF HeldIsBounded

LEMMA InvariantOrdersEvents == IInv => EventsAreTheLines
<1> SUFFICES ASSUME IInv, mode # "document" PROVE EventsAreTheLines
  BY DEF EventsAreTheLines
<1>1. PICK events \in Seq(EventSet) :
        /\ Events = events
        /\ \E later \in Seq(EventSet) : Reference = events \o later
        /\ phase \in {"drained", "done"} /\ Failures \cap Broken = {} =>
             /\ Reference = events
             /\ AnyFatal(LinesOf(WholeText)) <=> Failures # {}
  BY StreamOf
<1>2. IsPrefix(Events, Reference)
  BY <1>1, IsPrefixOf
<1>3. ReferenceFails <=> AnyFatal(LinesOf(WholeText))
  <2>1. WholeText = WholeOf(seen) /\ seen \in Seq(Alphabet)
    BY DEF WholeText, WholeOf, IInv, TypeOK
  <2>2. LinesOf(WholeText) \in Seq(Texts)
    BY <2>1, WholeIsText, LinesIsSome
  <2>3. DOMAIN LinesOf(WholeText) = 1 .. Len(LinesOf(WholeText))
    BY <2>2
  <2> QED BY <2>3 DEF ReferenceFails, AnyFatal
<1> QED BY <1>1, <1>2, <1>3 DEF EventsAreTheLines, Broken

(* What a reader holds at any moment is bounded by its limits, however     *)
(* large the file is or gets (readLines, readTextFile): the text not yet   *)
(* split by one line and one chunk, the events that are kept by the limit  *)
(* of the whole file.                                                      *)
THEOREM HeldIsBoundedHolds == Spec => []HeldIsBounded
BY Invariant, InvariantBoundsHeld, PTL

(* Chunking leaves no trace (readLines, streamFile): for every file, every *)
(* size of a chunk and everything another process does meanwhile, the      *)
(* events yielded are the first events of the whole text that was read,    *)
(* and a stream that ran to its end yielded them all.                      *)
THEOREM EventsAreTheLinesHolds == Spec => []EventsAreTheLines
BY Invariant, InvariantOrdersEvents, PTL

-----------------------------------------------------------------------------
(* The stream: what is settled, and that every step of the reader is one   *)
(* of the stream.                                                          *)
LEMMA LinesFound ==
  ASSUME NEW text \in Texts
  PROVE  \E ended \in Seq(Texts), last \in Texts : LinesOf(text) = Append(ended, last)
<1> DEFINE none == << >>
<1>1. none \in Texts /\ none \in Seq(Texts) /\ LinesOf(none) = Append(none, none)
  BY NothingIsRead DEF SplitAt, Texts
<1>2. \A t : t \in Seq(Characters) => none \o t = t
  OBVIOUS
<1>3. \A t : t \in Seq(Texts) => none \o t = t
  OBVIOUS
<1> HIDE DEF none
<1>4. PICK rest \in SomeLines : LinesOf(none \o text) = none \o rest
  BY <1>1, EndedLinesStay
<1>5. LinesOf(text) = rest
  BY <1>2, <1>3, <1>4 DEF SomeLines, Texts
<1> QED BY <1>5, LinesAndLast

(* A byte that is held back touches no line that has ended.                *)
LEMMA SettledIs ==
  ASSUME NEW how, how # "document", NEW bytes \in Seq(Alphabet)
  PROVE  \E text \in Texts, held \in BOOLEAN, ended \in Seq(Texts), last \in Texts :
           /\ IsRead(text, << >>, held, bytes)
           /\ LinesOf(text) = Append(ended, last)
           /\ SettledIn(how, bytes) = EventsOf(ended)
<1> DEFINE start == [text |-> << >>, carry |-> FALSE]
           st == Decode(<< >>, FALSE, bytes)
<1>1. start \in States
  BY DEF States, Texts
<1>2. st \in States
  <2>1. DecodeFrom(start, bytes) \in States
    <3> HIDE DEF start
    <3> QED BY <1>1, DecodeIsState
  <2> QED BY <2>1 DEF Decode
<1>3. WholeOf(bytes) = Flush(st.text, st.carry)
  BY DEF WholeOf
<1>4. st = Decode(<< >>, FALSE, bytes)
  OBVIOUS
<1> HIDE DEF st, start
<1>5. st.text \in Texts /\ st.carry \in BOOLEAN /\ st = [text |-> st.text, carry |-> st.carry]
  BY <1>2 DEF States
<1>6. PICK text \in Texts, held \in BOOLEAN : text = st.text /\ held = st.carry
  BY <1>5
<1>7. text \o << >> = text
  BY DEF Texts
<1>8. IsRead(text, << >>, held, bytes)
  BY <1>4, <1>5, <1>6, <1>7 DEF IsRead
<1>9. PICK ended \in Seq(Texts), last \in Texts : LinesOf(text) = Append(ended, last)
  BY LinesFound
<1>10. \E l \in Texts : LinesOf(Flush(text, held)) = Append(ended, l)
  <2>1. CASE held
    <3>0. Replacement # Newline
      BY DEF Replacement, Newline
    <3>1. Flush(text, held) = Append(text, Replacement) /\ Replacement \in Characters
      BY <2>1 DEF Flush, Characters
    <3>2. LinesOf(Append(text, Replacement)) = NextLines(Append(ended, last), Replacement)
      BY <1>9, <3>1, LinesAppend
    <3>3. NextLines(Append(ended, last), Replacement) = Append(ended, Append(last, Replacement))
      BY <3>0, <3>1, NextLinesOf
    <3>4. Append(last, Replacement) \in Texts
      BY <3>1 DEF Texts
    <3> QED BY <3>1, <3>2, <3>3, <3>4
  <2>2. CASE ~held
    BY <1>9, <2>2 DEF Flush
  <2> QED BY <2>1, <2>2
<1>11. PICK l \in Texts : LinesOf(Flush(text, held)) = Append(ended, l)
  BY <1>10
<1>12. Front(Append(ended, l)) = ended
  BY FrontOfAppend
<1>13. SettledIn(how, bytes) = EventsOf(ended)
  BY <1>3, <1>6, <1>11, <1>12 DEF SettledIn
<1> QED BY <1>8, <1>9, <1>13

(* What is settled comes first in every whole that begins with the bytes.  *)
LEMMA SettledComesFirst ==
  ASSUME NEW how, how # "document", NEW bytes \in Seq(Alphabet), NEW more \in Seq(Alphabet)
  PROVE  /\ SettledIn(how, bytes) \in Seq(EventSet)
         /\ \E later \in Seq(EventSet) :
              EventsOf(LinesOf(WholeOf(bytes \o more))) = SettledIn(how, bytes) \o later
<1>1. PICK text \in Texts, held \in BOOLEAN, ended \in Seq(Texts), last \in Texts :
           /\ IsRead(text, << >>, held, bytes)
           /\ LinesOf(text) = Append(ended, last)
           /\ SettledIn(how, bytes) = EventsOf(ended)
  BY SettledIs
<1> DEFINE none == << >>
           st == Decode(none, held, more)
           tail == Flush(st.text, st.carry)
<1>2. none \in Texts /\ IsRead(text, none, held, bytes)
  BY <1>1 DEF Texts
<1> HIDE DEF none
<1>3. st \in States /\ IsRead(text, st.text, st.carry, bytes \o more)
  BY <1>2, MoreIsRead
<1> HIDE DEF st
<1>4. st.text \in Texts /\ st.carry \in BOOLEAN
  BY <1>3 DEF States
<1>5. WholeOf(bytes \o more) = text \o tail /\ tail \in Texts
  <2>1. tail \in Texts
    BY <1>4, FlushFacts
  <2>2. WholeOf(bytes \o more) = text \o tail
    BY <1>3, <1>4, WholeIs
  <2> QED BY <2>1, <2>2
<1> HIDE DEF tail
<1>6. PICK rest \in SomeLines : LinesOf(text \o tail) = ended \o rest
  BY <1>1, <1>5, EndedLinesStay
<1>7. rest \in Seq(Texts)
  BY DEF SomeLines
<1>8. \E later \in Seq(EventSet) : EventsOf(ended \o rest) = EventsOf(ended) \o later
  BY <1>7, EventsGoOn
<1> QED BY <1>1, <1>5, <1>6, <1>8, EventsAreEvents

(* An event that is settled stays, under its line number (readLines): once *)
(* its line has ended, nothing that is appended to the file changes or     *)
(* removes it, or puts another before it.  Of a document nothing is        *)
(* settled before it has been read.                                        *)
THEOREM SettledStays ==
  ASSUME NEW how, NEW bytes \in Seq(Alphabet), NEW more \in Seq(Alphabet)
  PROVE  IsPrefix(SettledIn(how, bytes), AllIn(how, bytes \o more))
<1>1. CASE how = "document"
  <2> DEFINE whole == AllIn(how, bytes \o more)
             none == << >>
  <2>1. SettledIn(how, bytes) = none
    BY <1>1 DEF SettledIn
  <2>2. Len(whole) \in Nat /\ Len(none) = 0
    BY <1>1 DEF AllIn
  <2>3. SubSeq(whole, 1, 0) = none /\ SubSeq(none, 1, 0) = none
    BY <1>1 DEF AllIn
  <2> HIDE DEF whole, none
  <2> QED BY <2>1, <2>2, <2>3 DEF IsPrefix, whole
<1>2. CASE how # "document"
  <2>1. PICK later \in Seq(EventSet) :
          /\ SettledIn(how, bytes) \in Seq(EventSet)
          /\ EventsOf(LinesOf(WholeOf(bytes \o more))) = SettledIn(how, bytes) \o later
    BY <1>2, SettledComesFirst
  <2>2. AllIn(how, bytes \o more) = SettledIn(how, bytes) \o later
    BY <1>2, <2>1 DEF AllIn
  <2> QED BY <2>1, <2>2, IsPrefixOf
<1> QED BY <1>1, <1>2

YieldedSoFar(m, its, bytes) == \E later \in Seq(EventSet) : SettledIn(m, bytes) = its \o later

LEMMA SettledGoesOn ==
  ASSUME NEW m, m # "document", NEW ph, ph # "tail", NEW held \in BOOLEAN, NEW rest \in Texts,
         NEW n, NEW its, NEW bytes \in Seq(Alphabet), NEW P, NEW ended,
         GoesOn(m, ph, held, rest, n, its, bytes, P, ended)
  PROVE  YieldedSoFar(m, its, bytes)
<1>1. /\ P \in Texts /\ ended \in Seq(Texts) /\ SplitAt(P, ended) /\ its = EventsOf(ended)
      /\ IsRead(P, rest, held, bytes)
  BY DEF GoesOn
<1> DEFINE none == << >>
           tail == Flush(rest, held)
<1>2. tail \in Texts
  BY FlushFacts
<1>3. WholeOf(bytes) = P \o tail
  BY <1>1, WholeIs
<1>4. none \in Texts /\ LinesOf(P) = Append(ended, none)
  BY <1>1 DEF SplitAt, Texts
<1> HIDE DEF none, tail
<1>5. PICK more \in SomeLines : LinesOf(P \o tail) = ended \o more
  BY <1>1, <1>2, <1>4, EndedLinesStay
<1>6. PICK start \in Seq(Texts), last \in Texts : more = Append(start, last)
  BY LinesAndLast
<1>7. ended \o more = Append(ended \o start, last) /\ ended \o start \in Seq(Texts)
  BY <1>1, <1>6, LineAssociates
<1>8. Front(Append(ended \o start, last)) = ended \o start
  BY <1>7, FrontOfAppend
<1>9. SettledIn(m, bytes) = EventsOf(ended \o start)
  BY <1>3, <1>5, <1>7, <1>8 DEF SettledIn
<1>10. \E later \in Seq(EventSet) : EventsOf(ended \o start) = EventsOf(ended) \o later
  BY <1>1, EventsGoOn
<1> QED BY <1>1, <1>9, <1>10 DEF YieldedSoFar

(* What became of a stream, by its phase and its items.                    *)
EndedIn(ph, its) ==
  IF ph = "left" THEN "left"
  ELSE IF ph \notin {"drained", "done"} THEN "no"
  ELSE IF FailuresIn(its) \cap (Broken \cup {"changed"}) # {} THEN "broken"
  ELSE IF ph = "drained" /\ FailuresIn(its) = {} THEN "last" ELSE "whole"

LEMMA StreamIs ==
  /\ Ended = EndedIn(phase, items) /\ Ended' = EndedIn(phase', items')
  /\ Events = EventsIn(items) /\ Events' = EventsIn(items')
<1>1. Broken \cup {"changed"} = {"unreadable", "too-large", "grew", "changed"}
  BY DEF Broken
<1>2. Ended = EndedIn(phase, items)
  BY <1>1 DEF Ended, EndedIn, Failures, Failed, FailuresIn, FailedIn
<1>3. Ended' = EndedIn(phase', items')
  BY <1>1 DEF Ended, EndedIn, Failures, Failed, FailuresIn, FailedIn
<1>4. Events = EventsIn(items) /\ Events' = EventsIn(items')
  BY DEF Events, Failed, EventsIn, FailedIn
<1> QED BY <1>2, <1>3, <1>4

LEMMA ActiveItems ==
  ASSUME IInv, Active
  PROVE  items \in Seq(EventSet) /\ Events = items /\ Ended = "no"
<1>1. TypeOK /\ Shape /\ Runs
  BY DEF IInv
<1>2. items \in Seq(EventSet)
  <2>1. CASE mode = "document"
    <3>1. items = << >>
      BY <1>1, <2>1 DEF Active, Shape
    <3>2. << >> \in Seq(EventSet)
      OBVIOUS
    <3> QED BY <3>1, <3>2, Zenon
  <2>2. CASE mode # "document"
    BY <1>1, <2>2, RunsGoesOn, EventsAreEvents DEF GoesOn
  <2> QED BY <2>1, <2>2
<1>3. Events = items
  BY <1>2, StreamIs, EventsInEvents
<1>4. Ended = "no"
  BY StreamIs DEF EndedIn, Active
<1> QED BY <1>2, <1>3, <1>4

LEMMA PrefixOfItself ==
  ASSUME NEW S, NEW s \in Seq(S), NEW t \in Seq(S)
  PROVE  IsPrefix(s, s) /\ IsPrefix(s, s \o t)
<1> DEFINE whole == s \o t
           N == Len(s)
<1>1. /\ whole \in Seq(S) /\ Len(whole) = N + Len(t) /\ N \in Nat /\ Len(t) \in Nat
      /\ \A i \in 1 .. N : whole[i] = s[i]
  BY ConcatProperties
<1> HIDE DEF whole
<1>2. SubSeq(whole, 1, N) = s
  <2>1. SubSeq(whole, 1, N) \in Seq(S) /\ Len(SubSeq(whole, 1, N)) = N
    BY <1>1
  <2>2. \A i \in 1 .. N : SubSeq(whole, 1, N)[i] = s[i]
    BY <1>1
  <2> QED BY <2>1, <2>2, SeqEqual
<1>3. SubSeq(s, 1, N) = s
  OBVIOUS
<1> QED BY <1>1, <1>2, <1>3 DEF IsPrefix, whole

(* Bytes are read and nothing is yielded.                                  *)
LEMMA StreamReads ==
  ASSUME IInv, Active, phase' \in {"closed", "reading", "splitting", "tail"}, items' = items,
         mode' = mode, NEW more \in Seq(Alphabet), seen' = seen \o more
  PROVE  Stream!Read
<1>1. items \in Seq(EventSet) /\ Ended = "no" /\ Events = items
  BY ActiveItems
<1>2. Ended' = "no" /\ Events' = Events
  BY <1>1, StreamIs DEF EndedIn
<1>3. seen \in Seq(Alphabet)
  BY DEF IInv, TypeOK
<1>4. IsPrefix(seen, seen')
  BY <1>3, PrefixOfItself
<1> QED BY <1>1, <1>2, <1>4 DEF Stream!Read, Stream!IsPrefix, IsPrefix

(* Nothing is read and nothing is yielded.                                 *)
LEMMA StreamWaits ==
  ASSUME IInv, Active, phase' \in {"closed", "reading", "splitting", "tail"}, items' = items,
         mode' = mode, seen' = seen
  PROVE  UNCHANGED Stream!streamVars
<1>1. Ended = "no" /\ Ended' = "no"
  BY ActiveItems, StreamIs DEF EndedIn
<1>2. Events' = Events
  BY StreamIs
<1> QED BY <1>1, <1>2 DEF Stream!streamVars

(* Reading fails.                                                          *)
LEMMA StreamBreaksOff ==
  ASSUME IInv, Active, phase' = "done", NEW why \in Broken \cup {"changed"},
         items' = items \o <<Failure(why)>>, mode' = mode,
         NEW more \in Seq(Alphabet), seen' = seen \o more
  PROVE  Stream!Break
<1>1. items \in Seq(EventSet) /\ Ended = "no" /\ Events = items
  BY ActiveItems
<1>2. EventsIn(items') = items /\ FailuresIn(items') = {why}
  BY <1>1, OneFailure, EventsInFailure
<1>3. Ended' = "broken" /\ Events' = Events
  BY <1>1, <1>2, StreamIs DEF EndedIn
<1>4. seen \in Seq(Alphabet)
  BY DEF IInv, TypeOK
<1>5. IsPrefix(seen, seen')
  BY <1>4, PrefixOfItself
<1> QED BY <1>1, <1>3, <1>5 DEF Stream!Break, Stream!IsPrefix, IsPrefix

(* A stream that ran to its end yielded all there is.                      *)
LEMMA OverIsWhole ==
  ASSUME NEW m, m # "document", NEW its, NEW bytes, NEW events,
         NEW ph \in {"drained", "done"}, IsOver(m, ph, its, bytes, events),
         FailuresIn(its) \cap Broken = {}
  PROVE  EventsIn(its) = AllIn(m, bytes)
<1> DEFINE all == EventsOf(LinesOf(WholeOf(bytes)))
<1>1. AllIn(m, bytes) = all
  BY DEF AllIn
<1>2. /\ events \in Seq(EventSet)
      /\ \/ its = events /\ all = events
         \/ \E why : its = Append(events, Failure(why)) /\ (why \notin Broken => all = events)
  BY DEF IsOver
<1> HIDE DEF all
<1>3. CASE its = events /\ all = events
  BY <1>1, <1>2, <1>3, EventsInEvents
<1>4. CASE \E why : its = Append(events, Failure(why)) /\ (why \notin Broken => all = events)
  <2>1. PICK why : its = Append(events, Failure(why)) /\ (why \notin Broken => all = events)
    BY <1>4
  <2>2. EventsIn(its) = events /\ FailuresIn(its) = {why}
    BY <1>2, <2>1, EventsInFailure
  <2> QED BY <1>1, <2>1, <2>2
<1> QED BY <1>2, <1>3, <1>4

LEMMA AllAreYielded ==
  ASSUME IInv', phase' \in {"drained", "done"}, mode # "document", mode' = mode, seen' = seen,
         FailuresIn(items') \cap Broken = {}
  PROVE  Events' = AllIn(mode, seen)
<1>3. PICK events : IsOver(mode', phase', items', seen', events)
  BY DEF IInv, Runs, Active
<1>4. EventsIn(items') = AllIn(mode, seen)
  BY <1>3, OverIsWhole
<1> QED BY <1>4, StreamIs

(* It has been told so: at the end, or at a line that is no event.         *)
LEMMA StreamRunsOut ==
  ASSUME IInv, IInv', Active, phase' \in {"drained", "done"}, mode # "document", mode' = mode,
         seen' = seen, Events' = Events, FailuresIn(items') \cap (Broken \cup {"changed"}) = {},
         phase' = "drained" => FailuresIn(items') # {}
  PROVE  Stream!End
<1>1. Ended = "no"
  BY ActiveItems
<1>2. Ended' = "whole"
  BY StreamIs DEF EndedIn
<1>3. Events' = AllIn(mode, seen)
  BY AllAreYielded
<1> QED BY <1>1, <1>2, <1>3 DEF Stream!End

(* The reader stops at a line that is too long or no event.                *)
LEMMA StopsIsStream ==
  ASSUME IInv, IInv', Active, phase' \in {"drained", "done"}, mode # "document", mode' = mode,
         seen' = seen, NEW why \in Stopping, items' = items \o <<Failure(why)>>
  PROVE  Stream!End
<1>1. items \in Seq(EventSet) /\ Events = items
  BY ActiveItems
<1>2. EventsIn(items') = items /\ FailuresIn(items') = {why}
  BY <1>1, OneFailure, EventsInFailure
<1>3. Events' = Events
  BY <1>1, <1>2, StreamIs
<1>4. FailuresIn(items') \cap (Broken \cup {"changed"}) = {}
  BY <1>2, StoppingIsNotBroken
<1> QED BY <1>2, <1>3, <1>4, StreamRunsOut

LEMMA NothingMore ==
  ASSUME IInv, seen' = seen
  PROVE  \E none \in Seq(Alphabet) : seen' = seen \o none
<1>1. seen \in Seq(Alphabet)
  BY DEF IInv, TypeOK
<1> DEFINE none == << >>
<1>2. none \in Seq(Alphabet) /\ seen \o none = seen
  BY <1>1
<1> QED BY <1>2

(* A line that has ended yields its event, and the event was settled.      *)
LEMMA SplitLineIsStream ==
  ASSUME IInv, IInv', SplitLine
  PROVE  [Stream!Next]_Stream!streamVars
<1> DEFINE line == SubSeq(pending, 1, NewlineAt(pending) - 1)
           e == Event(number + 1, line)
<1>1. /\ phase = "splitting" /\ NewlineAt(pending) # 0 /\ TakeLine(line, "splitting")
      /\ mode' = mode /\ seen' = seen
  BY DEF SplitLine
<1>2. mode # "document" /\ number \in Nat /\ pending \in Texts
  BY <1>1 DEF IInv, Shape, TypeOK
<1>3. line \in Texts
  BY <1>1, <1>2, NewlineFacts, PendingSplits
<1>4. Active /\ items \in Seq(EventSet) /\ Events = items /\ Ended = "no"
  BY <1>1, ActiveItems DEF Active
<1> HIDE DEF line
<1>5. \/ /\ phase' \in {"drained", "done"} /\ Fatal(line)
         /\ \E why : why \in Stopping /\ items' = items \o <<Failure(why)>>
      \/ /\ phase' = "splitting" /\ ~Fatal(line) /\ Trim(line) = << >> /\ items' = items
      \/ /\ phase' = "splitting" /\ ~Fatal(line) /\ Trim(line) # << >> /\ items' = Append(items, e)
  BY <1>1, <1>2, <1>3, <1>4, TakeLineCases
<1>6. CASE /\ phase' \in {"drained", "done"}
           /\ \E why : why \in Stopping /\ items' = items \o <<Failure(why)>>
  <2>1. Stream!End
    BY <1>1, <1>2, <1>4, <1>6, StopsIsStream
  <2> QED BY <2>1 DEF Stream!Next
<1>7. CASE phase' = "splitting" /\ items' = items
  BY <1>1, <1>4, <1>7, StreamWaits
<1>8. CASE phase' = "splitting" /\ items' = Append(items, e)
  <2>1. e \in EventSet
    BY <1>2, <1>3, EventInSet
  <2> HIDE DEF e
  <2>2. PICK P, ended : GoesOn(mode', phase', carry', pending', number', items', seen', P, ended)
    BY <1>1, <1>2, <1>8 DEF IInv, Runs, Active
  <2>3. carry' \in BOOLEAN /\ pending' \in Texts /\ seen' \in Seq(Alphabet)
    BY DEF IInv, TypeOK
  <2>goes. mode' # "document" /\ phase' # "tail"
    BY <1>1, <1>2, <1>8
  <2>4. PICK later \in Seq(EventSet) : SettledIn(mode', seen') = items' \o later
    <3>1. YieldedSoFar(mode', items', seen')
      BY <2>2, <2>3, <2>goes, SettledGoesOn
    <3> QED BY <3>1 DEF YieldedSoFar
  <2> DEFINE longer == Append(items, e)
             settled == SettledIn(mode, seen)
             N == Len(items)
  <2>5. /\ longer \in Seq(EventSet) /\ Len(longer) = N + 1 /\ N \in Nat /\ longer[N + 1] = e
    BY <1>4, <2>1, AppendProperties
  <2>6. settled = longer \o later
    BY <1>1, <1>8, <2>4
  <2> HIDE DEF longer, settled
  <2>7. Len(settled) = Len(longer) + Len(later) /\ Len(later) \in Nat
    <3>1. later \in Seq(EventSet)
      BY <2>4
    <3>2. Len(longer \o later) = Len(longer) + Len(later) /\ Len(later) \in Nat
      BY <2>5, <3>1
    <3> QED BY <2>6, <3>2
  <2>8. settled[N + 1] = longer[N + 1]
    BY <2>4, <2>5, <2>6, ConcatProperties
  <2>9. N < Len(settled) /\ settled[N + 1] = e
    BY <2>5, <2>7, <2>8
  <2>10. Ended' = "no" /\ Events' = Append(items, e)
    <3>1. longer = Append(items, e)
      BY DEF longer
    <3>2. EventsIn(items') = items'
      BY <1>8, <2>5, <3>1, EventsInEvents
    <3> QED BY <1>8, <3>2, StreamIs DEF EndedIn
  <2>11. Stream!Yield
    BY <1>1, <1>4, <2>9, <2>10 DEF Stream!Yield, settled
  <2> QED BY <2>11 DEF Stream!Next
<1> QED BY <1>5, <1>6, <1>7, <1>8

(* The last event is yielded before the reader is asked for another.       *)
LEMMA StreamIsDrained ==
  ASSUME IInv, IInv', Active, phase' = "drained", mode # "document", mode' = mode,
         seen' = seen, items' \in Seq(EventSet), Len(items') <= Len(items) + 1
  PROVE  Stream!Final
<1>1. Ended = "no" /\ Events = items
  BY ActiveItems
<1>2. FailuresIn(items') = {} /\ Events' = items'
  BY EventsInEvents, StreamIs
<1>3. Ended' = "last"
  BY <1>2, StreamIs DEF EndedIn
<1>4. Events' = AllIn(mode, seen)
  BY <1>2, AllAreYielded
<1> QED BY <1>1, <1>2, <1>3, <1>4 DEF Stream!Final

LEMMA LastLineIsStream ==
  ASSUME IInv, IInv', LastLine
  PROVE  [Stream!Next]_Stream!streamVars
<1>1. phase = "tail" /\ mode' = mode /\ seen' = seen
  BY DEF LastLine
<1>2. mode # "document" /\ number \in Nat /\ pending \in Texts
  BY <1>1 DEF IInv, Shape, TypeOK
<1>3. Active /\ items \in Seq(EventSet)
  BY <1>1, ActiveItems DEF Active
<1>4. CASE pending = << >>
  <2>1. phase' = "done" /\ items' = items
    <3>1. phase' = "done" /\ items' = items \o << >>
      BY <1>4 DEF LastLine, Finish
    <3> QED BY <1>3, <3>1
  <2>2. Events' = Events /\ FailuresIn(items') = {}
    BY <1>3, <2>1, EventsInEvents, StreamIs
  <2>3. Stream!End
    BY <1>1, <1>2, <1>3, <2>1, <2>2, StreamRunsOut
  <2> QED BY <2>3 DEF Stream!Next
<1>5. CASE pending # << >>
  <2>1. TakeLine(pending, "drained")
    BY <1>5 DEF LastLine
  <2>2. Event(number + 1, pending) \in EventSet
    BY <1>2, EventInSet
  <2>3. \/ /\ phase' \in {"drained", "done"}
           /\ \E why : why \in Stopping /\ items' = items \o <<Failure(why)>>
        \/ phase' = "drained" /\ items' = items
        \/ phase' = "drained" /\ items' = Append(items, Event(number + 1, pending))
    BY <1>2, <1>3, <2>1, TakeLineCases
  <2>4. CASE /\ phase' \in {"drained", "done"}
             /\ \E why : why \in Stopping /\ items' = items \o <<Failure(why)>>
    <3>1. Stream!End
      BY <1>1, <1>2, <1>3, <2>4, StopsIsStream
    <3> QED BY <3>1 DEF Stream!Next
  <2>5. CASE /\ phase' = "drained"
             /\ items' = items \/ items' = Append(items, Event(number + 1, pending))
    <3>1. items' \in Seq(EventSet) /\ Len(items') <= Len(items) + 1
      BY <1>3, <2>2, <2>5, AppendProperties
    <3>2. Stream!Final
      BY <1>1, <1>2, <1>3, <2>5, <3>1, StreamIsDrained
    <3> QED BY <3>2 DEF Stream!Next
  <2> QED BY <2>3, <2>4, <2>5
<1> QED BY <1>4, <1>5

LEMMA KeepRestIsStream ==
  ASSUME IInv, IInv', KeepRest
  PROVE  [Stream!Next]_Stream!streamVars
<1>1. phase = "splitting" /\ mode' = mode /\ seen' = seen
  BY DEF KeepRest
<1>2. Active /\ mode # "document"
  BY <1>1 DEF IInv, Shape, Active
<1>3. CASE TooLong(pending)
  <2>1. phase' = "done" /\ items' = items \o <<Failure("line-too-long")>>
    BY <1>3 DEF KeepRest, Finish
  <2>2. "line-too-long" \in Stopping
    BY DEF Stopping
  <2>3. Stream!End
    BY <1>1, <1>2, <2>1, <2>2, StopsIsStream
  <2> QED BY <2>3 DEF Stream!Next
<1>4. CASE ~TooLong(pending)
  <2>1. phase' = "reading" /\ items' = items
    BY <1>4 DEF KeepRest
  <2> QED BY <1>1, <1>2, <2>1, StreamWaits
<1> QED BY <1>3, <1>4

(* What is read of a file that has grown too large is not yielded.         *)
LEMMA ReadingIsStream ==
  ASSUME IInv, ReadChunk \/ ReadDocument
  PROVE  [Stream!Next]_Stream!streamVars
<1>1. phase = "reading" /\ mode' = mode /\ Active
  BY DEF ReadChunk, ReadDocument, Active
<1>2. TypeOK
  BY DEF IInv
<1>3. CASE ReadChunk
  <2>1. PICK bytes \in Available(ChunkBytes) :
          /\ seen' = seen \o bytes
          /\ \/ phase' = "done" /\ items' = items \o <<Failure("grew")>>
             \/ phase' = "splitting" /\ items' = items
    BY <1>3 DEF ReadChunk, Finish
  <2>2. bytes \in Seq(Alphabet)
    BY <1>2, SizesAssumption, AvailableFacts
  <2>3. "grew" \in Broken \cup {"changed"}
    BY DEF Broken
  <2>4. Stream!Break \/ Stream!Read
    BY <1>1, <2>1, <2>2, <2>3, StreamBreaksOff, StreamReads
  <2> QED BY <2>4 DEF Stream!Next
<1>4. CASE ReadDocument
  <2>1. PICK bytes \in Available(size + 1 - Len(seen)) : seen' = seen \o bytes
    BY <1>4 DEF ReadDocument
  <2>2. size + 1 - Len(seen) \in Int
    BY <1>2 DEF TypeOK
  <2>3. bytes \in Seq(Alphabet)
    BY <1>2, <2>1, <2>2, AvailableFacts
  <2>4. phase' = "reading" /\ items' = items
    BY <1>1, <1>4 DEF ReadDocument
  <2>5. Stream!Read
    BY <1>1, <2>1, <2>3, <2>4, StreamReads
  <2> QED BY <2>5 DEF Stream!Next
<1> QED BY <1>3, <1>4

LEMMA OpeningIsStream ==
  ASSUME IInv, Open \/ OpenFails \/ ReadFails
  PROVE  [Stream!Next]_Stream!streamVars
<1>1. phase \in {"closed", "reading"} /\ mode' = mode /\ seen' = seen /\ Active
  BY DEF Open, OpenFails, ReadFails, Active
<1>2. items \in Seq(EventSet)
  BY <1>1, ActiveItems
<1>3. \/ phase' = "reading" /\ items' = items
      \/ phase' = "done" /\ \E why \in Broken : items' = items \o <<Failure(why)>>
  <2>1. "unreadable" \in Broken /\ "too-large" \in Broken
    BY DEF Broken
  <2>2. CASE OpenFails \/ ReadFails
    BY <2>1, <2>2 DEF OpenFails, ReadFails, Finish
  <2>3. CASE Open
    <3>1. items = << >>
      BY <2>3 DEF Open, IInv, Shape
    <3>2. << >> \o <<Failure("too-large")>> = <<Failure("too-large")>>
      OBVIOUS
    <3> QED BY <2>1, <2>3, <3>1, <3>2 DEF Open
  <2> QED BY <2>2, <2>3
<1>4. CASE phase' = "reading" /\ items' = items
  BY <1>1, <1>4, StreamWaits
<1>5. CASE phase' = "done" /\ \E why \in Broken : items' = items \o <<Failure(why)>>
  <2>1. PICK why \in Broken : items' = items \o <<Failure(why)>>
    BY <1>5
  <2>2. PICK none \in Seq(Alphabet) : seen' = seen \o none
    BY <1>1, NothingMore
  <2>3. why \in Broken \cup {"changed"}
    OBVIOUS
  <2>4. Stream!Break
    BY <1>1, <1>5, <2>1, <2>2, <2>3, StreamBreaksOff
  <2> QED BY <2>4 DEF Stream!Next
<1> QED BY <1>3, <1>4, <1>5

(* A document is settled when it has been read, and yields nothing when it *)
(* has grown meanwhile.                                                    *)
LEMMA FinishDocumentIsStream ==
  ASSUME IInv, FinishDocument
  PROVE  [Stream!Next]_Stream!streamVars
<1> DEFINE text == WholeOf(seen)
           e == Event(0, text)
<1>1. phase = "reading" /\ mode = "document" /\ mode' = mode /\ seen' = seen /\ Active
  BY DEF FinishDocument, Active
<1>2. items = << >> /\ items \in Seq(EventSet) /\ Ended = "no" /\ Events = items
  BY <1>1, ActiveItems DEF IInv, Shape
<1>3. text \in Texts
  BY WholeIsText DEF IInv, TypeOK
<1>4. \/ phase' = "done" /\ items' = items \o <<Failure("changed")>>
      \/ phase' = "done" /\ Judge(text) # "event" /\ items' = items \o <<Failure(Judge(text))>>
      \/ phase' = "drained" /\ Judge(text) = "event" /\ items' = items \o <<e>>
  <2>1. \/ Finish(<<Failure("changed")>>)
        \/ Judge(text) # "event" /\ Finish(<<Failure(Judge(text))>>)
        \/ Judge(text) = "event" /\ HandOver(e, "drained")
    BY DEF FinishDocument, WholeOf
  <2> HIDE DEF text, e
  <2>2. \A why : Finish(<<Failure(why)>>) => phase' = "done" /\ items' = items \o <<Failure(why)>>
    BY DEF Finish
  <2>3. HandOver(e, "drained") => phase' = "drained" /\ items' = items \o <<e>>
    BY DEF HandOver
  <2> QED BY <2>1, <2>2, <2>3
<1>5. e \in EventSet
  BY <1>3, EventInSet
<1>6. AllIn(mode, seen) = IF Judge(text) = "event" THEN <<e>> ELSE << >>
  BY <1>1 DEF AllIn
<1> HIDE DEF text, e
<1>7. CASE phase' = "done" /\ items' = items \o <<Failure("changed")>>
  <2>1. PICK none \in Seq(Alphabet) : seen' = seen \o none
    BY <1>1, NothingMore
  <2>2. "changed" \in Broken \cup {"changed"}
    OBVIOUS
  <2>3. Stream!Break
    BY <1>1, <1>7, <2>1, <2>2, StreamBreaksOff
  <2> QED BY <2>3 DEF Stream!Next
<1>8. CASE phase' = "done" /\ Judge(text) # "event" /\ items' = items \o <<Failure(Judge(text))>>
  <2> DEFINE why == Judge(text)
  <2>1. why \in Stopping /\ items' = items \o <<Failure(why)>>
    BY <1>8 DEF Judge, Stopping
  <2> HIDE DEF why
  <2>2. EventsIn(items') = items /\ FailuresIn(items') = {why}
    BY <1>2, <2>1, OneFailure, EventsInFailure
  <2>3. Ended' = "whole" /\ Events' = items
    BY <1>8, <2>1, <2>2, StoppingIsNotBroken, StreamIs DEF EndedIn
  <2>4. Stream!End
    BY <1>1, <1>2, <1>6, <1>8, <2>3 DEF Stream!End
  <2> QED BY <2>4 DEF Stream!Next
<1>9. CASE phase' = "drained" /\ Judge(text) = "event" /\ items' = items \o <<e>>
  <2>1. items' = <<e>> /\ <<e>> \in Seq(EventSet) /\ Len(<<e>>) <= Len(items) + 1
    BY <1>2, <1>5, <1>9
  <2>2. EventsIn(items') = <<e>> /\ FailuresIn(items') = {}
    BY <2>1, EventsInEvents
  <2>3. Ended' = "last" /\ Events' = AllIn(mode, seen) /\ Events' = <<e>>
    BY <1>6, <1>9, <2>2, StreamIs DEF EndedIn
  <2>4. Stream!Final
    BY <1>1, <1>2, <2>1, <2>3 DEF Stream!Final
  <2> QED BY <2>4 DEF Stream!Next
<1> QED BY <1>4, <1>7, <1>8, <1>9

(* A consumer that leaves has an event, and no failure came before it.     *)
HasEvent == suspended => items \in Seq(EventSet) /\ items # << >>

LEMMA AppendHasEvent ==
  ASSUME NEW its \in Seq(EventSet), NEW e \in EventSet
  PROVE  Append(its, e) \in Seq(EventSet) /\ Append(its, e) # << >>
<1>1. Append(its, e) \in Seq(EventSet) /\ Len(Append(its, e)) = Len(its) + 1 /\ Len(its) \in Nat
  BY AppendProperties
<1> QED BY <1>1

LEMMA TakeLineHasEvent ==
  ASSUME NEW text \in Texts, NEW next, TakeLine(text, next), items \in Seq(EventSet), number \in Nat
  PROVE  HasEvent'
<1>1. \/ suspended' = FALSE
      \/ Judge(text) = "event" /\ items' = items \o <<Event(number + 1, text)>>
  <2>1. Failure(Judge(text)).kind = "failure"
    BY DEF Failure
  <2> QED BY <2>1 DEF TakeLine, HandOver, Finish
<1>2. Event(number + 1, text) \in EventSet
  BY EventInSet
<1> QED BY <1>1, <1>2, AppendHasEvent, OneFailure DEF HasEvent

LEMMA NextKeepsHasEvent ==
  ASSUME IInv, HasEvent, [Next]_vars
  PROVE  HasEvent'
<1>1. CASE SplitLine
  <2> DEFINE line == SubSeq(pending, 1, NewlineAt(pending) - 1)
  <2>1. phase = "splitting" /\ NewlineAt(pending) # 0 /\ TakeLine(line, "splitting")
    BY <1>1 DEF SplitLine
  <2>2. number \in Nat /\ pending \in Texts
    BY DEF IInv, TypeOK
  <2>3. items \in Seq(EventSet)
    BY <2>1, ActiveItems DEF Active
  <2>4. line \in Texts
    BY <2>1, <2>2, NewlineFacts, PendingSplits
  <2> HIDE DEF line
  <2> QED BY <2>1, <2>2, <2>3, <2>4, TakeLineHasEvent
<1>2. CASE LastLine
  <2>1. phase = "tail" /\ (IF pending = << >> THEN Finish(<< >>) ELSE TakeLine(pending, "drained"))
    BY <1>2 DEF LastLine
  <2>2. number \in Nat /\ pending \in Texts
    BY DEF IInv, TypeOK
  <2>3. items \in Seq(EventSet)
    BY <2>1, ActiveItems DEF Active
  <2>4. CASE Finish(<< >>)
    BY <2>4 DEF Finish, HasEvent
  <2> QED BY <2>1, <2>2, <2>3, <2>4, TakeLineHasEvent
<1>3. CASE FinishDocument
  <2> DEFINE e == Event(0, WholeOf(seen))
  <2>1. suspended' = FALSE \/ items' = items \o <<e>>
    BY <1>3 DEF FinishDocument, WholeOf, Finish, HandOver
  <2>2. items \in Seq(EventSet)
    BY <1>3, ActiveItems DEF FinishDocument, Active
  <2>3. e \in EventSet
    BY WholeIsText, EventInSet DEF IInv, TypeOK
  <2> HIDE DEF e
  <2> QED BY <2>1, <2>2, <2>3, AppendHasEvent, OneFailure DEF HasEvent
<1>4. CASE Open
  <2>1. suspended' = suspended /\ phase = "closed"
    BY <1>4 DEF Open
  <2> QED BY <2>1 DEF HasEvent, IInv, TypeOK, Shape
<1>5. CASE ReadChunk \/ KeepRest \/ EndOfFile \/ Drain \/ OpenFails \/ ReadFails \/ Abandon
  BY <1>5 DEF ReadChunk, KeepRest, EndOfFile, Drain, OpenFails, ReadFails, Abandon, Finish, HasEvent
<1>6. CASE ReadDocument \/ Write \/ Truncate \/ UNCHANGED vars
  BY <1>6 DEF ReadDocument, Write, Truncate, vars, fileVars, HasEvent
<1> QED BY <1>1, <1>2, <1>3, <1>4, <1>5, <1>6 DEF Next, Proceed

(* A stream whose last event was yielded has yielded them all.             *)
AllYielded == Ended = "last" => Events = AllIn(mode, seen)

LEMMA AbandonIsStream ==
  ASSUME IInv, HasEvent, Abandon
  PROVE  [Stream!Next]_Stream!streamVars
<1>1. /\ phase \in {"splitting", "drained"} /\ phase' = "left"
      /\ items' = items /\ mode' = mode /\ seen' = seen
  BY DEF Abandon, IInv, Shape
<1>2. items \in Seq(EventSet) /\ items # << >>
  BY DEF Abandon, HasEvent
<1>3. EventsIn(items) = items /\ FailuresIn(items) = {}
  BY <1>2, EventsInEvents
<1>4. Ended \in {"no", "last"} /\ Events = items
  BY <1>1, <1>3, StreamIs DEF EndedIn
<1>5. Ended' = "left" /\ Events' = Events
  BY <1>1, StreamIs DEF EndedIn
<1>6. Stream!Leave
  BY <1>1, <1>2, <1>4, <1>5 DEF Stream!Leave
<1> QED BY <1>6 DEF Stream!Next

(* The end of a stream whose last item was a failure is its failure.       *)
LEMMA DrainIsStream ==
  ASSUME IInv, AllYielded, Drain
  PROVE  [Stream!Next]_Stream!streamVars
<1>1. /\ phase = "drained" /\ phase' = "done" /\ mode' = mode /\ seen' = seen
      /\ items' = items \o << >>
  BY DEF Drain, Finish
<1>2. items' = items
  BY <1>1, NothingAppended DEF IInv, Active
<1>3. Events' = Events
  BY <1>2, StreamIs
<1>4. Ended' = IF Ended = "last" THEN "whole" ELSE Ended
  BY <1>1, <1>2, StreamIs DEF EndedIn
<1>5. CASE Ended = "last"
  <2>1. Stream!End
    BY <1>1, <1>3, <1>4, <1>5 DEF Stream!End, AllYielded
  <2> QED BY <2>1 DEF Stream!Next
<1>6. CASE Ended # "last"
  BY <1>1, <1>3, <1>4, <1>6 DEF Stream!streamVars
<1> QED BY <1>5, <1>6

(* Every step of the reader, and of the process that writes to the file,   *)
(* is a step of the stream or none.                                        *)
LEMMA NextIsStream ==
  ASSUME IInv, IInv', HasEvent, AllYielded, [Next]_vars
  PROVE  [Stream!Next]_Stream!streamVars
<1>1. CASE EndOfFile
  <2>1. Active /\ phase' = "tail" /\ items' = items /\ mode' = mode /\ seen' = seen
    BY <1>1 DEF EndOfFile, Active
  <2> QED BY <2>1, StreamWaits
<1>2. CASE Write \/ Truncate \/ UNCHANGED vars
  <2>1. phase' = phase /\ items' = items /\ mode' = mode /\ seen' = seen
    BY <1>2 DEF Write, Truncate, vars, fileVars
  <2>2. Ended' = Ended /\ Events' = Events
    BY <2>1, StreamIs
  <2> QED BY <2>1, <2>2 DEF Stream!streamVars
<1> QED BY <1>1, <1>2, SplitLineIsStream, LastLineIsStream, KeepRestIsStream, ReadingIsStream,
           OpeningIsStream, FinishDocumentIsStream, DrainIsStream, AbandonIsStream DEF Next, Proceed

(* The stream itself keeps that all are yielded when it says so.           *)
LEMMA StreamYieldsAll ==
  ASSUME AllYielded, [Stream!Next]_Stream!streamVars
  PROVE  AllYielded'
BY DEF AllYielded, Stream!Next, Stream!Read, Stream!Yield, Stream!Final, Stream!End, Stream!Break,
       Stream!Leave, Stream!streamVars

LEMMA InitIsStream == Init => HasEvent /\ AllYielded /\ Stream!Init
<1> SUFFICES ASSUME Init PROVE HasEvent /\ AllYielded /\ Stream!Init
  OBVIOUS
<1>1. phase = "closed" /\ items = << >> /\ seen = << >> /\ suspended = FALSE
  BY DEF Init
<1>2. Ended = "no" /\ Events = << >>
  BY <1>1, StreamIs DEF EndedIn, EventsIn, FailedIn
<1> QED BY <1>1, <1>2 DEF HasEvent, AllYielded, Stream!Init

(* "Streams every event in every input path" (sources.ts:482), for every   *)
(* file, every size of a chunk and every limit: an event is yielded when   *)
(* it is settled, in its order and never taken back, a stream that ends    *)
(* has yielded the whole, and only a failure to read, or the consumer,     *)
(* withholds an event, whatever another process does to the file.          *)
THEOREM ImplementsStreamHolds == Spec => ImplementsStream
<1>1. IInv /\ HasEvent /\ [Next]_vars => HasEvent'
  BY NextKeepsHasEvent
<1>2. IInv /\ IInv' /\ HasEvent /\ AllYielded /\ [Next]_vars
        => [Stream!Next]_Stream!streamVars /\ AllYielded'
  BY NextIsStream, StreamYieldsAll
<1> QED BY <1>1, <1>2, Invariant, InitIsStream, PTL DEF Spec, ImplementsStream, Stream!Spec
=============================================================================
