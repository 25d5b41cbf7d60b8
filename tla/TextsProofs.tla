------------------------------ MODULE TextsProofs ------------------------------
(***************************************************************************)
(* What MCTexts checks of short texts, proved of every text: bodies,       *)
(* inboxes and messages of any length and any number of words.             *)
(*                                                                         *)
(* What the phone prints and what Telegram gets are sequences flattened.   *)
(* A layout says where the pieces of one lie in it: piece k between the    *)
(* places U[k - 1] and U[k].  Where the marks, the entities and the rows'  *)
(* first lines are follows from a layout, and from that what is read back. *)
(***************************************************************************)
EXTENDS MCTexts, SequenceTheorems, BackoffProofs, TLAPS

-------------------------------------------------------------------------------
(* Sequences flattened, and their layouts *)

\* f[i] is the first i sequences of ss put together.
Flattens(f, ss, n) ==
  /\ n > 0 => f[1] = ss[1]
  /\ \A i \in 2..n : f[i] = f[i - 1] \o ss[i]

\* Any sequence of sequences can be put together.
LEMMA FlatteningExists ==
  ASSUME NEW S, NEW ss \in Seq(Seq(S))
  PROVE  \E f \in [1..Len(ss) -> Seq(S)] : Flattens(f, ss, Len(ss))
<1> DEFINE T == {n \in Nat : n <= Len(ss) => \E f \in [1..n -> Seq(S)] : Flattens(f, ss, n)}
<1>1. 0 \in T
  <2>1. Flattens([i \in 1..0 |-> ss[i]], ss, 0)
    BY DEF Flattens
  <2>2. [i \in 1..0 |-> ss[i]] \in [1..0 -> Seq(S)]
    OBVIOUS
  <2>3. QED BY <2>1, <2>2
<1>2. ASSUME NEW n \in T PROVE n + 1 \in T
  <2>1. n \in Nat /\ n + 1 \in Nat
    OBVIOUS
  <2>2. SUFFICES ASSUME n + 1 <= Len(ss)
                 PROVE  \E f \in [1..(n + 1) -> Seq(S)] : Flattens(f, ss, n + 1)
    BY <2>1
  <2>3. PICK f \in [1..n -> Seq(S)] : Flattens(f, ss, n)
    BY <1>2, <2>2
  <2> DEFINE last == IF n = 0 THEN ss[1] ELSE f[n] \o ss[n + 1]
             g == [i \in 1..(n + 1) |-> IF i <= n THEN f[i] ELSE last]
  <2>4. ss[n + 1] \in Seq(S)
    BY <2>1, <2>2
  <2>5. last \in Seq(S)
    <3>1. CASE n = 0
      BY <2>4, <3>1
    <3>2. CASE n # 0
      <4>1. f[n] \in Seq(S)
        BY <2>1, <3>2
      <4>2. QED BY <2>4, <3>2, <4>1, ConcatProperties
    <3>3. QED BY <3>1, <3>2
  <2>6. g \in [1..(n + 1) -> Seq(S)]
    BY <2>1, <2>5
  <2>7. Flattens(g, ss, n + 1)
    <3>1. g[1] = ss[1]
      BY <2>1, <2>3 DEF Flattens
    <3>2. ASSUME NEW i \in 2..(n + 1)
          PROVE  g[i] = g[i - 1] \o ss[i]
      <4>1. i \in 1..(n + 1) /\ i - 1 \in 1..n
        BY <2>1
      <4>2. g[i - 1] = f[i - 1]
        BY <2>1, <4>1
      <4>3. CASE i <= n
        <5>1. g[i] = f[i] /\ i \in 2..n
          BY <2>1, <4>1, <4>3
        <5>2. f[i] = f[i - 1] \o ss[i]
          BY <2>3, <5>1 DEF Flattens
        <5>3. QED BY <4>2, <5>1, <5>2
      <4>4. CASE i = n + 1
        <5>1. i - 1 = n /\ n # 0
          BY <2>1, <4>4
        <5>2. g[i] = last
          BY <2>1, <4>4
        <5>3. last = f[n] \o ss[i]
          BY <4>4, <5>1
        <5>4. QED BY <4>2, <5>1, <5>2, <5>3
      <4>5. i <= n \/ i = n + 1
        BY <2>1
      <4>6. QED BY <4>3, <4>4, <4>5
    <3>3. QED BY <3>1, <3>2 DEF Flattens
  <2>8. QED BY <2>6, <2>7
<1>3. T \subseteq Nat
  OBVIOUS
<1> HIDE DEF T
<1>4. T = Nat
  BY <1>1, <1>2, <1>3, NatSetInduction
<1>5. Len(ss) \in T
  BY <1>4
<1>6. QED BY <1>5 DEF T

\* FlattenSeq is that loop's last value.
LEMMA FlattenByLoop ==
  ASSUME NEW S, NEW ss \in Seq(Seq(S)), NEW f \in [1..Len(ss) -> Seq(S)],
         ss # <<>>, Flattens(f, ss, Len(ss))
  PROVE  FlattenSeq(ss) = f[Len(ss)]
<1> DEFINE n == Len(ss)
           g == CHOOSE g : g = [i \in 1..n |-> IF i = 1 THEN ss[i] ELSE g[i - 1] \o ss[i]]
<1>1. n \in Nat \ {0}
  OBVIOUS
<1>2. f = [i \in 1..n |-> IF i = 1 THEN ss[i] ELSE f[i - 1] \o ss[i]]
  <2>1. ASSUME NEW i \in 1..n
        PROVE  f[i] = IF i = 1 THEN ss[i] ELSE f[i - 1] \o ss[i]
    <3>1. i # 1 => i \in 2..n
      BY <1>1
    <3>2. CASE i = 1
      BY <1>1, <3>2 DEF Flattens
    <3>3. CASE i # 1
      BY <3>1, <3>3 DEF Flattens
    <3>4. QED BY <3>2, <3>3
  <2>2. QED BY <2>1
<1>3. g = [i \in 1..n |-> IF i = 1 THEN ss[i] ELSE g[i - 1] \o ss[i]]
  BY <1>2
<1>4. FlattenSeq(ss) = g[n]
  BY <1>1 DEF FlattenSeq
<1> HIDE DEF g
<1>5. g[1] = ss[1]
  BY <1>1, <1>3
<1>6. ASSUME NEW i \in 2..n
      PROVE  g[i] = g[i - 1] \o ss[i]
  <2>1. i \in 1..n /\ i # 1
    BY <1>1
  <2>2. QED BY <1>3, <2>1
<1> HIDE DEF n
<1> DEFINE T == {k \in Nat : k \in 1..n => f[k] = g[k]}
<1>7. 0 \in T
  BY <1>1
<1>8. ASSUME NEW k \in T PROVE k + 1 \in T
  <2>1. k \in Nat /\ k + 1 \in Nat
    OBVIOUS
  <2>2. SUFFICES ASSUME k + 1 \in 1..n PROVE f[k + 1] = g[k + 1]
    BY <2>1
  <2>3. CASE k = 0
    <3>1. f[1] = ss[1]
      BY <1>1 DEF Flattens, n
    <3>2. QED BY <1>5, <2>3, <3>1
  <2>4. CASE k # 0
    <3>1. k \in 1..n /\ k + 1 \in 2..n /\ (k + 1) - 1 = k
      BY <1>1, <2>1, <2>2, <2>4
    <3>2. f[k] = g[k]
      BY <3>1
    <3>3. f[k + 1] = f[(k + 1) - 1] \o ss[k + 1]
      BY <3>1 DEF Flattens, n
    <3>4. g[k + 1] = g[(k + 1) - 1] \o ss[k + 1]
      BY <1>6, <3>1
    <3>5. QED BY <3>1, <3>2, <3>3, <3>4
  <2>5. QED BY <2>3, <2>4
<1>9. T \subseteq Nat
  OBVIOUS
<1>10. T = Nat
  <2> HIDE DEF T
  <2>1. QED BY <1>7, <1>8, <1>9, NatSetInduction
<1>11. f[n] = g[n]
  <2>1. n \in T
    BY <1>1, <1>10
  <2>2. n \in 1..n
    BY <1>1
  <2>3. QED BY <2>1, <2>2
<1>12. QED BY <1>4, <1>11 DEF n

LEMMA FlattenEmpty == FlattenSeq(<<>>) = <<>>
  BY DEF FlattenSeq

\* One sequence more.
LEMMA FlattenAppend ==
  ASSUME NEW S, NEW ss \in Seq(Seq(S)), NEW s \in Seq(S)
  PROVE  /\ FlattenSeq(ss) \in Seq(S)
         /\ FlattenSeq(Append(ss, s)) = FlattenSeq(ss) \o s
<1>1. PICK n \in Nat : n = Len(ss)
  OBVIOUS
<1>2. PICK tt \in Seq(Seq(S)) : tt = Append(ss, s)
  BY AppendProperties
<1>3. /\ Len(tt) = n + 1 /\ tt # <<>>
      /\ tt[n + 1] = s /\ \A i \in 1..n : tt[i] = ss[i]
  BY <1>1, <1>2, AppendProperties
<1>4. PICK f \in [1..(n + 1) -> Seq(S)] : Flattens(f, tt, n + 1)
  BY <1>3, FlatteningExists
<1>5. FlattenSeq(tt) = f[n + 1]
  BY <1>3, <1>4, FlattenByLoop
<1>6. CASE n = 0
  <2>1. ss = <<>>
    BY <1>1, <1>6, EmptySeq
  <2>2. f[1] = s
    BY <1>3, <1>4, <1>6 DEF Flattens
  <2>3. FlattenSeq(ss) = <<>>
    BY <2>1, FlattenEmpty
  <2>4. FlattenSeq(tt) = s
    BY <1>5, <1>6, <2>2
  <2>5. <<>> \in Seq(S) /\ <<>> \o s = s
    BY ConcatEmptySeq, EmptySeq
  <2>6. QED BY <1>2, <2>3, <2>4, <2>5
<1>7. CASE n # 0
  <2> DEFINE g == [i \in 1..n |-> f[i]]
  <2>1. g \in [1..n -> Seq(S)] /\ \A i \in 1..n : g[i] = f[i]
    <3>1. \A i \in 1..n : i \in 1..(n + 1)
      OBVIOUS
    <3>2. QED BY <3>1
  <2> HIDE DEF g
  <2>2. ss # <<>>
    BY <1>1, <1>7
  <2>3. Flattens(g, ss, n)
    <3>1. 1 \in 1..n /\ f[1] = tt[1]
      BY <1>4, <1>7 DEF Flattens
    <3>2. ASSUME NEW i \in 2..n PROVE g[i] = g[i - 1] \o ss[i]
      <4>1. i \in 1..n /\ i - 1 \in 1..n /\ i \in 2..(n + 1)
        OBVIOUS
      <4>2. f[i] = f[i - 1] \o tt[i]
        BY <1>4, <4>1 DEF Flattens
      <4>3. QED BY <1>3, <2>1, <4>1, <4>2
    <3>3. QED BY <1>3, <2>1, <3>1, <3>2 DEF Flattens
  <2>4. FlattenSeq(ss) = g[n]
    BY <1>1, <2>1, <2>2, <2>3, FlattenByLoop
  <2>5. n + 1 \in 2..(n + 1) /\ (n + 1) - 1 = n /\ n \in 1..n
    BY <1>7
  <2>6. f[n + 1] = f[(n + 1) - 1] \o tt[n + 1]
    BY <1>4, <2>5 DEF Flattens
  <2>7. QED BY <1>2, <1>3, <1>5, <2>1, <2>4, <2>5, <2>6
<1>8. QED BY <1>6, <1>7

\* What holds of no elements and of one more holds of any.
LEMMA SeqInduction ==
  ASSUME NEW S, NEW P \in SUBSET Seq(S), <<>> \in P,
         \A s \in P, e \in S : Append(s, e) \in P
  PROVE  P = Seq(S)
<1> DEFINE T == {n \in Nat : \A s \in Seq(S) : Len(s) = n => s \in P}
<1>1. 0 \in T
  BY EmptySeq
<1>2. ASSUME NEW n \in T PROVE n + 1 \in T
  <2>1. SUFFICES ASSUME NEW s \in Seq(S), Len(s) = n + 1 PROVE s \in P
    OBVIOUS
  <2>2. s # <<>>
    BY <2>1
  <2>3. PICK t \in Seq(S), e \in S : s = Append(t, e)
    BY <2>2, SequenceEmptyOrAppend
  <2>4. Len(t) = n
    BY <2>1, <2>3
  <2>5. QED BY <2>3, <2>4
<1>3. T \subseteq Nat
  OBVIOUS
<1> HIDE DEF T
<1>4. T = Nat
  BY <1>1, <1>2, <1>3, NatSetInduction
<1>5. ASSUME NEW s \in Seq(S) PROVE s \in P
  <2>1. Len(s) \in T
    BY <1>4
  <2>2. QED BY <2>1 DEF T
<1>6. QED BY <1>5

LEMMA FlattenType ==
  ASSUME NEW S, NEW ss \in Seq(Seq(S))
  PROVE  FlattenSeq(ss) \in Seq(S)
<1>1. <<>> \in Seq(S)
  BY EmptySeq
<1>2. QED BY <1>1, FlattenAppend

LEMMA ConcatAppend ==
  ASSUME NEW S, NEW a \in Seq(S), NEW c \in Seq(S), NEW e \in S
  PROVE  a \o Append(c, e) = Append(a \o c, e)
  OBVIOUS

\* Flattening parts and putting them together.
LEMMA FlattenConcat ==
  ASSUME NEW S, NEW a \in Seq(Seq(S)), NEW b \in Seq(Seq(S))
  PROVE  FlattenSeq(a \o b) = FlattenSeq(a) \o FlattenSeq(b)
<1> DEFINE P == {c \in Seq(Seq(S)) : FlattenSeq(a \o c) = FlattenSeq(a) \o FlattenSeq(c)}
<1>1. <<>> \in P
  <2>1. a \o <<>> = a /\ FlattenSeq(a) \o <<>> = FlattenSeq(a)
    <3>1. FlattenSeq(a) \in Seq(S)
      BY FlattenType
    <3>2. QED BY <3>1, ConcatEmptySeq
  <2>2. <<>> \in Seq(Seq(S))
    BY EmptySeq
  <2>3. QED BY <2>1, <2>2, FlattenEmpty
<1>2. ASSUME NEW c \in P, NEW e \in Seq(S) PROVE Append(c, e) \in P
  <2>1. c \in Seq(Seq(S)) /\ a \o c \in Seq(Seq(S)) /\ Append(c, e) \in Seq(Seq(S))
    BY ConcatProperties, AppendProperties
  <2>2. a \o Append(c, e) = Append(a \o c, e)
    BY <2>1, ConcatAppend, SMTT(30)
  <2>3. FlattenSeq(Append(a \o c, e)) = FlattenSeq(a \o c) \o e
    BY <2>1, FlattenAppend
  <2>4. FlattenSeq(Append(c, e)) = FlattenSeq(c) \o e
    BY <2>1, FlattenAppend
  <2>5. FlattenSeq(a \o c) = FlattenSeq(a) \o FlattenSeq(c)
    OBVIOUS
  <2>6. FlattenSeq(a) \in Seq(S) /\ FlattenSeq(c) \in Seq(S)
    BY <2>1, FlattenType
  <2>7. (FlattenSeq(a) \o FlattenSeq(c)) \o e = FlattenSeq(a) \o (FlattenSeq(c) \o e)
    BY <2>6, ConcatAssociative, SMTT(30)
  <2>8. QED BY <2>1, <2>2, <2>3, <2>4, <2>5, <2>7
<1>3. P \subseteq Seq(Seq(S))
  OBVIOUS
<1> HIDE DEF P
<1>4. P = Seq(Seq(S))
  BY <1>1, <1>2, <1>3, SeqInduction
<1>5. b \in P
  BY <1>4
<1>6. QED BY <1>5 DEF P

\* The length of the first k sequences of ss.
Upto(ss, k) == Len(FlattenSeq(SubSeq(ss, 1, k)))

\* Upto counts the elements of the first k sequences.
LEMMA UptoSteps ==
  ASSUME NEW S, NEW ss \in Seq(Seq(S))
  PROVE  /\ Upto(ss, 0) = 0
         /\ Upto(ss, Len(ss)) = Len(FlattenSeq(ss))
         /\ \A k \in 0..Len(ss) : Upto(ss, k) \in Nat
         /\ \A k \in 1..Len(ss) :
              /\ FlattenSeq(SubSeq(ss, 1, k)) = FlattenSeq(SubSeq(ss, 1, k - 1)) \o ss[k]
              /\ Upto(ss, k) = Upto(ss, k - 1) + Len(ss[k])
<1>1. Upto(ss, 0) = 0
  <2>1. SubSeq(ss, 1, 0) = <<>>
    BY SubSeqEmpty
  <2>2. FlattenSeq(SubSeq(ss, 1, 0)) = <<>>
    BY <2>1, FlattenEmpty
  <2>3. QED BY <2>2 DEF Upto
<1>2. SubSeq(ss, 1, Len(ss)) = ss
  BY SubSeqFull
<1>3. ASSUME NEW k \in 0..Len(ss)
      PROVE  SubSeq(ss, 1, k) \in Seq(Seq(S)) /\ FlattenSeq(SubSeq(ss, 1, k)) \in Seq(S)
  <2>1. SubSeq(ss, 1, k) \in Seq(Seq(S))
    BY SubSeqProperties
  <2>2. QED BY <2>1, FlattenType
<1>4. ASSUME NEW k \in 1..Len(ss)
      PROVE  /\ FlattenSeq(SubSeq(ss, 1, k)) = FlattenSeq(SubSeq(ss, 1, k - 1)) \o ss[k]
             /\ Upto(ss, k) = Upto(ss, k - 1) + Len(ss[k])
  <2>1. k - 1 \in 0..Len(ss) /\ ss[k] \in Seq(S)
    BY ElementOfSeq
  <2>2. SubSeq(ss, 1, k) = Append(SubSeq(ss, 1, k - 1), ss[k])
    BY SubSeqRecursiveSecond
  <2>3. FlattenSeq(SubSeq(ss, 1, k)) = FlattenSeq(SubSeq(ss, 1, k - 1)) \o ss[k]
    BY <1>3, <2>1, <2>2, FlattenAppend
  <2>4. QED BY <1>3, <2>1, <2>3, ConcatProperties DEF Upto
<1>5. \A k \in 0..Len(ss) : Upto(ss, k) \in Nat
  BY <1>3, LenProperties DEF Upto
<1>6. QED BY <1>1, <1>2, <1>4, <1>5 DEF Upto

LEMMA UptoGrows ==
  ASSUME NEW S, NEW ss \in Seq(Seq(S)), NEW h \in 0..Len(ss), NEW k \in h..Len(ss)
  PROVE  Upto(ss, h) <= Upto(ss, k)
<1> DEFINE T == {n \in Nat : h + n <= Len(ss) => Upto(ss, h) <= Upto(ss, h + n)}
<1>1. 0 \in T
  <2>1. Upto(ss, h) \in Nat
    BY UptoSteps
  <2>2. h + 0 = h
    OBVIOUS
  <2>3. QED BY <2>1, <2>2
<1>2. ASSUME NEW n \in T PROVE n + 1 \in T
  <2>1. n \in Nat /\ n + 1 \in Nat /\ h \in Nat
    OBVIOUS
  <2>2. SUFFICES ASSUME h + (n + 1) <= Len(ss) PROVE Upto(ss, h) <= Upto(ss, h + (n + 1))
    BY <2>1
  <2>3. PICK m \in 1..Len(ss) : m = h + (n + 1)
    BY <2>1, <2>2
  <2>4. m - 1 = h + n /\ m - 1 \in 0..Len(ss) /\ h + n <= Len(ss)
    BY <2>1, <2>3
  <2>5. Upto(ss, m) = Upto(ss, m - 1) + Len(ss[m])
    BY UptoSteps
  <2>6. Len(ss[m]) \in Nat
    BY ElementOfSeq, LenProperties
  <2>7. Upto(ss, h) \in Nat /\ Upto(ss, m - 1) \in Nat
    BY <2>4, UptoSteps
  <2>8. Upto(ss, h) <= Upto(ss, m - 1)
    BY <2>4
  <2>9. QED BY <2>3, <2>5, <2>6, <2>7, <2>8
<1>3. T \subseteq Nat
  OBVIOUS
<1>4. T = Nat
  <2> HIDE DEF T
  <2>1. QED BY <1>1, <1>2, <1>3, NatSetInduction
<1>5. k - h \in Nat /\ h + (k - h) = k /\ k <= Len(ss)
  OBVIOUS
<1>6. k - h \in T
  BY <1>4, <1>5
<1>7. QED BY <1>5, <1>6

\* Each element of a flattened sequence is one of a piece, and where it is.
LEMMA FlattenElement ==
  ASSUME NEW S, NEW ss \in Seq(Seq(S)), NEW k \in 1..Len(ss), NEW j \in 1..Len(ss[k])
  PROVE  /\ Upto(ss, k - 1) + j \in 1..Len(FlattenSeq(ss))
         /\ FlattenSeq(ss)[Upto(ss, k - 1) + j] = ss[k][j]
<1> DEFINE n == Len(ss)
           first == SubSeq(ss, 1, k)
           rest  == SubSeq(ss, k + 1, n)
<1>1. n \in Nat /\ k \in 1..n /\ k - 1 \in 0..n /\ ss[k] \in Seq(S)
  BY ElementOfSeq
<1>2. first \in Seq(Seq(S)) /\ rest \in Seq(Seq(S)) /\ first \o rest = ss
  <2>1. first \in Seq(Seq(S)) /\ rest \in Seq(Seq(S))
    BY SubSeqProperties
  <2>2. ss = SubSeq(ss, 1, n)
    BY SubSeqFull
  <2>3. first \o rest = SubSeq(ss, 1, n)
    BY <1>1
  <2>4. QED BY <2>1, <2>2, <2>3
<1> HIDE DEF rest
<1>3. FlattenSeq(ss) = FlattenSeq(first) \o FlattenSeq(rest)
  BY <1>2, FlattenConcat, Zenon
<1>4. FlattenSeq(first) = FlattenSeq(SubSeq(ss, 1, k - 1)) \o ss[k]
  BY UptoSteps
<1>5. /\ FlattenSeq(SubSeq(ss, 1, k - 1)) \in Seq(S)
      /\ FlattenSeq(first) \in Seq(S) /\ FlattenSeq(rest) \in Seq(S)
  <2>1. SubSeq(ss, 1, k - 1) \in Seq(Seq(S))
    BY SubSeqProperties
  <2>2. QED BY <1>2, <2>1, FlattenType
<1>6. PICK a \in Seq(S), b \in Seq(S), c \in Seq(S), p \in Seq(S) :
        /\ a = FlattenSeq(SubSeq(ss, 1, k - 1)) /\ b = FlattenSeq(first)
        /\ c = FlattenSeq(rest) /\ p = ss[k]
  BY <1>1, <1>5
<1>7. FlattenSeq(ss) = (a \o p) \o c /\ Upto(ss, k - 1) = Len(a)
  BY <1>3, <1>4, <1>6 DEF Upto
<1>8. j \in 1..Len(p)
  BY <1>6
<1>9. /\ Len(a) + j \in 1..Len((a \o p) \o c)
      /\ ((a \o p) \o c)[Len(a) + j] = p[j]
  BY <1>8
<1>10. QED BY <1>6, <1>7, <1>9

\* Every element comes from one of the sequences.
LEMMA FlattenLocate ==
  ASSUME NEW S, NEW ss \in Seq(Seq(S)), NEW i \in 1..Len(FlattenSeq(ss))
  PROVE  \E k \in 1..Len(ss) : \E j \in 1..Len(ss[k]) : i = Upto(ss, k - 1) + j
<1> DEFINE T == {k \in Nat : k <= Len(ss) /\ i <= Upto(ss, k) =>
                   \E h \in 1..Len(ss) : \E j \in 1..Len(ss[h]) : i = Upto(ss, h - 1) + j}
<1>1. 0 \in T
  <2>1. Upto(ss, 0) = 0 /\ i > 0
    <3>1. Len(FlattenSeq(ss)) \in Nat
      BY FlattenType, LenProperties
    <3>2. Upto(ss, 0) = 0
      BY UptoSteps
    <3>3. QED BY <3>1, <3>2
  <2>2. QED BY <2>1
<1>2. ASSUME NEW k \in T PROVE k + 1 \in T
  <2>1. k \in Nat /\ k + 1 \in Nat /\ (k + 1) - 1 = k
    OBVIOUS
  <2>2. SUFFICES ASSUME k + 1 <= Len(ss), i <= Upto(ss, k + 1)
                 PROVE  \E h \in 1..Len(ss) : \E j \in 1..Len(ss[h]) : i = Upto(ss, h - 1) + j
    BY <2>1
  <2>3. CASE i <= Upto(ss, k)
    BY <2>1, <2>2, <2>3
  <2>4. CASE ~(i <= Upto(ss, k))
    <3>1. k + 1 \in 1..Len(ss) /\ k \in 0..Len(ss)
      BY <2>1, <2>2
    <3>2. Upto(ss, k) \in Nat /\ Upto(ss, k + 1) = Upto(ss, k) + Len(ss[k + 1])
      BY <2>1, <3>1, UptoSteps
    <3>3. Len(ss[k + 1]) \in Nat
      BY <3>1, ElementOfSeq, LenProperties
    <3>4. PICK j \in 1..Len(ss[k + 1]) : i = Upto(ss, k) + j
      <4>1. i - Upto(ss, k) \in 1..Len(ss[k + 1])
        BY <2>2, <2>4, <3>2, <3>3
      <4>2. i = Upto(ss, k) + (i - Upto(ss, k))
        BY <3>2
      <4>3. QED BY <4>1, <4>2
    <3>5. QED BY <2>1, <3>1, <3>4
  <2>5. QED BY <2>3, <2>4
<1>3. T \subseteq Nat
  OBVIOUS
<1>4. T = Nat
  <2> HIDE DEF T
  <2>1. QED BY <1>1, <1>2, <1>3, NatSetInduction
<1>5. Len(ss) \in Nat /\ i <= Upto(ss, Len(ss))
  <2>1. Len(ss) \in Nat /\ Len(FlattenSeq(ss)) \in Nat
    BY FlattenType, LenProperties
  <2>2. Upto(ss, Len(ss)) = Len(FlattenSeq(ss))
    BY UptoSteps
  <2>3. QED BY <2>1, <2>2
<1>6. Len(ss) \in T
  BY <1>4, <1>5
<1>7. QED BY <1>5, <1>6

\* Flattening piece by piece.
LEMMA FlattenBlocks ==
  ASSUME NEW S, NEW R, NEW B \in Seq(Seq(S)), NEW G \in Seq(Seq(R)), NEW H \in Seq(Seq(R)),
         Len(G) = Len(FlattenSeq(B)), Len(H) = Len(B),
         \A k \in 1..Len(B) :
           H[k] = FlattenSeq(SubSeq(G, Upto(B, k - 1) + 1, Upto(B, k)))
  PROVE  FlattenSeq(G) = FlattenSeq(H)
<1> DEFINE T == {k \in Nat : k <= Len(B) =>
                   FlattenSeq(SubSeq(G, 1, Upto(B, k))) = FlattenSeq(SubSeq(H, 1, k))}
<1>0. Len(B) \in Nat /\ Len(G) \in Nat
  BY LenProperties
<1>1. 0 \in T
  <2>1. Upto(B, 0) = 0
    BY UptoSteps
  <2>2. SubSeq(G, 1, 0) = <<>> /\ SubSeq(H, 1, 0) = <<>>
    BY SubSeqEmpty
  <2>3. QED BY <2>1, <2>2
<1>2. ASSUME NEW k \in T PROVE k + 1 \in T
  <2>1. k \in Nat /\ k + 1 \in Nat /\ (k + 1) - 1 = k
    OBVIOUS
  <2>2. SUFFICES ASSUME k + 1 <= Len(B)
                 PROVE  FlattenSeq(SubSeq(G, 1, Upto(B, k + 1))) = FlattenSeq(SubSeq(H, 1, k + 1))
    BY <2>1
  <2>3. k + 1 \in 1..Len(B) /\ k \in 0..Len(B) /\ k + 1 \in 0..Len(B)
    BY <1>0, <2>1, <2>2
  <2>4. PICK m \in Nat, n \in Nat : m = Upto(B, k) /\ n = Upto(B, k + 1)
    BY <2>3, UptoSteps
  <2>5. m <= n /\ n <= Len(G)
    <3>1. n = m + Len(B[k + 1]) /\ Len(B[k + 1]) \in Nat
      BY <2>1, <2>3, <2>4, UptoSteps, ElementOfSeq, LenProperties
    <3>2. n <= Upto(B, Len(B))
      <4>1. Len(B) \in (k + 1)..Len(B)
        BY <1>0, <2>3
      <4>2. QED BY <2>3, <2>4, <4>1, UptoGrows
    <3>3. Upto(B, Len(B)) = Len(G)
      BY UptoSteps
    <3>4. QED BY <2>4, <3>1, <3>2, <3>3
  <2>6. SubSeq(G, 1, n) = SubSeq(G, 1, m) \o SubSeq(G, m + 1, n)
    BY <1>0, <2>5
  <2>7. SubSeq(G, 1, m) \in Seq(Seq(R)) /\ SubSeq(G, m + 1, n) \in Seq(Seq(R))
    BY <1>0, <2>5
  <2>8. FlattenSeq(SubSeq(G, 1, n))
          = FlattenSeq(SubSeq(G, 1, m)) \o FlattenSeq(SubSeq(G, m + 1, n))
    BY <2>6, <2>7, FlattenConcat
  <2>9. FlattenSeq(SubSeq(H, 1, k + 1)) = FlattenSeq(SubSeq(H, 1, k)) \o H[k + 1]
    BY <2>1, <2>3, UptoSteps
  <2>10. FlattenSeq(SubSeq(G, 1, m)) = FlattenSeq(SubSeq(H, 1, k))
    BY <2>1, <2>2, <2>4
  <2>11. H[k + 1] = FlattenSeq(SubSeq(G, m + 1, n))
    BY <2>1, <2>3, <2>4
  <2>12. QED BY <2>4, <2>8, <2>9, <2>10, <2>11
<1>3. T \subseteq Nat
  OBVIOUS
<1>4. T = Nat
  <2> HIDE DEF T
  <2>1. QED BY <1>1, <1>2, <1>3, NatSetInduction
<1>5. FlattenSeq(SubSeq(G, 1, Upto(B, Len(B)))) = FlattenSeq(SubSeq(H, 1, Len(B)))
  BY <1>0, <1>4
<1>6. SubSeq(G, 1, Len(G)) = G /\ SubSeq(H, 1, Len(H)) = H
  BY SubSeqFull
<1>7. QED BY <1>5, <1>6, UptoSteps

\* t is ss put together, ss[k] at the places after U[k - 1] up to U[k].
Layout(U, ss, t) ==
  /\ U \in [0..Len(ss) -> Nat] /\ U[0] = 0 /\ U[Len(ss)] = Len(t)
  /\ \A k \in 1..Len(ss) : U[k] = U[k - 1] + Len(ss[k])
  /\ \A h, k \in 0..Len(ss) : h <= k => U[h] <= U[k]
  /\ \A k \in 1..Len(ss) : \A j \in 1..Len(ss[k]) :
       U[k - 1] + j \in 1..Len(t) /\ t[U[k - 1] + j] = ss[k][j]
  /\ \A i \in 1..Len(t) : \E k \in 1..Len(ss) : \E j \in 1..Len(ss[k]) : i = U[k - 1] + j

\* What was flattened has a layout.
LEMMA LayoutExists ==
  ASSUME NEW S, NEW ss \in Seq(Seq(S))
  PROVE  \E U : Layout(U, ss, FlattenSeq(ss)) /\ \A k \in 0..Len(ss) : U[k] = Upto(ss, k)
<1> DEFINE U == [k \in 0..Len(ss) |-> Upto(ss, k)]
<1>1. Len(ss) \in Nat
  BY LenProperties
<1>2. \A k \in 0..Len(ss) : U[k] = Upto(ss, k)
  OBVIOUS
<1>3. \A k \in 1..Len(ss) : k \in 0..Len(ss) /\ k - 1 \in 0..Len(ss)
  BY <1>1
<1>4. U \in [0..Len(ss) -> Nat]
  BY UptoSteps
<1>5. U[0] = 0 /\ U[Len(ss)] = Len(FlattenSeq(ss))
  <2>1. Upto(ss, 0) = 0 /\ Upto(ss, Len(ss)) = Len(FlattenSeq(ss))
    BY UptoSteps
  <2>2. 0 \in 0..Len(ss) /\ Len(ss) \in 0..Len(ss)
    BY <1>1
  <2>3. QED BY <1>2, <2>1, <2>2
<1> HIDE DEF U
<1>6. ASSUME NEW k \in 1..Len(ss) PROVE U[k] = U[k - 1] + Len(ss[k])
  <2>1. Upto(ss, k) = Upto(ss, k - 1) + Len(ss[k])
    BY UptoSteps
  <2>2. QED BY <1>2, <1>3, <2>1
<1>7. ASSUME NEW h \in 0..Len(ss), NEW k \in 0..Len(ss), h <= k PROVE U[h] <= U[k]
  <2>1. k \in h..Len(ss)
    BY <1>7
  <2>2. Upto(ss, h) <= Upto(ss, k)
    BY <2>1, UptoGrows
  <2>3. QED BY <1>2, <2>2
<1>8. ASSUME NEW k \in 1..Len(ss), NEW j \in 1..Len(ss[k])
      PROVE  /\ U[k - 1] + j \in 1..Len(FlattenSeq(ss))
             /\ FlattenSeq(ss)[U[k - 1] + j] = ss[k][j]
  <2>1. U[k - 1] = Upto(ss, k - 1)
    BY <1>2, <1>3
  <2>2. QED BY <2>1, FlattenElement
<1>9. ASSUME NEW i \in 1..Len(FlattenSeq(ss))
      PROVE  \E k \in 1..Len(ss) : \E j \in 1..Len(ss[k]) : i = U[k - 1] + j
  <2>1. PICK k \in 1..Len(ss) : \E j \in 1..Len(ss[k]) : i = Upto(ss, k - 1) + j
    BY FlattenLocate
  <2>2. U[k - 1] = Upto(ss, k - 1)
    BY <1>2, <1>3
  <2>3. QED BY <2>1, <2>2
<1>10. Layout(U, ss, FlattenSeq(ss))
  BY <1>4, <1>5, <1>6, <1>7, <1>8, <1>9 DEF Layout
<1>11. QED BY <1>2, <1>10

\* A place belongs to one piece only.
LEMMA LayoutOnce ==
  ASSUME NEW S, NEW ss \in Seq(Seq(S)), NEW U, NEW t, Layout(U, ss, t),
         NEW k \in 1..Len(ss), NEW j \in 1..Len(ss[k]),
         NEW h \in 1..Len(ss), NEW i \in 1..Len(ss[h]),
         U[k - 1] + j <= U[h - 1] + i
  PROVE  k <= h /\ (U[k - 1] + j = U[h - 1] + i => k = h /\ j = i)
<1>1. /\ Len(ss) \in Nat /\ Len(ss[k]) \in Nat /\ Len(ss[h]) \in Nat
      /\ k - 1 \in 0..Len(ss) /\ k \in 0..Len(ss) /\ h - 1 \in 0..Len(ss) /\ h \in 0..Len(ss)
  BY ElementOfSeq, LenProperties
<1>2. /\ U[k] \in Nat /\ U[h] \in Nat /\ U[k - 1] \in Nat /\ U[h - 1] \in Nat
      /\ U[k] = U[k - 1] + Len(ss[k]) /\ U[h] = U[h - 1] + Len(ss[h])
      /\ k <= h - 1 => U[k] <= U[h - 1]
      /\ h <= k - 1 => U[h] <= U[k - 1]
  BY <1>1 DEF Layout
<1>3. PICK a \in Nat, b \in Nat, c \in Nat, d \in Nat :
        a = U[k - 1] /\ b = U[k] /\ c = U[h - 1] /\ d = U[h]
  BY <1>2
<1>4. /\ a + j <= b /\ c + i <= d /\ a + j <= c + i /\ a < a + j /\ c < c + i
      /\ i \in Nat /\ j \in Nat
  <2>1. PICK p \in Nat, q \in Nat : p = Len(ss[k]) /\ q = Len(ss[h])
    BY <1>1
  <2>2. j \in 1..p /\ i \in 1..q /\ b = a + p /\ d = c + q
    BY <1>2, <1>3, <2>1
  <2>3. a + j <= c + i
    BY <1>3
  <2>4. QED BY <2>2, <2>3
<1>5. k <= h
  <2>1. SUFFICES ASSUME h <= k - 1 PROVE FALSE
    BY <1>1
  <2>2. d <= a
    BY <1>2, <1>3, <2>1
  <2>3. QED BY <1>1, <1>4, <2>2
<1>6. ASSUME a + j = c + i PROVE k = h /\ j = i
  <2>1. k = h
    <3>1. SUFFICES ASSUME k <= h - 1 PROVE FALSE
      BY <1>1, <1>5
    <3>2. b <= c
      BY <1>2, <1>3, <3>1
    <3>3. QED BY <1>1, <1>4, <1>6, <3>2
  <2>2. a = c
    BY <1>3, <2>1
  <2>3. QED BY <1>1, <1>6, <2>1, <2>2
<1>7. QED BY <1>3, <1>5, <1>6

\* Places in a stretch of pieces of one element each.
LEMMA LayoutUnits ==
  ASSUME NEW S, NEW ss \in Seq(Seq(S)), NEW U, NEW t, Layout(U, ss, t),
         NEW h \in 0..Len(ss), NEW k \in h..Len(ss),
         \A i \in (h + 1)..k : Len(ss[i]) = 1
  PROVE  U[k] = U[h] + (k - h)
<1> DEFINE T == {n \in Nat : h + n <= k => U[h + n] = U[h] + n}
<1>0. h \in Nat /\ k \in Nat /\ h <= k /\ Len(ss) \in Nat /\ k <= Len(ss) /\ U[h] \in Nat
  <2>1. Len(ss) \in Nat
    BY LenProperties
  <2>2. h \in Nat /\ k \in Nat /\ h <= k /\ k <= Len(ss)
    BY <2>1
  <2>3. U \in [0..Len(ss) -> Nat]
    BY DEF Layout
  <2>4. QED BY <2>1, <2>2, <2>3
<1>1. 0 \in T
  BY <1>0
<1>2. ASSUME NEW n \in T PROVE n + 1 \in T
  <2>1. n \in Nat /\ n + 1 \in Nat
    OBVIOUS
  <2>2. SUFFICES ASSUME h + (n + 1) <= k PROVE U[h + (n + 1)] = U[h] + (n + 1)
    BY <2>1
  <2>3. PICK i \in (h + 1)..k : i = h + (n + 1)
    BY <1>0, <2>1, <2>2
  <2>4. i \in 1..Len(ss) /\ i - 1 = h + n /\ h + n <= k
    BY <1>0, <2>1, <2>3
  <2>5. U[i] = U[i - 1] + Len(ss[i])
    BY <2>4 DEF Layout
  <2>6. Len(ss[i]) = 1
    BY <2>3
  <2>7. U[h + n] = U[h] + n
    BY <2>4
  <2>8. U[i] = U[h] + n + 1
    BY <2>4, <2>5, <2>6, <2>7
  <2>9. U[h] + n + 1 = U[h] + (n + 1)
    <3>1. \A u, v \in Nat : u + v + 1 = u + (v + 1)
      OBVIOUS
    <3>2. QED BY <1>0, <2>1, <3>1
  <2>10. QED BY <2>3, <2>8, <2>9
<1>3. T \subseteq Nat
  OBVIOUS
<1>4. T = Nat
  <2> HIDE DEF T
  <2>1. QED BY <1>1, <1>2, <1>3, NatSetInduction
<1>5. k - h \in Nat /\ h + (k - h) = k
  BY <1>0
<1>6. k - h \in T
  BY <1>4, <1>5
<1>7. QED BY <1>0, <1>5, <1>6

\* Flattening nothing, and single elements.
LEMMA FlattenNone ==
  ASSUME NEW S, NEW ss \in Seq(Seq(S)), \A k \in 1..Len(ss) : ss[k] = <<>>
  PROVE  FlattenSeq(ss) = <<>>
<1>1. PICK U : Layout(U, ss, FlattenSeq(ss))
  BY LayoutExists
<1>2. ASSUME NEW i \in 1..Len(FlattenSeq(ss)) PROVE FALSE
  <2>1. PICK k \in 1..Len(ss) : \E j \in 1..Len(ss[k]) : i = U[k - 1] + j
    BY <1>1 DEF Layout
  <2>2. Len(ss[k]) = 0
    BY EmptySeq
  <2>3. QED BY <2>1, <2>2
<1>3. FlattenSeq(ss) \in Seq(S)
  BY FlattenType
<1>4. QED BY <1>2, <1>3, LenProperties, EmptySeq

\* Only one piece is not empty.
LEMMA FlattenOnly ==
  ASSUME NEW S, NEW ss \in Seq(Seq(S)), NEW h \in 1..Len(ss),
         \A k \in 1..Len(ss) : k # h => ss[k] = <<>>
  PROVE  FlattenSeq(ss) = ss[h]
<1> DEFINE n == Len(ss)
           a == SubSeq(ss, 1, h - 1)
           b == SubSeq(ss, h + 1, n)
<1>1. n \in Nat /\ ss[h] \in Seq(S) /\ <<>> \in Seq(S)
  BY LenProperties, ElementOfSeq, EmptySeq
<1>2. /\ a \in Seq(Seq(S)) /\ b \in Seq(Seq(S))
      /\ ss = Append(a, ss[h]) \o b
  <2>1. a \in Seq(Seq(S)) /\ b \in Seq(Seq(S))
    BY SubSeqProperties
  <2>2. SubSeq(ss, 1, n) = ss
    BY SubSeqFull
  <2>3. SubSeq(ss, 1, h) = Append(a, ss[h])
    BY SubSeqRecursiveSecond
  <2>4. SubSeq(ss, 1, n) = SubSeq(ss, 1, h) \o b
    BY <1>1
  <2>5. QED BY <2>1, <2>2, <2>3, <2>4
<1>3. \A k \in 1..Len(a) : a[k] = <<>>
  BY <1>1
<1>4. \A k \in 1..Len(b) : b[k] = <<>>
  BY <1>1
<1> HIDE DEF a, b
<1>5. FlattenSeq(a) = <<>> /\ FlattenSeq(b) = <<>>
  BY <1>2, <1>3, <1>4, FlattenNone
<1>6. PICK c \in Seq(Seq(S)) : c = Append(a, ss[h])
  BY <1>1, <1>2, AppendProperties
<1>7. FlattenSeq(c) = <<>> \o ss[h]
  BY <1>1, <1>2, <1>5, <1>6, FlattenAppend
<1>8. FlattenSeq(c \o b) = FlattenSeq(c) \o FlattenSeq(b)
  BY <1>2, <1>6, FlattenConcat
<1>9. <<>> \o ss[h] = ss[h] /\ ss[h] \o <<>> = ss[h]
  BY <1>1, ConcatEmptySeq
<1>10. QED BY <1>2, <1>5, <1>6, <1>7, <1>8, <1>9

LEMMA FlattenUnits ==
  ASSUME NEW S, NEW f \in Seq(S), NEW ss \in Seq(Seq(S)), Len(ss) = Len(f),
         \A k \in 1..Len(f) : ss[k] = <<f[k]>>
  PROVE  FlattenSeq(ss) = f
<1>1. PICK U : Layout(U, ss, FlattenSeq(ss))
  BY LayoutExists
<1>2. Len(f) \in Nat /\ FlattenSeq(ss) \in Seq(S)
  BY LenProperties, FlattenType
<1>3. ASSUME NEW k \in 0..Len(f) PROVE U[k] = k
  <2>1. ASSUME NEW i \in (0 + 1)..k
        PROVE  Len(ss[i]) = 1
    <3>1. i \in 1..Len(f)
      BY <1>2
    <3>2. ss[i] = <<f[i]>>
      BY <3>1
    <3>3. QED BY <3>2
  <2>2. U[k] = U[0] + (k - 0)
    <3>1. 0 \in 0..Len(ss) /\ k \in 0..Len(ss)
      BY <1>2
    <3>2. QED BY <1>1, <2>1, <3>1, LayoutUnits
  <2>3. U[0] = 0
    BY <1>1 DEF Layout
  <2>4. QED BY <2>2, <2>3
<1>4. Len(FlattenSeq(ss)) = Len(f)
  <2>1. U[Len(ss)] = Len(FlattenSeq(ss))
    BY <1>1 DEF Layout
  <2>2. QED BY <1>2, <1>3, <2>1
<1>5. ASSUME NEW k \in 1..Len(f) PROVE FlattenSeq(ss)[k] = f[k]
  <2>1. k - 1 \in 0..Len(f) /\ U[k - 1] = k - 1
    BY <1>2, <1>3
  <2>2. ss[k] = <<f[k]>> /\ k \in 1..Len(ss)
    OBVIOUS
  <2>3. FlattenSeq(ss)[U[k - 1] + 1] = ss[k][1]
    <3>1. 1 \in 1..Len(ss[k])
      <4>1. Len(<<f[k]>>) = 1
        OBVIOUS
      <4>2. QED BY <2>2, <4>1
    <3>2. QED BY <1>1, <2>2, <3>1 DEF Layout
  <2>4. QED BY <2>1, <2>2, <2>3
<1>6. QED BY <1>2, <1>4, <1>5, SeqEqual

\* The part of a sequence that lies where a piece does.
LEMMA Stretch ==
  ASSUME NEW S, NEW R, NEW B \in Seq(Seq(S)), NEW U, NEW t, Layout(U, B, t),
         NEW G \in Seq(R), Len(G) = Len(t), NEW k \in 1..Len(B)
  PROVE  /\ SubSeq(G, U[k - 1] + 1, U[k]) \in Seq(R)
         /\ Len(SubSeq(G, U[k - 1] + 1, U[k])) = Len(B[k])
         /\ \A j \in 1..Len(B[k]) : /\ U[k - 1] + j \in 1..Len(G)
                                    /\ SubSeq(G, U[k - 1] + 1, U[k])[j] = G[U[k - 1] + j]
<1>1. /\ k - 1 \in 0..Len(B) /\ k \in 0..Len(B) /\ Len(B[k]) \in Nat /\ Len(B) \in Nat
      /\ Len(G) \in Nat
  BY LenProperties, ElementOfSeq
<1>2. PICK a \in Nat, b \in Nat, l \in Nat : a = U[k - 1] /\ b = U[k] /\ l = Len(B[k])
  BY <1>1 DEF Layout
<1>3. b = a + l /\ b <= Len(G)
  <2>1. U[k] = U[k - 1] + Len(B[k])
    BY DEF Layout
  <2>2. U[k] <= U[Len(B)] /\ U[Len(B)] = Len(G)
    BY <1>1 DEF Layout
  <2>3. QED BY <1>2, <2>1, <2>2
<1>4. /\ SubSeq(G, a + 1, b) \in Seq(R) /\ Len(SubSeq(G, a + 1, b)) = l
      /\ \A j \in 1..l : a + j \in 1..Len(G) /\ SubSeq(G, a + 1, b)[j] = G[a + j]
  BY <1>1, <1>3
<1>5. QED BY <1>2, <1>4

\* The l elements after place a.
LEMMA SubSeqAfter ==
  ASSUME NEW S, NEW w \in Seq(S), NEW a \in Nat, NEW l \in Nat, a + l <= Len(w)
  PROVE  /\ SubSeq(w, a + 1, a + l) \in Seq(S) /\ Len(SubSeq(w, a + 1, a + l)) = l
         /\ \A j \in 1..l : a + j \in 1..Len(w) /\ SubSeq(w, a + 1, a + l)[j] = w[a + j]
<1>1. Len(w) \in Nat
  BY LenProperties
<1>2. QED BY <1>1

-------------------------------------------------------------------------------
(* Words *)

\* A text's words of each kind are counted.
Counts == [Kinds -> Nat]

LEMMA CountsAre ==
  ASSUME NEW t \in Counts
  PROVE  /\ t["dictionary"] \in Nat /\ t["english"] \in Nat /\ t["suffix"] \in Nat
         /\ t["cluster"] \in Nat /\ t["all"] \in Nat /\ t["acronym"] \in Nat
         /\ t["plain"] \in Nat /\ t["foreign"] \in Nat
  BY DEF Counts, Kinds

LEMMA ScoresAre ==
  ASSUME NEW t \in Counts, NEW r \in Recipients
  PROVE  WordsOf(t) \in Nat /\ Weighed(t) \in Int /\ Score(t, r) \in Nat /\ Bonus(r) \in {0, 4}
  BY CountsAre DEF WordsOf, Weighed, Score, Bonus

\* What PriorNotFilter says, of any text.
LEMMA PriorHolds ==
  ASSUME NEW t \in Counts
  PROVE  /\ Looks(t)["another"] => Looks(t)["Georgian"]
         /\ Looks(t)["Georgian"] =>
              /\ \E k \in Evidence : t[k] > 0
              /\ t["english"] < 2 \/ 10 * t["english"] < WordsOf(t)
<1>1. "Georgian" \in Recipients /\ "another" \in Recipients
  BY DEF Recipients
<1>2. /\ Looks(t)["Georgian"] <=> LooksLikeGeorgianLatinFor(t, "Georgian")
      /\ Looks(t)["another"] <=> LooksLikeGeorgianLatinFor(t, "another")
  BY <1>1, Zenon DEF Looks
<1>3. /\ WordsOf(t) \in Nat /\ Weighed(t) \in Int
      /\ Score(t, "Georgian") \in Nat /\ Score(t, "another") \in Nat
      /\ Score(t, "Georgian") = Score(t, "another") + 4
  <2>1. Bonus("Georgian") = 4 /\ Bonus("another") = 0
    BY DEF Bonus
  <2>2. QED BY <1>1, <2>1, ScoresAre, CountsAre DEF Score
<1>4. LooksLikeGeorgianLatinFor(t, "another") => LooksLikeGeorgianLatinFor(t, "Georgian")
  BY <1>3 DEF LooksLikeGeorgianLatinFor, Dense
<1>5. ASSUME LooksLikeGeorgianLatinFor(t, "Georgian")
      PROVE  \E k \in Evidence : t[k] > 0
  <2>1. Score(t, "Georgian") >= 6
    BY <1>5 DEF LooksLikeGeorgianLatinFor
  <2>2. 4 * t["dictionary"] + 2 * t["suffix"] + t["cluster"] + 5 * t["all"] >= 2
    BY <2>1, CountsAre DEF Score, Bonus
  <2>3. t["dictionary"] > 0 \/ t["suffix"] > 0 \/ t["cluster"] > 0 \/ t["all"] > 0
    BY <2>2, CountsAre
  <2>4. QED BY <2>3 DEF Evidence
<1>6. ASSUME LooksLikeGeorgianLatinFor(t, "Georgian")
      PROVE  t["english"] < 2 \/ 10 * t["english"] < WordsOf(t)
  BY <1>3, <1>6, CountsAre DEF LooksLikeGeorgianLatinFor, English
<1>7. QED BY <1>2, <1>4, <1>5, <1>6

\* One more word of a kind of evidence.
LEMMA MoreEvidence ==
  ASSUME NEW t \in Counts, NEW u \in Counts, NEW k \in Evidence, NEW r \in Recipients,
         u = [t EXCEPT ![k] = @ + 1], LooksLikeGeorgianLatinFor(t, r)
  PROVE  LooksLikeGeorgianLatinFor(u, r)
<1>1. k \in Kinds
  BY DEF Evidence, Kinds
<1>2. u[k] = t[k] + 1 /\ \A h \in Kinds : h # k => u[h] = t[h]
  BY <1>1 DEF Counts
<1>3. /\ u["english"] = t["english"] /\ u["foreign"] = t["foreign"]
      /\ u["acronym"] = t["acronym"] /\ u["plain"] = t["plain"]
  BY <1>2 DEF Evidence, Kinds
<1>4. /\ WordsOf(u) = WordsOf(t) + 1
      /\ Score(u, r) >= Score(t, r) + 1
      /\ u["dictionary"] > 0 \/ u["dictionary"] = t["dictionary"]
  <2>0. /\ Bonus(r) \in Nat
        /\ t["dictionary"] \in Nat /\ t["english"] \in Nat /\ t["suffix"] \in Nat
        /\ t["cluster"] \in Nat /\ t["all"] \in Nat /\ t["acronym"] \in Nat
        /\ t["plain"] \in Nat
    BY CountsAre, ScoresAre
  <2>1. CASE k = "dictionary"
    <3>1. /\ u["dictionary"] = t["dictionary"] + 1 /\ u["suffix"] = t["suffix"]
          /\ u["cluster"] = t["cluster"] /\ u["all"] = t["all"]
      BY <1>2, <2>1 DEF Kinds
    <3>2. QED BY <1>3, <2>0, <3>1 DEF WordsOf, Score
  <2>2. CASE k = "suffix"
    <3>1. /\ u["dictionary"] = t["dictionary"] /\ u["suffix"] = t["suffix"] + 1
          /\ u["cluster"] = t["cluster"] /\ u["all"] = t["all"]
      BY <1>2, <2>2 DEF Kinds
    <3>2. 2 * u["suffix"] = 2 * t["suffix"] + 2
      BY <2>0, <3>1
    <3>3. WordsOf(u) = WordsOf(t) + 1
      BY <1>3, <2>0, <3>1 DEF WordsOf
    <3>4. QED BY <1>3, <2>0, <3>1, <3>2, <3>3 DEF Score
  <2>3. CASE k = "cluster"
    <3>1. /\ u["dictionary"] = t["dictionary"] /\ u["suffix"] = t["suffix"]
          /\ u["cluster"] = t["cluster"] + 1 /\ u["all"] = t["all"]
      BY <1>2, <2>3 DEF Kinds
    <3>2. QED BY <1>3, <2>0, <3>1 DEF WordsOf, Score
  <2>4. CASE k = "all"
    <3>1. /\ u["dictionary"] = t["dictionary"] /\ u["suffix"] = t["suffix"]
          /\ u["cluster"] = t["cluster"] /\ u["all"] = t["all"] + 1
      BY <1>2, <2>4 DEF Kinds
    <3>2. 5 * u["all"] = 5 * t["all"] + 5
      BY <2>0, <3>1
    <3>3. WordsOf(u) = WordsOf(t) + 1
      BY <1>3, <2>0, <3>1 DEF WordsOf
    <3>4. QED BY <1>3, <2>0, <3>1, <3>2, <3>3 DEF Score
  <2>5. QED BY <2>1, <2>2, <2>3, <2>4 DEF Evidence
<1>5. /\ WordsOf(t) \in Nat /\ WordsOf(u) \in Nat /\ Score(t, r) \in Nat /\ Score(u, r) \in Nat
  BY ScoresAre
<1>6. WordsOf(u) > 0 /\ Score(u, r) >= 6
  BY <1>4, <1>5 DEF LooksLikeGeorgianLatinFor
<1>7. MostlyLatin(u)
  BY <1>3, <1>4, <1>5, CountsAre DEF LooksLikeGeorgianLatinFor, MostlyLatin
<1>8. ~English(u)
  BY <1>3, <1>4, <1>5, CountsAre DEF LooksLikeGeorgianLatinFor, English
<1>9. Dense(u, r)
  <2>1. CASE u["dictionary"] > 0
    BY <2>1 DEF Dense
  <2>2. CASE u["dictionary"] = t["dictionary"]
    BY <1>3, <1>4, <1>5, <2>2, CountsAre DEF LooksLikeGeorgianLatinFor, Dense, Weighed
  <2>3. QED BY <1>4, <2>1, <2>2
<1>10. QED BY <1>6, <1>7, <1>8, <1>9 DEF LooksLikeGeorgianLatinFor

-------------------------------------------------------------------------------
(* Characters for Telegram *)

\* Characters of texts and of their entities.
Symbols == Characters \union {"&", "a", "m", "p", "l", "t", "g", "#", "3", "9", "4", ";"}

\* The entities, spelled out.
LEMMA Entities ==
  /\ Escaped("&") = <<"&", "a", "m", "p", ";">> /\ Escaped("<") = <<"&", "l", "t", ";">>
  /\ Escaped(">") = <<"&", "g", "t", ";">>
  /\ Escaped("'") = <<"&", "#", "3", "9", ";">> /\ Escaped("\"") = <<"&", "#", "3", "4", ";">>
  /\ \A c : c \notin Special => Escaped(c) = <<c>>
  BY DEF Escaped, Special

LEMMA Tuple4 ==
  ASSUME NEW a, NEW b, NEW c, NEW d
  PROVE  /\ Len(<<a, b, c, d>>) = 4 /\ <<a, b, c, d>> \in Seq({a, b, c, d})
         /\ <<a, b, c, d>>[1] = a /\ <<a, b, c, d>>[2] = b
         /\ <<a, b, c, d>>[3] = c /\ <<a, b, c, d>>[4] = d
  OBVIOUS

LEMMA Tuple5 ==
  ASSUME NEW a, NEW b, NEW c, NEW d, NEW e
  PROVE  /\ Len(<<a, b, c, d, e>>) = 5 /\ <<a, b, c, d, e>> \in Seq({a, b, c, d, e})
         /\ <<a, b, c, d, e>>[1] = a /\ <<a, b, c, d, e>>[2] = b
         /\ <<a, b, c, d, e>>[3] = c /\ <<a, b, c, d, e>>[4] = d /\ <<a, b, c, d, e>>[5] = e
  OBVIOUS

\* The entity of c, character by character.
Spelled(e, c) ==
  /\ e[1] = "&"
  /\ \/ c = "&" /\ Len(e) = 5 /\ e[2] = "a" /\ e[3] = "m" /\ e[4] = "p" /\ e[5] = ";"
     \/ c = "<" /\ Len(e) = 4 /\ e[2] = "l" /\ e[3] = "t" /\ e[4] = ";"
     \/ c = ">" /\ Len(e) = 4 /\ e[2] = "g" /\ e[3] = "t" /\ e[4] = ";"
     \/ c = "'" /\ Len(e) = 5 /\ e[2] = "#" /\ e[3] = "3" /\ e[4] = "9" /\ e[5] = ";"
     \/ c = "\"" /\ Len(e) = 5 /\ e[2] = "#" /\ e[3] = "3" /\ e[4] = "4" /\ e[5] = ";"

LEMMA EntityIs ==
  ASSUME NEW c \in Special
  PROVE  Escaped(c) \in Seq(Symbols) /\ Spelled(Escaped(c), c)
<1>1. CASE c = "&"
  <2>1. PICK e : e = <<"&", "a", "m", "p", ";">>
    OBVIOUS
  <2>2. Escaped(c) = e
    BY <1>1, <2>1, Entities
  <2>3. e \in Seq({"&", "a", "m", "p", ";"}) /\ {"&", "a", "m", "p", ";"} \subseteq Symbols
    BY <2>1, Tuple5 DEF Symbols
  <2>4. Len(e) = 5 /\ e[1] = "&" /\ e[2] = "a" /\ e[3] = "m" /\ e[4] = "p" /\ e[5] = ";"
    BY <2>1
  <2>5. e \in Seq(Symbols)
    BY <2>3, SeqMonotonic
  <2>6. Spelled(e, c)
    BY <1>1, <2>4 DEF Spelled
  <2>7. QED BY <2>2, <2>5, <2>6
<1>2. CASE c = "<"
  <2>1. PICK e : e = <<"&", "l", "t", ";">>
    OBVIOUS
  <2>2. Escaped(c) = e
    BY <1>2, <2>1, Entities
  <2>3. e \in Seq({"&", "l", "t", ";"}) /\ {"&", "l", "t", ";"} \subseteq Symbols
    BY <2>1, Tuple4 DEF Symbols
  <2>4. Len(e) = 4 /\ e[1] = "&" /\ e[2] = "l" /\ e[3] = "t" /\ e[4] = ";"
    BY <2>1
  <2>5. e \in Seq(Symbols)
    BY <2>3, SeqMonotonic
  <2>6. Spelled(e, c)
    BY <1>2, <2>4 DEF Spelled
  <2>7. QED BY <2>2, <2>5, <2>6
<1>3. CASE c = ">"
  <2>1. PICK e : e = <<"&", "g", "t", ";">>
    OBVIOUS
  <2>2. Escaped(c) = e
    BY <1>3, <2>1, Entities
  <2>3. e \in Seq({"&", "g", "t", ";"}) /\ {"&", "g", "t", ";"} \subseteq Symbols
    BY <2>1, Tuple4 DEF Symbols
  <2>4. Len(e) = 4 /\ e[1] = "&" /\ e[2] = "g" /\ e[3] = "t" /\ e[4] = ";"
    BY <2>1
  <2>5. e \in Seq(Symbols)
    BY <2>3, SeqMonotonic
  <2>6. Spelled(e, c)
    BY <1>3, <2>4 DEF Spelled
  <2>7. QED BY <2>2, <2>5, <2>6
<1>4. CASE c = "'"
  <2>1. PICK e : e = <<"&", "#", "3", "9", ";">>
    OBVIOUS
  <2>2. Escaped(c) = e
    BY <1>4, <2>1, Entities
  <2>3. e \in Seq({"&", "#", "3", "9", ";"}) /\ {"&", "#", "3", "9", ";"} \subseteq Symbols
    BY <2>1, Tuple5 DEF Symbols
  <2>4. Len(e) = 5 /\ e[1] = "&" /\ e[2] = "#" /\ e[3] = "3" /\ e[4] = "9" /\ e[5] = ";"
    BY <2>1
  <2>5. e \in Seq(Symbols)
    BY <2>3, SeqMonotonic
  <2>6. Spelled(e, c)
    BY <1>4, <2>4 DEF Spelled
  <2>7. QED BY <2>2, <2>5, <2>6
<1>5. CASE c = "\""
  <2>1. PICK e : e = <<"&", "#", "3", "4", ";">>
    OBVIOUS
  <2>2. Escaped(c) = e
    BY <1>5, <2>1, Entities
  <2>3. e \in Seq({"&", "#", "3", "4", ";"}) /\ {"&", "#", "3", "4", ";"} \subseteq Symbols
    BY <2>1, Tuple5 DEF Symbols
  <2>4. Len(e) = 5 /\ e[1] = "&" /\ e[2] = "#" /\ e[3] = "3" /\ e[4] = "4" /\ e[5] = ";"
    BY <2>1
  <2>5. e \in Seq(Symbols)
    BY <2>3, SeqMonotonic
  <2>6. Spelled(e, c)
    BY <1>5, <2>4 DEF Spelled
  <2>7. QED BY <2>2, <2>5, <2>6
<1>6. QED BY <1>1, <1>2, <1>3, <1>4, <1>5 DEF Special

\* A character is escaped to something, itself if it is none of the five.
LEMMA EscapedIs ==
  ASSUME NEW c \in Characters
  PROVE  /\ Escaped(c) \in Seq(Symbols) /\ Len(Escaped(c)) \in Nat \ {0}
         /\ c \notin Special => Escaped(c) = <<c>>
<1>1. CASE c \in Special
  <2>1. PICK e \in Seq(Symbols) : e = Escaped(c) /\ Spelled(e, c)
    BY <1>1, EntityIs
  <2>2. Len(e) = 4 \/ Len(e) = 5
    BY <2>1 DEF Spelled
  <2>3. QED BY <1>1, <2>1, <2>2
<1>2. CASE c \notin Special
  <2>1. Escaped(c) = <<c>> /\ c \in Symbols
    BY <1>2, Entities DEF Symbols
  <2>2. <<c>> \in Seq(Symbols) /\ Len(<<c>>) = 1
    BY <2>1
  <2>3. QED BY <2>1, <2>2
<1>3. QED BY <1>1, <1>2

\* Digits of an entity are two at most, with neither the first nor the last of it.
LEMMA DigitsOfEntities ==
  ASSUME NEW c \in Special, NEW r \in 1..Len(Escaped(c)), Escaped(c)[r] \in Digits
  PROVE  /\ r \in {3, 4} /\ Len(Escaped(c)) = 5
         /\ Escaped(c)[2] \notin Digits /\ Escaped(c)[5] \notin Digits
<1>1. PICK e \in Seq(Symbols) : e = Escaped(c) /\ Spelled(e, c)
  BY EntityIs
<1>2. r \in 1..Len(e) /\ e[r] \in Digits
  BY <1>1
<1>3. Len(e) \in {4, 5}
  BY <1>1 DEF Spelled
<1>4. r \in {1, 2, 3, 4, 5} /\ (Len(e) = 4 => r # 5)
  BY <1>2, <1>3
<1>5. /\ "&" \notin Digits /\ "a" \notin Digits /\ "m" \notin Digits /\ "p" \notin Digits
      /\ "l" \notin Digits /\ "t" \notin Digits /\ "g" \notin Digits /\ "#" \notin Digits
      /\ ";" \notin Digits
  BY DEF Digits
<1>6. Len(e) = 5 /\ e[2] = "#" /\ e[5] = ";" /\ r \in {3, 4}
  BY <1>1, <1>2, <1>4, <1>5 DEF Spelled
<1>7. QED BY <1>1, <1>5, <1>6

\* An entity begins with its only "&" and has no digit at an end.
LEMMA EntityEnds ==
  ASSUME NEW c \in Special
  PROVE  /\ Escaped(c)[1] \notin Digits /\ Escaped(c)[Len(Escaped(c))] \notin Digits
         /\ Escaped(c)[1] = "&" /\ Len(Escaped(c)) \in {4, 5}
         /\ \A r \in 2..Len(Escaped(c)) : Escaped(c)[r] # "&"
         /\ \A r \in 1..Len(Escaped(c)) : Escaped(c)[r] \notin Tags
<1>1. PICK e \in Seq(Symbols) : e = Escaped(c) /\ Spelled(e, c)
  BY EntityIs
<1>2. e[1] = "&" /\ e[Len(e)] = ";" /\ Len(e) \in {4, 5}
  BY <1>1 DEF Spelled
<1>3. "&" \notin Digits /\ ";" \notin Digits
  BY DEF Digits
<1>4. ASSUME NEW r \in 1..Len(e)
      PROVE  e[r] \notin Tags /\ (r # 1 => e[r] # "&")
  <2>0. Len(e) = 4 \/ Len(e) = 5
    BY <1>2
  <2>1. r \in {1, 2, 3, 4, 5} /\ (Len(e) = 4 => r # 5)
    <3>1. \A n \in {4, 5} : r \in 1..n => r \in {1, 2, 3, 4, 5} /\ (n = 4 => r # 5)
      OBVIOUS
    <3>2. QED BY <2>0, <3>1
  <2>2. e[r] \in {"&", "a", "m", "p", "l", "t", "g", "#", "3", "9", "4", ";"}
    BY <1>1, <2>1 DEF Spelled
  <2>3. {"&", "a", "m", "p", "l", "t", "g", "#", "3", "9", "4", ";"} \intersect Tags = {}
    BY DEF Tags
  <2>4. r # 1 => e[r] # "&"
    BY <1>1, <2>1 DEF Spelled
  <2>5. QED BY <2>2, <2>3, <2>4
<1>5. \A r \in 2..Len(e) : r \in 1..Len(e) /\ r # 1
  BY LenProperties
<1>6. QED BY <1>1, <1>2, <1>3, <1>4, <1>5

\* No entity is where another begins.
LEMMA EntitiesDiffer ==
  ASSUME NEW c \in Special, NEW d \in Special,
         Escaped(c)[2] = Escaped(d)[2], Escaped(c)[4] = Escaped(d)[4]
  PROVE  c = d
<1>1. PICK e \in Seq(Symbols) : e = Escaped(c) /\ Spelled(e, c)
  BY EntityIs
<1>2. PICK f \in Seq(Symbols) : f = Escaped(d) /\ Spelled(f, d)
  BY EntityIs
<1>3. e[2] = f[2] /\ e[4] = f[4]
  BY <1>1, <1>2
<1>4. QED BY <1>1, <1>2, <1>3 DEF Spelled

LEMMA DigitsArePlain == Digits \intersect Special = {}
  BY DEF Digits, Special

Pieces(text) == [k \in 1..Len(text) |-> Escaped(text[k])]

LEMMA PiecesAre ==
  ASSUME NEW text \in Seq(Characters)
  PROVE  /\ Pieces(text) \in Seq(Seq(Symbols)) /\ Len(Pieces(text)) = Len(text)
         /\ Escape(text) = FlattenSeq(Pieces(text)) /\ Escape(text) \in Seq(Symbols)
<1>1. Len(text) \in Nat /\ \A k \in 1..Len(text) : text[k] \in Characters
  BY LenProperties, ElementOfSeq
<1>2. \A k \in 1..Len(text) : Escaped(text[k]) \in Seq(Symbols)
  BY <1>1, EscapedIs
<1>3. Pieces(text) \in Seq(Seq(Symbols)) /\ Len(Pieces(text)) = Len(text)
  BY <1>1, <1>2 DEF Pieces
<1>4. Escape(text) = FlattenSeq(Pieces(text))
  BY DEF Escape, Pieces
<1>5. QED BY <1>3, <1>4, FlattenType

\* What places of the escaped text, U[k] the last of the k-th character, hold.
Escaping(U, text, html) ==
  /\ U \in [0..Len(text) -> Nat] /\ U[0] = 0 /\ U[Len(text)] = Len(html)
  /\ \A h, k \in 0..Len(text) : h < k => U[h] < U[k]
  /\ \A k \in 1..Len(text) : text[k] \notin Special => U[k] = U[k - 1] + 1 /\ html[U[k]] = text[k]
  /\ \A k \in 1..Len(text) : text[k] \in Special =>
       /\ html[U[k - 1] + 1] \notin Digits /\ html[U[k]] \notin Digits
       /\ \A p \in (U[k - 1] + 1)..U[k] : html[p] \in Digits =>
            /\ p \in {U[k - 1] + 3, U[k - 1] + 4} /\ U[k] = U[k - 1] + 5
            /\ html[U[k - 1] + 2] \notin Digits /\ html[U[k - 1] + 5] \notin Digits
  /\ \A i \in 1..Len(html) : \E k \in 1..Len(text) : i \in (U[k - 1] + 1)..U[k]

\* A layout of the escaped text says where each character's piece is.
LEMMA EscapingHolds ==
  ASSUME NEW text \in Seq(Characters), NEW U, Layout(U, Pieces(text), Escape(text))
  PROVE  Escaping(U, text, Escape(text))
<1>1. PICK n \in Nat, B \in Seq(Seq(Symbols)), html \in Seq(Symbols) :
        n = Len(text) /\ B = Pieces(text) /\ html = Escape(text)
  BY PiecesAre, LenProperties
<1>2. Layout(U, B, html) /\ Len(B) = n
  BY <1>1, PiecesAre
<1>3. /\ U \in [0..n -> Nat] /\ U[0] = 0 /\ U[n] = Len(html)
      /\ \A k \in 1..n : U[k] = U[k - 1] + Len(B[k])
      /\ \A h, k \in 0..n : h <= k => U[h] <= U[k]
      /\ \A k \in 1..n : \A j \in 1..Len(B[k]) : html[U[k - 1] + j] = B[k][j]
      /\ \A i \in 1..Len(html) : \E k \in 1..n : \E j \in 1..Len(B[k]) : i = U[k - 1] + j
  BY <1>2 DEF Layout
<1>4. \A k \in 1..n : B[k] = Escaped(text[k]) /\ text[k] \in Characters
  BY <1>1, ElementOfSeq DEF Pieces
<1>5. \A k \in 1..n : Len(B[k]) \in Nat \ {0}
  BY <1>4, EscapedIs
<1>6. \A k \in 1..n : U[k - 1] \in Nat /\ U[k] \in Nat /\ k - 1 \in 0..n /\ k \in 0..n
  <2>1. \A k \in 1..n : k - 1 \in 0..n /\ k \in 0..n
    OBVIOUS
  <2>2. \A k \in 0..n : U[k] \in Nat
    BY <1>3
  <2>3. QED BY <2>1, <2>2
<1>7. ASSUME NEW h \in 0..n, NEW k \in 0..n, h < k
      PROVE  U[h] < U[k]
  <2>1. h + 1 \in 1..n /\ h + 1 \in 0..n /\ h + 1 <= k /\ (h + 1) - 1 = h
    BY <1>7
  <2>2. U[h + 1] = U[h] + Len(B[h + 1]) /\ U[h + 1] <= U[k]
    BY <1>3, <2>1
  <2>3. U[h] \in Nat /\ U[k] \in Nat /\ Len(B[h + 1]) \in Nat \ {0}
    BY <1>3, <1>5, <2>1
  <2>4. QED BY <2>2, <2>3
<1>8. ASSUME NEW k \in 1..n, text[k] \notin Special
      PROVE  U[k] = U[k - 1] + 1 /\ html[U[k]] = text[k]
  <2>1. B[k] = <<text[k]>>
    BY <1>4, <1>8, EscapedIs
  <2>2. Len(B[k]) = 1 /\ B[k][1] = text[k]
    BY <2>1
  <2>3. U[k] = U[k - 1] + 1
    BY <1>3, <2>2
  <2>4. 1 \in 1..Len(B[k])
    BY <2>2
  <2>5. html[U[k - 1] + 1] = B[k][1]
    BY <1>3, <2>4
  <2>6. QED BY <2>2, <2>3, <2>5
<1>9. ASSUME NEW k \in 1..n, text[k] \in Special
      PROVE  /\ html[U[k - 1] + 1] \notin Digits /\ html[U[k]] \notin Digits
             /\ \A p \in (U[k - 1] + 1)..U[k] : html[p] \in Digits =>
                  /\ p \in {U[k - 1] + 3, U[k - 1] + 4} /\ U[k] = U[k - 1] + 5
                  /\ html[U[k - 1] + 2] \notin Digits /\ html[U[k - 1] + 5] \notin Digits
  <2>1. PICK l \in Nat, u \in Nat : l = Len(B[k]) /\ u = U[k - 1]
    BY <1>5, <1>6
  <2>2. U[k] = u + l /\ \A j \in 1..l : html[u + j] = Escaped(text[k])[j]
    BY <1>3, <1>4, <2>1
  <2>3. /\ Escaped(text[k])[1] \notin Digits /\ Escaped(text[k])[l] \notin Digits
        /\ l \in {4, 5}
    BY <1>4, <1>9, <2>1, EntityEnds
  <2>4. 1 \in 1..l /\ l \in 1..l /\ 2 \in 1..l
    BY <2>3
  <2>5. html[u + 1] \notin Digits /\ html[u + l] \notin Digits
    BY <2>2, <2>3, <2>4
  <2>6. ASSUME NEW p \in (u + 1)..(u + l), html[p] \in Digits
        PROVE  /\ p \in {u + 3, u + 4} /\ l = 5
               /\ html[u + 2] \notin Digits /\ html[u + 5] \notin Digits
    <3>1. PICK r \in 1..l : p = u + r
      <4>1. p - u \in 1..l /\ p = u + (p - u)
        OBVIOUS
      <4>2. QED BY <4>1
    <3>2. Escaped(text[k])[r] \in Digits
      BY <2>2, <2>6, <3>1
    <3>3. r \in 1..Len(Escaped(text[k])) /\ Len(Escaped(text[k])) = l
      BY <1>4, <2>1
    <3>4. /\ r \in {3, 4} /\ l = 5
          /\ Escaped(text[k])[2] \notin Digits /\ Escaped(text[k])[5] \notin Digits
      BY <1>9, <3>2, <3>3, DigitsOfEntities
    <3>5. html[u + 2] = Escaped(text[k])[2] /\ html[u + 5] = Escaped(text[k])[5]
      BY <2>2, <3>4
    <3>6. QED BY <3>1, <3>4, <3>5
  <2>7. QED BY <2>1, <2>2, <2>5, <2>6
<1>10. ASSUME NEW i \in 1..Len(html)
       PROVE  \E k \in 1..n : i \in (U[k - 1] + 1)..U[k]
  <2>1. PICK k \in 1..n : \E j \in 1..Len(B[k]) : i = U[k - 1] + j
    BY <1>3
  <2>2. PICK l \in Nat, u \in Nat : l = Len(B[k]) /\ u = U[k - 1] /\ U[k] = u + l
    BY <1>3, <1>5, <1>6
  <2>3. PICK j \in 1..l : i = u + j
    BY <2>1, <2>2
  <2>4. i \in (u + 1)..(u + l)
    <3>1. \A x \in Nat : \A y \in 1..l : x + y \in (x + 1)..(x + l)
      OBVIOUS
    <3>2. QED BY <2>3, <3>1
  <2>5. QED BY <2>2, <2>4
<1>11. QED BY <1>1, <1>3, <1>7, <1>8, <1>9, <1>10 DEF Escaping

\* A run of digits of the escaped text passes through no entity.
LEMMA RunsArePlain ==
  ASSUME NEW text \in Seq(Characters), NEW html \in Seq(Symbols), NEW U,
         Escaping(U, text, html), NEW run \in DigitRuns(html), NEW k \in 1..Len(text),
         NEW p \in (U[k - 1] + 1)..U[k], run[1] <= p, p <= run[2]
  PROVE  text[k] \notin Special /\ text[k] \in Digits /\ p = U[k] /\ U[k - 1] + 1 = U[k]
<1>1. PICK i \in 1..Len(html), j \in 1..Len(html) :
        /\ i = run[1] /\ j = run[2] /\ i + 2 <= j /\ \A q \in i..j : html[q] \in Digits
  BY DEF DigitRuns, IsRun
<1>2. U[k - 1] \in Nat /\ U[k] \in Nat /\ Len(text) \in Nat
  <2>1. Len(text) \in Nat
    BY LenProperties
  <2>2. k - 1 \in 0..Len(text) /\ k \in 0..Len(text)
    BY <2>1
  <2>3. \A h \in 0..Len(text) : U[h] \in Nat
    BY DEF Escaping
  <2>4. QED BY <2>1, <2>2, <2>3
<1>3. html[p] \in Digits /\ p \in i..j
  BY <1>1, <1>2
<1>4. ASSUME text[k] \in Special PROVE FALSE
  <2>1. /\ p \in {U[k - 1] + 3, U[k - 1] + 4}
        /\ html[U[k - 1] + 2] \notin Digits /\ html[U[k - 1] + 5] \notin Digits
    BY <1>3, <1>4 DEF Escaping
  <2>2. U[k - 1] + 2 \notin i..j /\ U[k - 1] + 5 \notin i..j
    BY <1>1, <2>1
  <2>3. PICK u \in Nat : u = U[k - 1]
    BY <1>2
  <2>4. p \in {u + 3, u + 4} /\ u + 2 \notin i..j /\ u + 5 \notin i..j
    BY <2>1, <2>2, <2>3
  <2>5. p \in i..j /\ i \in Nat /\ j \in Nat /\ i + 2 <= j
    BY <1>1, <1>3
  <2>6. QED BY <2>4, <2>5
<1>5. U[k] = U[k - 1] + 1 /\ html[U[k]] = text[k]
  BY <1>4 DEF Escaping
<1>6. p = U[k]
  BY <1>2, <1>5
<1>7. QED BY <1>2, <1>3, <1>4, <1>5, <1>6

\* Where nothing is escaped the places go on by one.
LEMMA PlainStretch ==
  ASSUME NEW text \in Seq(Characters), NEW html, NEW U, Escaping(U, text, html),
         NEW a \in 0..Len(text), NEW b \in a..Len(text),
         \A k \in (a + 1)..b : text[k] \notin Special
  PROVE  U[b] = U[a] + (b - a)
<1> DEFINE T == {n \in Nat : a + n <= b => U[a + n] = U[a] + n}
<1>0. a \in Nat /\ b \in Nat /\ a <= b /\ Len(text) \in Nat /\ b <= Len(text) /\ U[a] \in Nat
  <2>1. Len(text) \in Nat
    BY LenProperties
  <2>2. \A h \in 0..Len(text) : U[h] \in Nat
    BY DEF Escaping
  <2>3. QED BY <2>1, <2>2
<1>1. 0 \in T
  BY <1>0
<1>2. ASSUME NEW n \in T PROVE n + 1 \in T
  <2>1. n \in Nat /\ n + 1 \in Nat
    OBVIOUS
  <2>2. SUFFICES ASSUME a + (n + 1) <= b PROVE U[a + (n + 1)] = U[a] + (n + 1)
    BY <2>1
  <2>3. PICK i \in (a + 1)..b : i = a + (n + 1)
    BY <1>0, <2>1, <2>2
  <2>4. i \in 1..Len(text) /\ i - 1 = a + n /\ a + n <= b
    BY <1>0, <2>1, <2>3
  <2>5. U[i] = U[i - 1] + 1
    BY <2>3, <2>4 DEF Escaping
  <2>6. U[a + n] = U[a] + n
    BY <2>4
  <2>7. U[i] = U[a] + n + 1
    BY <2>4, <2>5, <2>6
  <2>8. U[a] + n + 1 = U[a] + (n + 1)
    <3>1. \A u, v \in Nat : u + v + 1 = u + (v + 1)
      OBVIOUS
    <3>2. QED BY <1>0, <2>1, <3>1
  <2>9. QED BY <2>3, <2>7, <2>8
<1>3. T \subseteq Nat
  OBVIOUS
<1>4. T = Nat
  <2> HIDE DEF T
  <2>1. QED BY <1>1, <1>2, <1>3, NatSetInduction
<1>5. b - a \in Nat /\ a + (b - a) = b
  BY <1>0
<1>6. b - a \in T
  BY <1>4, <1>5
<1>7. QED BY <1>0, <1>5, <1>6

\* Runs of the escaped text are those of the text.
LEMMA RunOfText ==
  ASSUME NEW text \in Seq(Characters), NEW html \in Seq(Symbols), NEW U,
         Escaping(U, text, html), NEW run \in DigitRuns(html)
  PROVE  \E r \in DigitRuns(text) : run[1] = U[r[1]] /\ run[2] = U[r[2]]
<1>0. PICK n \in Nat : n = Len(text)
  BY LenProperties
<1>1. PICK i \in 1..Len(html), j \in 1..Len(html) :
        /\ i = run[1] /\ j = run[2] /\ i + 2 <= j /\ IsRun(html, i, j)
        /\ Starts(html, i) /\ Ends(html, j) /\ Len(html) \in Nat
  BY LenProperties DEF DigitRuns
<1>2. /\ \A k \in 0..n : U[k] \in Nat
      /\ \A h, k \in 0..n : h < k => U[h] < U[k]
      /\ \A k \in 1..n : text[k] \notin Special => U[k] = U[k - 1] + 1 /\ html[U[k]] = text[k]
      /\ U[0] = 0 /\ U[n] = Len(html)
  BY <1>0 DEF Escaping
<1>3. PICK a \in 1..n : i \in (U[a - 1] + 1)..U[a]
  BY <1>0 DEF Escaping
<1>4. PICK b \in 1..n : j \in (U[b - 1] + 1)..U[b]
  BY <1>0 DEF Escaping
<1>5. i = U[a] /\ j = U[b] /\ U[a - 1] + 1 = U[a] /\ U[b - 1] + 1 = U[b]
  BY <1>0, <1>1, <1>3, <1>4, RunsArePlain
<1>6. a <= b
  <2>1. SUFFICES ASSUME b < a PROVE FALSE
    OBVIOUS
  <2>2. U[b] < U[a]
    BY <1>2, <2>1
  <2>3. QED BY <1>1, <1>2, <1>5, <2>2
<1>7. ASSUME NEW k \in a..b
      PROVE  /\ k \in 1..n /\ text[k] \notin Special /\ text[k] \in Digits
             /\ U[k] = U[k - 1] + 1
  <2>1. k \in 1..n /\ k - 1 \in 0..n /\ k \in 0..n /\ a \in 0..n /\ b \in 0..n
    OBVIOUS
  <2>2. U[k] \in Nat /\ U[k - 1] \in Nat /\ U[k - 1] < U[k]
    BY <1>2, <2>1
  <2>3. U[a] <= U[k] /\ U[k] <= U[b]
    <3>1. k = a \/ a < k
      OBVIOUS
    <3>2. k = b \/ k < b
      OBVIOUS
    <3>3. U[a] \in Nat /\ U[b] \in Nat
      BY <1>2, <2>1
    <3>4. QED BY <1>2, <2>1, <2>2, <3>1, <3>2, <3>3, SMTT(30)
  <2>4. U[k] \in (U[k - 1] + 1)..U[k]
    BY <2>2
  <2>5. PICK p : p = U[k]
    OBVIOUS
  <2>6. p \in (U[k - 1] + 1)..U[k] /\ run[1] <= p /\ p <= run[2] /\ k \in 1..Len(text)
    BY <1>0, <1>1, <1>5, <2>1, <2>3, <2>4, <2>5
  <2>7. text[k] \notin Special /\ text[k] \in Digits /\ U[k - 1] + 1 = U[k]
    BY <2>6, RunsArePlain
  <2>8. QED BY <2>1, <2>7
<1>8. U[b] = U[a] + (b - a)
  <2>1. a \in 0..Len(text) /\ b \in a..Len(text)
    BY <1>0, <1>6
  <2>2. \A k \in (a + 1)..b : text[k] \notin Special
    BY <1>7
  <2>3. QED BY <2>1, <2>2, PlainStretch
<1>9. a + 2 <= b
  <2>1. U[a] \in Nat
    BY <1>2
  <2>2. U[a] + 2 <= U[a] + (b - a)
    BY <1>1, <1>5, <1>8
  <2>3. QED BY <2>1, <2>2
<1>10. Starts(text, a)
  <2>1. SUFFICES ASSUME a # 1, text[a - 1] \in Digits PROVE FALSE
    BY DEF Starts
  <2>2. a - 1 \in 1..n /\ text[a - 1] \notin Special
    BY <2>1, DigitsArePlain
  <2>3. html[U[a - 1]] = text[a - 1] /\ U[a - 1] \in Nat
    BY <1>2, <2>2
  <2>4. U[a - 1] = i - 1
    BY <1>5, <2>3, SMTT(30)
  <2>5. i # 1
    <3>1. U[0] < U[a - 1]
      BY <1>2, <2>2
    <3>2. QED BY <1>2, <2>3, <2>4, <3>1
  <2>6. QED BY <1>1, <2>1, <2>3, <2>4, <2>5 DEF Starts
<1>11. Ends(text, b)
  <2>1. SUFFICES ASSUME b # n, text[b + 1] \in Digits PROVE FALSE
    BY <1>0 DEF Ends
  <2>2. b + 1 \in 1..n /\ text[b + 1] \notin Special /\ (b + 1) - 1 = b /\ n \in 0..n
    BY <2>1, DigitsArePlain
  <2>3. html[U[b + 1]] = text[b + 1] /\ U[b + 1] = U[b] + 1
    BY <1>2, <2>2
  <2>4. html[j + 1] \in Digits
    BY <1>5, <2>1, <2>3
  <2>5. j # Len(html)
    <3>1. U[b] < U[n] /\ U[n] = Len(html)
      BY <1>2, <2>1, <2>2
    <3>2. QED BY <1>1, <1>5, <3>1
  <2>6. QED BY <1>1, <2>4, <2>5 DEF Ends
<1>12. IsRun(text, a, b)
  BY <1>7 DEF IsRun
<1>13. <<a, b>> \in DigitRuns(text)
  BY <1>0, <1>9, <1>10, <1>11, <1>12 DEF DigitRuns
<1>14. QED BY <1>1, <1>5, <1>13

\* A run of digits of the text is one of what is escaped.
LEMMA RunOfEscaped ==
  ASSUME NEW text \in Seq(Characters), NEW html \in Seq(Symbols), NEW U,
         Escaping(U, text, html), NEW r \in DigitRuns(text)
  PROVE  <<U[r[1]], U[r[2]]>> \in DigitRuns(html)
<1>0. PICK n \in Nat : n = Len(text)
  BY LenProperties
<1>1. PICK a \in 1..n, b \in 1..n :
        /\ a = r[1] /\ b = r[2] /\ a + 2 <= b /\ IsRun(text, a, b)
        /\ Starts(text, a) /\ Ends(text, b)
  BY <1>0 DEF DigitRuns
<1>2. /\ \A k \in 0..n : U[k] \in Nat
      /\ \A h, k \in 0..n : h < k => U[h] < U[k]
      /\ \A k \in 1..n : text[k] \notin Special => U[k] = U[k - 1] + 1 /\ html[U[k]] = text[k]
      /\ \A k \in 1..n : text[k] \in Special =>
           html[U[k - 1] + 1] \notin Digits /\ html[U[k]] \notin Digits
      /\ U[0] = 0 /\ U[n] = Len(html) /\ Len(html) \in Nat
  BY <1>0, LenProperties DEF Escaping
<1>3. \A k \in a..b : k \in 1..n /\ text[k] \in Digits /\ text[k] \notin Special
  BY <1>1, DigitsArePlain DEF IsRun
<1>4. ASSUME NEW k \in a..b PROVE U[k] = U[a] + (k - a)
  <2>1. a \in 0..Len(text) /\ k \in a..Len(text)
    BY <1>0, <1>1
  <2>2. \A h \in (a + 1)..k : text[h] \notin Special
    BY <1>3
  <2>3. QED BY <2>1, <2>2, PlainStretch
<1>5. PICK u \in Nat : u = U[a]
  BY <1>2
<1>6. U[b] = u + (b - a) /\ u + 2 <= U[b]
  <2>1. b \in a..b /\ a + 2 <= b /\ a \in Nat /\ b \in Nat
    BY <1>1
  <2>2. U[b] = U[a] + (b - a)
    BY <1>4, <2>1
  <2>3. QED BY <1>5, <2>1, <2>2
<1>7. u \in 1..Len(html) /\ U[b] \in 1..Len(html)
  <2>1. U[0] < U[a]
    BY <1>2
  <2>2. U[b] <= U[n]
    <3>1. b = n \/ b < n
      OBVIOUS
    <3>2. QED BY <1>2, <3>1
  <2>3. QED BY <1>2, <1>5, <1>6, <2>1, <2>2
<1>8. IsRun(html, u, U[b])
  <2>1. SUFFICES ASSUME NEW p \in u..U[b] PROVE html[p] \in Digits
    BY DEF IsRun
  <2>2. PICK k \in a..b : k = a + (p - u)
    BY <1>6
  <2>5. u + (k - a) = p
    BY <1>6, <2>2
  <2>3. U[k] = p
    BY <1>4, <1>5, <2>5
  <2>4. QED BY <1>2, <1>3, <2>2, <2>3
<1>9. Starts(html, u)
  <2>1. SUFFICES ASSUME u # 1 PROVE html[u - 1] \notin Digits
    BY DEF Starts
  <2>0. a \in a..b /\ a \in 1..n
    BY <1>1
  <2>2. U[a] = U[a - 1] + 1
    BY <1>2, <1>3, <2>0
  <2>3. a # 1
    BY <1>2, <1>5, <2>1, <2>2
  <2>4. text[a - 1] \notin Digits /\ a - 1 \in 1..n
    BY <1>1, <2>3 DEF Starts
  <2>5. html[U[a - 1]] \notin Digits
    BY <1>2, <2>4
  <2>6. U[a - 1] = u - 1
    BY <1>2, <1>5, <2>2
  <2>7. QED BY <2>5, <2>6
<1>10. Ends(html, U[b])
  <2>1. SUFFICES ASSUME U[b] # Len(html) PROVE html[U[b] + 1] \notin Digits
    BY DEF Ends
  <2>2. b # n
    BY <1>2, <2>1
  <2>3. text[b + 1] \notin Digits /\ b + 1 \in 1..n /\ (b + 1) - 1 = b
    BY <1>0, <1>1, <2>2 DEF Ends
  <2>4. CASE text[b + 1] \in Special
    BY <1>2, <2>3, <2>4
  <2>5. CASE text[b + 1] \notin Special
    BY <1>2, <2>3, <2>5
  <2>6. QED BY <2>4, <2>5
<1>11. QED BY <1>1, <1>5, <1>6, <1>7, <1>8, <1>9, <1>10 DEF DigitRuns

\* There are marks where runs begin and end.
LEMMA MarksAre ==
  ASSUME NEW html, NEW i
  PROVE  /\ Opened(html, i) \in {<<>>, <<"<code>">>} /\ Closed(html, i) \in {<<>>, <<"</code>">>}
         /\ Opened(html, i) # <<>> <=> \E run \in DigitRuns(html) : run[1] = i
         /\ Closed(html, i) # <<>> <=> \E run \in DigitRuns(html) : run[2] = i
<1>1. <<"<code>">> # <<>> /\ <<"</code>">> # <<>>
  OBVIOUS
<1>2. QED BY <1>1 DEF Opened, Closed

\* No mark is put into an entity, and none at the character it stands for.
LEMMA NoMarkInEntity ==
  ASSUME NEW text \in Seq(Characters), NEW html \in Seq(Symbols), NEW U,
         Escaping(U, text, html), NEW k \in 1..Len(text), text[k] \in Special
  PROVE  /\ Opened(text, k) = <<>> /\ Closed(text, k) = <<>>
         /\ \A p \in (U[k - 1] + 1)..U[k] : Opened(html, p) = <<>> /\ Closed(html, p) = <<>>
<1>1. ASSUME NEW run \in DigitRuns(text), run[1] = k \/ run[2] = k PROVE FALSE
  <2>1. PICK i \in 1..Len(text), j \in 1..Len(text) :
          i = run[1] /\ j = run[2] /\ i + 2 <= j /\ \A q \in i..j : text[q] \in Digits
    BY DEF DigitRuns, IsRun
  <2>2. k \in i..j
    BY <1>1, <2>1
  <2>3. text[k] \in Digits
    BY <2>1, <2>2
  <2>4. QED BY <2>3, DigitsArePlain
<1>2. ASSUME NEW p \in (U[k - 1] + 1)..U[k], NEW run \in DigitRuns(html),
             run[1] = p \/ run[2] = p
      PROVE  FALSE
  <2>1. PICK i \in 1..Len(html), j \in 1..Len(html) : i = run[1] /\ j = run[2] /\ i + 2 <= j
    BY DEF DigitRuns
  <2>2. run[1] <= p /\ p <= run[2]
    BY <1>2, <2>1
  <2>3. text[k] \notin Special
    BY <2>2, RunsArePlain
  <2>4. QED BY <2>3
<1>3. Opened(text, k) = <<>> /\ Closed(text, k) = <<>>
  BY <1>1, MarksAre
<1>4. \A p \in (U[k - 1] + 1)..U[k] : Opened(html, p) = <<>> /\ Closed(html, p) = <<>>
  BY <1>2, MarksAre
<1>5. QED BY <1>3, <1>4

\* Escaping moves the marks with the characters they are at.
LEMMA SameMarks ==
  ASSUME NEW text \in Seq(Characters), NEW html \in Seq(Symbols), NEW U,
         Escaping(U, text, html), NEW k \in 1..Len(text)
  PROVE  Opened(html, U[k]) = Opened(text, k) /\ Closed(html, U[k]) = Closed(text, k)
<1>1. \A h \in 1..Len(text) : U[h] = U[k] => h = k
  <2>1. SUFFICES ASSUME NEW h \in 1..Len(text), U[h] = U[k], h # k PROVE FALSE
    OBVIOUS
  <2>2. Len(text) \in Nat
    BY LenProperties
  <2>3. h \in 0..Len(text) /\ k \in 0..Len(text) /\ (h < k \/ k < h)
    BY <2>1, <2>2
  <2>4. U[h] \in Nat /\ (U[h] < U[k] \/ U[k] < U[h])
    BY <2>3 DEF Escaping
  <2>5. QED BY <2>1, <2>4
<1>2. ASSUME NEW run \in DigitRuns(html)
      PROVE  \E r \in DigitRuns(text) : /\ run[1] = U[k] => r[1] = k
                                        /\ run[2] = U[k] => r[2] = k
  <2>1. PICK r \in DigitRuns(text) : run[1] = U[r[1]] /\ run[2] = U[r[2]]
    BY RunOfText
  <2>2. r[1] \in 1..Len(text) /\ r[2] \in 1..Len(text)
    BY DEF DigitRuns
  <2>3. QED BY <1>1, <2>1, <2>2
<1>3. ASSUME NEW r \in DigitRuns(text)
      PROVE  \E run \in DigitRuns(html) : run[1] = U[r[1]] /\ run[2] = U[r[2]]
  <2>1. <<U[r[1]], U[r[2]]>> \in DigitRuns(html)
    BY RunOfEscaped
  <2>2. PICK run : run = <<U[r[1]], U[r[2]]>>
    OBVIOUS
  <2>3. run \in DigitRuns(html) /\ run[1] = U[r[1]] /\ run[2] = U[r[2]]
    BY <2>1, <2>2
  <2>4. QED BY <2>3
<1>4. (\E run \in DigitRuns(html) : run[1] = U[k]) <=> (\E r \in DigitRuns(text) : r[1] = k)
  BY <1>2, <1>3
<1>5. (\E run \in DigitRuns(html) : run[2] = U[k]) <=> (\E r \in DigitRuns(text) : r[2] = k)
  BY <1>2, <1>3
<1>6. QED BY <1>4, <1>5 DEF Opened, Closed

\* A character as WrapDigits writes it.
Wrap(text, k) == Opened(text, k) \o Escaped(text[k]) \o Closed(text, k)
Wraps(text) == [k \in 1..Len(text) |-> Wrap(text, k)]
Marks == Symbols \union Tags

\* The pieces that are sent.
LEMMA WrapIs ==
  ASSUME NEW text \in Seq(Characters), NEW k \in 1..Len(text)
  PROVE  /\ Wrap(text, k) \in Seq(Marks)
         /\ Opened(text, k) \in Seq(Marks) /\ Closed(text, k) \in Seq(Marks)
         /\ Escaped(text[k]) \in Seq(Marks)
<1>1. "<code>" \in Marks /\ "</code>" \in Marks /\ Symbols \subseteq Marks
  BY DEF Marks, Tags
<1>2. <<"<code>">> \in Seq(Marks) /\ <<"</code>">> \in Seq(Marks) /\ <<>> \in Seq(Marks)
  BY <1>1
<1>3. Opened(text, k) \in Seq(Marks) /\ Closed(text, k) \in Seq(Marks)
  BY <1>2, MarksAre
<1>4. Escaped(text[k]) \in Seq(Symbols)
  BY EscapedIs, ElementOfSeq
<1>5. Escaped(text[k]) \in Seq(Marks)
  BY <1>1, <1>4, SeqMonotonic
<1>6. QED BY <1>3, <1>5, ConcatProperties DEF Wrap

\* WrapDigits, character by character.
LEMMA WrapPieces ==
  ASSUME NEW text \in Seq(Characters)
  PROVE  Wraps(text) \in Seq(Seq(Marks)) /\ WrapDigits(text) = FlattenSeq(Wraps(text))
<1>1. PICK n \in Nat, B \in Seq(Seq(Symbols)), html \in Seq(Symbols) :
        /\ n = Len(text) /\ B = Pieces(text) /\ html = Escape(text)
        /\ Len(B) = n /\ html = FlattenSeq(B)
  BY PiecesAre, LenProperties
<1>2. PICK U : Layout(U, B, html) /\ \A k \in 0..n : U[k] = Upto(B, k)
  BY <1>1, LayoutExists
<1>3. Escaping(U, text, html)
  BY <1>1, <1>2, EscapingHolds
<1>4. \A k \in 1..n : B[k] = Escaped(text[k]) /\ text[k] \in Characters
  BY <1>1, ElementOfSeq DEF Pieces
<1>5. PICK H : H = Wraps(text)
  OBVIOUS
<1>6. H \in Seq(Seq(Marks)) /\ Len(H) = n /\ \A k \in 1..n : H[k] = Wrap(text, k)
  BY <1>1, <1>5, WrapIs DEF Wraps
<1>7. PICK l \in Nat : l = Len(html)
  BY LenProperties
<1>8. PICK G : G = [i \in 1..l |-> Opened(html, i) \o <<html[i]>> \o Closed(html, i)]
  OBVIOUS
<1>9. ASSUME NEW i \in 1..l
      PROVE  /\ Opened(html, i) \in Seq(Marks) /\ Closed(html, i) \in Seq(Marks)
             /\ <<html[i]>> \in Seq(Marks)
             /\ Opened(html, i) \o <<html[i]>> \o Closed(html, i) \in Seq(Marks)
  <2>1. "<code>" \in Marks /\ "</code>" \in Marks /\ Symbols \subseteq Marks
    BY DEF Marks, Tags
  <2>2. <<"<code>">> \in Seq(Marks) /\ <<"</code>">> \in Seq(Marks) /\ <<>> \in Seq(Marks)
    BY <2>1
  <2>3. Opened(html, i) \in Seq(Marks) /\ Closed(html, i) \in Seq(Marks)
    BY <2>2, MarksAre
  <2>4. html[i] \in Marks
    BY <1>7, <2>1, ElementOfSeq
  <2>5. <<html[i]>> \in Seq(Marks)
    BY <2>4
  <2>6. QED BY <2>3, <2>5, ConcatProperties
<1>10. /\ G \in Seq(Seq(Marks)) /\ Len(G) = l
       /\ \A i \in 1..l : G[i] = Opened(html, i) \o <<html[i]>> \o Closed(html, i)
  BY <1>8, <1>9, SMTT(30)
<1>11. WrapDigits(text) = FlattenSeq(G)
  BY <1>1, <1>7, <1>8 DEF WrapDigits, Wrapped
<1>12. ASSUME NEW k \in 1..n
       PROVE  H[k] = FlattenSeq(SubSeq(G, Upto(B, k - 1) + 1, Upto(B, k)))
  <2>1. k - 1 \in 0..n /\ k \in 0..n /\ k \in 1..Len(text) /\ k \in 1..Len(B)
    BY <1>1
  <2>2. U[k - 1] = Upto(B, k - 1) /\ U[k] = Upto(B, k)
    BY <1>2, <2>1
  <2>3. PICK a \in Nat, b \in Nat, m \in Nat :
          a = U[k - 1] /\ b = U[k] /\ m = Len(B[k]) /\ b = a + m
    <3>1. U[k - 1] \in Nat /\ U[k] \in Nat /\ U[k] = U[k - 1] + Len(B[k])
      BY <1>1, <1>2, <2>1 DEF Layout
    <3>2. Len(B[k]) \in Nat
      BY <2>1, ElementOfSeq, LenProperties
    <3>3. QED BY <3>1, <3>2
  <2>4. PICK s : s = SubSeq(G, a + 1, b)
    OBVIOUS
  <2>5. /\ s \in Seq(Seq(Marks)) /\ Len(s) = m
        /\ \A j \in 1..m : a + j \in 1..l /\ s[j] = G[a + j]
    <3>1. /\ Len(G) = Len(html) /\ Layout(U, B, html)
          /\ G \in Seq(Seq(Marks)) /\ B \in Seq(Seq(Symbols))
      BY <1>1, <1>2, <1>7, <1>10
    <3>2. /\ SubSeq(G, U[k - 1] + 1, U[k]) \in Seq(Seq(Marks))
          /\ Len(SubSeq(G, U[k - 1] + 1, U[k])) = Len(B[k])
          /\ \A j \in 1..Len(B[k]) :
               /\ U[k - 1] + j \in 1..Len(G)
               /\ SubSeq(G, U[k - 1] + 1, U[k])[j] = G[U[k - 1] + j]
      <4>1. k \in 1..Len(B)
        BY <2>1
      <4>2. QED BY <3>1, <4>1, Stretch, SMTT(30)
    <3>3. QED BY <1>10, <2>3, <2>4, <3>2
  <2>6. \A j \in 1..m : html[a + j] = B[k][j]
    BY <1>2, <2>1, <2>3 DEF Layout
  <2>7. CASE text[k] \in Special
    <3>1. \A j \in 1..m : a + j \in (a + 1)..b
      BY <2>3, SMTT(30)
    <3>2. ASSUME NEW j \in 1..m PROVE s[j] = <<B[k][j]>>
      <4>1. Opened(html, a + j) = <<>> /\ Closed(html, a + j) = <<>>
        BY <1>3, <2>1, <2>3, <2>7, <3>1, NoMarkInEntity
      <4>2. s[j] = <<>> \o <<html[a + j]>> \o <<>>
        BY <1>10, <2>5, <4>1
      <4>3. html[a + j] = B[k][j]
        BY <2>6
      <4>4. QED BY <4>2, <4>3
    <3>3. B[k] \in Seq(Marks)
      BY <1>4, <2>1, WrapIs
    <3>4. FlattenSeq(s) = B[k]
      <4>1. Len(s) = Len(B[k]) /\ \A j \in 1..Len(B[k]) : s[j] = <<B[k][j]>>
        BY <2>3, <2>5, <3>2
      <4>2. s \in Seq(Seq(Marks))
        BY <2>5
      <4>3. QED BY <3>3, <4>1, <4>2, FlattenUnits
    <3>5. Opened(text, k) = <<>> /\ Closed(text, k) = <<>>
      BY <1>3, <2>1, <2>7, NoMarkInEntity
    <3>6. H[k] = <<>> \o Escaped(text[k]) \o <<>>
      BY <1>6, <3>5 DEF Wrap
    <3>7. H[k] = B[k]
      BY <1>4, <3>3, <3>6
    <3>8. QED BY <2>2, <2>3, <2>4, <3>4, <3>7
  <2>8. CASE text[k] \notin Special
    <3>1. B[k] = <<text[k]>>
      BY <1>4, <2>8, EscapedIs
    <3>2. m = 1 /\ html[a + 1] = text[k] /\ b = a + 1
      <4>1. Len(B[k]) = 1 /\ B[k][1] = text[k]
        BY <3>1
      <4>2. m = 1 /\ b = a + 1 /\ 1 \in 1..m
        BY <2>3, <4>1
      <4>3. QED BY <2>6, <4>1, <4>2
    <3>3. s[1] = Opened(html, b) \o <<text[k]>> \o Closed(html, b)
      <4>1. 1 \in 1..m
        BY <3>2
      <4>2. s[1] = G[b] /\ b \in 1..l
        BY <2>5, <3>2, <4>1
      <4>3. QED BY <1>10, <3>2, <4>2
    <3>4. Opened(html, b) = Opened(text, k) /\ Closed(html, b) = Closed(text, k)
      <4>1. Opened(html, U[k]) = Opened(text, k) /\ Closed(html, U[k]) = Closed(text, k)
        BY <1>3, <2>1, SameMarks
      <4>2. QED BY <2>3, <4>1
    <3>5. s[1] = H[k]
      BY <1>4, <1>6, <3>1, <3>3, <3>4 DEF Wrap
    <3>6. FlattenSeq(s) = s[1]
      <4>1. 1 \in 1..Len(s) /\ \A j \in 1..Len(s) : j # 1 => s[j] = <<>>
        BY <2>5, <3>2
      <4>2. s \in Seq(Seq(Marks))
        BY <2>5
      <4>3. QED BY <4>1, <4>2, FlattenOnly
    <3>7. QED BY <2>2, <2>3, <2>4, <3>5, <3>6
  <2>9. QED BY <2>7, <2>8
<1>13. FlattenSeq(G) = FlattenSeq(H)
  <2>1. Len(G) = Len(FlattenSeq(B)) /\ Len(H) = Len(B)
    BY <1>1, <1>6, <1>7, <1>10
  <2>2. \A k \in 1..Len(B) : H[k] = FlattenSeq(SubSeq(G, Upto(B, k - 1) + 1, Upto(B, k)))
    BY <1>1, <1>12
  <2>3. QED BY <1>6, <1>10, <2>1, <2>2, FlattenBlocks
<1>14. QED BY <1>5, <1>6, <1>11, <1>13

LEMMA SmallNumbers ==
  /\ \A x \in {0, 1} : x \in Nat /\ x <= 1
  /\ \A x \in {4, 5} : x \in Nat /\ 4 <= x
  OBVIOUS

LEMMA WrapPlaces ==
  ASSUME NEW a \in Nat, NEW o \in Nat, NEW c \in Nat
  PROVE  /\ o + 1 \in 1..(o + 1 + c) /\ 1 \in 1..(o + 1 + c)
         /\ a + (o + 1) = a + o + 1 /\ a + (o + 1 + c) = a + o + 1 + c
         /\ c = 1 => o + 2 \in 1..(o + 1 + c) /\ a + (o + 2) = a + o + 1 + c
         /\ \A i \in (a + 1)..(a + o + 1 + c) : o <= 1 /\ c <= 1 =>
              \/ i = a + o + 1
              \/ o = 1 /\ i = a + 1 /\ i < a + o + 1 + c
              \/ c = 1 /\ i = a + o + 1 + c /\ i > a + 1
  OBVIOUS

\* A character that is not escaped, between its marks.
LEMMA WrapPlain ==
  ASSUME NEW text \in Seq(Characters), NEW k \in 1..Len(text), text[k] \notin Special
  PROVE  /\ Len(Opened(text, k)) \in {0, 1} /\ Len(Closed(text, k)) \in {0, 1}
         /\ Len(Wrap(text, k)) = Len(Opened(text, k)) + 1 + Len(Closed(text, k))
         /\ Wrap(text, k)[Len(Opened(text, k)) + 1] = text[k]
         /\ Opened(text, k) # <<>> => Len(Opened(text, k)) = 1 /\ Wrap(text, k)[1] = "<code>"
         /\ Closed(text, k) # <<>> =>
              Len(Closed(text, k)) = 1 /\ Wrap(text, k)[Len(Opened(text, k)) + 2] = "</code>"
         /\ Opened(text, k) = <<>> => Len(Opened(text, k)) = 0
         /\ Closed(text, k) = <<>> => Len(Closed(text, k)) = 0
<1>1. PICK c : c = text[k]
  OBVIOUS
<1>2. Escaped(text[k]) = <<c>>
  BY <1>1, ElementOfSeq, EscapedIs
<1>3. PICK o \in {<<>>, <<"<code>">>}, e \in {<<>>, <<"</code>">>} :
        o = Opened(text, k) /\ e = Closed(text, k)
  BY MarksAre
<1>4. Wrap(text, k) = o \o <<c>> \o e
  BY <1>2, <1>3 DEF Wrap
<1>5. PICK w : w = o \o <<c>> \o e
  OBVIOUS
<1>6. /\ Len(o) \in {0, 1} /\ Len(e) \in {0, 1} /\ Len(w) = Len(o) + 1 + Len(e)
      /\ w[Len(o) + 1] = c
      /\ o # <<>> => Len(o) = 1 /\ w[1] = "<code>"
      /\ e # <<>> => Len(e) = 1 /\ w[Len(o) + 2] = "</code>"
      /\ o = <<>> => Len(o) = 0
      /\ e = <<>> => Len(e) = 0
  <2>1. CASE o = <<>> /\ e = <<>>
    BY <1>5, <2>1
  <2>2. CASE o = <<"<code>">> /\ e = <<>>
    BY <1>5, <2>2
  <2>3. CASE o = <<>> /\ e = <<"</code>">>
    BY <1>5, <2>3
  <2>4. CASE o = <<"<code>">> /\ e = <<"</code>">>
    BY <1>5, <2>4
  <2>5. QED BY <2>1, <2>2, <2>3, <2>4
<1>7. QED BY <1>1, <1>3, <1>4, <1>5, <1>6

\* What places of the marked text, W[k] the last of the k-th character, hold.
Wrapping(W, text, w) ==
  /\ W \in [0..Len(text) -> Nat] /\ W[0] = 0 /\ W[Len(text)] = Len(w)
  /\ \A h, k \in 0..Len(text) : h <= k => W[h] <= W[k]
  /\ \A k \in 1..Len(text) : text[k] \in Special =>
       /\ W[k] = W[k - 1] + Len(Escaped(text[k]))
       /\ \A j \in 1..Len(Escaped(text[k])) : w[W[k - 1] + j] = Escaped(text[k])[j]
  /\ \A k \in 1..Len(text) : text[k] \notin Special =>
       /\ W[k] = W[k - 1] + Len(Opened(text, k)) + 1 + Len(Closed(text, k))
       /\ w[W[k - 1] + Len(Opened(text, k)) + 1] = text[k]
       /\ Opened(text, k) # <<>> => w[W[k - 1] + 1] = "<code>"
       /\ Closed(text, k) # <<>> => w[W[k]] = "</code>"
  /\ \A i \in 1..Len(w) : \E k \in 1..Len(text) : i \in (W[k - 1] + 1)..W[k]

\* A layout of what is sent says where each character and mark is.
LEMMA WrappingHolds ==
  ASSUME NEW text \in Seq(Characters), NEW html \in Seq(Symbols), NEW U,
         Escaping(U, text, html), NEW W, NEW w, Layout(W, Wraps(text), w)
  PROVE  Wrapping(W, text, w)
<1>1. PICK n \in Nat, B \in Seq(Seq(Marks)) : n = Len(text) /\ B = Wraps(text)
  BY WrapPieces, LenProperties
<1>2. Layout(W, B, w) /\ Len(B) = n /\ \A k \in 1..n : B[k] = Wrap(text, k)
  BY <1>1 DEF Wraps
<1>3. /\ W \in [0..n -> Nat] /\ W[0] = 0 /\ W[n] = Len(w)
      /\ \A k \in 1..n : W[k] = W[k - 1] + Len(B[k])
      /\ \A h, k \in 0..n : h <= k => W[h] <= W[k]
      /\ \A k \in 1..n : \A j \in 1..Len(B[k]) : w[W[k - 1] + j] = B[k][j]
      /\ \A i \in 1..Len(w) : \E k \in 1..n : \E j \in 1..Len(B[k]) : i = W[k - 1] + j
  BY <1>2 DEF Layout
<1>4. \A k \in 1..n : W[k - 1] \in Nat /\ Len(B[k]) \in Nat
  <2>1. \A k \in 1..n : k - 1 \in 0..n
    OBVIOUS
  <2>2. \A k \in 0..n : W[k] \in Nat
    BY <1>3
  <2>3. \A k \in 1..n : Len(B[k]) \in Nat
    BY <1>2, ElementOfSeq, LenProperties
  <2>4. QED BY <2>1, <2>2, <2>3
<1>5. ASSUME NEW k \in 1..n, text[k] \in Special
      PROVE  /\ W[k] = W[k - 1] + Len(Escaped(text[k]))
             /\ \A j \in 1..Len(Escaped(text[k])) : w[W[k - 1] + j] = Escaped(text[k])[j]
  <2>1. Opened(text, k) = <<>> /\ Closed(text, k) = <<>>
    BY <1>1, <1>5, NoMarkInEntity
  <2>2. PICK e \in Seq(Symbols) : e = Escaped(text[k])
    BY <1>5, EntityIs
  <2>3. B[k] = <<>> \o e \o <<>>
    BY <1>2, <2>1, <2>2 DEF Wrap
  <2>4. B[k] = e
    BY <2>2, <2>3
  <2>6. /\ W[k] = W[k - 1] + Len(B[k])
        /\ \A j \in 1..Len(B[k]) : w[W[k - 1] + j] = B[k][j]
    BY <1>3
  <2>5. QED BY <2>2, <2>4, <2>6
<1>6. ASSUME NEW k \in 1..n, text[k] \notin Special
      PROVE  /\ W[k] = W[k - 1] + Len(Opened(text, k)) + 1 + Len(Closed(text, k))
             /\ w[W[k - 1] + Len(Opened(text, k)) + 1] = text[k]
             /\ Opened(text, k) # <<>> => w[W[k - 1] + 1] = "<code>"
             /\ Closed(text, k) # <<>> => w[W[k]] = "</code>"
  <2>0. k \in 1..Len(text) /\ Len(Opened(text, k)) \in Nat /\ Len(Closed(text, k)) \in Nat
    <3>1. k \in 1..Len(text)
      BY <1>1
    <3>2. Len(Opened(text, k)) \in {0, 1} /\ Len(Closed(text, k)) \in {0, 1}
      BY <1>6, <3>1, WrapPlain
    <3>3. QED BY <3>1, <3>2
  <2>1. PICK a \in Nat, o \in Nat, c \in Nat :
          a = W[k - 1] /\ o = Len(Opened(text, k)) /\ c = Len(Closed(text, k))
    BY <1>4, <2>0
  <2>2. PICK b : b = B[k]
    OBVIOUS
  <2>3. /\ Len(b) = o + 1 + c /\ b[o + 1] = text[k]
        /\ Opened(text, k) # <<>> => o = 1 /\ b[1] = "<code>"
        /\ Closed(text, k) # <<>> => c = 1 /\ b[o + 2] = "</code>"
    <3>1. b = Wrap(text, k)
      BY <1>2, <2>2
    <3>2. QED BY <1>6, <2>0, <2>1, <3>1, WrapPlain
  <2>4. W[k] = a + Len(b) /\ \A j \in 1..Len(b) : w[a + j] = b[j]
    BY <1>3, <2>1, <2>2
  <2>5. W[k] = a + o + 1 + c /\ \A j \in 1..(o + 1 + c) : w[a + j] = b[j]
    <3>1. a + (o + 1 + c) = a + o + 1 + c
      BY WrapPlaces
    <3>2. QED BY <2>3, <2>4, <3>1
  <2>6. /\ o + 1 \in 1..(o + 1 + c) /\ 1 \in 1..(o + 1 + c)
        /\ a + (o + 1) = a + o + 1
        /\ c = 1 => o + 2 \in 1..(o + 1 + c) /\ a + (o + 2) = a + o + 1 + c
    BY WrapPlaces
  <2>7. w[a + o + 1] = text[k]
    BY <2>3, <2>5, <2>6
  <2>8. Opened(text, k) # <<>> => w[a + 1] = "<code>"
    BY <2>3, <2>5, <2>6
  <2>9. Closed(text, k) # <<>> => w[W[k]] = "</code>"
    BY <2>3, <2>5, <2>6
  <2>10. QED BY <2>1, <2>5, <2>7, <2>8, <2>9
<1>7. ASSUME NEW i \in 1..Len(w)
      PROVE  \E k \in 1..n : i \in (W[k - 1] + 1)..W[k]
  <2>1. PICK k \in 1..n : \E j \in 1..Len(B[k]) : i = W[k - 1] + j
    BY <1>3
  <2>3. PICK l \in Nat, u \in Nat : l = Len(B[k]) /\ u = W[k - 1] /\ W[k] = u + l
    BY <1>3, <1>4
  <2>2. PICK j \in 1..l : i = u + j
    BY <2>1, <2>3
  <2>4. i \in (u + 1)..(u + l)
    <3>1. \A x \in Nat : \A y \in 1..l : x + y \in (x + 1)..(x + l)
      OBVIOUS
    <3>2. QED BY <2>2, <3>1
  <2>5. QED BY <2>3, <2>4
<1>8. QED BY <1>1, <1>3, <1>5, <1>6, <1>7 DEF Wrapping

\* The pieces keep the order of their characters.
LEMMA WrappingOrder ==
  ASSUME NEW text \in Seq(Characters), NEW W, NEW w, Wrapping(W, text, w),
         NEW h \in 1..Len(text), NEW k \in 1..Len(text),
         NEW p \in (W[h - 1] + 1)..W[h], NEW q \in (W[k - 1] + 1)..W[k], p <= q
  PROVE  h <= k
<1>1. Len(text) \in Nat
  BY LenProperties
<1>2. h \in 0..Len(text) /\ h - 1 \in 0..Len(text) /\ k \in 0..Len(text) /\ k - 1 \in 0..Len(text)
  BY <1>1
<1>3. PICK a \in Nat, b \in Nat, c \in Nat, d \in Nat :
        a = W[h - 1] /\ b = W[h] /\ c = W[k - 1] /\ d = W[k]
  BY <1>2, ZenonT(60) DEF Wrapping
<1>4. SUFFICES ASSUME k <= h - 1 PROVE FALSE
  BY <1>1
<1>5. d <= a
  BY <1>2, <1>3, <1>4 DEF Wrapping
<1>6. p \in (a + 1)..b /\ q \in (c + 1)..d
  BY <1>3
<1>7. QED BY <1>5, <1>6

\* What a place holds: part of an entity, a character, or a mark.
LEMMA WrappedPlace ==
  ASSUME NEW text \in Seq(Characters), NEW W, NEW w, Wrapping(W, text, w),
         NEW k \in 1..Len(text), NEW i \in (W[k - 1] + 1)..W[k]
  PROVE  /\ W[k - 1] \in Nat /\ W[k] \in Nat /\ i \in 1..Len(w)
         /\ \/ /\ text[k] \in Special /\ w[i] \notin Tags
               /\ w[i] = "&" <=> i = W[k - 1] + 1
            \/ /\ text[k] \notin Special /\ w[i] \notin Tags /\ w[i] # "&"
               /\ w[i] = text[k] /\ i = W[k - 1] + Len(Opened(text, k)) + 1
            \/ /\ text[k] \notin Special /\ Opened(text, k) # <<>>
               /\ w[i] = "<code>" /\ i = W[k - 1] + 1 /\ i < W[k]
            \/ /\ text[k] \notin Special /\ Closed(text, k) # <<>>
               /\ w[i] = "</code>" /\ i = W[k] /\ i > W[k - 1] + 1
<1>1. Len(text) \in Nat
  BY LenProperties
<1>2. k \in 0..Len(text) /\ k - 1 \in 0..Len(text) /\ Len(text) \in 0..Len(text)
  BY <1>1
<1>3. PICK a \in Nat, b \in Nat : a = W[k - 1] /\ b = W[k] /\ b <= Len(w)
  <2>1. \A h \in 0..Len(text) : W[h] \in Nat
    BY DEF Wrapping
  <2>2. W[k] <= W[Len(text)] /\ W[Len(text)] = Len(w)
    BY <1>1, <1>2 DEF Wrapping
  <2>3. QED BY <1>2, <2>1, <2>2
<1>4. i \in (a + 1)..b /\ i \in 1..Len(w)
  <2>1. i \in (a + 1)..b
    BY <1>3
  <2>2. W[Len(text)] \in Nat /\ W[Len(text)] = Len(w)
    BY <1>2 DEF Wrapping
  <2>3. QED BY <1>3, <2>1, <2>2
<1>5. CASE text[k] \in Special
  <2>1. PICK l \in Nat : l = Len(Escaped(text[k])) /\ 4 <= l
    <3>1. Len(Escaped(text[k])) \in {4, 5}
      BY <1>5, EntityEnds
    <3>2. QED BY <3>1, SmallNumbers
  <2>2. b = a + l /\ \A j \in 1..l : w[a + j] = Escaped(text[k])[j]
    BY <1>3, <1>5, <2>1 DEF Wrapping
  <2>3. PICK j \in 1..l : i = a + j
    <3>1. i - a \in 1..l /\ i = a + (i - a)
      BY <1>3, <1>4, <2>2, SMTT(30)
    <3>2. QED BY <3>1
  <2>4. w[i] = Escaped(text[k])[j]
    BY <2>2, <2>3
  <2>5. Escaped(text[k])[j] \notin Tags
    BY <1>5, <2>1, EntityEnds
  <2>6. Escaped(text[k])[j] = "&" <=> j = 1
    <3>1. j # 1 => j \in 2..l
      BY <2>1
    <3>2. QED BY <1>5, <2>1, <3>1, EntityEnds
  <2>7. j = 1 <=> i = a + 1
    BY <2>3
  <2>8. QED BY <1>3, <1>4, <1>5, <2>4, <2>5, <2>6, <2>7
<1>6. CASE text[k] \notin Special
  <2>0. /\ Len(Opened(text, k)) \in Nat /\ Len(Closed(text, k)) \in Nat
        /\ Len(Opened(text, k)) <= 1 /\ Len(Closed(text, k)) <= 1
    <3>1. Len(Opened(text, k)) \in {0, 1} /\ Len(Closed(text, k)) \in {0, 1}
      BY <1>6, WrapPlain
    <3>2. QED BY <3>1, SmallNumbers
  <2>1. PICK o \in Nat, c \in Nat :
          /\ o <= 1 /\ c <= 1 /\ o = Len(Opened(text, k)) /\ c = Len(Closed(text, k))
          /\ (o = 1 <=> Opened(text, k) # <<>>) /\ (c = 1 <=> Closed(text, k) # <<>>)
    BY <1>6, <2>0, WrapPlain
  <2>2. /\ b = a + o + 1 + c /\ w[a + o + 1] = text[k]
        /\ o = 1 => w[a + 1] = "<code>"
        /\ c = 1 => w[b] = "</code>"
    BY <1>3, <1>6, <2>1 DEF Wrapping
  <2>3. \/ i = a + o + 1
        \/ o = 1 /\ i = a + 1 /\ i < b
        \/ c = 1 /\ i = b /\ i > a + 1
    <3>1. i \in (a + 1)..(a + o + 1 + c) /\ b = a + o + 1 + c
      BY <1>4, <2>2
    <3>2. QED BY <2>1, <3>1, WrapPlaces
  <2>4. text[k] \in Characters /\ text[k] \notin Tags /\ text[k] # "&"
    BY <1>6, ElementOfSeq, CharactersAssumption DEF Special
  <2>5. CASE i = a + o + 1
    BY <1>3, <1>4, <1>6, <2>1, <2>2, <2>4, <2>5
  <2>6. CASE o = 1 /\ i = a + 1 /\ i < b
    BY <1>3, <1>4, <1>6, <2>1, <2>2, <2>6
  <2>7. CASE c = 1 /\ i = b /\ i > a + 1
    BY <1>3, <1>4, <1>6, <2>1, <2>2, <2>7
  <2>8. QED BY <2>3, <2>5, <2>6, <2>7
<1>7. QED BY <1>5, <1>6

LEMMA EntityPlaces ==
  ASSUME NEW a \in Nat, NEW l \in Nat
  PROVE  /\ (a + 1) + l - 1 = a + l
         /\ \A i \in (a + 1)..(a + l) : i # a + 1 => a + 1 \in 1..(i - 1) /\ i < (a + 1) + l
         /\ \A i \in Nat : a + 1 < i /\ i < (a + 1) + l => i \in (a + 1)..(a + l)
  OBVIOUS

\* Telegram finds the entities where they were put.
LEMMA EntityFound ==
  ASSUME NEW text \in Seq(Characters), NEW W, NEW w \in Seq(Marks), Wrapping(W, text, w),
         NEW k \in 1..Len(text), text[k] \in Special
  PROVE  EntityAt(w, W[k - 1] + 1, text[k])
<1>1. PICK e \in Seq(Symbols) : e = Escaped(text[k])
  BY EntityIs
<1>2. Len(text) \in Nat /\ Len(e) \in Nat /\ Len(w) \in Nat
  BY LenProperties
<1>3. k \in 0..Len(text) /\ k - 1 \in 0..Len(text) /\ Len(text) \in 0..Len(text)
  BY <1>2
<1>4. PICK a \in Nat, b \in Nat, l \in Nat :
        a = W[k - 1] /\ b = W[k] /\ b <= Len(w) /\ l = Len(e) /\ 4 <= l
  <2>1. \A h \in 0..Len(text) : W[h] \in Nat
    BY DEF Wrapping
  <2>2. W[k] <= W[Len(text)] /\ W[Len(text)] = Len(w)
    BY <1>2, <1>3 DEF Wrapping
  <2>3. Len(e) \in {4, 5}
    BY <1>1, EntityEnds
  <2>4. QED BY <1>3, <2>1, <2>2, <2>3, SmallNumbers
<1>5. b = a + l /\ \A j \in 1..l : w[a + j] = e[j]
  BY <1>1, <1>4 DEF Wrapping
<1>6. (a + 1) + l - 1 = b
  <2>1. b = a + l
    BY <1>5
  <2>2. QED BY <2>1, EntityPlaces
<1>7. PICK s : s = SubSeq(w, a + 1, b)
  OBVIOUS
<1>8. s \in Seq(Marks) /\ Len(s) = l /\ \A j \in 1..l : s[j] = w[a + j]
  <2>1. b = a + l /\ a + l <= Len(w)
    BY <1>4, <1>5
  <2>2. QED BY <1>7, <2>1, SubSeqAfter
<1>9. e \in Seq(Marks) /\ \A j \in 1..Len(s) : s[j] = e[j]
  <2>1. Symbols \subseteq Marks
    BY DEF Marks
  <2>2. e \in Seq(Marks)
    BY <2>1, SeqMonotonic
  <2>3. QED BY <1>5, <1>8, <2>2
<1>10. s = e
  BY <1>4, <1>8, <1>9, SeqEqual
<1>11. QED BY <1>1, <1>4, <1>6, <1>7, <1>10 DEF EntityAt

\* Telegram finds no entity but those of characters.
LEMMA EntityIsPlaced ==
  ASSUME NEW text \in Seq(Characters), NEW W, NEW w \in Seq(Marks), Wrapping(W, text, w),
         NEW i \in 1..Len(w), NEW d \in Special, EntityAt(w, i, d)
  PROVE  \E k \in 1..Len(text) :
           text[k] = d /\ i = W[k - 1] + 1 /\ W[k] = W[k - 1] + Len(Escaped(d))
<1>1. PICK e \in Seq(Symbols) : e = Escaped(d)
  BY EntityIs
<1>2. PICK l \in Nat : l = Len(e) /\ 4 <= l
  <2>1. Len(e) \in {4, 5}
    BY <1>1, EntityEnds
  <2>2. QED BY <2>1, SmallNumbers
<1>3. Len(w) \in Nat /\ i \in Nat /\ i + l - 1 <= Len(w) /\ SubSeq(w, i, i + l - 1) = e
  BY <1>1, <1>2, LenProperties DEF EntityAt
<1>4. w[i] = e[1] /\ w[i + 1] = e[2] /\ w[i + 3] = e[4]
  <2>1. \A j \in 1..l : SubSeq(w, i, i + l - 1)[j] = w[i + j - 1]
    BY <1>2, <1>3
  <2>2. 1 \in 1..l /\ 2 \in 1..l /\ 4 \in 1..l
    BY <1>2
  <2>3. i + 1 - 1 = i /\ i + 2 - 1 = i + 1 /\ i + 4 - 1 = i + 3
    BY <1>3
  <2>4. QED BY <1>3, <2>1, <2>2, <2>3
<1>5. w[i] = "&"
  BY <1>1, <1>4, EntityEnds
<1>6. PICK k \in 1..Len(text) : i \in (W[k - 1] + 1)..W[k]
  BY DEF Wrapping
<1>7. text[k] \in Special /\ i = W[k - 1] + 1 /\ W[k - 1] \in Nat
  <2>1. /\ W[k - 1] \in Nat
        /\ \/ /\ text[k] \in Special
              /\ w[i] = "&" <=> i = W[k - 1] + 1
           \/ w[i] # "&"
           \/ w[i] = "<code>"
           \/ w[i] = "</code>"
    BY <1>6, WrappedPlace
  <2>2. QED BY <1>5, <2>1
<1>8. /\ W[k] = W[k - 1] + Len(Escaped(text[k]))
      /\ \A j \in 1..Len(Escaped(text[k])) : w[W[k - 1] + j] = Escaped(text[k])[j]
  BY <1>7 DEF Wrapping
<1>9. text[k] = d
  <2>1. PICK m \in Nat : m = Len(Escaped(text[k])) /\ 4 <= m
    <3>1. Len(Escaped(text[k])) \in {4, 5}
      BY <1>7, EntityEnds
    <3>2. QED BY <3>1, SmallNumbers
  <2>2. PICK a \in Nat : a = W[k - 1]
    BY <1>7
  <2>3. 2 \in 1..m /\ 4 \in 1..m /\ i + 1 = a + 2 /\ i + 3 = a + 4
    BY <1>7, <2>1, <2>2, SMTT(30)
  <2>4. w[i + 1] = Escaped(text[k])[2] /\ w[i + 3] = Escaped(text[k])[4]
    BY <1>8, <2>1, <2>2, <2>3
  <2>5. QED BY <1>1, <1>4, <1>7, <2>4, EntitiesDiffer
<1>10. QED BY <1>7, <1>8, <1>9

\* Telegram shows of each character, as WrapDigits writes it, the character.
LEMMA ShownPlace ==
  ASSUME NEW text \in Seq(Characters), NEW W, NEW w \in Seq(Marks), Wrapping(W, text, w),
         NEW k \in 1..Len(text), NEW i \in (W[k - 1] + 1)..W[k]
  PROVE  /\ text[k] \in Special =>
              ShownAt(w, i) = IF i = W[k - 1] + 1 THEN <<text[k]>> ELSE <<>>
         /\ text[k] \notin Special =>
              ShownAt(w, i) = IF i = W[k - 1] + Len(Opened(text, k)) + 1 THEN <<text[k]>> ELSE <<>>
<1>1. W[k - 1] \in Nat /\ W[k] \in Nat /\ i \in 1..Len(w) /\ Len(w) \in Nat
  BY WrappedPlace, LenProperties
<1>2. ASSUME NEW c \in Special, EntityAt(w, i, c)
      PROVE  c = text[k] /\ i = W[k - 1] + 1
  <2>1. PICK h \in 1..Len(text) :
          text[h] = c /\ i = W[h - 1] + 1 /\ W[h] = W[h - 1] + Len(Escaped(c))
    BY <1>1, <1>2, EntityIsPlaced
  <2>2. i \in (W[h - 1] + 1)..W[h]
    <3>1. PICK l \in Nat : l = Len(Escaped(c)) /\ 4 <= l
      <4>1. Len(Escaped(c)) \in {4, 5}
        BY EntityEnds
      <4>2. QED BY <4>1, SmallNumbers
    <3>2. Len(text) \in Nat
      BY LenProperties
    <3>3. h - 1 \in 0..Len(text)
      BY <3>2
    <3>4. PICK a \in Nat : a = W[h - 1]
      BY <3>3 DEF Wrapping
    <3>5. i = a + 1 /\ W[h] = a + l
      BY <2>1, <3>1, <3>4
    <3>6. QED BY <3>1, <3>4, <3>5, SMTT(30)
  <2>3. h <= k /\ k <= h
    BY <1>1, <2>2, WrappingOrder
  <2>4. h = k
    BY <2>3
  <2>5. QED BY <2>1, <2>4
<1>3. CASE text[k] \in Special
  <2>1. EntityAt(w, W[k - 1] + 1, text[k])
    BY <1>3, EntityFound
  <2>2. CASE i = W[k - 1] + 1
    <3>1. EntityAt(w, i, text[k])
      BY <2>1, <2>2
    <3>2. (CHOOSE c \in Special : EntityAt(w, i, c)) = text[k]
      BY <1>2, <1>3, <3>1
    <3>3. ShownAt(w, i) = <<text[k]>>
      BY <1>3, <3>1, <3>2 DEF ShownAt
    <3>4. QED BY <1>3, <2>2, <3>3
  <2>3. CASE i # W[k - 1] + 1
    <3>1. ~\E c \in Special : EntityAt(w, i, c)
      BY <1>2, <2>3
    <3>2. W[k] = W[k - 1] + Len(Escaped(text[k]))
      BY <1>3 DEF Wrapping
    <3>3. InEntity(w, i)
      <4>1. PICK l \in Nat : l = Len(Escaped(text[k]))
        <5>1. Len(Escaped(text[k])) \in {4, 5}
          BY <1>3, EntityEnds
        <5>2. QED BY <5>1, SmallNumbers
      <4>2. PICK a \in Nat : a = W[k - 1]
        BY <1>1
      <4>3. i \in (a + 1)..(a + l) /\ i # a + 1
        BY <2>3, <3>2, <4>1, <4>2
      <4>4. a + 1 \in 1..(i - 1) /\ i < (a + 1) + l
        BY <4>3, EntityPlaces
      <4>5. PICK p \in 1..(i - 1) : p = a + 1
        BY <4>4
      <4>6. EntityAt(w, p, text[k]) /\ i < p + Len(Escaped(text[k]))
        BY <2>1, <4>1, <4>2, <4>4, <4>5
      <4>7. QED BY <1>3, <4>6 DEF InEntity
    <3>4. ShownAt(w, i) = <<>>
      BY <3>1, <3>3 DEF ShownAt
    <3>5. QED BY <1>3, <2>3, <3>4
  <2>4. QED BY <2>2, <2>3
<1>4. CASE text[k] \notin Special
  <2>1. ~\E c \in Special : EntityAt(w, i, c)
    BY <1>2, <1>4
  <2>2. ~InEntity(w, i)
    <3>1. SUFFICES ASSUME NEW p \in 1..(i - 1), NEW c \in Special,
                          EntityAt(w, p, c), i < p + Len(Escaped(c))
                   PROVE  FALSE
      BY DEF InEntity
    <3>2. p \in 1..Len(w)
      BY <1>1
    <3>3. PICK h \in 1..Len(text) :
            text[h] = c /\ p = W[h - 1] + 1 /\ W[h] = W[h - 1] + Len(Escaped(c))
      BY <3>1, <3>2, EntityIsPlaced
    <3>4. PICK l \in Nat : l = Len(Escaped(c)) /\ 4 <= l
      <4>1. Len(Escaped(c)) \in {4, 5}
        BY EntityEnds
      <4>2. QED BY <4>1, SmallNumbers
    <3>5. Len(text) \in Nat
      BY LenProperties
    <3>6. h - 1 \in 0..Len(text)
      BY <3>5
    <3>7. PICK a \in Nat : a = W[h - 1]
      BY <3>6 DEF Wrapping
    <3>8. p = a + 1 /\ W[h] = a + l /\ i < p + l /\ p < i
      BY <1>1, <3>1, <3>3, <3>4, <3>7
    <3>9. i \in (W[h - 1] + 1)..W[h]
      <4>1. i \in Nat /\ a + 1 < i /\ i < (a + 1) + l
        BY <1>1, <3>8
      <4>2. i \in (a + 1)..(a + l)
        BY <4>1, EntityPlaces
      <4>3. QED BY <3>7, <3>8, <4>2
    <3>10. h <= k /\ k <= h
      BY <3>9, <1>1, WrappingOrder
    <3>11. h = k
      BY <3>10
    <3>12. QED BY <1>4, <3>3, <3>11
  <2>3. ShownAt(w, i) = IF w[i] \in Tags THEN <<>> ELSE <<w[i]>>
    BY <2>1, <2>2 DEF ShownAt
  <2>4. PICK a \in Nat, o \in Nat, c \in Nat, b \in Nat :
          /\ a = W[k - 1] /\ o = Len(Opened(text, k)) /\ c = Len(Closed(text, k)) /\ b = W[k]
          /\ (o = 1 <=> Opened(text, k) # <<>>) /\ o <= 1
          /\ b = a + o + 1 + c
          /\ c <= 1 /\ (c = 1 <=> Closed(text, k) # <<>>)
    <3>1. /\ Len(Opened(text, k)) \in {0, 1} /\ Len(Closed(text, k)) \in {0, 1}
          /\ (Len(Opened(text, k)) = 1 <=> Opened(text, k) # <<>>)
          /\ (Len(Closed(text, k)) = 1 <=> Closed(text, k) # <<>>)
      <4>1. /\ Len(Opened(text, k)) \in {0, 1} /\ Len(Closed(text, k)) \in {0, 1}
            /\ Opened(text, k) # <<>> => Len(Opened(text, k)) = 1
            /\ Closed(text, k) # <<>> => Len(Closed(text, k)) = 1
            /\ Opened(text, k) = <<>> => Len(Opened(text, k)) = 0
            /\ Closed(text, k) = <<>> => Len(Closed(text, k)) = 0
        BY <1>4, WrapPlain
      <4>2. 0 # 1
        OBVIOUS
      <4>3. QED BY <4>1, <4>2
    <3>2. W[k] = W[k - 1] + Len(Opened(text, k)) + 1 + Len(Closed(text, k))
      BY <1>4 DEF Wrapping
    <3>3. QED BY <1>1, <3>1, <3>2, SmallNumbers
  <2>5. \/ w[i] \notin Tags /\ w[i] = text[k] /\ i = a + o + 1
        \/ w[i] \in Tags /\ o = 1 /\ i = a + 1 /\ i < b
        \/ w[i] \in Tags /\ c = 1 /\ i = b /\ i > a + 1
    <3>1. \/ w[i] \notin Tags /\ w[i] = text[k] /\ i = W[k - 1] + Len(Opened(text, k)) + 1
          \/ Opened(text, k) # <<>> /\ w[i] = "<code>" /\ i = W[k - 1] + 1 /\ i < W[k]
          \/ Closed(text, k) # <<>> /\ w[i] = "</code>" /\ i = W[k] /\ i > W[k - 1] + 1
      BY <1>4, WrappedPlace
    <3>2. "<code>" \in Tags /\ "</code>" \in Tags
      BY DEF Tags
    <3>3. QED BY <2>4, <3>1, <3>2
  <2>6. \/ w[i] \notin Tags /\ w[i] = text[k] /\ i = a + o + 1
        \/ w[i] \in Tags /\ i # a + o + 1
    <3>1. o = 1 => a + o + 1 # a + 1
      BY <2>4
    <3>2. c = 1 => a + o + 1 # b
      BY <2>4
    <3>3. QED BY <2>5, <3>1, <3>2
  <2>7. QED BY <1>4, <2>3, <2>4, <2>6
<1>5. QED BY <1>3, <1>4

\* The marked text, and where its characters are.
LEMMA WrappedText ==
  ASSUME NEW text \in Seq(Characters)
  PROVE  \E W : /\ Wrapping(W, text, WrapDigits(text)) /\ WrapDigits(text) \in Seq(Marks)
                /\ Layout(W, Wraps(text), WrapDigits(text))
                /\ \A k \in 0..Len(text) : W[k] = Upto(Wraps(text), k)
<1>1. PICK B \in Seq(Seq(Symbols)), html \in Seq(Symbols) :
        B = Pieces(text) /\ html = Escape(text) /\ html = FlattenSeq(B)
  BY PiecesAre
<1>2. PICK U : Layout(U, B, html)
  BY <1>1, LayoutExists
<1>3. Escaping(U, text, html)
  BY <1>1, <1>2, EscapingHolds
<1>4. PICK C \in Seq(Seq(Marks)) : C = Wraps(text) /\ Len(C) = Len(text)
  <2>1. Len(Wraps(text)) = Len(text)
    BY LenProperties DEF Wraps
  <2>2. QED BY <2>1, WrapPieces
<1>5. WrapDigits(text) = FlattenSeq(C) /\ FlattenSeq(C) \in Seq(Marks)
  BY <1>4, WrapPieces, FlattenType
<1>6. PICK W : Layout(W, C, FlattenSeq(C)) /\ \A k \in 0..Len(C) : W[k] = Upto(C, k)
  BY <1>4, LayoutExists
<1>7. Wrapping(W, text, FlattenSeq(C))
  BY <1>3, <1>4, <1>6, WrappingHolds
<1>8. QED BY <1>4, <1>5, <1>6, <1>7

\* Telegram shows the message as it is.
LEMMA ShownIsText ==
  ASSUME NEW text \in Seq(Characters)
  PROVE  Shown(WrapDigits(text)) = text
<1>0. PICK w \in Seq(Marks) : w = WrapDigits(text)
  BY WrappedText
<1>1. PICK W : /\ w = WrapDigits(text)
               /\ Wrapping(W, text, w) /\ Layout(W, Wraps(text), w)
               /\ \A k \in 0..Len(text) : W[k] = Upto(Wraps(text), k)
  BY <1>0, WrappedText
<1>2. PICK n \in Nat, B \in Seq(Seq(Marks)) :
        /\ n = Len(text) /\ B = Wraps(text) /\ Len(B) = n /\ w = FlattenSeq(B)
        /\ \A k \in 1..n : B[k] = Wrap(text, k)
  <2>1. Len(text) \in Nat
    BY LenProperties
  <2>2. Len(Wraps(text)) = Len(text) /\ \A k \in 1..Len(text) : Wraps(text)[k] = Wrap(text, k)
    BY <2>1 DEF Wraps
  <2>3. QED BY <1>1, <2>1, <2>2, WrapPieces
<1>3. Wrapping(W, text, w) /\ Layout(W, B, w) /\ \A k \in 0..n : W[k] = Upto(B, k)
  BY <1>1, <1>2
<1>4. PICK l \in Nat : l = Len(w)
  BY LenProperties
<1>5. PICK G : G = [i \in 1..l |-> ShownAt(w, i)]
  OBVIOUS
<1>6. \A k \in 1..n : <<text[k]>> \in Seq(Characters) /\ <<>> \in Seq(Characters)
  BY <1>2, ElementOfSeq
<1>7. /\ G \in Seq(Seq(Characters)) /\ Len(G) = l
      /\ \A i \in 1..l : G[i] = ShownAt(w, i)
  <2>1. ASSUME NEW i \in 1..l PROVE ShownAt(w, i) \in Seq(Characters)
    <3>1. PICK k \in 1..n : i \in (W[k - 1] + 1)..W[k]
      BY <1>2, <1>3, <1>4 DEF Wrapping
    <3>2. ShownAt(w, i) = <<text[k]>> \/ ShownAt(w, i) = <<>>
      <4>1. Wrapping(W, text, w) /\ k \in 1..Len(text) /\ i \in (W[k - 1] + 1)..W[k]
        BY <1>2, <1>3, <3>1
      <4>2. /\ text[k] \in Special =>
                 ShownAt(w, i) = IF i = W[k - 1] + 1 THEN <<text[k]>> ELSE <<>>
            /\ text[k] \notin Special =>
                 ShownAt(w, i)
                   = IF i = W[k - 1] + Len(Opened(text, k)) + 1 THEN <<text[k]>> ELSE <<>>
        BY <4>1, ShownPlace
      <4>3. QED BY <4>2
    <3>3. QED BY <1>6, <3>2
  <2>2. QED BY <1>5, <2>1
<1>8. Shown(w) = FlattenSeq(G)
  BY <1>4, <1>5 DEF Shown
<1>9. PICK H : H = [k \in 1..n |-> <<text[k]>>]
  OBVIOUS
<1>10. H \in Seq(Seq(Characters)) /\ Len(H) = n /\ \A k \in 1..n : H[k] = <<text[k]>>
  BY <1>6, <1>9
<1>11. ASSUME NEW k \in 1..n
       PROVE  H[k] = FlattenSeq(SubSeq(G, Upto(B, k - 1) + 1, Upto(B, k)))
  <2>1. k - 1 \in 0..n /\ k \in 0..n /\ k \in 1..Len(text) /\ k \in 1..Len(B)
    BY <1>2
  <2>2. W[k - 1] = Upto(B, k - 1) /\ W[k] = Upto(B, k)
    BY <1>3, <2>1
  <2>3. PICK a \in Nat, m \in Nat :
          a = W[k - 1] /\ m = Len(B[k]) /\ W[k] = a + m
    <3>1. W[k - 1] \in Nat /\ W[k] = W[k - 1] + Len(B[k])
      BY <1>2, <1>3, <2>1 DEF Layout
    <3>2. Len(B[k]) \in Nat
      BY <2>1, ElementOfSeq, LenProperties
    <3>3. QED BY <3>1, <3>2
  <2>4. PICK s : s = SubSeq(G, W[k - 1] + 1, W[k])
    OBVIOUS
  <2>5. /\ s \in Seq(Seq(Characters)) /\ Len(s) = m
        /\ \A j \in 1..m : a + j \in 1..l /\ s[j] = ShownAt(w, a + j)
    <3>1. Len(G) = Len(w) /\ Layout(W, B, w)
      BY <1>3, <1>4, <1>7
    <3>2. /\ s \in Seq(Seq(Characters)) /\ Len(s) = Len(B[k])
          /\ \A j \in 1..Len(B[k]) : W[k - 1] + j \in 1..Len(G) /\ s[j] = G[W[k - 1] + j]
      <4>1. k \in 1..Len(B) /\ G \in Seq(Seq(Characters)) /\ B \in Seq(Seq(Marks))
        BY <1>7, <2>1
      <4>2. /\ SubSeq(G, W[k - 1] + 1, W[k]) \in Seq(Seq(Characters))
            /\ Len(SubSeq(G, W[k - 1] + 1, W[k])) = Len(B[k])
            /\ \A j \in 1..Len(B[k]) :
                 /\ W[k - 1] + j \in 1..Len(G)
                 /\ SubSeq(G, W[k - 1] + 1, W[k])[j] = G[W[k - 1] + j]
        BY <3>1, <4>1, Stretch, SMTT(30)
      <4>3. QED BY <2>4, <4>2
    <3>3. QED BY <1>7, <2>3, <3>2
  <2>6. ASSUME NEW j \in 1..m PROVE a + j \in (W[k - 1] + 1)..W[k]
    <3>1. a + j \in (a + 1)..(a + m)
      OBVIOUS
    <3>2. QED BY <2>3, <3>1
  <2>7. PICK h \in 1..m : \A j \in 1..m : s[j] = IF j = h THEN <<text[k]>> ELSE <<>>
    <3>1. CASE text[k] \in Special
      <4>1. Len(B[k]) = Len(Escaped(text[k]))
        <5>1. W[k] = W[k - 1] + Len(Escaped(text[k]))
          BY <1>3, <2>1, <3>1 DEF Wrapping
        <5>2. PICK e \in Nat : e = Len(Escaped(text[k]))
          <6>1. Len(Escaped(text[k])) \in {4, 5}
            BY <3>1, EntityEnds
          <6>2. QED BY <6>1, SmallNumbers
        <5>3. a + m = a + e
          BY <2>3, <5>1, <5>2
        <5>4. m = e
          BY <5>3
        <5>5. QED BY <2>3, <5>2, <5>4
      <4>2. 4 <= m
        <5>1. Len(Escaped(text[k])) \in {4, 5}
          BY <3>1, EntityEnds
        <5>2. QED BY <2>3, <4>1, <5>1, SmallNumbers
      <4>3. ASSUME NEW j \in 1..m
            PROVE  s[j] = IF j = 1 THEN <<text[k]>> ELSE <<>>
        <5>1. ShownAt(w, a + j) = IF a + j = W[k - 1] + 1 THEN <<text[k]>> ELSE <<>>
          <6>1. PICK i \in (W[k - 1] + 1)..W[k] : i = a + j
            BY <2>6
          <6>2. Wrapping(W, text, w) /\ k \in 1..Len(text)
            BY <1>3, <2>1
          <6>3. ShownAt(w, i) = IF i = W[k - 1] + 1 THEN <<text[k]>> ELSE <<>>
            BY <3>1, <6>2, ShownPlace
          <6>4. QED BY <6>1, <6>3
        <5>2. a + j = a + 1 <=> j = 1
          OBVIOUS
        <5>3. a + j = W[k - 1] + 1 <=> j = 1
          BY <2>3, <5>2
        <5>4. QED BY <2>5, <5>1, <5>3
      <4>4. 1 \in 1..m
        BY <4>2
      <4>5. QED BY <4>3, <4>4
    <3>2. CASE text[k] \notin Special
      <4>1. PICK o \in Nat, c \in Nat :
              o = Len(Opened(text, k)) /\ c = Len(Closed(text, k)) /\ m = o + 1 + c
        <5>1. /\ Len(Opened(text, k)) \in {0, 1} /\ Len(Closed(text, k)) \in {0, 1}
              /\ Len(Wrap(text, k)) = Len(Opened(text, k)) + 1 + Len(Closed(text, k))
          BY <2>1, <3>2, WrapPlain
        <5>2. m = Len(Wrap(text, k))
          BY <1>2, <2>3
        <5>3. QED BY <5>1, <5>2, SmallNumbers
      <4>2. o + 1 \in 1..m
        BY <4>1, WrapPlaces
      <4>3. ASSUME NEW j \in 1..m
            PROVE  s[j] = IF j = o + 1 THEN <<text[k]>> ELSE <<>>
        <5>1. ShownAt(w, a + j)
                = IF a + j = W[k - 1] + Len(Opened(text, k)) + 1 THEN <<text[k]>> ELSE <<>>
          <6>1. PICK i \in (W[k - 1] + 1)..W[k] : i = a + j
            BY <2>6
          <6>2. Wrapping(W, text, w) /\ k \in 1..Len(text)
            BY <1>3, <2>1
          <6>3. ShownAt(w, i)
                  = IF i = W[k - 1] + Len(Opened(text, k)) + 1 THEN <<text[k]>> ELSE <<>>
            BY <3>2, <6>2, ShownPlace
          <6>4. QED BY <6>1, <6>3
        <5>2. a + j = a + o + 1 <=> j = o + 1
          OBVIOUS
        <5>3. a + j = W[k - 1] + Len(Opened(text, k)) + 1 <=> j = o + 1
          BY <2>3, <4>1, <5>2
        <5>4. QED BY <2>5, <5>1, <5>3
      <4>4. QED BY <4>2, <4>3
    <3>3. QED BY <3>1, <3>2
  <2>8. FlattenSeq(s) = s[h]
    <3>1. h \in 1..Len(s) /\ \A j \in 1..Len(s) : j # h => s[j] = <<>>
      BY <2>5, <2>7
    <3>2. s \in Seq(Seq(Characters))
      BY <2>5
    <3>3. QED BY <3>1, <3>2, FlattenOnly
  <2>9. s[h] = H[k]
    BY <1>10, <2>7
  <2>10. QED BY <2>2, <2>4, <2>8, <2>9
<1>12. FlattenSeq(G) = FlattenSeq(H)
  <2>1. Len(G) = Len(FlattenSeq(B)) /\ Len(H) = Len(B)
    BY <1>2, <1>4, <1>7, <1>10
  <2>2. \A k \in 1..Len(B) : H[k] = FlattenSeq(SubSeq(G, Upto(B, k - 1) + 1, Upto(B, k)))
    BY <1>2, <1>11
  <2>3. QED BY <1>7, <1>10, <2>1, <2>2, FlattenBlocks
<1>13. FlattenSeq(H) = text
  <2>1. Len(H) = Len(text) /\ \A k \in 1..Len(text) : H[k] = <<text[k]>>
    BY <1>2, <1>10
  <2>2. QED BY <1>10, <2>1, FlattenUnits
<1>14. QED BY <1>1, <1>8, <1>12, <1>13

\* The places of a run's digits between its marks.
LEMMA RunPlaces ==
  ASSUME NEW u \in Nat, NEW a \in Nat, NEW b \in Nat, a + 2 <= b
  PROVE  /\ (u + 2 + ((b - 1) - a)) + 0 + 1 + 1 = u + 3 + (b - a)
         /\ u + 1 < u + 3 + (b - a) /\ (u + 1) + 1 = u + 2 /\ (u + 3 + (b - a)) - 1 = u + 2 + (b - a)
         /\ u + 3 + (b - a) \in Nat /\ u + 2 + (a - a) = u + 1 + 1
         /\ b - 1 \in Nat /\ a <= b - 1 /\ a < b /\ a \in a..b /\ b \in a..b
         /\ b - a \in Nat
         /\ \A k \in (a + 1)..b : /\ k - 1 \in a..(b - 1) /\ k \in a..b /\ k # a
                                  /\ (u + 2 + ((k - 1) - a)) + 0 + 1 = u + 2 + (k - a)
         /\ \A k \in a..b : k = a \/ k \in (a + 1)..b
         /\ \A i \in (u + 2)..(u + 2 + (b - a)) :
              a + (i - (u + 2)) \in a..b /\ i = u + 2 + ((a + (i - (u + 2))) - a)
         /\ \A j \in 1..(b - a + 1) : /\ a + j - 1 \in a..b
                                      /\ (u + 1) + j = u + 2 + ((a + j - 1) - a)
         /\ (u + 1) + (b - a + 1) = u + 2 + (b - a)
  OBVIOUS

\* Of a run only the first character is opened and only the last is closed.
LEMMA MarksOfRun ==
  ASSUME NEW text \in Seq(Characters), NEW r \in DigitRuns(text), NEW k \in r[1]..r[2]
  PROVE  /\ Opened(text, k) # <<>> <=> k = r[1]
         /\ Closed(text, k) # <<>> <=> k = r[2]
<1>1. PICK n \in Nat : n = Len(text)
  BY LenProperties
<1>2. PICK a \in 1..n, b \in 1..n :
        /\ a = r[1] /\ b = r[2] /\ a + 2 <= b /\ \A h \in a..b : text[h] \in Digits
  BY <1>1 DEF DigitRuns, IsRun
<1>3. ASSUME NEW run \in DigitRuns(text), run[1] = k, k # a PROVE FALSE
  <2>1. k = 1 \/ text[k - 1] \notin Digits
    BY <1>3 DEF DigitRuns, Starts
  <2>2. k - 1 \in a..b /\ k # 1
    BY <1>2, <1>3
  <2>3. QED BY <1>2, <2>1, <2>2
<1>4. ASSUME NEW run \in DigitRuns(text), run[2] = k, k # b PROVE FALSE
  <2>1. k = n \/ text[k + 1] \notin Digits
    BY <1>1, <1>4 DEF DigitRuns, Ends
  <2>2. k + 1 \in a..b /\ k # n
    BY <1>2, <1>4
  <2>3. QED BY <1>2, <2>1, <2>2
<1>5. QED BY <1>2, <1>3, <1>4, MarksAre

\* A run of the message is marked, and it alone.
LEMMA RunIsSpan ==
  ASSUME NEW text \in Seq(Characters), NEW W, NEW w \in Seq(Marks), Wrapping(W, text, w),
         Layout(W, Wraps(text), w), NEW r \in DigitRuns(text)
  PROVE  /\ <<W[r[1] - 1] + 1, W[r[2]]>> \in Spans(w)
         /\ SubSeq(w, (W[r[1] - 1] + 1) + 1, W[r[2]] - 1) = SubSeq(text, r[1], r[2])
<1>1. PICK n \in Nat : n = Len(text)
  BY LenProperties
<1>2. PICK a \in 1..n, b \in 1..n :
        /\ a = r[1] /\ b = r[2] /\ a + 2 <= b /\ \A h \in a..b : text[h] \in Digits
  BY <1>1 DEF DigitRuns, IsRun
<1>3. \A k \in a..b : k \in 1..n /\ text[k] \notin Special /\ text[k] \in Characters
  BY <1>1, <1>2, DigitsArePlain, ElementOfSeq
<1>4. \A k \in a..b : /\ Opened(text, k) # <<>> <=> k = a
                      /\ Closed(text, k) # <<>> <=> k = b
  BY <1>2, MarksOfRun
<1>5. \A k \in a..b :
        /\ Len(Opened(text, k)) = IF k = a THEN 1 ELSE 0
        /\ Len(Closed(text, k)) = IF k = b THEN 1 ELSE 0
        /\ W[k] = W[k - 1] + Len(Opened(text, k)) + 1 + Len(Closed(text, k))
        /\ w[W[k - 1] + Len(Opened(text, k)) + 1] = text[k]
        /\ Opened(text, k) # <<>> => w[W[k - 1] + 1] = "<code>"
        /\ Closed(text, k) # <<>> => w[W[k]] = "</code>"
        /\ Len(Wraps(text)[k]) = Len(Opened(text, k)) + 1 + Len(Closed(text, k))
  <2>1. SUFFICES ASSUME NEW k \in a..b
                 PROVE  /\ Len(Opened(text, k)) = IF k = a THEN 1 ELSE 0
                        /\ Len(Closed(text, k)) = IF k = b THEN 1 ELSE 0
                        /\ W[k] = W[k - 1] + Len(Opened(text, k)) + 1 + Len(Closed(text, k))
                        /\ w[W[k - 1] + Len(Opened(text, k)) + 1] = text[k]
                        /\ Opened(text, k) # <<>> => w[W[k - 1] + 1] = "<code>"
                        /\ Closed(text, k) # <<>> => w[W[k]] = "</code>"
                        /\ Len(Wraps(text)[k])
                             = Len(Opened(text, k)) + 1 + Len(Closed(text, k))
    OBVIOUS
  <2>2. k \in 1..Len(text) /\ text[k] \notin Special
    BY <1>1, <1>3
  <2>3. /\ Opened(text, k) # <<>> => Len(Opened(text, k)) = 1
        /\ Closed(text, k) # <<>> => Len(Closed(text, k)) = 1
        /\ Opened(text, k) = <<>> => Len(Opened(text, k)) = 0
        /\ Closed(text, k) = <<>> => Len(Closed(text, k)) = 0
        /\ Len(Wrap(text, k)) = Len(Opened(text, k)) + 1 + Len(Closed(text, k))
    BY <2>2, WrapPlain
  <2>4. Wraps(text)[k] = Wrap(text, k)
    BY <2>2 DEF Wraps
  <2>5. /\ W[k] = W[k - 1] + Len(Opened(text, k)) + 1 + Len(Closed(text, k))
        /\ w[W[k - 1] + Len(Opened(text, k)) + 1] = text[k]
        /\ Opened(text, k) # <<>> => w[W[k - 1] + 1] = "<code>"
        /\ Closed(text, k) # <<>> => w[W[k]] = "</code>"
    BY <2>2 DEF Wrapping
  <2>6. (Opened(text, k) # <<>> <=> k = a) /\ (Closed(text, k) # <<>> <=> k = b)
    BY <1>4
  <2>7. QED BY <2>3, <2>4, <2>5, <2>6
<1>6. PICK u \in Nat : u = W[a - 1]
  <2>1. a - 1 \in 0..n
    OBVIOUS
  <2>2. \A h \in 0..n : W[h] \in Nat
    BY <1>1 DEF Wrapping
  <2>3. QED BY <2>1, <2>2
<1>7. a \in Nat /\ b \in Nat /\ a + 2 <= b
  BY <1>2
<1>8. W[a] = u + 2 /\ w[u + 1 + 1] = text[a] /\ w[u + 1] = "<code>"
  <2>1. a \in a..b /\ a # b
    BY <1>7
  <2>2. Len(Opened(text, a)) = 1 /\ Len(Closed(text, a)) = 0
    BY <1>5, <2>1
  <2>3. W[a] = u + 1 + 1 + 0 /\ w[u + 1 + 1] = text[a]
    BY <1>5, <1>6, <2>1, <2>2
  <2>4. w[u + 1] = "<code>"
    BY <1>4, <1>5, <1>6, <2>1
  <2>5. u + 1 + 1 + 0 = u + 2
    OBVIOUS
  <2>6. QED BY <2>3, <2>4, <2>5
<1>9. ASSUME NEW k \in a..(b - 1) PROVE W[k] = u + 2 + (k - a)
  <2>1. PICK B \in Seq(Seq(Marks)) : B = Wraps(text) /\ Len(B) = n
    <3>1. Len(Wraps(text)) = Len(text)
      BY <1>1 DEF Wraps
    <3>2. QED BY <1>1, <3>1, WrapPieces
  <2>2. ASSUME NEW i \in (a + 1)..k PROVE Len(B[i]) = 1
    <3>1. i \in a..b /\ i # a /\ i # b
      BY <1>7
    <3>2. Len(Opened(text, i)) = 0 /\ Len(Closed(text, i)) = 0
      BY <1>5, <3>1
    <3>3. Len(B[i]) = 0 + 1 + 0
      BY <1>5, <2>1, <3>1, <3>2
    <3>4. QED BY <3>3
  <2>3. a \in 0..Len(B) /\ k \in a..Len(B)
    BY <2>1
  <2>4. W[k] = W[a] + (k - a)
    BY <2>1, <2>2, <2>3, LayoutUnits
  <2>5. QED BY <1>8, <2>4
<1>10. ASSUME NEW k \in a..b PROVE w[u + 2 + (k - a)] = text[k]
  <2>1. CASE k = a
    <3>1. u + 2 + (a - a) = u + 1 + 1
      BY <1>7, RunPlaces
    <3>2. QED BY <1>8, <2>1, <3>1
  <2>2. CASE k \in (a + 1)..b
    <3>1. k - 1 \in a..(b - 1) /\ k # a /\ (u + 2 + ((k - 1) - a)) + 0 + 1 = u + 2 + (k - a)
      BY <1>7, <2>2, RunPlaces
    <3>2. W[k - 1] = u + 2 + ((k - 1) - a)
      BY <1>9, <3>1
    <3>3. Len(Opened(text, k)) = 0
      BY <1>5, <3>1
    <3>4. w[W[k - 1] + 0 + 1] = text[k]
      BY <1>5, <3>3
    <3>5. QED BY <3>1, <3>2, <3>4
  <2>3. QED BY <1>7, <2>1, <2>2, RunPlaces
<1>11. W[b] = u + 3 + (b - a) /\ w[W[b]] = "</code>"
  <2>1. b \in a..b /\ b - 1 \in a..(b - 1) /\ b # a
    BY <1>7
  <2>2. W[b - 1] = u + 2 + ((b - 1) - a)
    BY <1>9, <2>1
  <2>3. Len(Opened(text, b)) = 0 /\ Len(Closed(text, b)) = 1
    BY <1>5, <2>1
  <2>8. W[b] = W[b - 1] + Len(Opened(text, b)) + 1 + Len(Closed(text, b))
    BY <1>5, <2>1
  <2>4. W[b] = (u + 2 + ((b - 1) - a)) + 0 + 1 + 1
    BY <2>2, <2>3, <2>8
  <2>5. (u + 2 + ((b - 1) - a)) + 0 + 1 + 1 = u + 3 + (b - a)
    BY <1>7, RunPlaces
  <2>6. w[W[b]] = "</code>"
    BY <1>4, <1>5, <2>1
  <2>7. QED BY <2>4, <2>5, <2>6
<1>12. PICK q \in Nat : q = u + 3 + (b - a)
  BY <1>7, RunPlaces
<1>13. PICK l \in Nat : l = Len(w) /\ q <= l
  <2>1. Len(w) \in Nat
    BY LenProperties
  <2>2. W[b] <= W[n] /\ W[n] = Len(w)
    BY <1>1 DEF Wrapping
  <2>3. QED BY <1>11, <1>12, <2>1, <2>2
<1>14. u + 1 \in 1..l /\ q \in 1..l /\ u + 1 < q
  <2>1. u + 1 < q
    BY <1>7, <1>12, RunPlaces
  <2>2. QED BY <1>13, <2>1
<1>15. ASSUME NEW i \in ((u + 1) + 1)..(q - 1) PROVE w[i] \notin Tags
  <2>1. i \in (u + 2)..(u + 2 + (b - a))
    BY <1>7, <1>12, RunPlaces
  <2>2. PICK k \in a..b : i = u + 2 + (k - a)
    BY <1>7, <2>1, RunPlaces
  <2>3. w[i] = text[k]
    BY <1>10, <2>2
  <2>4. text[k] \in Characters
    BY <1>3
  <2>5. QED BY <2>3, <2>4, CharactersAssumption
<1>16. <<u + 1, q>> \in Spans(w)
  <2>1. PICK span \in (1..Len(w)) \X (1..Len(w)) : span = <<u + 1, q>>
    BY <1>13, <1>14
  <2>2. span[1] = u + 1 /\ span[2] = q
    BY <2>1
  <2>3. w[q] = "</code>"
    BY <1>11, <1>12
  <2>4. span \in Spans(w)
    BY <1>8, <1>14, <1>15, <2>2, <2>3 DEF Spans
  <2>5. QED BY <2>1, <2>4
<1>17. SubSeq(w, (u + 1) + 1, q - 1) = SubSeq(text, a, b)
  <2>1. PICK m \in Nat : m = b - a + 1
    BY <1>7
  <2>2. (u + 1) + m = u + 2 + (b - a) /\ q - 1 = u + 2 + (b - a)
    BY <1>7, <1>12, <2>1, RunPlaces
  <2>3. u + 1 \in Nat /\ (u + 1) + m <= Len(w)
    BY <1>13, <2>2
  <2>4. PICK v \in Nat : v = u + 1
    BY <2>3
  <2>12. /\ SubSeq(w, v + 1, v + m) \in Seq(Marks) /\ Len(SubSeq(w, v + 1, v + m)) = m
         /\ \A j \in 1..m : v + j \in 1..Len(w) /\ SubSeq(w, v + 1, v + m)[j] = w[v + j]
    BY <2>3, <2>4, SubSeqAfter
  <2>13. PICK s \in Seq(Marks) : s = SubSeq(w, v + 1, v + m)
    BY <2>12
  <2>5. Len(s) = m /\ \A j \in 1..m : s[j] = w[(u + 1) + j]
    BY <2>4, <2>12, <2>13
  <2>6. PICK t : t = SubSeq(text, a, b)
    OBVIOUS
  <2>7. t \in Seq(Characters) /\ Len(t) = m /\ \A j \in 1..m : t[j] = text[a + j - 1]
    BY <1>1, <1>7, <2>1, <2>6
  <2>8. ASSUME NEW j \in 1..m PROVE s[j] = t[j]
    <3>1. a + j - 1 \in a..b /\ (u + 1) + j = u + 2 + ((a + j - 1) - a)
      BY <1>7, <2>1, RunPlaces
    <3>2. w[u + 2 + ((a + j - 1) - a)] = text[a + j - 1]
      BY <1>10, <3>1
    <3>3. QED BY <2>5, <2>7, <3>1, <3>2
  <2>9. t \in Seq(Characters) /\ s \in Seq(Marks)
    BY <2>7
  <2>10. s = t
    <3>1. Characters \subseteq Marks
      BY DEF Marks, Symbols
    <3>2. t \in Seq(Marks)
      BY <2>9, <3>1, SeqMonotonic
    <3>3. Len(s) = Len(t) /\ \A j \in 1..Len(s) : s[j] = t[j]
      BY <2>5, <2>7, <2>8
    <3>4. QED BY <2>9, <3>2, <3>3, SeqEqual
  <2>11. QED BY <2>2, <2>4, <2>6, <2>10, <2>13
<1>18. QED BY <1>2, <1>6, <1>11, <1>12, <1>16, <1>17

\* What is marked is a run of the message's.
LEMMA SpanIsRun ==
  ASSUME NEW text \in Seq(Characters), NEW W, NEW w \in Seq(Marks), Wrapping(W, text, w),
         Layout(W, Wraps(text), w), NEW span \in Spans(w)
  PROVE  \E r \in DigitRuns(text) : span[1] = W[r[1] - 1] + 1 /\ span[2] = W[r[2]]
<1>1. PICK p \in 1..Len(w), q \in 1..Len(w) :
        /\ p = span[1] /\ q = span[2] /\ p < q /\ w[p] = "<code>" /\ w[q] = "</code>"
        /\ \A i \in (p + 1)..(q - 1) : w[i] \notin Tags
  BY DEF Spans
<1>2. PICK k \in 1..Len(text) : p \in (W[k - 1] + 1)..W[k]
  BY DEF Wrapping
<1>3. Opened(text, k) # <<>> /\ p = W[k - 1] + 1
  <2>1. \/ w[p] \notin Tags
        \/ Opened(text, k) # <<>> /\ p = W[k - 1] + 1
        \/ w[p] = "</code>"
    BY <1>2, WrappedPlace
  <2>2. "<code>" \in Tags /\ "<code>" # "</code>"
    BY DEF Tags
  <2>3. QED BY <1>1, <2>1, <2>2
<1>4. PICK r \in DigitRuns(text) : r[1] = k
  BY <1>3, MarksAre
<1>5. <<p, W[r[2]]>> \in Spans(w)
  BY <1>3, <1>4, RunIsSpan
<1>6. PICK e \in 1..Len(w) :
        /\ e = W[r[2]] /\ p < e /\ w[e] = "</code>"
        /\ \A i \in (p + 1)..(e - 1) : w[i] \notin Tags
  BY <1>5 DEF Spans
<1>7. "</code>" \in Tags
  BY DEF Tags
<1>8. e = q
  <2>1. CASE e < q
    <3>1. e \in (p + 1)..(q - 1)
      BY <1>6, <2>1
    <3>2. QED BY <1>1, <1>6, <1>7, <3>1
  <2>2. CASE q < e
    <3>1. q \in (p + 1)..(e - 1)
      BY <1>1, <2>2
    <3>2. QED BY <1>1, <1>6, <1>7, <3>1
  <2>3. QED BY <2>1, <2>2
<1>9. QED BY <1>1, <1>3, <1>4, <1>6, <1>8

\* Telegram marks the runs of three or more digits and nothing else.
LEMMA MarkedAreRuns ==
  ASSUME NEW text \in Seq(Characters)
  PROVE  Marked(WrapDigits(text)) = {SubSeq(text, run[1], run[2]) : run \in DigitRuns(text)}
<1>0. PICK w \in Seq(Marks) : w = WrapDigits(text)
  BY WrappedText
<1>1. PICK W : /\ w = WrapDigits(text)
               /\ Wrapping(W, text, w) /\ Layout(W, Wraps(text), w)
  BY <1>0, WrappedText
<1>2. ASSUME NEW span \in Spans(w)
      PROVE  \E r \in DigitRuns(text) :
               SubSeq(w, span[1] + 1, span[2] - 1) = SubSeq(text, r[1], r[2])
  <2>1. PICK r \in DigitRuns(text) : span[1] = W[r[1] - 1] + 1 /\ span[2] = W[r[2]]
    BY <1>1, SpanIsRun
  <2>2. SubSeq(w, (W[r[1] - 1] + 1) + 1, W[r[2]] - 1) = SubSeq(text, r[1], r[2])
    BY <1>1, RunIsSpan
  <2>3. QED BY <2>1, <2>2
<1>3. ASSUME NEW r \in DigitRuns(text)
      PROVE  \E span \in Spans(w) :
               SubSeq(w, span[1] + 1, span[2] - 1) = SubSeq(text, r[1], r[2])
  <2>1. PICK span : span = <<W[r[1] - 1] + 1, W[r[2]]>>
    OBVIOUS
  <2>2. span \in Spans(w) /\ span[1] = W[r[1] - 1] + 1 /\ span[2] = W[r[2]]
    BY <1>1, <2>1, RunIsSpan
  <2>3. SubSeq(w, (W[r[1] - 1] + 1) + 1, W[r[2]] - 1) = SubSeq(text, r[1], r[2])
    BY <1>1, RunIsSpan
  <2>4. QED BY <2>2, <2>3
<1>4. Marked(w) = {SubSeq(text, run[1], run[2]) : run \in DigitRuns(text)}
  BY <1>2, <1>3 DEF Marked
<1>5. QED BY <1>1, <1>4

-------------------------------------------------------------------------------
(* What the phone prints *)

\* Tokens of what the phone prints.
TextKinds == {"word", "newline", "Row: ", "SQLiteException", "_id=", "address=", ", body=", ", date="}
Texts == TextKinds \X Nat
Message == [id : Nat, address : Nat, body : Seq(Tokens), date : Nat]

LEMMA TokensAreTexts ==
  /\ Tokens \subseteq Texts /\ Header \in Texts /\ Newline \in Texts
  /\ \A m \in Message : /\ <<"_id=", m.id>> \in Texts /\ <<"address=", m.address>> \in Texts
                        /\ <<", body=", 0>> \in Texts /\ <<", date=", m.date>> \in Texts
<1>1. \A k \in TextKinds, v \in Nat : <<k, v>> \in Texts
  BY DEF Texts
<1>2. /\ "word" \in TextKinds /\ "newline" \in TextKinds /\ "Row: " \in TextKinds
      /\ "SQLiteException" \in TextKinds /\ "_id=" \in TextKinds /\ "address=" \in TextKinds
      /\ ", body=" \in TextKinds /\ ", date=" \in TextKinds
  BY DEF TextKinds
<1>3. /\ Header \in Texts /\ Newline \in Texts /\ Failure \in Texts /\ <<"word", 0>> \in Texts
      /\ <<"_id=", 9>> \in Texts /\ <<"address=", 9>> \in Texts
      /\ <<", body=", 0>> \in Texts /\ <<", date=", 9>> \in Texts
  BY <1>1, <1>2 DEF Header, Newline, Failure
<1>4. Tokens \subseteq Texts
  BY <1>3 DEF Tokens
<1>5. \A m \in Message : m.id \in Nat /\ m.address \in Nat /\ m.date \in Nat
  BY DEF Message
<1>6. QED BY <1>1, <1>2, <1>3, <1>4, <1>5

\* Sequences put together.
LEMMA ConcatIs ==
  ASSUME NEW S, NEW a \in Seq(S), NEW b \in Seq(S)
  PROVE  /\ a \o b \in Seq(S) /\ Len(a \o b) = Len(a) + Len(b)
         /\ Len(a) \in Nat /\ Len(b) \in Nat
         /\ \A i \in 1..Len(a) : (a \o b)[i] = a[i]
         /\ \A i \in 1..Len(b) : (a \o b)[Len(a) + i] = b[i]
  OBVIOUS

LEMMA Joined ==
  ASSUME NEW S, NEW a \in S, NEW b \in S, NEW c \in S, NEW d \in S, NEW y \in S, NEW z \in S,
         NEW s \in Seq(S)
  PROVE  /\ <<a, b, c, d>> \o s \o <<y, z>> \in Seq(S)
         /\ Len(<<a, b, c, d>> \o s \o <<y, z>>) = Len(s) + 6
         /\ (<<a, b, c, d>> \o s \o <<y, z>>)[1] = a /\ (<<a, b, c, d>> \o s \o <<y, z>>)[2] = b
         /\ (<<a, b, c, d>> \o s \o <<y, z>>)[3] = c /\ (<<a, b, c, d>> \o s \o <<y, z>>)[4] = d
         /\ \A x \in 1..Len(s) : (<<a, b, c, d>> \o s \o <<y, z>>)[x + 4] = s[x]
         /\ (<<a, b, c, d>> \o s \o <<y, z>>)[Len(s) + 5] = y
         /\ (<<a, b, c, d>> \o s \o <<y, z>>)[Len(s) + 6] = z
<1>1. PICK f : f = <<a, b, c, d>>
  OBVIOUS
<1>2. f \in Seq(S) /\ Len(f) = 4 /\ f[1] = a /\ f[2] = b /\ f[3] = c /\ f[4] = d
  BY <1>1
<1>3. PICK g : g = <<y, z>>
  OBVIOUS
<1>4. g \in Seq(S) /\ Len(g) = 2 /\ g[1] = y /\ g[2] = z
  BY <1>3
<1>5. PICK h \in Seq(S) : /\ h = f \o s /\ Len(h) = Len(f) + Len(s) /\ Len(s) \in Nat
                          /\ \A i \in 1..Len(f) : h[i] = f[i]
                          /\ \A i \in 1..Len(s) : h[Len(f) + i] = s[i]
  <2>0. f \in Seq(S)
    BY <1>2
  <2>1. f \o s \in Seq(S) /\ Len(s) \in Nat
    BY <2>0, ConcatIs
  <2>2. Len(f \o s) = Len(f) + Len(s)
    BY <2>0, ConcatIs
  <2>3. \A i \in 1..Len(f) : (f \o s)[i] = f[i]
    BY <2>0, ConcatIs
  <2>4. \A i \in 1..Len(s) : (f \o s)[Len(f) + i] = s[i]
    BY <2>0, ConcatIs
  <2>5. QED BY <2>1, <2>2, <2>3, <2>4, Zenon
<1>6. Len(s) \in Nat /\ Len(h) = 4 + Len(s)
  BY <1>2, <1>5
<1>7. /\ \A i \in 1..4 : h[i] = f[i]
      /\ \A i \in 1..Len(s) : h[4 + i] = s[i]
  BY <1>2, <1>5, Zenon
<1>8. PICK r \in Seq(S) : /\ r = h \o g /\ Len(r) = Len(h) + Len(g)
                          /\ \A i \in 1..Len(h) : r[i] = h[i]
                          /\ \A i \in 1..Len(g) : r[Len(h) + i] = g[i]
  <2>0. g \in Seq(S)
    BY <1>4
  <2>1. h \o g \in Seq(S)
    BY <2>0, ConcatIs
  <2>2. Len(h \o g) = Len(h) + Len(g)
    BY <2>0, ConcatIs
  <2>3. \A i \in 1..Len(h) : (h \o g)[i] = h[i]
    BY <2>0, ConcatIs
  <2>4. \A i \in 1..Len(g) : (h \o g)[Len(h) + i] = g[i]
    BY <2>0, ConcatIs
  <2>5. QED BY <2>1, <2>2, <2>3, <2>4, Zenon
<1>9. r \in Seq(S) /\ Len(r) = Len(h) + 2
  BY <1>4, <1>8
<1>10. /\ \A i \in 1..Len(h) : r[i] = h[i]
       /\ \A i \in 1..2 : r[Len(h) + i] = g[i]
  BY <1>4, <1>8, Zenon
<1>11. r[1] = a /\ r[2] = b /\ r[3] = c /\ r[4] = d
  <2>1. /\ 1 \in 1..4 /\ 2 \in 1..4 /\ 3 \in 1..4 /\ 4 \in 1..4
        /\ 1 \in 1..Len(h) /\ 2 \in 1..Len(h) /\ 3 \in 1..Len(h) /\ 4 \in 1..Len(h)
    BY <1>6
  <2>2. QED BY <1>2, <1>7, <1>10, <2>1
<1>12. ASSUME NEW x \in 1..Len(s) PROVE r[x + 4] = s[x]
  <2>1. 4 + x \in 1..Len(h) /\ 4 + x = x + 4
    BY <1>6
  <2>2. QED BY <1>7, <1>10, <2>1
<1>13. r[Len(s) + 5] = y /\ r[Len(s) + 6] = z
  <2>1. /\ Len(h) + 1 = Len(s) + 5 /\ Len(h) + 2 = Len(s) + 6
        /\ 1 \in 1..2 /\ 2 \in 1..2
    BY <1>6
  <2>2. QED BY <1>4, <1>10, <2>1
<1>14. Len(r) = Len(s) + 6
  BY <1>6, <1>9
<1>15. r = <<a, b, c, d>> \o s \o <<y, z>>
  BY <1>1, <1>3, <1>5, <1>8
<1>16. QED BY <1>9, <1>11, <1>12, <1>13, <1>14, <1>15

\* The row of m, place by place.
LEMMA RowIs ==
  ASSUME NEW m \in Message
  PROVE  /\ RowOf(m) \in Seq(Texts) /\ Len(RowOf(m)) = Len(m.body) + 6
         /\ Len(m.body) \in Nat /\ m.body \in Seq(Tokens)
         /\ RowOf(m)[1] = Header /\ RowOf(m)[2] = <<"_id=", m.id>>
         /\ RowOf(m)[3] = <<"address=", m.address>> /\ RowOf(m)[4] = <<", body=", 0>>
         /\ \A x \in 1..Len(m.body) : RowOf(m)[x + 4] = m.body[x]
         /\ RowOf(m)[Len(m.body) + 5] = <<", date=", m.date>>
         /\ RowOf(m)[Len(m.body) + 6] = Newline
<1>1. m.body \in Seq(Tokens)
  BY DEF Message
<1>2. m.body \in Seq(Texts)
  BY <1>1, TokensAreTexts, SeqMonotonic
<1>3. PICK a \in Texts, b \in Texts, c \in Texts, d \in Texts, y \in Texts, z \in Texts :
        /\ a = Header /\ b = <<"_id=", m.id>> /\ c = <<"address=", m.address>>
        /\ d = <<", body=", 0>> /\ y = <<", date=", m.date>> /\ z = Newline
  BY TokensAreTexts
<1>4. PICK s \in Seq(Texts) : s = m.body
  BY <1>2
<1>5. RowOf(m) = <<a, b, c, d>> \o s \o <<y, z>>
  BY <1>3, <1>4 DEF RowOf
<1>6. Len(s) \in Nat
  BY LenProperties
<1>7. PICK r : r = <<a, b, c, d>> \o s \o <<y, z>>
  OBVIOUS
<1>8. /\ r \in Seq(Texts) /\ Len(r) = Len(s) + 6 /\ r[1] = a /\ r[2] = b /\ r[3] = c /\ r[4] = d
      /\ \A x \in 1..Len(s) : r[x + 4] = s[x]
      /\ r[Len(s) + 5] = y /\ r[Len(s) + 6] = z
  BY <1>7, Joined
<1>9. QED BY <1>1, <1>3, <1>4, <1>5, <1>6, <1>7, <1>8

\* Headers, newlines and errors are told from the fields.
LEMMA KindsDiffer ==
  /\ Header # Newline /\ Failure # Header /\ Failure # Newline
  /\ \A v : /\ <<"_id=", v>> # Header /\ <<"address=", v>> # Header
            /\ <<", body=", v>> # Header /\ <<", date=", v>> # Header
            /\ <<"_id=", v>> # Newline /\ <<"address=", v>> # Newline
            /\ <<", body=", v>> # Newline /\ <<", date=", v>> # Newline
            /\ <<"_id=", v>> # Failure /\ <<"address=", v>> # Failure
            /\ <<", body=", v>> # Failure /\ <<", date=", v>> # Failure
  BY DEF Header, Newline, Failure

\* What is trimmed off is the ends of lines after the last token.
LEMMA TrimTo ==
  ASSUME NEW S, NEW row \in Seq(S), NEW l \in 1..Len(row), row[l] # Newline,
         \A i \in (l + 1)..Len(row) : row[i] = Newline
  PROVE  Trim(row) = SubSeq(row, 1, l)
<1> DEFINE rest == {i \in 1..Len(row) : row[i] # Newline}
<1>0. Len(row) \in Nat
  BY LenProperties
<1>1. l \in rest
  OBVIOUS
<1>2. \A i \in rest : i <= l
  <2>1. SUFFICES ASSUME NEW i \in 1..Len(row), row[i] # Newline PROVE i <= l
    OBVIOUS
  <2>2. i \notin (l + 1)..Len(row)
    BY <2>1
  <2>3. QED BY <1>0, <2>2
<1>3. \A i \in rest : i \in Nat
  OBVIOUS
<1>4. rest # {}
  BY <1>1
<1>5. Trim(row)
        = IF rest = {} THEN <<>> ELSE SubSeq(row, 1, CHOOSE i \in rest : \A j \in rest : j <= i)
  BY DEF Trim
<1> HIDE DEF rest
<1>6. (CHOOSE i \in rest : \A j \in rest : j <= i) = l
  <2>1. \A i \in rest : (\A j \in rest : j <= i) => i = l
    BY <1>1, <1>2, <1>3
  <2>2. QED BY <1>1, <1>2, <2>1
<1>7. QED BY <1>4, <1>5, <1>6

LEMMA PairIs ==
  ASSUME NEW t, NEW a, NEW b, t = <<a, b>>
  PROVE  t[1] = a /\ t[2] = b
  OBVIOUS

\* The first place of a kind is the one before which there is none.
LEMMA FirstIs ==
  ASSUME NEW S, NEW row \in Seq(S), NEW kind, NEW p \in 1..Len(row), row[p][1] = kind,
         \A i \in 1..(p - 1) : row[i][1] # kind
  PROVE  First(row, kind) = p /\ Places(row, kind) # {}
<1> DEFINE places == Places(row, kind)
<1>1. p \in places
  BY DEF Places
<1>2. \A i \in places : i \in Nat /\ p <= i
  <2>1. SUFFICES ASSUME NEW i \in 1..Len(row), row[i][1] = kind PROVE p <= i
    BY DEF Places
  <2>2. i \notin 1..(p - 1)
    BY <2>1
  <2>3. QED BY <2>2, LenProperties
<1> HIDE DEF places
<1>3. (CHOOSE i \in places : \A j \in places : i <= j) = p
  <2>1. \A i \in places : (\A j \in places : i <= j) => i = p
    BY <1>1, <1>2
  <2>2. p \in Nat
    BY <1>1, <1>2
  <2>3. QED BY <1>1, <1>2, <2>1, <2>2
<1>4. QED BY <1>1, <1>3 DEF First, places

LEMMA TwoBeforeThree == ~(3 < 2)
  OBVIOUS

LEMMA InOrder ==
  ASSUME NEW row, First(row, "address=") = 2, First(row, ", body=") = 3
  PROVE  ~Panics(row)
  BY TwoBeforeThree, Zenon DEF Panics

LEMMA RowNumbers ==
  ASSUME NEW l \in Nat
  PROVE  /\ 1 \in 1..(l + 4) /\ 2 \in 1..(l + 4) /\ 3 \in 1..(l + 4) /\ l + 4 \in 1..(l + 4)
         /\ (l + 4) + 1 = l + 5 /\ (l + 4) - 1 = l + 3 /\ l + 4 # 0
         /\ \A x \in 1..l : x + 3 \in 1..(l + 4) /\ (x + 3) + 1 = x + 4
         /\ \A i \in 1..(2 - 1) : i = 1
         /\ \A i \in 1..(3 - 1) : i = 1 \/ i = 2
         /\ 1..(1 - 1) = {}
  OBVIOUS

\* The row of m, without its first word and its last line's end, is read as m.
LEMMA RowReads ==
  ASSUME NEW m \in Message, NEW row \in Seq(Texts), Len(row) = Len(m.body) + 4,
         \A x \in 1..(Len(m.body) + 4) : row[x] = RowOf(m)[x + 1]
  PROVE  Readable(row) /\ ~Panics(row) /\ ParseRow(row) = m /\ row # <<>>
<1>1. PICK l \in Nat : l = Len(m.body)
  BY RowIs
<1>2. /\ row[1] = <<"_id=", m.id>> /\ row[2] = <<"address=", m.address>>
      /\ row[3] = <<", body=", 0>> /\ row[l + 4] = <<", date=", m.date>>
      /\ \A x \in 1..l : row[x + 3] = m.body[x]
  <2>1. \A x \in 1..(l + 4) : row[x] = RowOf(m)[x + 1]
    BY <1>1
  <2>2. row[1] = RowOf(m)[2] /\ row[2] = RowOf(m)[3] /\ row[3] = RowOf(m)[4]
    <3>1. 1 + 1 = 2 /\ 2 + 1 = 3 /\ 3 + 1 = 4
      OBVIOUS
    <3>2. QED BY <2>1, <3>1, RowNumbers
  <2>3. row[l + 4] = RowOf(m)[l + 5]
    BY <2>1, RowNumbers
  <2>4. ASSUME NEW x \in 1..l PROVE row[x + 3] = RowOf(m)[x + 4]
    BY <2>1, RowNumbers
  <2>5. QED BY <1>1, <2>2, <2>3, <2>4, RowIs
<1>3. Len(row) = l + 4
  BY <1>1
<1>4. /\ row[1][1] = "_id=" /\ row[2][1] = "address=" /\ row[3][1] = ", body="
      /\ row[l + 4][1] = ", date="
      /\ row[1][2] = m.id /\ row[2][2] = m.address /\ row[l + 4][2] = m.date
  <2>1. row[1][1] = "_id=" /\ row[1][2] = m.id
    <3>1. row[1] = <<"_id=", m.id>>
      BY <1>2
    <3>2. QED BY <3>1, PairIs
  <2>2. row[2][1] = "address=" /\ row[2][2] = m.address
    <3>1. row[2] = <<"address=", m.address>>
      BY <1>2
    <3>2. QED BY <3>1, PairIs
  <2>3. row[3][1] = ", body="
    <3>1. row[3] = <<", body=", 0>>
      BY <1>2
    <3>2. QED BY <3>1, PairIs
  <2>4. row[l + 4][1] = ", date=" /\ row[l + 4][2] = m.date
    <3>1. PICK t : t = row[l + 4]
      OBVIOUS
    <3>2. t = <<", date=", m.date>>
      BY <1>2, <3>1
    <3>3. t[1] = ", date=" /\ t[2] = m.date
      BY <3>2, PairIs
    <3>4. QED BY <3>1, <3>3
  <2>5. QED BY <2>1, <2>2, <2>3, <2>4
<1>5. First(row, "_id=") = 1 /\ Places(row, "_id=") # {}
  <2>1. 1 \in 1..Len(row)
    BY <1>3, RowNumbers
  <2>2. \A i \in 1..(1 - 1) : row[i][1] # "_id="
    OBVIOUS
  <2>3. QED BY <1>4, <2>1, <2>2, FirstIs
<1>6. First(row, "address=") = 2 /\ Places(row, "address=") # {}
  <2>1. 2 \in 1..Len(row)
    BY <1>3, RowNumbers
  <2>2. \A i \in 1..(2 - 1) : row[i][1] # "address="
    BY <1>4, RowNumbers
  <2>3. QED BY <1>4, <2>1, <2>2, FirstIs
<1>7. First(row, ", body=") = 3 /\ Places(row, ", body=") # {}
  <2>1. 3 \in 1..Len(row)
    BY <1>3, RowNumbers
  <2>2. \A i \in 1..(3 - 1) : row[i][1] # ", body="
    BY <1>4, RowNumbers
  <2>3. QED BY <1>4, <2>1, <2>2, FirstIs
<1>8. row # <<>>
  <2>1. Len(row) # 0
    BY <1>3, RowNumbers
  <2>2. QED BY <2>1, EmptySeq
<1>9. DateAt(row) = l + 4
  BY <1>3, <1>4, <1>8 DEF DateAt, Last
<1>10. Readable(row)
  BY <1>5, <1>6, <1>7, <1>9, RowNumbers DEF Readable
<1>11. SubSeq(row, 3 + 1, (l + 4) - 1) = m.body
  <2>1. 3 + 1 = 4 /\ (l + 4) - 1 = 3 + l /\ 3 \in Nat /\ 3 + l <= l + 4
    OBVIOUS
  <2>2. PICK s : s = SubSeq(row, 3 + 1, 3 + l)
    OBVIOUS
  <2>3. s \in Seq(Texts) /\ Len(s) = l /\ \A j \in 1..l : s[j] = row[3 + j]
    <3>1. 3 + l <= Len(row)
      BY <1>3, <2>1
    <3>2. PICK v \in Nat : v = 3
      OBVIOUS
    <3>3. /\ SubSeq(row, v + 1, v + l) \in Seq(Texts) /\ Len(SubSeq(row, v + 1, v + l)) = l
          /\ \A j \in 1..l : v + j \in 1..Len(row) /\ SubSeq(row, v + 1, v + l)[j] = row[v + j]
      BY <3>1, <3>2, SubSeqAfter
    <3>4. QED BY <2>2, <3>2, <3>3
  <2>4. m.body \in Seq(Texts)
    BY RowIs, TokensAreTexts, SeqMonotonic
  <2>5. \A j \in 1..l : 3 + j = j + 3
    OBVIOUS
  <2>6. Len(s) = Len(m.body) /\ \A j \in 1..Len(s) : s[j] = m.body[j]
    BY <1>1, <1>2, <2>3, <2>5
  <2>7. s = m.body
    BY <2>3, <2>4, <2>6, SeqEqual
  <2>8. QED BY <2>1, <2>2, <2>7
<1>12. ParseRow(row) = [id |-> m.id, address |-> m.address, body |-> m.body, date |-> m.date]
  <2>1. row[1][2] = m.id /\ row[2][2] = m.address /\ row[l + 4][2] = m.date
    BY <1>4
  <2>2. QED BY <1>5, <1>6, <1>7, <1>9, <1>11, <2>1 DEF ParseRow
<1>13. m = [id |-> m.id, address |-> m.address, body |-> m.body, date |-> m.date]
  BY DEF Message
<1>14. ~Panics(row)
  BY <1>6, <1>7, InOrder
<1>15. QED BY <1>8, <1>10, <1>12, <1>13, <1>14

Printing(messages) == [k \in 1..Len(messages) |-> RowOf(messages[k])]

\* What places of the output, U[k] the last of the k-th message, hold.
Printed(U, messages, text) ==
  /\ U \in [0..Len(messages) -> Nat] /\ U[0] = 0 /\ U[Len(messages)] = Len(text)
  /\ \A h, k \in 0..Len(messages) : h <= k => U[h] <= U[k]
  /\ \A k \in 1..Len(messages) : U[k] = U[k - 1] + (Len(messages[k].body) + 6)
  /\ \A k \in 1..Len(messages) : \A j \in 1..(Len(messages[k].body) + 6) :
       U[k - 1] + j \in 1..Len(text) /\ text[U[k - 1] + j] = RowOf(messages[k])[j]
  /\ \A i \in 1..Len(text) :
       \E k \in 1..Len(messages) : \E j \in 1..(Len(messages[k].body) + 6) : i = U[k - 1] + j

\* The rows that are printed.
LEMMA PrintingIs ==
  ASSUME NEW messages \in Seq(Message)
  PROVE  /\ Printing(messages) \in Seq(Seq(Texts)) /\ Len(Printing(messages)) = Len(messages)
         /\ \A k \in 1..Len(messages) : Printing(messages)[k] = RowOf(messages[k])
         /\ ContentQuery(messages) = FlattenSeq(Printing(messages))
         /\ ContentQuery(messages) \in Seq(Texts)
<1>1. Len(messages) \in Nat
  BY LenProperties
<1>2. \A k \in 1..Len(messages) : RowOf(messages[k]) \in Seq(Texts)
  BY ElementOfSeq, RowIs
<1>3. /\ Printing(messages) \in Seq(Seq(Texts)) /\ Len(Printing(messages)) = Len(messages)
      /\ \A k \in 1..Len(messages) : Printing(messages)[k] = RowOf(messages[k])
  BY <1>1, <1>2 DEF Printing
<1>4. ContentQuery(messages) = FlattenSeq(Printing(messages))
  BY DEF ContentQuery, Printing
<1>5. QED BY <1>3, <1>4, FlattenType

\* A layout of what is printed says where each field is.
LEMMA PrintedHolds ==
  ASSUME NEW messages \in Seq(Message), NEW U, NEW text,
         Layout(U, Printing(messages), text)
  PROVE  Printed(U, messages, text)
<1>1. PICK n \in Nat, B \in Seq(Seq(Texts)) :
        /\ n = Len(messages) /\ B = Printing(messages) /\ Len(B) = n
        /\ \A k \in 1..n : B[k] = RowOf(messages[k])
  BY PrintingIs, LenProperties
<1>2. \A k \in 1..n : Len(B[k]) = Len(messages[k].body) + 6
  BY <1>1, ElementOfSeq, RowIs
<1>3. /\ U \in [0..n -> Nat] /\ U[0] = 0 /\ U[n] = Len(text)
      /\ \A k \in 1..n : U[k] = U[k - 1] + Len(B[k])
      /\ \A h, k \in 0..n : h <= k => U[h] <= U[k]
      /\ \A k \in 1..n : \A j \in 1..Len(B[k]) :
           U[k - 1] + j \in 1..Len(text) /\ text[U[k - 1] + j] = B[k][j]
      /\ \A i \in 1..Len(text) : \E k \in 1..n : \E j \in 1..Len(B[k]) : i = U[k - 1] + j
  BY <1>1 DEF Layout
<1>4. \A k \in 1..n : U[k] = U[k - 1] + (Len(messages[k].body) + 6)
  BY <1>2, <1>3
<1>5. \A k \in 1..n : \A j \in 1..(Len(messages[k].body) + 6) :
        U[k - 1] + j \in 1..Len(text) /\ text[U[k - 1] + j] = RowOf(messages[k])[j]
  <2>1. SUFFICES ASSUME NEW k \in 1..n, NEW j \in 1..(Len(messages[k].body) + 6)
                 PROVE  /\ U[k - 1] + j \in 1..Len(text)
                        /\ text[U[k - 1] + j] = RowOf(messages[k])[j]
    OBVIOUS
  <2>2. j \in 1..Len(B[k])
    BY <1>2
  <2>3. U[k - 1] + j \in 1..Len(text) /\ text[U[k - 1] + j] = B[k][j]
    BY <1>3, <2>2
  <2>4. QED BY <1>1, <2>3
<1>6. \A i \in 1..Len(text) :
        \E k \in 1..n : \E j \in 1..(Len(messages[k].body) + 6) : i = U[k - 1] + j
  <2>1. SUFFICES ASSUME NEW i \in 1..Len(text)
                 PROVE  \E k \in 1..n :
                          \E j \in 1..(Len(messages[k].body) + 6) : i = U[k - 1] + j
    OBVIOUS
  <2>2. PICK k \in 1..n : \E j \in 1..Len(B[k]) : i = U[k - 1] + j
    BY <1>3
  <2>3. Len(B[k]) = Len(messages[k].body) + 6
    BY <1>2
  <2>4. QED BY <2>2, <2>3
<1>7. QED BY <1>1, <1>3, <1>4, <1>5, <1>6 DEF Printed

\* A body's lines that begin like a row.
Inner(m) == {i \in 2..Len(m.body) : m.body[i] = Header /\ m.body[i - 1] = Newline}

\* In a row only its body holds a line like a row's first.
LEMMA RowHeaders ==
  ASSUME NEW m \in Message, NEW j \in 2..(Len(m.body) + 6)
  PROVE  RowOf(m)[j] = Header /\ RowOf(m)[j - 1] = Newline <=> j - 4 \in Inner(m)
<1>1. PICK l \in Nat : l = Len(m.body)
  BY RowIs
<1>2. PICK r : r = RowOf(m)
  OBVIOUS
<1>3. /\ r[1] # Newline /\ r[2] # Header /\ r[3] # Header /\ r[4] # Header /\ r[4] # Newline
      /\ r[l + 5] # Header /\ r[l + 6] # Header
      /\ \A x \in 1..l : r[x + 4] = m.body[x]
  BY <1>1, <1>2, RowIs, KindsDiffer
<1>4. \/ j = 2 \/ j = 3 \/ j = 4 \/ j = 5
      \/ j = l + 5 \/ j = l + 6
      \/ j - 4 \in 2..l
  BY <1>1
<1>5. Inner(m) \subseteq 2..l
  BY <1>1 DEF Inner
<1>6. CASE j = 2 \/ j = 3 \/ j = 4 \/ j = 5
  <2>1. ~(r[j] = Header /\ r[j - 1] = Newline)
    <3>1. j = 5 => j - 1 = 4
      OBVIOUS
    <3>2. QED BY <1>3, <1>6, <3>1
  <2>2. j - 4 \notin 2..l
    BY <1>6
  <2>3. QED BY <1>2, <1>5, <2>1, <2>2
<1>7. CASE j = l + 5 \/ j = l + 6
  <2>1. r[j] # Header
    BY <1>3, <1>7
  <2>2. j - 4 \notin 2..l
    BY <1>7
  <2>3. QED BY <1>2, <1>5, <2>1, <2>2
<1>8. CASE j - 4 \in 2..l
  <2>1. PICK x \in 2..l : x = j - 4
    BY <1>8
  <2>2. x \in 1..l /\ x - 1 \in 1..l /\ x + 4 = j /\ (x - 1) + 4 = j - 1
    BY <2>1
  <2>3. r[j] = m.body[x] /\ r[j - 1] = m.body[x - 1]
    BY <1>3, <2>2
  <2>4. QED BY <1>1, <1>2, <2>1, <2>3 DEF Inner
<1>9. QED BY <1>4, <1>6, <1>7, <1>8

\* Where ParseSMSOutput cuts the output.
LEMMA HeaderPlaces ==
  ASSUME NEW messages \in Seq(Message), NEW U, NEW text, Printed(U, messages, text),
         NEW k \in 1..Len(messages), NEW j \in 1..(Len(messages[k].body) + 6)
  PROVE  HeaderAt(text, U[k - 1] + j) <=> j = 1 \/ j - 4 \in Inner(messages[k])
<1>1. PICK n \in Nat, l \in Nat, m \in Message, u \in Nat :
        n = Len(messages) /\ m = messages[k] /\ l = Len(m.body) /\ u = U[k - 1]
  <2>1. Len(messages) \in Nat /\ messages[k] \in Message
    BY LenProperties, ElementOfSeq
  <2>2. Len(messages[k].body) \in Nat
    BY <2>1, RowIs
  <2>3. k - 1 \in 0..Len(messages)
    BY <2>1
  <2>4. \A h \in 0..Len(messages) : U[h] \in Nat
    BY DEF Printed
  <2>5. QED BY <2>1, <2>2, <2>3, <2>4
<1>2. \A i \in 1..(l + 6) : u + i \in 1..Len(text) /\ text[u + i] = RowOf(m)[i]
  BY <1>1 DEF Printed
<1>3. CASE j = 1
  <2>1. text[u + 1] = Header
    <3>1. 1 \in 1..(l + 6)
      OBVIOUS
    <3>2. QED BY <1>2, <3>1, RowIs
  <2>2. u + 1 = 1 \/ text[(u + 1) - 1] = Newline
    <3>1. CASE k = 1
      <4>1. u = 0
        BY <1>1, <3>1 DEF Printed
      <4>2. QED BY <4>1
    <3>2. CASE k # 1
      <4>1. PICK h \in 1..n : h = k - 1
        BY <1>1, <3>2
      <4>2. h - 1 \in 0..n /\ messages[h] \in Message
        BY <1>1, <4>1, ElementOfSeq
      <4>3. PICK v \in Nat, p \in Nat : v = U[h - 1] /\ p = Len(messages[h].body)
        BY <1>1, <4>2, RowIs DEF Printed
      <4>4. u = v + (p + 6)
        BY <1>1, <4>1, <4>3 DEF Printed
      <4>5. p + 6 \in 1..(p + 6)
        OBVIOUS
      <4>6. text[v + (p + 6)] = RowOf(messages[h])[p + 6]
        BY <1>1, <4>3, <4>5 DEF Printed
      <4>7. RowOf(messages[h])[p + 6] = Newline
        BY <4>2, <4>3, RowIs
      <4>8. (u + 1) - 1 = u
        OBVIOUS
      <4>9. QED BY <4>4, <4>6, <4>7, <4>8
    <3>3. QED BY <3>1, <3>2
  <2>3. QED BY <1>1, <1>3, <2>1, <2>2 DEF HeaderAt
<1>4. CASE j # 1
  <2>1. j \in 2..(l + 6) /\ j - 1 \in 1..(l + 6) /\ j \in 1..(l + 6)
    BY <1>1, <1>4
  <2>2. u + j # 1 /\ (u + j) - 1 = u + (j - 1)
    BY <2>1
  <2>3. text[u + j] = RowOf(m)[j] /\ text[u + (j - 1)] = RowOf(m)[j - 1]
    BY <1>2, <2>1
  <2>4. HeaderAt(text, u + j) <=> RowOf(m)[j] = Header /\ RowOf(m)[j - 1] = Newline
    BY <2>2, <2>3 DEF HeaderAt
  <2>5. RowOf(m)[j] = Header /\ RowOf(m)[j - 1] = Newline <=> j - 4 \in Inner(m)
    BY <1>1, <2>1, RowHeaders
  <2>6. QED BY <1>1, <1>4, <2>4, <2>5
<1>5. QED BY <1>3, <1>4

\* A row ends before the next header, or with the text.
LEMMA EndIs ==
  ASSUME NEW text, NEW t \in Nat, t = Len(text), NEW i \in Nat, NEW e \in i..t,
         \A p \in (i + 1)..e : ~HeaderAt(text, p), e = t \/ HeaderAt(text, e + 1)
  PROVE  EndOf(text, i) = e
<1>1. ASSUME NEW q \in i..t, \A p \in (i + 1)..q : ~HeaderAt(text, p),
             q = t \/ HeaderAt(text, q + 1)
      PROVE  q = e
  <2>1. CASE q < e
    <3>1. q + 1 \in (i + 1)..e /\ q # t
      BY <2>1
    <3>2. QED BY <1>1, <3>1
  <2>2. CASE e < q
    <3>1. e + 1 \in (i + 1)..q /\ e # t
      BY <2>2
    <3>2. QED BY <1>1, <3>1
  <2>3. QED BY <2>1, <2>2
<1>2. EndOf(text, i) = CHOOSE q \in i..t :
                         /\ \A p \in (i + 1)..q : ~HeaderAt(text, p)
                         /\ q = t \/ HeaderAt(text, q + 1)
  BY DEF EndOf
<1>3. QED BY <1>1, <1>2

\* A row whose message has no such line after it goes on to the message's end.
LEMMA EndPlace ==
  ASSUME NEW messages \in Seq(Message), NEW U, NEW text \in Seq(Texts),
         Printed(U, messages, text),
         NEW k \in 1..Len(messages), NEW j \in 1..(Len(messages[k].body) + 6),
         \A h \in Inner(messages[k]) : h + 4 <= j
  PROVE  EndOf(text, U[k - 1] + j) = U[k]
<1>1. PICK n \in Nat, l \in Nat, m \in Message, u \in Nat, t \in Nat :
        /\ n = Len(messages) /\ m = messages[k] /\ l = Len(m.body) /\ u = U[k - 1]
        /\ t = Len(text)
  <2>1. Len(messages) \in Nat /\ messages[k] \in Message /\ Len(text) \in Nat
    BY LenProperties, ElementOfSeq
  <2>2. Len(messages[k].body) \in Nat
    BY <2>1, RowIs
  <2>3. k - 1 \in 0..Len(messages)
    BY <2>1
  <2>4. \A h \in 0..Len(messages) : U[h] \in Nat
    BY DEF Printed
  <2>5. QED BY <2>1, <2>2, <2>3, <2>4
<1>2. PICK e \in Nat : e = U[k] /\ e = u + (l + 6) /\ e <= t
  <2>1. U[k] = U[k - 1] + (Len(messages[k].body) + 6)
    BY DEF Printed
  <2>2. U[k] <= U[n] /\ U[n] = t
    BY <1>1 DEF Printed
  <2>3. QED BY <1>1, <2>1, <2>2
<1>3. PICK i \in Nat : i = u + j /\ i <= e /\ 1 <= i
  <2>1. \A a, b \in Nat : \A c \in 1..(b + 6) :
          a + c \in Nat /\ 1 <= a + c /\ a + c <= a + (b + 6)
    OBVIOUS
  <2>2. j \in 1..(l + 6)
    BY <1>1
  <2>3. u + j \in Nat /\ 1 <= u + j /\ u + j <= u + (l + 6)
    BY <2>1, <2>2
  <2>4. QED BY <1>2, <2>3
<1>4. ASSUME NEW p \in (i + 1)..e PROVE ~HeaderAt(text, p)
  <2>1. PICK h \in 1..(l + 6) : p = u + h /\ j < h
    <3>1. p - u \in 1..(l + 6) /\ p = u + (p - u) /\ j < p - u
      <4>1. p \in (u + j + 1)..(u + (l + 6)) /\ j \in Nat
        BY <1>2, <1>3
      <4>2. QED BY <4>1
    <3>2. QED BY <3>1
  <2>2. h # 1 /\ h - 4 \notin Inner(m)
    BY <1>1, <2>1
  <2>3. HeaderAt(text, U[k - 1] + h) <=> h = 1 \/ h - 4 \in Inner(messages[k])
    BY <1>1, HeaderPlaces
  <2>4. QED BY <1>1, <2>1, <2>2, <2>3
<1>5. e = t \/ HeaderAt(text, e + 1)
  <2>1. CASE k = n
    <3>1. U[n] = t
      BY <1>1 DEF Printed
    <3>2. QED BY <1>2, <2>1, <3>1
  <2>2. CASE k # n
    <3>1. PICK h \in 1..n : h = k + 1 /\ h - 1 = k
      BY <1>1, <2>2
    <3>2. Len(messages[h].body) \in Nat
      BY <1>1, ElementOfSeq, RowIs
    <3>3. 1 \in 1..(Len(messages[h].body) + 6)
      BY <3>2
    <3>4. HeaderAt(text, U[h - 1] + 1)
      BY <1>1, <3>3, HeaderPlaces
    <3>5. QED BY <1>2, <3>1, <3>4
  <2>3. QED BY <2>1, <2>2
<1>6. e \in i..t
  BY <1>2, <1>3
<1>7. EndOf(text, i) = e
  BY <1>1, <1>3, <1>4, <1>5, <1>6, EndIs
<1>8. QED BY <1>1, <1>2, <1>3, <1>7

\* What such a row holds: the rest of its message, without the end of the line.
LEMMA RowPlace ==
  ASSUME NEW messages \in Seq(Message), NEW U, NEW text \in Seq(Texts),
         Printed(U, messages, text),
         NEW k \in 1..Len(messages), NEW j \in 1..(Len(messages[k].body) + 4),
         \A h \in Inner(messages[k]) : h + 4 <= j
  PROVE  \E row \in Seq(Texts) :
           /\ row = RowAt(text, U[k - 1] + j) /\ row # <<>>
           /\ Len(row) = (Len(messages[k].body) + 5) - j
           /\ \A x \in 1..Len(row) : row[x] = RowOf(messages[k])[j + x]
<1>1. PICK l \in Nat, m \in Message, u \in Nat :
        m = messages[k] /\ l = Len(m.body) /\ u = U[k - 1]
  <2>1. Len(messages) \in Nat /\ messages[k] \in Message
    BY LenProperties, ElementOfSeq
  <2>2. Len(messages[k].body) \in Nat
    BY <2>1, RowIs
  <2>3. k - 1 \in 0..Len(messages)
    BY <2>1
  <2>4. \A h \in 0..Len(messages) : U[h] \in Nat
    BY DEF Printed
  <2>5. QED BY <2>1, <2>2, <2>3, <2>4
<1>2. PICK c \in Nat, i \in Nat :
        c = (l + 5) - j /\ 1 <= c /\ i = u + j /\ i + (c + 1) = u + (l + 6)
        /\ j + c = l + 5 /\ j + (c + 1) = l + 6
  <2>1. j \in 1..(l + 4)
    BY <1>1
  <2>2. QED BY <2>1
<1>3. j \in 1..(Len(messages[k].body) + 6)
  BY <1>1
<1>4. EndOf(text, i) = i + (c + 1)
  <2>1. EndOf(text, U[k - 1] + j) = U[k]
    BY <1>3, EndPlace
  <2>2. U[k] = u + (l + 6)
    BY <1>1 DEF Printed
  <2>3. QED BY <1>1, <1>2, <2>1, <2>2
<1>5. ASSUME NEW x \in 1..(c + 1)
      PROVE  i + x \in 1..Len(text) /\ text[i + x] = RowOf(m)[j + x]
  <2>1. j + x \in 1..(l + 6) /\ i + x = u + (j + x)
    <3>1. j \in Nat /\ x \in Nat /\ x <= c + 1 /\ j + (c + 1) = l + 6
      BY <1>2
    <3>2. j + x <= l + 6 /\ 1 <= j + x
      BY <3>1
    <3>3. QED BY <1>2, <3>1, <3>2
  <2>2. u + (j + x) \in 1..Len(text) /\ text[u + (j + x)] = RowOf(m)[j + x]
    BY <1>1, <2>1 DEF Printed
  <2>3. QED BY <2>1, <2>2
<1>6. i + (c + 1) <= Len(text)
  <2>1. c + 1 \in 1..(c + 1)
    BY <1>2
  <2>2. i + (c + 1) \in 1..Len(text) /\ Len(text) \in Nat
    BY <1>5, <2>1, LenProperties
  <2>3. QED BY <2>2
<1>7. PICK s \in Seq(Texts) :
        /\ s = SubSeq(text, i + 1, i + (c + 1)) /\ Len(s) = c + 1
        /\ \A x \in 1..(c + 1) : s[x] = text[i + x]
  <2>1. PICK d \in Nat : d = c + 1
    BY <1>2
  <2>2. i + d <= Len(text)
    BY <1>6, <2>1
  <2>3. /\ SubSeq(text, i + 1, i + d) \in Seq(Texts) /\ Len(SubSeq(text, i + 1, i + d)) = d
        /\ \A x \in 1..d : i + x \in 1..Len(text) /\ SubSeq(text, i + 1, i + d)[x] = text[i + x]
    BY <2>2, SubSeqAfter
  <2>4. QED BY <2>1, <2>3
<1>8. \A x \in 1..(c + 1) : s[x] = RowOf(m)[j + x]
  BY <1>5, <1>7
<1>9. s[c + 1] = Newline /\ s[c] # Newline
  <2>1. c + 1 \in 1..(c + 1) /\ c \in 1..(c + 1)
    BY <1>2
  <2>2. s[c + 1] = RowOf(m)[l + 6] /\ s[c] = RowOf(m)[l + 5]
    BY <1>2, <1>8, <2>1
  <2>3. RowOf(m)[l + 6] = Newline /\ RowOf(m)[l + 5] = <<", date=", m.date>>
    BY <1>1, RowIs
  <2>4. QED BY <2>2, <2>3, KindsDiffer
<1>10. Trim(s) = SubSeq(s, 1, c)
  <2>1. c \in 1..Len(s) /\ \A x \in (c + 1)..Len(s) : x = c + 1
    BY <1>2, <1>7
  <2>2. QED BY <1>9, <2>1, TrimTo
<1>11. PICK row \in Seq(Texts) :
         row = SubSeq(s, 1, c) /\ Len(row) = c /\ \A x \in 1..c : row[x] = s[x]
  <2>1. /\ SubSeq(s, 0 + 1, 0 + c) \in Seq(Texts) /\ Len(SubSeq(s, 0 + 1, 0 + c)) = c
        /\ \A x \in 1..c : 0 + x \in 1..Len(s) /\ SubSeq(s, 0 + 1, 0 + c)[x] = s[0 + x]
    <3>1. PICK z \in Nat : z = 0
      OBVIOUS
    <3>2. z + c <= Len(s)
      BY <1>7, <3>1
    <3>3. /\ SubSeq(s, z + 1, z + c) \in Seq(Texts) /\ Len(SubSeq(s, z + 1, z + c)) = c
          /\ \A x \in 1..c : z + x \in 1..Len(s) /\ SubSeq(s, z + 1, z + c)[x] = s[z + x]
      BY <3>2, SubSeqAfter
    <3>4. QED BY <3>1, <3>3
  <2>2. 0 + 1 = 1 /\ 0 + c = c /\ \A x \in 1..c : 0 + x = x
    OBVIOUS
  <2>3. QED BY <2>1, <2>2
<1>12. row = RowAt(text, U[k - 1] + j)
  <2>1. RowAt(text, i) = Trim(s)
    BY <1>4, <1>7 DEF RowAt
  <2>2. QED BY <1>1, <1>2, <1>10, <1>11, <2>1
<1>13. \A x \in 1..c : row[x] = RowOf(m)[j + x]
  <2>1. \A x \in 1..c : x \in 1..(c + 1)
    OBVIOUS
  <2>2. QED BY <1>8, <1>11, <2>1
<1>14. row # <<>>
  <2>1. Len(row) # 0
    BY <1>2, <1>11
  <2>2. QED BY <2>1, EmptySeq
<1>15. QED BY <1>1, <1>2, <1>11, <1>12, <1>13, <1>14

\* A message can be read if its body has no such line and no error in it.
LEMMA LegibleHasNoInner ==
  ASSUME NEW m \in Message
  PROVE  Legible(m) <=> Inner(m) = {} /\ Failure \notin ToSet(m.body)
<1>1. Len(m.body) \in Nat
  BY RowIs
<1>2. (\A i \in 1..Len(m.body) : ~(m.body[i] = Header /\ i > 1 /\ m.body[i - 1] = Newline))
        <=> Inner(m) = {}
  <2>1. \A i \in 2..Len(m.body) : i \in 1..Len(m.body) /\ i > 1
    BY <1>1
  <2>2. \A i \in 1..Len(m.body) : i > 1 => i \in 2..Len(m.body)
    BY <1>1
  <2>3. QED BY <2>1, <2>2 DEF Inner
<1>3. QED BY <1>2 DEF Legible

\* An error is in the output only if one is in a body.
LEMMA FailureInBody ==
  ASSUME NEW messages \in Seq(Message)
  PROVE  Failure \in ToSet(ContentQuery(messages))
           <=> \E k \in 1..Len(messages) : Failure \in ToSet(messages[k].body)
<1>0. PICK text \in Seq(Texts) : text = ContentQuery(messages)
  BY PrintingIs
<1>1. PICK U : text = ContentQuery(messages) /\ Printed(U, messages, text)
  <2>1. PICK U : Layout(U, Printing(messages), FlattenSeq(Printing(messages)))
    BY PrintingIs, LayoutExists
  <2>2. Layout(U, Printing(messages), ContentQuery(messages))
    BY <2>1, PrintingIs
  <2>3. Printed(U, messages, ContentQuery(messages))
    BY <2>2, PrintedHolds
  <2>4. QED BY <1>0, <2>3
<1>2. ASSUME NEW i \in 1..Len(text), text[i] = Failure
      PROVE  \E k \in 1..Len(messages) : Failure \in ToSet(messages[k].body)
  <2>1. PICK k \in 1..Len(messages) :
          \E j \in 1..(Len(messages[k].body) + 6) : i = U[k - 1] + j
    BY <1>1 DEF Printed
  <2>2. PICK j \in 1..(Len(messages[k].body) + 6) : i = U[k - 1] + j
    BY <2>1
  <2>3. RowOf(messages[k])[j] = Failure
    BY <1>1, <1>2, <2>2 DEF Printed
  <2>4. PICK m \in Message, l \in Nat : m = messages[k] /\ l = Len(m.body)
    BY ElementOfSeq, RowIs
  <2>5. j = 1 \/ j = 2 \/ j = 3 \/ j = 4 \/ j = l + 5 \/ j = l + 6 \/ j - 4 \in 1..l
    <3>1. j \in 1..(l + 6)
      BY <2>4
    <3>2. QED BY <3>1
  <2>6. CASE j = 1 \/ j = 2 \/ j = 3 \/ j = 4 \/ j = l + 5 \/ j = l + 6
    BY <2>3, <2>4, <2>6, RowIs, KindsDiffer, ZenonT(60)
  <2>7. CASE j - 4 \in 1..l
    <3>1. PICK x \in 1..l : x = j - 4 /\ x + 4 = j
      BY <2>7
    <3>2. m.body[x] = Failure
      BY <2>3, <2>4, <3>1, RowIs
    <3>3. x \in DOMAIN m.body
      BY <2>4, RowIs, LenProperties
    <3>4. QED BY <2>4, <3>2, <3>3 DEF ToSet
  <2>8. QED BY <2>5, <2>6, <2>7
<1>3. ASSUME NEW k \in 1..Len(messages), Failure \in ToSet(messages[k].body)
      PROVE  \E i \in 1..Len(text) : text[i] = Failure
  <2>1. PICK m \in Message, l \in Nat : m = messages[k] /\ l = Len(m.body)
    BY ElementOfSeq, RowIs
  <2>2. PICK x \in DOMAIN m.body : m.body[x] = Failure
    BY <1>3, <2>1 DEF ToSet
  <2>3. x \in 1..l
    BY <2>1, RowIs, LenProperties
  <2>4. x + 4 \in 1..(l + 6)
    BY <2>3
  <2>5. U[k - 1] + (x + 4) \in 1..Len(text) /\ text[U[k - 1] + (x + 4)] = RowOf(m)[x + 4]
    BY <1>1, <2>1, <2>4 DEF Printed
  <2>6. RowOf(m)[x + 4] = Failure
    BY <2>1, <2>2, <2>3, RowIs
  <2>7. QED BY <2>5, <2>6
<1>4. DOMAIN text = 1..Len(text)
  BY LenProperties
<1>5. QED BY <1>1, <1>2, <1>3, <1>4 DEF ToSet

\* The output, where its messages are.
LEMMA PrintedText ==
  ASSUME NEW messages \in Seq(Message)
  PROVE  \E text \in Seq(Texts) : \E U :
           /\ text = ContentQuery(messages) /\ text = FlattenSeq(Printing(messages))
           /\ Printed(U, messages, text) /\ Layout(U, Printing(messages), text)
           /\ \A k \in 0..Len(messages) : U[k] = Upto(Printing(messages), k)
<1>1. PICK text \in Seq(Texts) :
        text = ContentQuery(messages) /\ text = FlattenSeq(Printing(messages))
  BY PrintingIs
<1>2. PICK U : /\ Layout(U, Printing(messages), FlattenSeq(Printing(messages)))
               /\ \A k \in 0..Len(Printing(messages)) : U[k] = Upto(Printing(messages), k)
  BY PrintingIs, LayoutExists
<1>3. Layout(U, Printing(messages), text)
  BY <1>1, <1>2
<1>4. Printed(U, messages, text)
  BY <1>3, PrintedHolds
<1>5. \A k \in 0..Len(messages) : U[k] = Upto(Printing(messages), k)
  BY <1>2, PrintingIs
<1>6. QED BY <1>1, <1>3, <1>4, <1>5

\* The rows found are the ones printed.
LEMMA RowsOfLegible ==
  ASSUME NEW messages \in Seq(Message), \A k \in 1..Len(messages) : Legible(messages[k]),
         NEW text \in Seq(Texts), text = FlattenSeq(Printing(messages)),
         NEW U, Printed(U, messages, text), Layout(U, Printing(messages), text),
         \A k \in 0..Len(messages) : U[k] = Upto(Printing(messages), k)
  PROVE  Rows(text) = [k \in 1..Len(messages) |-> RowAt(text, U[k - 1] + 1)]
<1>1. PICK n \in Nat, t \in Nat, B \in Seq(Seq(Texts)) :
        /\ n = Len(messages) /\ t = Len(text) /\ B = Printing(messages) /\ Len(B) = n
        /\ \A k \in 1..n : B[k] = RowOf(messages[k])
  BY PrintingIs, LenProperties
<1>2. PICK S : S = {RowAt(text, i) : i \in 1..t}
  OBVIOUS
<1>3. PICK G : G = [i \in 1..t |-> RowsFrom(text, i)]
  OBVIOUS
<1>4. G \in Seq(Seq(S)) /\ Len(G) = t /\ \A i \in 1..t : G[i] = RowsFrom(text, i)
  <2>1. ASSUME NEW i \in 1..t PROVE RowsFrom(text, i) \in Seq(S)
    <3>1. RowAt(text, i) \in S
      BY <1>2
    <3>2. <<RowAt(text, i)>> \in Seq(S) /\ <<>> \in Seq(S)
      BY <3>1
    <3>3. QED BY <3>2 DEF RowsFrom
  <2>2. QED BY <1>3, <2>1
<1>5. Rows(text) = FlattenSeq(G)
  BY <1>1, <1>3 DEF Rows
<1>6. PICK R : R = [k \in 1..n |-> RowAt(text, U[k - 1] + 1)]
  OBVIOUS
<1>7. \A k \in 1..n : 1 \in 1..(Len(messages[k].body) + 6) /\ Len(messages[k].body) \in Nat
  <2>1. \A k \in 1..n : Len(messages[k].body) \in Nat
    BY <1>1, ElementOfSeq, RowIs
  <2>2. QED BY <2>1
<1>8. R \in Seq(S) /\ Len(R) = n /\ \A k \in 1..n : R[k] = RowAt(text, U[k - 1] + 1)
  <2>1. ASSUME NEW k \in 1..n PROVE RowAt(text, U[k - 1] + 1) \in S
    <3>1. U[k - 1] + 1 \in 1..t
      BY <1>1, <1>7 DEF Printed
    <3>2. QED BY <1>2, <3>1
  <2>2. QED BY <1>6, <2>1
<1>9. PICK H : H = [k \in 1..n |-> <<R[k]>>]
  OBVIOUS
<1>10. H \in Seq(Seq(S)) /\ Len(H) = n /\ \A k \in 1..n : H[k] = <<R[k]>>
  <2>1. \A k \in 1..n : <<R[k]>> \in Seq(S)
    BY <1>8, ElementOfSeq
  <2>2. QED BY <1>9, <2>1
<1>11. ASSUME NEW k \in 1..n
       PROVE  H[k] = FlattenSeq(SubSeq(G, Upto(B, k - 1) + 1, Upto(B, k)))
  <2>1. k - 1 \in 0..n /\ k \in 0..n /\ k \in 1..Len(messages) /\ k \in 1..Len(B)
    BY <1>1
  <2>2. U[k - 1] = Upto(B, k - 1) /\ U[k] = Upto(B, k)
    BY <1>1, <2>1
  <2>3. Inner(messages[k]) = {}
    BY <1>1, ElementOfSeq, LegibleHasNoInner
  <2>4. PICK l \in Nat, u \in Nat : l = Len(messages[k].body) /\ u = U[k - 1]
    BY <1>1, <1>7, <2>1 DEF Printed
  <2>5. Len(B[k]) = l + 6
    BY <1>1, <2>1, <2>4, ElementOfSeq, RowIs
  <2>6. PICK s : s = SubSeq(G, U[k - 1] + 1, U[k])
    OBVIOUS
  <2>7. /\ s \in Seq(Seq(S)) /\ Len(s) = l + 6
        /\ \A j \in 1..(l + 6) : u + j \in 1..t /\ s[j] = RowsFrom(text, u + j)
    <3>1. Len(G) = Len(text) /\ Layout(U, B, text) /\ G \in Seq(Seq(S))
      BY <1>1, <1>4
    <3>2. /\ SubSeq(G, U[k - 1] + 1, U[k]) \in Seq(Seq(S))
          /\ Len(SubSeq(G, U[k - 1] + 1, U[k])) = Len(B[k])
          /\ \A j \in 1..Len(B[k]) :
               /\ U[k - 1] + j \in 1..Len(G)
               /\ SubSeq(G, U[k - 1] + 1, U[k])[j] = G[U[k - 1] + j]
      BY <2>1, <3>1, Stretch, SMTT(30)
    <3>3. QED BY <1>4, <2>4, <2>5, <2>6, <3>2
  <2>8. ASSUME NEW j \in 1..(l + 6)
        PROVE  HeaderAt(text, u + j) <=> j = 1
    <3>1. HeaderAt(text, U[k - 1] + j) <=> j = 1 \/ j - 4 \in Inner(messages[k])
      BY <2>1, <2>4, HeaderPlaces
    <3>2. QED BY <2>3, <2>4, <3>1
  <2>9. RowAt(text, u + 1) = R[k] /\ R[k] # <<>>
    <3>1. 1 \in 1..(Len(messages[k].body) + 4)
      BY <2>4
    <3>2. \E row \in Seq(Texts) : row = RowAt(text, U[k - 1] + 1) /\ row # <<>>
      BY <2>1, <2>3, <3>1, RowPlace
    <3>3. QED BY <1>8, <2>4, <3>2
  <2>10. 1 \in 1..(l + 6)
    OBVIOUS
  <2>11. s[1] = <<R[k]>>
    BY <2>7, <2>8, <2>9, <2>10 DEF RowsFrom
  <2>12. \A j \in 1..(l + 6) : j # 1 => s[j] = <<>>
    BY <2>7, <2>8 DEF RowsFrom
  <2>13. FlattenSeq(s) = s[1]
    <3>1. 1 \in 1..Len(s) /\ \A j \in 1..Len(s) : j # 1 => s[j] = <<>>
      BY <2>7, <2>10, <2>12
    <3>2. s \in Seq(Seq(S))
      BY <2>7
    <3>3. QED BY <3>1, <3>2, FlattenOnly
  <2>14. QED BY <1>10, <2>2, <2>6, <2>11, <2>13
<1>12. FlattenSeq(G) = FlattenSeq(H)
  <2>1. Len(G) = Len(FlattenSeq(B)) /\ Len(H) = Len(B)
    BY <1>1, <1>4, <1>10
  <2>2. \A k \in 1..Len(B) : H[k] = FlattenSeq(SubSeq(G, Upto(B, k - 1) + 1, Upto(B, k)))
    BY <1>1, <1>11
  <2>3. QED BY <1>4, <1>10, <2>1, <2>2, FlattenBlocks
<1>13. FlattenSeq(H) = R
  <2>1. Len(H) = Len(R) /\ \A k \in 1..Len(R) : H[k] = <<R[k]>>
    BY <1>8, <1>10
  <2>2. QED BY <1>8, <1>10, <2>1, FlattenUnits
<1>14. QED BY <1>1, <1>5, <1>6, <1>12, <1>13

\* Messages that can be read are read as they were.
LEMMA LegibleAreRead ==
  ASSUME NEW messages \in Seq(Message), \A k \in 1..Len(messages) : Legible(messages[k])
  PROVE  ParseSMSOutput(ContentQuery(messages)) = Result("none", messages)
<1>1. PICK text \in Seq(Texts) : \E U :
        /\ text = ContentQuery(messages) /\ text = FlattenSeq(Printing(messages))
        /\ Printed(U, messages, text) /\ Layout(U, Printing(messages), text)
        /\ \A k \in 0..Len(messages) : U[k] = Upto(Printing(messages), k)
  BY PrintedText
<1>2. PICK U : /\ text = ContentQuery(messages) /\ text = FlattenSeq(Printing(messages))
               /\ Printed(U, messages, text) /\ Layout(U, Printing(messages), text)
               /\ \A k \in 0..Len(messages) : U[k] = Upto(Printing(messages), k)
  BY <1>1
<1>3. PICK n \in Nat : n = Len(messages)
  BY LenProperties
<1>4. PICK R : R = [k \in 1..n |-> RowAt(text, U[k - 1] + 1)]
  OBVIOUS
<1>5. Rows(text) = R
  BY <1>2, <1>3, <1>4, RowsOfLegible
<1>6. Len(R) = n /\ \A k \in 1..n : R[k] = RowAt(text, U[k - 1] + 1)
  BY <1>4
<1>7. ASSUME NEW k \in 1..n
      PROVE  Readable(R[k]) /\ ~Panics(R[k]) /\ ParseRow(R[k]) = messages[k]
  <2>1. k \in 1..Len(messages) /\ messages[k] \in Message /\ Inner(messages[k]) = {}
    BY <1>3, ElementOfSeq, LegibleHasNoInner
  <2>2. PICK l \in Nat : l = Len(messages[k].body)
    BY <2>1, RowIs
  <2>3. 1 \in 1..(Len(messages[k].body) + 4)
    BY <2>2
  <2>4. PICK row \in Seq(Texts) :
          /\ row = RowAt(text, U[k - 1] + 1)
          /\ Len(row) = (Len(messages[k].body) + 5) - 1
          /\ \A x \in 1..Len(row) : row[x] = RowOf(messages[k])[1 + x]
    BY <1>2, <2>1, <2>3, RowPlace
  <2>5. Len(row) = Len(messages[k].body) + 4
    BY <2>2, <2>4
  <2>6. \A x \in 1..(Len(messages[k].body) + 4) : row[x] = RowOf(messages[k])[x + 1]
    BY <2>4, <2>5
  <2>7. Readable(row) /\ ~Panics(row) /\ ParseRow(row) = messages[k]
    BY <2>1, <2>5, <2>6, RowReads
  <2>8. QED BY <1>6, <2>4, <2>7
<1>8. Failure \notin ToSet(text)
  <2>1. \A k \in 1..Len(messages) : Failure \notin ToSet(messages[k].body)
    BY ElementOfSeq, LegibleHasNoInner
  <2>2. QED BY <1>2, <2>1, FailureInBody
<1>9. ParseSMSOutput(text) = Result("none", [k \in 1..n |-> ParseRow(R[k])])
  <2>1. {k \in 1..Len(R) : ~Readable(R[k]) \/ Panics(R[k])} = {}
    BY <1>6, <1>7
  <2>2. QED BY <1>5, <1>6, <1>8, <2>1 DEF ParseSMSOutput
<1>10. [k \in 1..n |-> ParseRow(R[k])] = messages
  <2>1. messages = [k \in 1..n |-> messages[k]]
    BY <1>3
  <2>2. QED BY <1>7, <2>1
<1>11. QED BY <1>2, <1>9, <1>10

\* Numbers up to n have a greatest.
LEMMA Greatest ==
  ASSUME NEW n \in Nat, NEW P \in SUBSET (0..n), P # {}
  PROVE  \E x \in P : \A y \in P : y <= x
<1> DEFINE T == {d \in Nat : (\E x \in P : n - x <= d) => \E x \in P : \A y \in P : y <= x}
<1>1. 0 \in T
  <2>1. SUFFICES ASSUME NEW x \in P, n - x <= 0 PROVE \E z \in P : \A y \in P : y <= z
    OBVIOUS
  <2>2. \A y \in P : y <= x
    <3>1. x \in 0..n /\ \A y \in P : y \in 0..n
      OBVIOUS
    <3>2. QED BY <2>1, <3>1
  <2>3. QED BY <2>2
<1>2. ASSUME NEW d \in T PROVE d + 1 \in T
  <2>1. d \in Nat /\ d + 1 \in Nat
    OBVIOUS
  <2>2. SUFFICES ASSUME NEW x \in P, n - x <= d + 1
                 PROVE  \E z \in P : \A y \in P : y <= z
    BY <2>1
  <2>3. CASE \E y \in P : n - y <= d
    BY <2>1, <2>3
  <2>4. CASE ~\E y \in P : n - y <= d
    <3>1. x \in 0..n /\ \A y \in P : y \in 0..n
      OBVIOUS
    <3>2. ASSUME NEW y \in P PROVE y <= x
      <4>1. y \in 0..n /\ x \in 0..n /\ ~(n - y <= d)
        BY <2>4, <3>1
      <4>2. QED BY <2>1, <2>2, <4>1
    <3>3. QED BY <3>2
  <2>5. QED BY <2>3, <2>4
<1>3. T \subseteq Nat
  OBVIOUS
<1>4. T = Nat
  <2> HIDE DEF T
  <2>1. QED BY <1>1, <1>2, <1>3, NatSetInduction
<1>5. PICK x \in P : x \in 0..n
  OBVIOUS
<1>6. n - x \in Nat
  BY <1>5
<1>7. n - x \in T
  BY <1>4, <1>6
<1>8. QED BY <1>5, <1>6, <1>7

LEMMA FirstNumbers ==
  ASSUME NEW u \in Nat, NEW h \in Nat
  PROVE  \A y \in ((u + 1) + 1)..((u + 1) + (h + 2)) : y - u \in 2..(h + 3) /\ y = u + (y - u)
  OBVIOUS

\* The first c tokens after a row's header, up to its body's place h but for line ends.
Begins(row, c, m, h) ==
  /\ Len(row) = c
  /\ \A x \in 1..c : row[x] = RowOf(m)[1 + x]
  /\ \A x \in (c + 1)..(h + 2) : RowOf(m)[1 + x] = Newline

\* The first row of a message whose body holds others: it ends where the next begins.
LEMMA FirstRow ==
  ASSUME NEW messages \in Seq(Message), NEW U, NEW text \in Seq(Texts),
         Printed(U, messages, text), NEW k \in 1..Len(messages),
         NEW h \in Inner(messages[k]), \A i \in Inner(messages[k]) : h <= i
  PROVE  \E row \in Seq(Texts), c \in 1..(h + 2) :
           row = RowAt(text, U[k - 1] + 1) /\ row # <<>> /\ Begins(row, c, messages[k], h)
<1>1. PICK l \in Nat, m \in Message, u \in Nat, t \in Nat :
        m = messages[k] /\ l = Len(m.body) /\ u = U[k - 1] /\ t = Len(text)
  <2>1. Len(messages) \in Nat /\ messages[k] \in Message /\ Len(text) \in Nat
    BY LenProperties, ElementOfSeq
  <2>2. Len(messages[k].body) \in Nat
    BY <2>1, RowIs
  <2>3. k - 1 \in 0..Len(messages)
    BY <2>1
  <2>4. \A g \in 0..Len(messages) : U[g] \in Nat
    BY DEF Printed
  <2>5. QED BY <2>1, <2>2, <2>3, <2>4
<1>2. h \in 2..l /\ h \in Nat
  BY <1>1 DEF Inner
<1>3. PICK d \in Nat, i \in Nat :
        /\ d = h + 2 /\ 1 <= d /\ i = u + 1 /\ i + d = u + (h + 3) /\ (i + d) + 1 = u + (h + 4)
        /\ h + 4 \in 1..(l + 6) /\ (h + 4) - 4 = h /\ h + 3 <= l + 6
  BY <1>2
<1>4. ASSUME NEW x \in 1..(l + 6)
      PROVE  /\ u + x \in 1..t /\ text[u + x] = RowOf(m)[x]
             /\ HeaderAt(text, u + x) <=> x = 1 \/ x - 4 \in Inner(m)
  <2>1. x \in 1..(Len(messages[k].body) + 6)
    BY <1>1
  <2>2. U[k - 1] + x \in 1..Len(text) /\ text[U[k - 1] + x] = RowOf(messages[k])[x]
    BY <2>1 DEF Printed
  <2>3. HeaderAt(text, U[k - 1] + x) <=> x = 1 \/ x - 4 \in Inner(messages[k])
    BY <2>1, HeaderPlaces
  <2>4. QED BY <1>1, <2>2, <2>3
<1>5. EndOf(text, i) = i + d
  <2>1. (i + d) + 1 \in 1..t /\ HeaderAt(text, (i + d) + 1)
    BY <1>1, <1>3, <1>4
  <2>2. i + d \in i..t
    <3>1. \A x, y \in Nat : (x + y) + 1 \in 1..t => x + y \in x..t
      BY <1>1
    <3>2. QED BY <1>3, <2>1, <3>1
  <2>3. ASSUME NEW p \in (i + 1)..(i + d) PROVE ~HeaderAt(text, p)
    <3>1. PICK x \in 2..(h + 3) : p = u + x
      <4>1. \A y \in ((u + 1) + 1)..((u + 1) + (h + 2)) : y - u \in 2..(h + 3) /\ y = u + (y - u)
        BY <1>2, FirstNumbers
      <4>2. p \in ((u + 1) + 1)..((u + 1) + (h + 2))
        BY <1>3, <2>3
      <4>3. p - u \in 2..(h + 3) /\ p = u + (p - u)
        BY <4>1, <4>2
      <4>4. QED BY <4>3
    <3>2. x \in 1..(l + 6) /\ x # 1 /\ x - 4 < h
      BY <1>2, <1>3
    <3>3. x - 4 \notin Inner(m)
      <4>1. \A y \in Inner(m) : y \in Nat /\ h <= y
        BY <1>1 DEF Inner
      <4>2. QED BY <1>2, <3>2, <4>1
    <3>4. QED BY <1>4, <3>1, <3>2, <3>3
  <2>4. QED BY <1>1, <2>1, <2>2, <2>3, EndIs
<1>6. ASSUME NEW x \in 1..d
      PROVE  i + x \in 1..t /\ text[i + x] = RowOf(m)[1 + x]
  <2>1. 1 + x \in 1..(l + 6) /\ i + x = u + (1 + x)
    BY <1>2, <1>3
  <2>2. QED BY <1>4, <2>1
<1>7. PICK s \in Seq(Texts) :
        /\ s = SubSeq(text, i + 1, i + d) /\ Len(s) = d
        /\ \A x \in 1..d : s[x] = RowOf(m)[1 + x]
  <2>1. d \in 1..d
    BY <1>3
  <2>2. i + d <= Len(text)
    BY <1>1, <1>6, <2>1
  <2>3. /\ SubSeq(text, i + 1, i + d) \in Seq(Texts) /\ Len(SubSeq(text, i + 1, i + d)) = d
        /\ \A x \in 1..d : i + x \in 1..Len(text) /\ SubSeq(text, i + 1, i + d)[x] = text[i + x]
    BY <2>2, SubSeqAfter
  <2>4. QED BY <1>6, <2>3
<1>8. PICK c \in 1..d : s[c] # Newline /\ \A x \in (c + 1)..d : s[x] = Newline
  <2> DEFINE rest == {x \in 1..d : s[x] # Newline}
  <2>1. s[1] # Newline /\ 1 \in 1..d
    <3>1. 1 \in 1..d /\ 1 + 1 = 2
      BY <1>3
    <3>2. s[1] = RowOf(m)[2]
      BY <1>7, <3>1
    <3>3. RowOf(m)[2] = <<"_id=", m.id>>
      BY <1>1, RowIs
    <3>4. QED BY <3>1, <3>2, <3>3, KindsDiffer
  <2>2. rest # {} /\ rest \in SUBSET (0..d) /\ rest \subseteq 1..d
    BY <2>1
  <2>3. PICK c \in rest : \A y \in rest : y <= c
    <3> HIDE DEF rest
    <3>1. QED BY <2>2, Greatest
  <2>4. \A x \in (c + 1)..d : s[x] = Newline
    <3>1. SUFFICES ASSUME NEW x \in (c + 1)..d, s[x] # Newline PROVE FALSE
      OBVIOUS
    <3>2. c \in 1..d
      BY <2>2
    <3>3. x \in rest /\ ~(x <= c)
      BY <3>1, <3>2
    <3>4. QED BY <2>3, <3>3
  <2>5. QED BY <2>3, <2>4
<1>9. Trim(s) = SubSeq(s, 1, c)
  <2>1. c \in 1..Len(s) /\ \A x \in (c + 1)..Len(s) : s[x] = Newline
    BY <1>7, <1>8
  <2>2. QED BY <1>8, <2>1, TrimTo
<1>10. PICK row \in Seq(Texts) : row = SubSeq(s, 1, c) /\ Len(row) = c /\ \A x \in 1..c : row[x] = s[x]
  <2>1. PICK z \in Nat : z = 0
    OBVIOUS
  <2>2. c \in Nat /\ z + c <= Len(s) /\ z + 1 = 1 /\ z + c = c /\ \A x \in 1..c : z + x = x
    BY <1>7, <2>1
  <2>3. /\ SubSeq(s, z + 1, z + c) \in Seq(Texts) /\ Len(SubSeq(s, z + 1, z + c)) = c
        /\ \A x \in 1..c : z + x \in 1..Len(s) /\ SubSeq(s, z + 1, z + c)[x] = s[z + x]
    BY <2>2, SubSeqAfter
  <2>4. QED BY <2>2, <2>3
<1>11. row = RowAt(text, U[k - 1] + 1)
  <2>1. RowAt(text, i) = Trim(s)
    BY <1>5, <1>7 DEF RowAt
  <2>2. QED BY <1>1, <1>3, <1>9, <1>10, <2>1
<1>12. c \in 1..(h + 2) /\ \A x \in 1..c : row[x] = RowOf(m)[1 + x]
  <2>1. \A x \in 1..c : x \in 1..d
    BY <1>8
  <2>2. QED BY <1>3, <1>7, <1>8, <1>10, <2>1
<1>13. \A x \in (c + 1)..(h + 2) : RowOf(m)[1 + x] = Newline
  <2>1. \A x \in (c + 1)..d : x \in 1..d
    BY <1>8
  <2>2. QED BY <1>3, <1>7, <1>8, <2>1
<1>14. row # <<>>
  <2>1. Len(row) # 0
    BY <1>8, <1>10
  <2>2. QED BY <2>1, EmptySeq
<1>15. Begins(row, c, m, h)
  BY <1>10, <1>12, <1>13 DEF Begins
<1>16. QED BY <1>1, <1>11, <1>12, <1>14, <1>15

\* One row that cannot be read refuses the text.
LEMMA RowRefuses ==
  ASSUME NEW text \in Seq(Texts), NEW i \in 1..Len(text), HeaderAt(text, i),
         NEW row, row = RowAt(text, i), row # <<>>, ~Readable(row)
  PROVE  ParseSMSOutput(text).error # "none"
<1>1. PICK t \in Nat : t = Len(text)
  BY LenProperties
<1>2. PICK S : S = {RowAt(text, q) : q \in 1..t}
  OBVIOUS
<1>3. PICK G : G = [q \in 1..t |-> RowsFrom(text, q)]
  OBVIOUS
<1>4. G \in Seq(Seq(S)) /\ Len(G) = t /\ \A q \in 1..t : G[q] = RowsFrom(text, q)
  <2>1. ASSUME NEW q \in 1..t PROVE RowsFrom(text, q) \in Seq(S)
    <3>1. RowAt(text, q) \in S
      BY <1>2
    <3>2. <<RowAt(text, q)>> \in Seq(S) /\ <<>> \in Seq(S)
      BY <3>1
    <3>3. QED BY <3>2 DEF RowsFrom
  <2>2. QED BY <1>3, <2>1
<1>5. Rows(text) = FlattenSeq(G)
  BY <1>1, <1>3 DEF Rows
<1>6. RowsFrom(text, i) = <<row>>
  BY DEF RowsFrom
<1>7. \E y \in 1..Len(Rows(text)) : Rows(text)[y] = row
  <2>1. i \in 1..Len(G) /\ G[i] = <<row>>
    BY <1>1, <1>4, <1>6
  <2>2. Len(<<row>>) = 1 /\ <<row>>[1] = row
    OBVIOUS
  <2>3. 1 \in 1..Len(G[i]) /\ G[i][1] = row
    BY <2>1, <2>2
  <2>4. PICK o \in 1..Len(G[i]) : o = 1
    BY <2>3
  <2>5. /\ Upto(G, i - 1) + o \in 1..Len(FlattenSeq(G))
        /\ FlattenSeq(G)[Upto(G, i - 1) + o] = G[i][o]
    <3>1. G \in Seq(Seq(S)) /\ i \in 1..Len(G)
      BY <1>4, <2>1
    <3>2. QED BY <3>1, FlattenElement
  <2>6. QED BY <1>5, <2>3, <2>4, <2>5
<1>8. {y \in 1..Len(Rows(text)) : ~Readable(Rows(text)[y]) \/ Panics(Rows(text)[y])} # {}
  BY <1>7
<1>9. \/ ParseSMSOutput(text) = Result("sqlite", <<>>)
      \/ \E e \in {"panic", "row"} : ParseSMSOutput(text) = Result(e, <<>>)
  BY <1>8 DEF ParseSMSOutput
<1>10. QED BY <1>9 DEF Result

\* A row's fields, in the body of m after place h.
FieldsAfter(m, h) ==
  \A kind \in {"_id=", "address=", ", body="} :
    \E y \in (h + 1)..Len(m.body) : m.body[y][1] = kind

\* After a message comes the next one's header, or nothing.
LEMMA MessageEnds ==
  ASSUME NEW messages \in Seq(Message), NEW U, NEW text \in Seq(Texts),
         Printed(U, messages, text), NEW k \in 1..Len(messages)
  PROVE  /\ U[k] = U[k - 1] + (Len(messages[k].body) + 6) /\ U[k - 1] \in Nat /\ U[k] \in Nat
         /\ U[k] <= Len(text)
         /\ U[k] = Len(text) \/ HeaderAt(text, U[k] + 1)
<1>1. PICK n \in Nat : n = Len(messages)
  BY LenProperties
<1>2. U[k] <= U[n] /\ U[n] = Len(text) /\ U[k - 1] \in Nat /\ U[k] \in Nat
  <2>1. k - 1 \in 0..n /\ k \in 0..n /\ n \in 0..n /\ k <= n
    BY <1>1
  <2>2. QED BY <1>1, <2>1 DEF Printed
<1>3. U[k] = U[k - 1] + (Len(messages[k].body) + 6)
  BY DEF Printed
<1>4. U[k] = Len(text) \/ HeaderAt(text, U[k] + 1)
  <2>1. CASE k = n
    BY <1>2, <2>1
  <2>2. CASE k # n
    <3>1. PICK h \in 1..n : h = k + 1 /\ h - 1 = k
      BY <1>1, <2>2
    <3>2. Len(messages[h].body) \in Nat
      BY <1>1, ElementOfSeq, RowIs
    <3>3. 1 \in 1..(Len(messages[h].body) + 6)
      BY <3>2
    <3>4. HeaderAt(text, U[h - 1] + 1)
      BY <1>1, <3>3, HeaderPlaces
    <3>5. QED BY <3>1, <3>4
  <2>3. QED BY <2>1, <2>2
<1>5. QED BY <1>2, <1>3, <1>4

\* Trimming leaves the beginning of a row.
LEMMA TrimBegins ==
  ASSUME NEW S, NEW s \in Seq(S), Trim(s) # <<>>
  PROVE  /\ Trim(s) \in Seq(S) /\ Len(Trim(s)) <= Len(s)
         /\ \A x \in 1..Len(Trim(s)) : x \in 1..Len(s) /\ Trim(s)[x] = s[x]
<1> DEFINE rest == {i \in 1..Len(s) : s[i] # Newline}
<1>1. Trim(s) = IF rest = {} THEN <<>> ELSE SubSeq(s, 1, CHOOSE i \in rest : \A j \in rest : j <= i)
  BY DEF Trim
<1>2. PICK n \in Nat : n = Len(s)
  BY LenProperties
<1>3. rest # {} /\ rest \in SUBSET (0..n) /\ rest \subseteq 1..n
  BY <1>1, <1>2
<1> HIDE DEF rest
<1>4. PICK c : c = CHOOSE i \in rest : \A j \in rest : j <= i
  OBVIOUS
<1>5. c \in 1..n
  <2>1. \E i \in rest : \A j \in rest : j <= i
    BY <1>2, <1>3, Greatest
  <2>2. c \in rest
    BY <1>4, <2>1
  <2>3. QED BY <1>3, <2>2
<1>6. PICK z \in Nat : z = 0
  OBVIOUS
<1>7. c \in Nat /\ z + c <= Len(s) /\ z + 1 = 1 /\ z + c = c /\ \A x \in 1..c : z + x = x
  BY <1>2, <1>5, <1>6
<1>8. /\ SubSeq(s, z + 1, z + c) \in Seq(S) /\ Len(SubSeq(s, z + 1, z + c)) = c
      /\ \A x \in 1..c : z + x \in 1..Len(s) /\ SubSeq(s, z + 1, z + c)[x] = s[z + x]
  BY <1>7, SubSeqAfter
<1>9. PICK w : w = SubSeq(s, 1, c) /\ w = Trim(s)
  BY <1>1, <1>3, <1>4
<1>10. w \in Seq(S) /\ Len(w) = c /\ \A x \in 1..c : x \in 1..Len(s) /\ w[x] = s[x]
  BY <1>7, <1>8, <1>9
<1>11. QED BY <1>2, <1>5, <1>9, <1>10


\* A row holds what is printed after its header, of the same message.
LEMMA RowWithin ==
  ASSUME NEW messages \in Seq(Message), NEW U, NEW text \in Seq(Texts),
         Printed(U, messages, text), NEW k \in 1..Len(messages),
         NEW j \in 1..(Len(messages[k].body) + 6),
         NEW row, row = RowAt(text, U[k - 1] + j), row # <<>>
  PROVE  /\ row \in Seq(Texts)
         /\ \A x \in 1..Len(row) :
              j + x \in 2..(Len(messages[k].body) + 6) /\ row[x] = RowOf(messages[k])[j + x]
<1>1. PICK m \in Message, l \in Nat, u \in Nat, t \in Nat :
        m = messages[k] /\ l = Len(m.body) /\ u = U[k - 1] /\ t = Len(text)
  BY ElementOfSeq, RowIs, MessageEnds, LenProperties
<1>2. PICK i \in Nat, v \in Nat : /\ i = u + j /\ v = U[k] /\ v = u + (l + 6) /\ i <= v /\ v <= t
                                  /\ v = t \/ HeaderAt(text, v + 1)
  <2>1. U[k] = u + (l + 6) /\ U[k] \in Nat /\ U[k] <= t
        /\ (U[k] = t \/ HeaderAt(text, U[k] + 1))
    BY <1>1, MessageEnds
  <2>2. j \in 1..(l + 6)
    BY <1>1
  <2>3. u + j \in Nat /\ u + j <= u + (l + 6)
    BY <2>2
  <2>4. QED BY <2>1, <2>3
<1> DEFINE ends == {p \in i..v : p = v \/ HeaderAt(text, p + 1)}
<1>3. PICK e \in ends : \A p \in ends : e <= p
  <2>1. ends \in SUBSET Nat
    BY <1>2
  <2>2. v \in ends
    BY <1>2
  <2> HIDE DEF ends
  <2>3. QED BY <2>1, <2>2, LeastOf
<1>4. e \in i..v /\ e \in i..t /\ e \in Nat
  BY <1>2
<1>5. e = t \/ HeaderAt(text, e + 1)
  BY <1>2
<1>6. ASSUME NEW p \in (i + 1)..e PROVE ~HeaderAt(text, p)
  <2>1. SUFFICES ASSUME HeaderAt(text, p) PROVE FALSE
    OBVIOUS
  <2>2. p - 1 \in i..v /\ (p - 1) + 1 = p /\ ~(e <= p - 1)
    BY <1>2, <1>4
  <2>3. p - 1 \in ends
    BY <2>1, <2>2
  <2>4. QED BY <1>3, <2>2, <2>3
<1> HIDE DEF ends
<1>7. EndOf(text, i) = e
  BY <1>1, <1>4, <1>5, <1>6, EndIs
<1>8. PICK s : s = SubSeq(text, i + 1, e) /\ row = Trim(s)
  BY <1>1, <1>2, <1>7 DEF RowAt
<1>9. PICK d \in Nat : d = e - i /\ i + d = e
  BY <1>4
<1>10. /\ s \in Seq(Texts) /\ Len(s) = d
       /\ \A x \in 1..d : i + x \in 1..Len(text) /\ s[x] = text[i + x]
  <2>1. i + d <= Len(text)
    BY <1>1, <1>4, <1>9
  <2>2. /\ SubSeq(text, i + 1, i + d) \in Seq(Texts) /\ Len(SubSeq(text, i + 1, i + d)) = d
        /\ \A x \in 1..d : i + x \in 1..Len(text) /\ SubSeq(text, i + 1, i + d)[x] = text[i + x]
    BY <2>1, SubSeqAfter
  <2>3. QED BY <1>8, <1>9, <2>2
<1>11. row \in Seq(Texts) /\ \A x \in 1..Len(row) : x \in 1..d /\ row[x] = s[x]
  <2>1. Trim(s) # <<>>
    BY <1>8
  <2>2. /\ Trim(s) \in Seq(Texts) /\ Len(Trim(s)) <= Len(s)
        /\ \A x \in 1..Len(Trim(s)) : x \in 1..Len(s) /\ Trim(s)[x] = s[x]
    BY <1>10, <2>1, TrimBegins
  <2>3. QED BY <1>8, <1>10, <2>2
<1>12. ASSUME NEW x \in 1..d
       PROVE  j + x \in 2..(l + 6) /\ s[x] = RowOf(m)[j + x]
  <2>1. j + x \in 2..(l + 6) /\ i + x = u + (j + x)
    <3>1. j \in 1..(l + 6) /\ x \in Nat /\ 1 <= x /\ x <= d /\ (u + j) + d = e /\ e <= u + (l + 6)
      BY <1>1, <1>2, <1>4, <1>9
    <3>2. j \in Nat /\ 1 <= j
      BY <3>1
    <3>3. QED BY <1>2, <3>1, <3>2
  <2>2. j + x \in 1..(l + 6)
    BY <2>1
  <2>3. text[u + (j + x)] = RowOf(m)[j + x]
    BY <1>1, <2>2 DEF Printed
  <2>4. QED BY <1>10, <2>1, <2>3
<1>13. ASSUME NEW x \in 1..Len(row)
       PROVE  j + x \in 2..(l + 6) /\ row[x] = RowOf(m)[j + x]
  <2>1. x \in 1..d /\ row[x] = s[x]
    BY <1>11
  <2>2. QED BY <1>12, <2>1
<1>14. QED BY <1>1, <1>11, <1>13

LEMMA PlaceNumbers ==
  ASSUME NEW n \in Nat, NEW x \in 1..n
  PROVE  x \in Nat /\ 1 <= x
  OBVIOUS

\* The places of a row that begins within a body.
LEMMA InnerPlaces ==
  ASSUME NEW l \in Nat, NEW h \in 2..l, NEW x \in Nat, 1 <= x, (h + 4) + x \in 2..(l + 6)
  PROVE  \/ (h + 4) + x = l + 5
         \/ (h + 4) + x = l + 6
         \/ h + x \in (h + 1)..l /\ h + x \in 1..l /\ (h + 4) + x = (h + x) + 4
  OBVIOUS

\* If a row that begins within a message's body can be read, the body has its fields.
LEMMA InnerRowFields ==
  ASSUME NEW messages \in Seq(Message), NEW U, NEW text \in Seq(Texts),
         Printed(U, messages, text), NEW k \in 1..Len(messages),
         NEW j \in 1..(Len(messages[k].body) + 6), j - 4 \in Inner(messages[k]),
         NEW row, row = RowAt(text, U[k - 1] + j), row # <<>>, Readable(row)
  PROVE  FieldsAfter(messages[k], j - 4)
<1>1. PICK m \in Message, l \in Nat, h \in Int : m = messages[k] /\ l = Len(m.body) /\ h = j - 4
  <2>1. messages[k] \in Message
    BY ElementOfSeq
  <2>2. PICK l \in Nat : l = Len(messages[k].body)
    BY <2>1, RowIs
  <2>3. j \in 1..(l + 6)
    BY <2>2
  <2>4. j - 4 \in Int
    BY <2>3
  <2>5. QED BY <2>1, <2>2, <2>4
<1>2. h \in 2..l /\ h \in Nat /\ j = h + 4
  <2>1. h \in 2..l
    BY <1>1 DEF Inner
  <2>2. j \in Nat
    BY <1>1
  <2>3. QED BY <1>1, <2>1, <2>2
<1>3. /\ row \in Seq(Texts)
      /\ \A x \in 1..Len(row) : j + x \in 2..(l + 6) /\ row[x] = RowOf(m)[j + x]
  BY <1>1, RowWithin
<1>4. \A kind \in {"_id=", "address=", ", body="} : Places(row, kind) # {}
  BY DEF Readable
<1>5. ASSUME NEW kind \in {"_id=", "address=", ", body="}
      PROVE  \E y \in (h + 1)..l : m.body[y][1] = kind
  <2>1. PICK x \in 1..Len(row) : row[x][1] = kind
    BY <1>4 DEF Places
  <2>2. (h + 4) + x \in 2..(l + 6) /\ row[x] = RowOf(m)[(h + 4) + x]
    BY <1>2, <1>3
  <2>3. \/ (h + 4) + x = l + 5
        \/ (h + 4) + x = l + 6
        \/ h + x \in (h + 1)..l /\ h + x \in 1..l /\ (h + 4) + x = (h + x) + 4
    <3>1. x \in Nat /\ 1 <= x
      <4>1. Len(row) \in Nat
        BY <1>3, LenProperties
      <4>2. QED BY <4>1, PlaceNumbers
    <3>2. QED BY <1>2, <2>2, <3>1, InnerPlaces
  <2>4. CASE (h + 4) + x = l + 5
    <3>1. PICK t : t = row[x]
      OBVIOUS
    <3>2. t = <<", date=", m.date>>
      BY <1>1, <2>2, <2>4, <3>1, RowIs
    <3>3. t[1] = ", date="
      BY <3>2, PairIs
    <3>4. QED BY <1>5, <2>1, <3>1, <3>3
  <2>5. CASE (h + 4) + x = l + 6
    <3>1. PICK t : t = row[x]
      OBVIOUS
    <3>2. t = <<"newline", 0>>
      BY <1>1, <2>2, <2>5, <3>1, RowIs DEF Newline
    <3>3. t[1] = "newline"
      BY <3>2, PairIs
    <3>4. QED BY <1>5, <2>1, <3>1, <3>3
  <2>6. CASE h + x \in (h + 1)..l /\ h + x \in 1..l /\ (h + 4) + x = (h + x) + 4
    <3>1. PICK y \in 1..l : y \in (h + 1)..l /\ (h + 4) + x = y + 4
      BY <2>6
    <3>2. row[x] = m.body[y]
      BY <1>1, <2>2, <3>1, RowIs
    <3>3. QED BY <2>1, <3>1, <3>2
  <2>7. QED BY <2>3, <2>4, <2>5, <2>6
<1>6. FieldsAfter(m, h)
  BY <1>1, <1>5, ZenonT(60) DEF FieldsAfter
<1>7. QED BY <1>1, <1>6

\* If the last row that a message's body begins can be read, the body has its fields.
LEMMA LastRowFields ==
  ASSUME NEW messages \in Seq(Message), NEW U, NEW text \in Seq(Texts),
         Printed(U, messages, text), NEW k \in 1..Len(messages),
         NEW h \in Inner(messages[k]), \A i \in Inner(messages[k]) : i <= h,
         ParseSMSOutput(text).error = "none"
  PROVE  FieldsAfter(messages[k], h)
<1>1. PICK m \in Message, l \in Nat : m = messages[k] /\ l = Len(m.body)
  BY ElementOfSeq, RowIs
<1>2. h \in 2..l /\ \A i \in Inner(m) : i \in 2..l /\ i <= h
  BY <1>1 DEF Inner
<1>3. PICK j \in 1..(l + 4) : j = h + 4 /\ h \in 2..l /\ j - 4 = h
  BY <1>2
<1>4. PICK i : i = U[k - 1] + j
  OBVIOUS
<1>5. HeaderAt(text, i) /\ i \in 1..Len(text)
  <2>1. j \in 1..(Len(messages[k].body) + 6)
    BY <1>1, <1>3
  <2>2. HeaderAt(text, U[k - 1] + j) <=> j = 1 \/ j - 4 \in Inner(messages[k])
    BY <2>1, HeaderPlaces
  <2>3. U[k - 1] + j \in 1..Len(text)
    BY <2>1 DEF Printed
  <2>4. QED BY <1>1, <1>3, <1>4, <2>2, <2>3
<1>6. PICK row \in Seq(Texts) :
        /\ row = RowAt(text, i) /\ row # <<>>
        /\ Len(row) = (l + 5) - j
        /\ \A x \in 1..Len(row) : row[x] = RowOf(m)[j + x]
  <2>1. j \in 1..(Len(messages[k].body) + 4)
    BY <1>1, <1>3
  <2>2. \A y \in Inner(messages[k]) : y + 4 <= j
    <3>1. \A y \in Inner(m) : y + 4 <= j
      BY <1>2, <1>3
    <3>2. QED BY <1>1, <3>1
  <2>3. \E row \in Seq(Texts) :
          /\ row = RowAt(text, U[k - 1] + j) /\ row # <<>>
          /\ Len(row) = (Len(messages[k].body) + 5) - j
          /\ \A x \in 1..Len(row) : row[x] = RowOf(messages[k])[j + x]
    BY <2>1, <2>2, RowPlace
  <2>4. QED BY <1>1, <1>4, <2>3
<1>7. Readable(row)
  BY <1>5, <1>6, RowRefuses
<1>8. QED
  <2>1. j \in 1..(Len(messages[k].body) + 6) /\ j - 4 \in Inner(messages[k])
    BY <1>1, <1>3
  <2>2. FieldsAfter(messages[k], j - 4)
    BY <1>4, <1>6, <1>7, <2>1, InnerRowFields
  <2>3. QED BY <1>3, <2>2

LEMMA DatePlaces ==
  ASSUME NEW h \in Nat, NEW c \in 1..(h + 2)
  PROVE  /\ \/ 1 + c = 2 \/ 1 + c = 3 \/ 1 + c = 4
            \/ c - 3 \in 1..(h - 1) /\ 1 + c = (c - 3) + 4
         /\ \A x \in ((c - 3) + 1)..(h - 1) : x + 3 \in (c + 1)..(h + 2) /\ 1 + (x + 3) = x + 4
  OBVIOUS

\* A date ends the line before place h of a body.
DateBefore(m, h) ==
  \E d \in 1..(h - 1) :
    /\ m.body[d][1] = ", date="
    /\ \A x \in (d + 1)..(h - 1) : m.body[x] = Newline

\* The first row of a message.
Top(text, U, k) == RowAt(text, U[k - 1] + 1)

\* If the first row of a message can be read although its body begins others, a date ends
\* the line before the first of them.
LEMMA FirstRowDate ==
  ASSUME NEW messages \in Seq(Message), NEW U, NEW text \in Seq(Texts),
         Printed(U, messages, text), NEW k \in 1..Len(messages),
         NEW h \in Inner(messages[k]), \A i \in Inner(messages[k]) : h <= i,
         Readable(Top(text, U, k))
  PROVE  DateBefore(messages[k], h)
<1>1. PICK m \in Message, l \in Nat : m = messages[k] /\ l = Len(m.body)
  BY ElementOfSeq, RowIs
<1>2. h \in Nat /\ h \in 2..l
  BY <1>1 DEF Inner
<1>3. PICK row \in Seq(Texts), c \in 1..(h + 2) :
        row = RowAt(text, U[k - 1] + 1) /\ row # <<>> /\ Begins(row, c, m, h)
  BY <1>1, FirstRow
<1>5. Readable(row)
  BY <1>3 DEF Top
<1>6. RowOf(m)[1 + c][1] = ", date="
  <2>1. Last(row)[1] = ", date="
    BY <1>5 DEF Readable, DateAt
  <2>2. Last(row) = row[c] /\ c \in 1..c
    BY <1>2, <1>3 DEF Last, Begins
  <2>3. row[c] = RowOf(m)[1 + c]
    BY <1>3, <2>2 DEF Begins
  <2>4. QED BY <2>1, <2>2, <2>3
<1>7. 1 + c # 2 /\ 1 + c # 3 /\ 1 + c # 4
  <2>1. PICK f, g, e : f = RowOf(m)[2] /\ g = RowOf(m)[3] /\ e = RowOf(m)[4]
    OBVIOUS
  <2>2. f = <<"_id=", m.id>> /\ g = <<"address=", m.address>> /\ e = <<", body=", 0>>
    BY <2>1, RowIs
  <2>3. f[1] = "_id=" /\ g[1] = "address=" /\ e[1] = ", body="
    BY <2>2, PairIs
  <2>4. QED BY <1>6, <2>1, <2>3
<1>8. c - 3 \in 1..(h - 1) /\ 1 + c = (c - 3) + 4
  BY <1>2, <1>7, DatePlaces
<1>9. PICK d \in 1..(h - 1) : d = c - 3 /\ 1 + c = d + 4
  BY <1>8
<1>10. \A x \in 1..l : RowOf(m)[x + 4] = m.body[x]
  BY <1>1, RowIs
<1>11. \A x \in 1..(h - 1) : x \in 1..l
  BY <1>2
<1>12. m.body[d][1] = ", date="
  BY <1>6, <1>9, <1>10, <1>11
<1>13. ASSUME NEW x \in (d + 1)..(h - 1) PROVE m.body[x] = Newline
  <2>1. x + 3 \in (c + 1)..(h + 2) /\ 1 + (x + 3) = x + 4
    <3>1. x \in ((c - 3) + 1)..(h - 1)
      BY <1>9
    <3>2. QED BY <1>2, <3>1, DatePlaces
  <2>2. RowOf(m)[x + 4] = Newline
    BY <1>3, <2>1 DEF Begins
  <2>3. x \in 1..l
    BY <1>2
  <2>4. QED BY <1>10, <2>2, <2>3
<1>14. QED BY <1>1, <1>12, <1>13 DEF DateBefore

LEMMA PlacesBefore ==
  ASSUME NEW l \in Nat, NEW g \in 2..l, NEW d \in 1..(g - 1), d # g - 1
  PROVE  d + 1 < g /\ d \in 1..l /\ g \in 1..l
  OBVIOUS

\* A row's date and the fields of another, with nothing between them but a line's end.
LEMMA DateAndFields ==
  ASSUME NEW m \in Message, NEW g \in Inner(m), DateBefore(m, g), FieldsAfter(m, g)
  PROVE  Mimics(m)
<1>0. PICK d \in 1..(g - 1) :
        m.body[d][1] = ", date=" /\ \A x \in (d + 1)..(g - 1) : m.body[x] = Newline
  BY DEF DateBefore
<1>1. PICK l \in Nat : l = Len(m.body)
  BY RowIs
<1>2. g \in 2..l /\ m.body[g] = Header /\ m.body[g - 1] = Newline
  BY <1>1 DEF Inner
<1>3. d # g - 1
  <2>1. PICK t : t = m.body[g - 1]
    OBVIOUS
  <2>2. t = <<"newline", 0>>
    BY <1>2, <2>1 DEF Newline
  <2>3. t[1] = "newline"
    BY <2>2, PairIs
  <2>4. QED BY <1>0, <2>1, <2>3
<1>4. d + 1 < g /\ d \in 1..l /\ g \in 1..l
  BY <1>1, <1>2, <1>3, PlacesBefore
<1>5. QED BY <1>0, <1>1, <1>2, <1>4 DEF Mimics, FieldsAfter

\* The first row of a message has its marks in order.
LEMMA FirstRowStands ==
  ASSUME NEW messages \in Seq(Message), NEW U, NEW text \in Seq(Texts),
         Printed(U, messages, text), NEW k \in 1..Len(messages),
         NEW row, row = RowAt(text, U[k - 1] + 1), row # <<>>
  PROVE  ~Panics(row)
<1>1. SUFFICES ASSUME Panics(row) PROVE FALSE
  OBVIOUS
<1>2. Places(row, ", body=") # {}
  BY <1>1 DEF Panics, Readable
<1>3. PICK m \in Message, l \in Nat, n \in Nat :
        m = messages[k] /\ l = Len(m.body) /\ n = Len(row)
  <2>1. messages[k] \in Message
    BY ElementOfSeq
  <2>2. PICK l \in Nat : l = Len(messages[k].body)
    BY <2>1, RowIs
  <2>3. 1 \in 1..(Len(messages[k].body) + 6)
    BY <2>2
  <2>4. row \in Seq(Texts)
    BY <2>3, RowWithin
  <2>5. Len(row) \in Nat
    BY <2>4, LenProperties
  <2>6. QED BY <2>1, <2>2, <2>5
<1>4. row \in Seq(Texts) /\ \A x \in 1..n : row[x] = RowOf(m)[1 + x]
  <2>1. 1 \in 1..(Len(messages[k].body) + 6)
    BY <1>3
  <2>2. QED BY <1>3, <2>1, RowWithin
<1>5. ASSUME NEW x \in 1..n
      PROVE  /\ x = 1 => row[x][1] = "_id="
             /\ x = 2 => row[x][1] = "address="
             /\ x = 3 => row[x][1] = ", body="
  <2>1. PICK f, g, e : f = RowOf(m)[2] /\ g = RowOf(m)[3] /\ e = RowOf(m)[4]
    OBVIOUS
  <2>2. f = <<"_id=", m.id>> /\ g = <<"address=", m.address>> /\ e = <<", body=", 0>>
    BY <2>1, RowIs
  <2>3. f[1] = "_id=" /\ g[1] = "address=" /\ e[1] = ", body="
    BY <2>2, PairIs
  <2>4. row[x] = RowOf(m)[1 + x] /\ 1 + 1 = 2 /\ 1 + 2 = 3 /\ 1 + 3 = 4
    BY <1>4
  <2>5. QED BY <2>1, <2>3, <2>4
<1>6. PICK p \in 1..n : row[p][1] = ", body="
  BY <1>2, <1>3 DEF Places
<1>7. p # 1 /\ p # 2
  BY <1>5, <1>6
<1>8. 1 \in 1..n /\ 2 \in 1..n /\ 3 \in 1..n
  BY <1>7
<1>9. row[1][1] = "_id=" /\ row[2][1] = "address=" /\ row[3][1] = ", body="
  BY <1>5, <1>8
<1>10. First(row, "address=") = 2
  <2>1. \A i \in 1..(2 - 1) : row[i][1] # "address="
    BY <1>9, RowNumbers
  <2>2. 2 \in 1..Len(row)
    BY <1>3, <1>8
  <2>3. QED BY <1>4, <1>9, <2>1, <2>2, FirstIs
<1>11. First(row, ", body=") = 3
  <2>1. \A i \in 1..(3 - 1) : row[i][1] # ", body="
    BY <1>9, RowNumbers
  <2>2. 3 \in 1..Len(row)
    BY <1>3, <1>8
  <2>3. QED BY <1>4, <1>9, <2>1, <2>2, FirstIs
<1>12. QED BY <1>1, <1>10, <1>11, InOrder

LEMMA RowsType ==
  ASSUME NEW text \in Seq(Texts)
  PROVE  Len(Rows(text)) \in Nat
<1>1. PICK t \in Nat : t = Len(text)
  BY LenProperties
<1>2. PICK S : S = {RowAt(text, q) : q \in 1..t}
  OBVIOUS
<1>3. PICK G : G = [q \in 1..t |-> RowsFrom(text, q)]
  OBVIOUS
<1>4. G \in Seq(Seq(S))
  <2>1. ASSUME NEW q \in 1..t PROVE RowsFrom(text, q) \in Seq(S)
    <3>1. RowAt(text, q) \in S
      BY <1>2
    <3>2. <<RowAt(text, q)>> \in Seq(S) /\ <<>> \in Seq(S)
      BY <3>1
    <3>3. QED BY <3>2 DEF RowsFrom
  <2>2. QED BY <1>3, <2>1
<1>5. Rows(text) = FlattenSeq(G)
  BY <1>1, <1>3 DEF Rows
<1>6. QED BY <1>4, <1>5, FlattenType, LenProperties

\* The rows come in the order of the text.
LEMMA RowsInOrder ==
  ASSUME NEW text \in Seq(Texts), NEW y \in 1..Len(Rows(text))
  PROVE  \E i \in 1..Len(text) :
           /\ HeaderAt(text, i) /\ RowAt(text, i) # <<>> /\ Rows(text)[y] = RowAt(text, i)
           /\ \A o \in 1..(i - 1) : HeaderAt(text, o) /\ RowAt(text, o) # <<>> =>
                \E z \in 1..Len(Rows(text)) : z < y /\ Rows(text)[z] = RowAt(text, o)
<1>1. PICK t \in Nat : t = Len(text)
  BY LenProperties
<1>2. PICK S : S = {RowAt(text, q) : q \in 1..t}
  OBVIOUS
<1>3. PICK G : G = [q \in 1..t |-> RowsFrom(text, q)]
  OBVIOUS
<1>4. G \in Seq(Seq(S)) /\ Len(G) = t /\ \A q \in 1..t : G[q] = RowsFrom(text, q)
  <2>1. ASSUME NEW q \in 1..t PROVE RowsFrom(text, q) \in Seq(S)
    <3>1. RowAt(text, q) \in S
      BY <1>2
    <3>2. <<RowAt(text, q)>> \in Seq(S) /\ <<>> \in Seq(S)
      BY <3>1
    <3>3. QED BY <3>2 DEF RowsFrom
  <2>2. QED BY <1>3, <2>1
<1>5. Rows(text) = FlattenSeq(G)
  BY <1>1, <1>3 DEF Rows
<1>6. PICK U : Layout(U, G, FlattenSeq(G))
  BY <1>4, LayoutExists
<1>7. PICK i \in 1..t, j \in Nat : j \in 1..Len(G[i]) /\ y = U[i - 1] + j
  <2>1. y \in 1..Len(FlattenSeq(G))
    BY <1>5
  <2>2. \E i \in 1..Len(G) : \E j \in 1..Len(G[i]) : y = U[i - 1] + j
    BY <1>6, <2>1 DEF Layout
  <2>3. QED BY <1>4, <2>2
<1>8. ASSUME NEW q \in 1..t
      PROVE  /\ HeaderAt(text, q) /\ RowAt(text, q) # <<>> => G[q] = <<RowAt(text, q)>>
             /\ Len(G[q]) # 0 => HeaderAt(text, q) /\ RowAt(text, q) # <<>>
             /\ \A o \in 1..Len(G[q]) : o = 1
  <2>1. G[q] = RowsFrom(text, q)
    BY <1>4
  <2>2. Len(<<>>) = 0 /\ Len(<<RowAt(text, q)>>) = 1
    OBVIOUS
  <2>3. \A o \in 1..0 : o = 1
    OBVIOUS
  <2>4. \A o \in 1..1 : o = 1
    OBVIOUS
  <2>5. G[q] = <<>> \/ G[q] = <<RowAt(text, q)>>
    BY <2>1 DEF RowsFrom
  <2>6. QED BY <2>1, <2>2, <2>3, <2>4, <2>5 DEF RowsFrom
<1>9. j = 1 /\ HeaderAt(text, i) /\ RowAt(text, i) # <<>> /\ G[i] = <<RowAt(text, i)>>
  <2>1. Len(G[i]) # 0
    BY <1>7
  <2>2. QED BY <1>7, <1>8, <2>1
<1>10. Rows(text)[y] = RowAt(text, i)
  <2>1. FlattenSeq(G)[U[i - 1] + j] = G[i][j]
    BY <1>4, <1>6, <1>7 DEF Layout
  <2>2. QED BY <1>5, <1>7, <1>9, <2>1
<1>11. ASSUME NEW o \in 1..(i - 1), HeaderAt(text, o), RowAt(text, o) # <<>>
       PROVE  \E z \in 1..Len(Rows(text)) : z < y /\ Rows(text)[z] = RowAt(text, o)
  <2>1. o \in 1..t /\ o < i /\ o \in 0..t /\ o <= i - 1 /\ i - 1 \in 0..t
    BY <1>1
  <2>2. G[o] = <<RowAt(text, o)>>
    BY <1>8, <1>11, <2>1
  <2>3. PICK w : w = G[o] /\ Len(w) = 1 /\ w[1] = RowAt(text, o)
    <3>1. \A v : Len(<<v>>) = 1 /\ <<v>>[1] = v
      OBVIOUS
    <3>2. QED BY <2>2, <3>1
  <2>4. U[o - 1] + 1 \in 1..Len(FlattenSeq(G)) /\ FlattenSeq(G)[U[o - 1] + 1] = w[1]
    <3>1. 1 \in 1..Len(G[o])
      BY <2>3
    <3>2. QED BY <1>4, <1>6, <2>1, <2>3, <3>1 DEF Layout
  <2>5. U[o] = U[o - 1] + 1 /\ U[o] <= U[i - 1] /\ U[i - 1] \in Nat /\ U[o] \in Nat
    BY <1>4, <1>6, <2>1, <2>3 DEF Layout
  <2>6. U[o - 1] + 1 < y
    BY <1>7, <1>9, <2>5
  <2>7. QED BY <1>5, <2>3, <2>4, <2>6
<1>12. QED BY <1>1, <1>9, <1>10, <1>11

\* Where the reader panics, the rows before can be read.
LEMMA FirstFailing ==
  ASSUME NEW text, NEW n \in Nat, n = Len(Rows(text)), ParseSMSOutput(text).error = "panic"
  PROVE  \E y \in 1..n : Panics(Rows(text)[y]) /\ \A z \in 1..n : z < y => Readable(Rows(text)[z])
<1> DEFINE failing == {k \in 1..n : ~Readable(Rows(text)[k]) \/ Panics(Rows(text)[k])}
           first   == CHOOSE k \in failing : \A j \in failing : k <= j
<1>1. ParseSMSOutput(text)
        = IF Failure \in ToSet(text) THEN Result("sqlite", <<>>)
          ELSE IF failing = {} THEN Result("none", [k \in 1..n |-> ParseRow(Rows(text)[k])])
          ELSE Result(IF Panics(Rows(text)[first]) THEN "panic" ELSE "row", <<>>)
  BY DEF ParseSMSOutput
<1>2. failing # {} /\ Panics(Rows(text)[first])
  <2>1. \A e, s : Result(e, s).error = e
    BY DEF Result
  <2>2. "sqlite" # "panic" /\ "none" # "panic" /\ "row" # "panic"
    OBVIOUS
  <2> HIDE DEF failing, first
  <2>3. QED BY <1>1, <2>1, <2>2
<1>3. failing \in SUBSET Nat /\ failing \subseteq 1..n
  OBVIOUS
<1>4. first \in failing /\ \A j \in failing : first <= j
  <2>1. \E k \in failing : \A j \in failing : k <= j
    <3> HIDE DEF failing
    <3>1. QED BY <1>2, <1>3, LeastOf
  <2> HIDE DEF failing
  <2>2. QED BY <2>1
<1>5. ASSUME NEW z \in 1..n, z < first PROVE Readable(Rows(text)[z])
  <2>1. z \notin failing
    <3>1. PICK f \in Nat : f = first
      BY <1>3, <1>4
    <3> HIDE DEF failing, first
    <3>2. QED BY <1>4, <1>5, <3>1
  <2>2. QED BY <2>1
<1>6. first \in 1..n
  BY <1>3, <1>4
<1> HIDE DEF failing, first
<1>7. QED BY <1>2, <1>5, <1>6

\* The reader panics only at a body that spells a row.
LEMMA PanicIsSpelt ==
  ASSUME NEW messages \in Seq(Message), ParseSMSOutput(ContentQuery(messages)).error = "panic"
  PROVE  \E k \in 1..Len(messages) : Mimics(messages[k])
<1>1. PICK text \in Seq(Texts) : \E U :
        text = ContentQuery(messages) /\ Printed(U, messages, text)
  BY PrintedText
<1>2. PICK U : text = ContentQuery(messages) /\ Printed(U, messages, text)
  BY <1>1
<1> DEFINE n == Len(Rows(text))
<1>3. PICK y \in 1..n :
        Panics(Rows(text)[y]) /\ \A z \in 1..n : z < y => Readable(Rows(text)[z])
  <2>1. n \in Nat
    BY RowsType
  <2>2. ParseSMSOutput(text).error = "panic"
    BY <1>2
  <2>3. QED BY <2>1, <2>2, FirstFailing
<1>4. PICK i \in 1..Len(text) :
        /\ HeaderAt(text, i) /\ RowAt(text, i) # <<>> /\ Rows(text)[y] = RowAt(text, i)
        /\ \A o \in 1..(i - 1) : HeaderAt(text, o) /\ RowAt(text, o) # <<>> =>
             \E z \in 1..n : z < y /\ Rows(text)[z] = RowAt(text, o)
  BY RowsInOrder
<1> HIDE DEF n
<1>5. PICK row : row = RowAt(text, i) /\ row # <<>> /\ Panics(row) /\ Readable(row)
  BY <1>3, <1>4 DEF Panics
<1>6. PICK k \in 1..Len(messages) : \E j \in 1..(Len(messages[k].body) + 6) : i = U[k - 1] + j
  BY <1>2 DEF Printed
<1>7. PICK j \in 1..(Len(messages[k].body) + 6) : i = U[k - 1] + j
  BY <1>6
<1>8. PICK m \in Message, l \in Nat, u \in Nat :
        m = messages[k] /\ l = Len(m.body) /\ u = U[k - 1]
  BY <1>2, ElementOfSeq, RowIs, MessageEnds
<1>9. j # 1
  BY <1>2, <1>5, <1>7, FirstRowStands
<1>10. j - 4 \in Inner(messages[k])
  BY <1>2, <1>4, <1>7, <1>9, HeaderPlaces
<1>11. FieldsAfter(m, j - 4)
  BY <1>2, <1>5, <1>7, <1>8, <1>10, InnerRowFields
<1>12. PICK g \in Inner(m) : \A q \in Inner(m) : g <= q
  <2>1. j - 4 \in Inner(m)
    BY <1>8, <1>10
  <2>2. \A q \in Inner(m) : q \in 2..l
    BY <1>8 DEF Inner
  <2>3. Inner(m) # {} /\ Inner(m) \in SUBSET Nat
    BY <2>1, <2>2
  <2>4. QED BY <2>3, LeastOf
<1>13. Readable(Top(text, U, k))
  <2>1. RowAt(text, u + 1) # <<>>
    BY <1>2, <1>8, <1>12, FirstRow
  <2>2. HeaderAt(text, u + 1)
    <3>1. 1 \in 1..(Len(messages[k].body) + 6)
      BY <1>8
    <3>2. HeaderAt(text, U[k - 1] + 1)
      BY <1>2, <3>1, HeaderPlaces
    <3>3. QED BY <1>8, <3>2
  <2>3. u + 1 \in 1..(i - 1)
    <3>1. j \in 1..(l + 6) /\ i = u + j
      BY <1>7, <1>8
    <3>2. QED BY <1>9, <3>1
  <2>4. PICK z \in 1..n : z < y /\ Rows(text)[z] = RowAt(text, u + 1)
    BY <1>4, <2>1, <2>2, <2>3
  <2>5. QED BY <1>3, <1>8, <2>4 DEF Top
<1>14. DateBefore(m, g)
  <2>1. g \in Inner(messages[k]) /\ \A q \in Inner(messages[k]) : g <= q
    BY <1>8, <1>12
  <2>2. DateBefore(messages[k], g)
    BY <1>2, <1>13, <2>1, FirstRowDate
  <2>3. QED BY <1>8, <2>2
<1>15. FieldsAfter(m, g)
  <2>1. g \in 2..l /\ j - 4 \in 2..l /\ g <= j - 4
    BY <1>8, <1>10, <1>12 DEF Inner
  <2>2. \A x \in ((j - 4) + 1)..l : x \in (g + 1)..l
    BY <2>1
  <2>3. QED BY <1>8, <1>11, <2>2 DEF FieldsAfter
<1>16. QED BY <1>8, <1>12, <1>14, <1>15, DateAndFields

\* Messages that can be read one and all, those apart that spell a row, can.
LEMMA IllegibleIsRefused ==
  ASSUME NEW messages \in Seq(Message), NEW k \in 1..Len(messages),
         ~Legible(messages[k]), ~Mimics(messages[k])
  PROVE  ParseSMSOutput(ContentQuery(messages)).error # "none"
<1>1. PICK text \in Seq(Texts) : \E U :
        text = ContentQuery(messages) /\ Printed(U, messages, text)
  BY PrintedText
<1>2. PICK U : text = ContentQuery(messages) /\ Printed(U, messages, text)
  BY <1>1
<1>3. PICK m \in Message, l \in Nat : m = messages[k] /\ l = Len(m.body)
  BY ElementOfSeq, RowIs
<1>4. CASE Failure \in ToSet(m.body)
  <2>1. Failure \in ToSet(text)
    BY <1>2, <1>3, <1>4, FailureInBody
  <2>2. ParseSMSOutput(text) = Result("sqlite", <<>>)
    BY <2>1 DEF ParseSMSOutput
  <2>3. QED BY <1>2, <2>2 DEF Result
<1>5. CASE Failure \notin ToSet(m.body)
  <2>1. SUFFICES ASSUME ParseSMSOutput(text).error = "none" PROVE FALSE
    BY <1>2
  <2>2. Inner(m) # {}
    BY <1>3, <1>5, LegibleHasNoInner
  <2>3. Inner(m) \in SUBSET (0..l) /\ Inner(m) \in SUBSET Nat /\ \A i \in Inner(m) : i \in 2..l
    BY <1>3 DEF Inner
  <2>4. PICK g \in Inner(m) : \A i \in Inner(m) : g <= i
    BY <2>2, <2>3, LeastOf
  <2>5. PICK h \in Inner(m) : \A i \in Inner(m) : i <= h
    BY <2>2, <2>3, Greatest
  <2>6. g \in 2..l /\ h \in 2..l /\ g <= h
    BY <2>3, <2>4
  <2>7. Readable(Top(text, U, k))
    <3>1. PICK i : i = U[k - 1] + 1
      OBVIOUS
    <3>2. HeaderAt(text, i) /\ i \in 1..Len(text)
      <4>1. 1 \in 1..(Len(messages[k].body) + 6)
        BY <1>3
      <4>2. HeaderAt(text, U[k - 1] + 1) <=> 1 = 1 \/ 1 - 4 \in Inner(messages[k])
        BY <1>2, <4>1, HeaderPlaces
      <4>3. U[k - 1] + 1 \in 1..Len(text)
        BY <1>2, <4>1 DEF Printed
      <4>4. QED BY <3>1, <4>2, <4>3
    <3>3. RowAt(text, i) # <<>>
      BY <1>2, <1>3, <2>4, <3>1, FirstRow
    <3>4. Readable(RowAt(text, i))
      BY <2>1, <3>2, <3>3, RowRefuses
    <3>5. QED BY <3>1, <3>4 DEF Top
  <2>8. DateBefore(m, g)
    <3>1. g \in Inner(messages[k]) /\ \A i \in Inner(messages[k]) : g <= i
      BY <1>3, <2>4
    <3>2. DateBefore(messages[k], g)
      BY <1>2, <2>7, <3>1, FirstRowDate
    <3>3. QED BY <1>3, <3>2
  <2>9. FieldsAfter(m, h)
    <3>1. h \in Inner(messages[k]) /\ \A i \in Inner(messages[k]) : i <= h
      BY <1>3, <2>5
    <3>2. FieldsAfter(messages[k], h)
      BY <1>2, <2>1, <3>1, LastRowFields
    <3>3. QED BY <1>3, <3>2
  <2>10. \A y \in (h + 1)..l : y \in (g + 1)..l
    BY <2>6
  <2>11. FieldsAfter(m, g)
    BY <1>3, <2>9, <2>10 DEF FieldsAfter
  <2>12. QED BY <1>3, <2>4, <2>8, <2>11, DateAndFields
<1>6. QED BY <1>4, <1>5

-------------------------------------------------------------------------------
(* The properties, of every text *)

\* Messages, counts of words and characters.
TypeInv == inbox \in Seq(Message) /\ words \in Counts /\ characters \in Seq(Characters)

LEMMA NothingYet == <<>> \in Seq(Message) /\ NoWords \in Counts /\ <<>> \in Seq(Characters)
<1>1. NoWords \in Counts
  BY DEF NoWords, Counts
<1>2. QED BY <1>1

\* A message grows where it is.
LEMMA WrittenMessage ==
  ASSUME NEW m \in Message, NEW t \in Tokens
  PROVE  [m EXCEPT !.body = Append(@, t)] \in Message
<1>1. Append(m.body, t) \in Seq(Tokens)
  BY DEF Message
<1>2. QED BY <1>1 DEF Message

LEMMA WrittenInbox ==
  ASSUME NEW messages \in Seq(Message), messages # <<>>, NEW t \in Tokens
  PROVE  [messages EXCEPT ![Len(messages)].body = Append(@, t)] \in Seq(Message)
<1>1. PICK n \in Nat : n = Len(messages) /\ n \in 1..n
  BY EmptySeq, LenProperties
<1>2. messages \in [1..n -> Message]
  BY <1>1, LenProperties
<1>3. messages[n] \in Message
  BY <1>1, <1>2
<1>4. PICK m \in Message : m = [messages[n] EXCEPT !.body = Append(@, t)]
  BY <1>3, WrittenMessage
<1>5. [messages EXCEPT ![n] = m] \in [1..n -> Message]
  BY <1>2
<1>6. [messages EXCEPT ![n].body = Append(@, t)] = [messages EXCEPT ![n] = m]
  BY <1>4
<1>7. [1..n -> Message] \subseteq Seq(Message)
  BY <1>1
<1>8. QED BY <1>1, <1>5, <1>6, <1>7

\* Every action keeps the types.
LEMMA TypeStep ==
  ASSUME TypeInv, [Next]_vars
  PROVE  TypeInv'
<1> USE DEF TypeInv
<1>1. CASE Receive
  <2>1. [id |-> Len(inbox) + 1, address |-> 5, body |-> <<>>, date |-> 0] \in Message
    <3>1. Len(inbox) + 1 \in Nat /\ <<>> \in Seq(Tokens)
      OBVIOUS
    <3>2. QED BY <3>1 DEF Message
  <2>2. QED BY <1>1, <2>1 DEF Receive
<1>2. CASE \E t \in Tokens : Write(t)
  BY <1>2, WrittenInbox DEF Write
<1>3. CASE \E k \in Kinds : AddWord(k)
  <2>1. PICK k \in Kinds : AddWord(k)
    BY <1>3
  <2>2. words[k] + 1 \in Nat
    BY DEF Counts
  <2>3. words' \in Counts
    BY <2>1, <2>2 DEF AddWord, Counts
  <2>4. QED BY <2>1, <2>3 DEF AddWord
<1>4. CASE \E c \in Characters : Type(c)
  BY <1>4 DEF Type
<1>5. CASE StartOver
  BY <1>5, NothingYet DEF StartOver
<1>6. CASE UNCHANGED vars
  BY <1>6 DEF vars
<1>7. QED BY <1>1, <1>2, <1>3, <1>4, <1>5, <1>6 DEF Next

\* The inbox is one of messages, the words are counted and the characters are Telegram's.
THEOREM TextsAreTyped == Spec => []TypeInv
<1>1. Init => TypeInv
  BY NothingYet DEF Init, Start, TypeInv
<1>2. QED BY <1>1, TypeStep, PTL DEF Spec

\* georgian_latin.go:49: however many words a text has, a Georgian number makes
\* recognition likelier, and replaces neither the evidence nor the guard against English.
THEOREM PriorIsNoFilter == Spec => []PriorNotFilter
<1>1. TypeInv => PriorNotFilter
  BY PriorHolds DEF TypeInv, PriorNotFilter
<1>2. QED BY <1>1, TextsAreTyped, PTL

\* However many words a text has, a further one that speaks for Georgian never makes it
\* less Georgian.
THEOREM EvidenceNeverHarms == Spec => EvidenceCounts
<1>1. ASSUME TypeInv, TypeInv'
      PROVE  \A k \in Evidence, r \in Recipients :
               words' = [words EXCEPT ![k] = @ + 1] /\ Looks(words)[r] => Looks(words')[r]
  <2>1. SUFFICES ASSUME NEW k \in Evidence, NEW r \in Recipients,
                        words' = [words EXCEPT ![k] = @ + 1], Looks(words)[r]
                 PROVE  Looks(words')[r]
    OBVIOUS
  <2>2. LooksLikeGeorgianLatinFor(words, r)
    BY <2>1 DEF Looks
  <2>3. words \in Counts /\ words' \in Counts
    BY <1>1 DEF TypeInv
  <2>4. LooksLikeGeorgianLatinFor(words', r)
    BY <2>1, <2>2, <2>3, MoreEvidence
  <2>5. QED BY <2>4 DEF Looks
<1>2. QED BY <1>1, TextsAreTyped, PTL DEF EvidenceCounts

\* telegram.go:22: of every text, however long, Telegram shows each character and marks
\* just the runs of three or more digits.
THEOREM TelegramShowsEveryText == Spec => []TelegramShowsTheText
<1>1. TypeInv => TelegramShowsTheText
  BY ShownIsText, MarkedAreRuns DEF TypeInv, TelegramShowsTheText
<1>2. QED BY <1>1, TextsAreTyped, PTL

\* sms.go:277: an inbox of any length, with bodies of any length, is read back as it was.
THEOREM EveryLegibleInboxIsRead == Spec => []LegibleIsRead
<1>1. TypeInv => LegibleIsRead
  BY LegibleAreRead DEF TypeInv, LegibleIsRead, Parsed
<1>2. QED BY <1>1, TextsAreTyped, PTL

\* Whatever else is in an inbox of any length refuses the whole of it, mimicry apart.
THEOREM NoInboxIsGarbled == Spec => []NoneIsGarbled
<1>1. TypeInv => NoneIsGarbled
  <2>1. SUFFICES ASSUME TypeInv, \A i \in 1..Len(inbox) : ~Mimics(inbox[i])
                 PROVE  /\ Parsed.error # "panic"
                        /\ Parsed.error = "none" => Parsed.messages = inbox
    BY DEF NoneIsGarbled
  <2>2. inbox \in Seq(Message)
    BY <2>1 DEF TypeInv
  <2>3. Parsed.error # "panic"
    BY <2>1, <2>2, PanicIsSpelt DEF Parsed
  <2>4. ASSUME Parsed.error = "none" PROVE Parsed.messages = inbox
    <3>1. \A i \in 1..Len(inbox) : Legible(inbox[i])
      BY <2>1, <2>2, <2>4, IllegibleIsRefused DEF Parsed
    <3>2. Parsed = Result("none", inbox)
      BY <2>2, <3>1, LegibleAreRead DEF Parsed
    <3>3. QED BY <3>2 DEF Result
  <2>5. QED BY <2>3, <2>4
<1>2. QED BY <1>1, TextsAreTyped, PTL
===============================================================================
