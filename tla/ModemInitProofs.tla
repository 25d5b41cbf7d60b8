--------------------------- MODULE ModemInitProofs ---------------------------
(***************************************************************************)
(* What Init has done once it succeeds: the ports it tries, whose identity *)
(* it reads, and how many of the required commands may be missing.         *)
(***************************************************************************)
EXTENDS ModemInit, SequenceTheorems, FiniteSetTheorems, WellFoundedInduction, TLAPS

-------------------------------------------------------------------------------
(* The inductive invariant *)

\* A port is listened to while it is open, and a command waits while Init does.
LinkInv ==
  /\ ~open => asked = <<>> /\ wire = <<>>
  /\ port \notin listening => wire = <<>>
  /\ waiting => pc \in {"probing", "setup"}
  /\ pc \in {"opening", "failed"} => ~open /\ ~waiting
  /\ pc \in {"setup", "pausing", "ready"} => step >= 1 /\ port \in listening
  /\ pc = "pausing" => Setup[step] = "AT+CPIN?"
  /\ pc = "ready" => step = Len(Setup)
  /\ late <= faults /\ faults <= MaxFaults

SafeInv == TypeOK /\ LinkInv

Final == {"OK", "ERROR"}
Finals(w) == {k \in 1..Len(w) : w[k] \in Final}

\* Final results to come for the commands a that are still to be executed, and
\* under way on w.
Outstanding(a, w) == Len(a) + Cardinality(Finals(w))

\* The setup commands that must not fail.
Configuring == {i \in 1..Len(Setup) : Setup[i] \in Required}

\* The command whose final result is line p, when n setup commands have been sent.
Answers(n, a, w, p) == n - Len(a) - Cardinality({k \in Finals(w) : k > p})

\* Answers come in the order of the commands, and the modem has done what it says.
InOrder(n, a, w, d) ==
  /\ \A j \in 1..Len(a) : n - Len(a) + j \in Configuring => a[j] = Setup[n - Len(a) + j]
  /\ \A p \in Finals(w) :
       w[p] = "OK" /\ Answers(n, a, w, p) \in Configuring => Setup[Answers(n, a, w, p)] \in d

\* Required commands whose final result is gone but that were not done.
Missed(n, a, w, d) == {i \in Configuring : i <= n - Outstanding(a, w) /\ Setup[i] \notin d}

Counted(n, a, w, d, most) == Cardinality(Missed(n, a, w, d)) + Outstanding(a, w) <= most

\* The last setup command that was sent.
Sent ==
  CASE pc = "ready"             -> Len(Setup)
    [] pc = "setup" /\ waiting  -> step
    [] pc = "setup" /\ ~waiting -> step - 1
    [] OTHER                    -> 0

Working == open /\ port \in listening /\ pc \in {"probing", "setup", "pausing", "ready"}

\* Each late answer leaves one final result more than there are commands waiting, or
\* one that was dropped unseen.
Excess == late + (IF waiting THEN 1 ELSE 0)

AnswersInv ==
  Working => /\ InOrder(Sent, asked, wire, done)
             /\ Counted(Sent, asked, wire, done, Excess)

IInv == SafeInv /\ AnswersInv /\ ReadyIsConfigured

-------------------------------------------------------------------------------
(* The setup commands *)

LEMMA SetupCommands ==
  /\ Len(Setup) = 11
  /\ \A i \in 1..11 : Setup[i] \in Commands /\ Setup[i] # Probe
  /\ Configuring = 9..11
  /\ {Setup[i] : i \in 9..11} = Required
  /\ Setup[4] = "AT+CPIN?"
  /\ \A i \in 1..11 : Setup[i] = "AT+CPIN?" => i = 4
  /\ \A i \in 1..11 : Setup[i] = "AT+CGSN" => i = 3
  /\ \A i \in 1..11 : Setup[i] = "AT+CICCID" => i = 5
<1>1. Len(Setup) = 11 /\ DOMAIN Setup = 1..11
  BY DEF Setup
<1>2. \A i \in 1..11 : Setup[i] \in ToSet(Setup)
  BY <1>1 DEF ToSet
<1>3. /\ Setup[1] = "ATE0" /\ Setup[2] = "AT+CMEE" /\ Setup[3] = "AT+CGSN" /\ Setup[4] = "AT+CPIN?"
      /\ Setup[5] = "AT+CICCID" /\ Setup[6] = "AT+CNUM" /\ Setup[7] = "AT+COPS="
      /\ Setup[8] = "AT+COPS?" /\ Setup[9] = "AT+CMGF" /\ Setup[10] = "AT+CPMS" /\ Setup[11] = "AT+CNMI"
  BY DEF Setup
<1>4. \A i \in 1..11 : i \in {1, 2, 3, 4, 5, 6, 7, 8, 9, 10, 11}
  OBVIOUS
<1>5. \A i \in 1..11 : Setup[i] # "AT" /\ (Setup[i] \in Required <=> i \in {9, 10, 11})
                       /\ (Setup[i] = "AT+CPIN?" => i = 4) /\ (Setup[i] = "AT+CGSN" => i = 3)
                       /\ (Setup[i] = "AT+CICCID" => i = 5)
  BY <1>3, <1>4 DEF Required
<1>6. Configuring = 9..11
  BY <1>1, <1>5 DEF Configuring
<1>7. {Setup[i] : i \in 9..11} = Required
  <2>1. 9..11 = {9, 10, 11}
    OBVIOUS
  <2>2. QED BY <1>3, <2>1 DEF Required
<1>8. QED BY <1>1, <1>2, <1>3, <1>5, <1>6, <1>7 DEF Commands, Probe

LEMMA SingleLine ==
  ASSUME NEW S
  PROVE  <<>> \in Seq(S) /\ \A l \in S : <<l>> \in Seq(S)
OBVIOUS

\* Lines that come with an answer to command c.
SaidBy(c, lines) ==
  lines \in Seq(Lines) /\ lines \in Seq(Lines \ Final) /\ lines \in Seq({c} \union Replies(c))

LEMMA LinesAndCommands ==
  /\ Commands \subseteq Lines /\ Commands \intersect Final = {}
  /\ Final \subseteq Lines
  /\ "bare iccid" \notin Commands
  /\ \A c \in Commands :
       /\ SaidBy(c, Echo(c))
       /\ \A lines \in Reply(c) : SaidBy(c, lines)
<1>1. \A c \in Commands : c # "OK" /\ c # "ERROR" /\ c # "bare iccid"
  <2>1. SUFFICES ASSUME NEW i \in DOMAIN Setup PROVE Setup[i] # "OK" /\ Setup[i] # "ERROR" /\ Setup[i] # "bare iccid"
    BY DEF Commands, Probe, ToSet
  <2>2. i \in {1, 2, 3, 4, 5, 6, 7, 8, 9, 10, 11}
    BY DEF Setup
  <2>3. /\ Setup[1] = "ATE0" /\ Setup[2] = "AT+CMEE" /\ Setup[3] = "AT+CGSN" /\ Setup[4] = "AT+CPIN?"
        /\ Setup[5] = "AT+CICCID" /\ Setup[6] = "AT+CNUM" /\ Setup[7] = "AT+COPS="
        /\ Setup[8] = "AT+COPS?" /\ Setup[9] = "AT+CMGF" /\ Setup[10] = "AT+CPMS" /\ Setup[11] = "AT+CNMI"
    BY DEF Setup
  <2>4. QED BY <2>2, <2>3
<1>2. Commands \subseteq Lines /\ Commands \intersect Final = {} /\ Final \subseteq Lines
  BY <1>1 DEF Lines, Final
<1>3. ASSUME NEW c \in Commands
      PROVE  SaidBy(c, Echo(c))
  <2>1. (Echo(c) = <<c>> \/ Echo(c) = <<>>) /\ c \in Lines \ Final
    BY <1>2 DEF Echo
  <2>2. c \in Lines /\ c \in {c} \union Replies(c)
    BY <2>1
  <2>3. QED BY <2>1, <2>2, SingleLine DEF SaidBy
<1>4. ASSUME NEW c \in Commands, NEW lines \in Reply(c)
      PROVE  SaidBy(c, lines)
  <2>1. Replies(c) \subseteq Lines \ Final
    BY DEF Replies, Lines, Final
  <2>2. lines = <<>> \/ \E l \in Replies(c) : lines = <<l>>
    BY DEF Reply
  <2>3. CASE lines = <<>>
    BY <2>3, SingleLine DEF SaidBy
  <2>4. CASE \E l \in Replies(c) : lines = <<l>>
    <3>1. PICK l \in Replies(c) : lines = <<l>>
      BY <2>4
    <3>2. l \in Lines \ Final /\ l \in Lines /\ l \in {c} \union Replies(c)
      BY <2>1, <3>1
    <3>3. QED BY <3>1, <3>2, SingleLine DEF SaidBy
  <2>5. QED BY <2>2, <2>3, <2>4
<1>5. QED BY <1>1, <1>2, <1>3, <1>4

LEMMA LeastOf ==
  ASSUME NEW T \in SUBSET Nat, T # {}
  PROVE  \E m \in T : \A j \in T : m <= j
<1> DEFINE R == OpToRel(<, Nat)
<1>1. IsWellFoundedOn(R, Nat)
  BY NatLessThanWellFounded, Zenon
<1>2. \A a, b \in Nat : a < b => <<a, b>> \in R
  BY DEF OpToRel
<1> HIDE DEF R
<1>3. PICK x \in T : \A y \in T : ~(<<y, x>> \in R)
  BY <1>1, WFMin
<1>4. \A j \in T : x <= j
  <2>1. SUFFICES ASSUME NEW j \in T PROVE x <= j
    OBVIOUS
  <2>2. x \in Nat /\ j \in Nat /\ ~(j < x)
    BY <1>2, <1>3
  <2>3. QED BY <2>2
<1>5. QED BY <1>4

\* What firstDigits returns is a line of digits, if there is one.
LEMMA FirstOfDigits ==
  ASSUME NEW S, got \in Seq(S)
  PROVE  FirstDigits = "" \/ FirstDigits \in S \intersect Digits
<1> DEFINE places == {i \in 1..Len(got) : got[i] \in Digits}
<1>1. CASE places = {}
  BY <1>1 DEF FirstDigits
<1>2. CASE places # {}
  <2>1. places \in SUBSET Nat
    OBVIOUS
  <2>2. \E i \in places : \A j \in places : i <= j
    BY <1>2, <2>1, LeastOf
  <2>3. PICK i \in places : i = CHOOSE x \in places : \A j \in places : x <= j
    BY <2>2
  <2>4. FirstDigits = got[i]
    BY <1>2, <2>3 DEF FirstDigits
  <2>5. got[i] \in S /\ got[i] \in Digits
    BY ElementOfSeq
  <2>6. QED BY <2>4, <2>5
<1>3. QED BY <1>1, <1>2

-------------------------------------------------------------------------------
(* Final results on the wire *)

LEMMA FinalsCounted ==
  ASSUME NEW w \in Seq(Lines), NEW i \in Nat
  PROVE  /\ IsFiniteSet(Finals(w)) /\ Cardinality(Finals(w)) \in Nat
         /\ IsFiniteSet({k \in Finals(w) : k > i}) /\ Cardinality({k \in Finals(w) : k > i}) \in Nat
<1>1. IsFiniteSet(1..Len(w))
  <2>1. 1 \in Int /\ Len(w) \in Int
    BY LenProperties
  <2>2. QED BY <2>1, FS_Interval
<1>2. Finals(w) \in SUBSET (1..Len(w)) /\ {k \in Finals(w) : k > i} \in SUBSET (1..Len(w))
  BY DEF Finals
<1>3. IsFiniteSet(Finals(w)) /\ IsFiniteSet({k \in Finals(w) : k > i})
  BY <1>1, <1>2, FS_Subset
<1>4. QED BY <1>3, FS_CardinalityType

LEMMA NoFinals == Finals(<<>>) = {} /\ Cardinality(Finals(<<>>)) = 0
BY FS_EmptySet DEF Finals

\* The lines behind a point are as many when all move up by one.
LEMMA ShiftedCount ==
  ASSUME NEW S \in SUBSET Int, IsFiniteSet(S)
  PROVE  Cardinality({k - 1 : k \in S}) = Cardinality(S)
<1> DEFINE T == {k - 1 : k \in S}
           f == [k \in S |-> k - 1]
<1>1. f \in Bijection(S, T)
  <2>1. f \in [S -> T]
    OBVIOUS
  <2>2. \A a, b \in S : f[a] = f[b] => a = b
    OBVIOUS
  <2>3. \A t \in T : \E k \in S : f[k] = t
    OBVIOUS
  <2>4. QED BY <2>1, <2>2, <2>3 DEF Bijection, Injection, Surjection, IsInjective
<1>2. ExistsBijection(S, T)
  BY <1>1 DEF ExistsBijection
<1>3. QED BY <1>2, FS_Bijection

\* The first line is taken.
LEMMA FinalsOfTail ==
  ASSUME NEW w \in Seq(Lines), w # <<>>
  PROVE  /\ Cardinality(Finals(Tail(w))) =
              Cardinality(Finals(w)) - (IF Head(w) \in Final THEN 1 ELSE 0)
         /\ \A p \in Finals(Tail(w)) :
              /\ p + 1 \in Finals(w) /\ Tail(w)[p] = w[p + 1]
              /\ Cardinality({k \in Finals(Tail(w)) : k > p}) = Cardinality({k \in Finals(w) : k > p + 1})
         /\ Head(w) \in Final =>
              /\ 1 \in Finals(w) /\ w[1] = Head(w)
              /\ Cardinality({k \in Finals(w) : k > 1}) = Cardinality(Finals(w)) - 1
<1> DEFINE t == Tail(w)
<1>1. /\ Len(w) \in Nat \ {0} /\ t \in Seq(Lines) /\ Len(t) = Len(w) - 1
      /\ \A k \in 1..(Len(w) - 1) : t[k] = w[k + 1]
      /\ Head(w) = w[1]
  BY HeadTailProperties, LenProperties, EmptySeq
<1> HIDE DEF t
<1>2. \A p : p \in Finals(t) <=> p \in Int /\ p + 1 \in Finals(w) \ {1}
  BY <1>1 DEF Finals
<1>3. 1 \in Finals(w) <=> Head(w) \in Final
  BY <1>1 DEF Finals
<1>4. Finals(w) \subseteq Int
  BY DEF Finals
<1>5. Finals(t) = {k - 1 : k \in Finals(w) \ {1}}
  <2>1. \A p \in Finals(t) : \E k \in Finals(w) \ {1} : p = k - 1
    BY <1>2
  <2>2. \A k \in Finals(w) \ {1} : k - 1 \in Finals(t)
    BY <1>2, <1>4
  <2>3. QED BY <2>1, <2>2
<1>6. IsFiniteSet(Finals(w))
  BY FinalsCounted
<1>7. /\ IsFiniteSet(Finals(w) \ {1})
      /\ Cardinality(Finals(w) \ {1}) = Cardinality(Finals(w)) - (IF Head(w) \in Final THEN 1 ELSE 0)
  <2>1. Cardinality(Finals(w)) \in Nat
    BY FinalsCounted
  <2>2. QED BY <1>3, <1>6, <2>1, FS_RemoveElement
<1>8. Cardinality(Finals(t)) = Cardinality(Finals(w) \ {1})
  BY <1>4, <1>5, <1>7, ShiftedCount
<1>9. ASSUME NEW p \in Finals(t)
      PROVE  /\ p + 1 \in Finals(w) /\ t[p] = w[p + 1]
             /\ Cardinality({k \in Finals(t) : k > p}) = Cardinality({k \in Finals(w) : k > p + 1})
  <2>1. p + 1 \in Finals(w) /\ p \in 1..(Len(w) - 1)
    BY <1>1, <1>2 DEF Finals
  <2> DEFINE S == {k \in Finals(w) : k > p + 1}
  <2>2. {k \in Finals(t) : k > p} = {k - 1 : k \in S}
    <3>1. \A q \in Finals(t) : q > p => \E k \in S : q = k - 1
      BY <1>2, <2>1
    <3>2. \A k \in S : k - 1 \in Finals(t) /\ k - 1 > p
      BY <1>2, <1>4, <2>1
    <3>3. QED BY <3>1, <3>2
  <2>3. S \in SUBSET Int /\ IsFiniteSet(S)
    BY <1>4, <1>6, FS_Subset
  <2>4. QED BY <1>1, <2>1, <2>2, <2>3, ShiftedCount
<1>10. ASSUME Head(w) \in Final
       PROVE  1 \in Finals(w) /\ Cardinality({k \in Finals(w) : k > 1}) = Cardinality(Finals(w)) - 1
  <2>1. {k \in Finals(w) : k > 1} = Finals(w) \ {1}
    BY DEF Finals
  <2>2. QED BY <1>3, <1>7, <1>10, <2>1
<1>11. QED BY <1>1, <1>7, <1>8, <1>9, <1>10 DEF t

\* An answer is added: some lines, then one final result.
LEMMA FinalsOfAnswer ==
  ASSUME NEW w \in Seq(Lines), NEW u \in Seq(Lines \ Final), NEW r \in Final
  PROVE  LET v == w \o u \o <<r>> IN
         /\ v \in Seq(Lines)
         /\ Cardinality(Finals(v)) = Cardinality(Finals(w)) + 1
         /\ \A p \in Finals(v) :
              \/ /\ p \in Finals(w) /\ v[p] = w[p]
                 /\ Cardinality({k \in Finals(v) : k > p}) = Cardinality({k \in Finals(w) : k > p}) + 1
              \/ v[p] = r /\ Cardinality({k \in Finals(v) : k > p}) = 0
<1> DEFINE x == w \o u
           v == x \o <<r>>
           n == Len(v)
<1>1. u \in Seq(Lines) /\ \A k \in 1..Len(u) : u[k] \notin Final
  <2>1. Lines \ Final \subseteq Lines
    OBVIOUS
  <2>2. QED BY <2>1, SeqMonotonic, ElementOfSeq
<1>2. /\ Len(w) \in Nat /\ Len(u) \in Nat
      /\ x \in Seq(Lines) /\ Len(x) = Len(w) + Len(u)
      /\ \A k \in 1..(Len(w) + Len(u)) : x[k] = IF k <= Len(w) THEN w[k] ELSE u[k - Len(w)]
  BY <1>1, ConcatProperties, LenProperties
<1> HIDE DEF x
<1>3. r \in Lines /\ <<r>> \in Seq(Lines) /\ Len(<<r>>) = 1 /\ <<r>>[1] = r
  <2>1. r \in Lines
    BY LinesAndCommands
  <2>2. QED BY <2>1, SingleLine
<1>4. /\ v \in Seq(Lines) /\ n = Len(x) + 1
      /\ \A k \in 1..n : v[k] = IF k <= Len(x) THEN x[k] ELSE <<r>>[k - Len(x)]
  <2> DEFINE e == <<r>>
  <2>1. e \in Seq(Lines) /\ Len(e) = 1
    BY <1>3
  <2>2. v = x \o e
    OBVIOUS
  <2> HIDE DEF e, v
  <2>3. x \in Seq(Lines)
    BY <1>2
  <2>4. /\ x \o e \in Seq(Lines) /\ Len(x \o e) = Len(x) + Len(e)
        /\ \A k \in 1..(Len(x) + Len(e)) : (x \o e)[k] = IF k <= Len(x) THEN x[k] ELSE e[k - Len(x)]
    BY <2>1, <2>3, ConcatProperties
  <2>5. QED BY <1>2, <2>1, <2>2, <2>4 DEF e
<1> HIDE DEF v
<1>5. n \in Nat /\ n > Len(w) /\ v[n] = r
  <2>1. n = Len(w) + Len(u) + 1
    BY <1>2, <1>4
  <2>2. v[n] = <<r>>[n - Len(x)] /\ n - Len(x) = 1
    BY <1>2, <1>4, <2>1
  <2>3. QED BY <1>2, <1>3, <2>1, <2>2
<1>6. \A k \in 1..n : k = n \/ (k \in 1..Len(w) /\ v[k] = w[k]) \/ (k > Len(w) /\ v[k] \notin Final)
  <2> SUFFICES ASSUME NEW k \in 1..n, k # n
               PROVE  (k \in 1..Len(w) /\ v[k] = w[k]) \/ (k > Len(w) /\ v[k] \notin Final)
    OBVIOUS
  <2>1. k \in 1..Len(x) /\ v[k] = x[k]
    BY <1>2, <1>4
  <2>2. x[k] = IF k <= Len(w) THEN w[k] ELSE u[k - Len(w)]
    BY <1>2, <2>1
  <2>3. CASE k <= Len(w)
    BY <2>1, <2>2, <2>3
  <2>4. CASE k > Len(w)
    <3>1. k - Len(w) \in 1..Len(u)
      BY <1>2, <2>1, <2>4, LenProperties
    <3>2. u[k - Len(w)] \in Lines \ Final
      BY <1>1, <3>1, ElementOfSeq
    <3>3. QED BY <2>1, <2>2, <2>4, <3>2
  <2>5. QED BY <2>1, <2>3, <2>4, LenProperties
<1>7. \A k \in 1..Len(w) : k \in 1..n /\ v[k] = w[k] /\ k # n
  BY <1>2, <1>4, <1>5
<1>8. Finals(v) = Finals(w) \union {n} /\ n \notin Finals(w)
  BY <1>5, <1>6, <1>7 DEF Finals
<1>9. IsFiniteSet(Finals(w)) /\ Cardinality(Finals(w)) \in Nat
  BY FinalsCounted
<1>10. Cardinality(Finals(v)) = Cardinality(Finals(w)) + 1
  BY <1>8, <1>9, FS_AddElement
<1>11. ASSUME NEW p \in Finals(w)
       PROVE  /\ v[p] = w[p]
              /\ Cardinality({k \in Finals(v) : k > p}) = Cardinality({k \in Finals(w) : k > p}) + 1
  <2> DEFINE S == {k \in Finals(w) : k > p}
  <2>1. p \in 1..Len(w) /\ n > p
    BY <1>5, <1>7 DEF Finals
  <2>2. {k \in Finals(v) : k > p} = S \union {n} /\ n \notin S
    BY <1>8, <2>1
  <2>3. IsFiniteSet(S)
    BY <1>9, FS_Subset
  <2>4. QED BY <1>7, <2>1, <2>2, <2>3, FS_AddElement
<1>12. Cardinality({k \in Finals(v) : k > n}) = 0
  <2>1. {k \in Finals(v) : k > n} = {}
    BY <1>5 DEF Finals
  <2>2. QED BY <2>1, FS_EmptySet
<1>13. QED BY <1>4, <1>5, <1>8, <1>10, <1>11, <1>12 DEF v, x

-------------------------------------------------------------------------------
(* Which command an answer belongs to *)

LEMMA OutstandingCounted ==
  ASSUME NEW n \in Int, NEW a \in Seq(Commands), NEW w \in Seq(Lines), NEW d
  PROVE  /\ Len(a) \in Nat /\ Cardinality(Finals(w)) \in Nat /\ Outstanding(a, w) \in Nat
         /\ IsFiniteSet(Missed(n, a, w, d)) /\ Cardinality(Missed(n, a, w, d)) \in Nat
         /\ Missed(n, a, w, d) \subseteq 9..11
         /\ \A p \in Finals(w) : Answers(n, a, w, p) \in Int
<1>1. Len(a) \in Nat /\ Cardinality(Finals(w)) \in Nat
  BY FinalsCounted, LenProperties
<1>2. Missed(n, a, w, d) \in SUBSET (9..11)
  BY SetupCommands DEF Missed
<1>3. IsFiniteSet(9..11)
  <2>1. 9 \in Int /\ 11 \in Int
    OBVIOUS
  <2>2. QED BY <2>1, FS_Interval
<1>4. IsFiniteSet(Missed(n, a, w, d)) /\ Cardinality(Missed(n, a, w, d)) \in Nat
  BY <1>2, <1>3, FS_Subset, FS_CardinalityType
<1>5. \A p \in Finals(w) : Answers(n, a, w, p) \in Int
  <2>1. SUFFICES ASSUME NEW p \in Finals(w) PROVE Answers(n, a, w, p) \in Int
    OBVIOUS
  <2>2. p \in Nat
    BY DEF Finals
  <2>3. Cardinality({k \in Finals(w) : k > p}) \in Nat
    BY <2>2, FinalsCounted
  <2>4. QED BY <1>1, <2>3 DEF Answers
<1>6. QED BY <1>1, <1>2, <1>4, <1>5 DEF Outstanding

\* Before the first of the required commands is sent there is nothing to miss.
LEMMA EarlyAnswers ==
  ASSUME NEW n \in Int, n <= 8, NEW a \in Seq(Commands), NEW w \in Seq(Lines), NEW d, NEW most
  PROVE  /\ InOrder(n, a, w, d)
         /\ Counted(n, a, w, d, most) <=> Outstanding(a, w) <= most
<1>1. Len(a) \in Nat /\ Outstanding(a, w) \in Nat /\ \A p \in Finals(w) : Answers(n, a, w, p) \in Int
  BY OutstandingCounted
<1>2. \A j \in 1..Len(a) : n - Len(a) + j \notin 9..11
  BY <1>1
<1>3. \A p \in Finals(w) : Answers(n, a, w, p) \notin 9..11
  <2>1. SUFFICES ASSUME NEW p \in Finals(w) PROVE Answers(n, a, w, p) <= 8
    OBVIOUS
  <2>2. p \in Nat
    BY DEF Finals
  <2>3. Cardinality({k \in Finals(w) : k > p}) \in Nat
    BY <2>2, FinalsCounted
  <2>4. QED BY <1>1, <2>3 DEF Answers
<1>4. Missed(n, a, w, d) = {}
  BY <1>1, SetupCommands DEF Missed
<1>5. Cardinality(Missed(n, a, w, d)) = 0
  BY <1>4, FS_EmptySet
<1>6. QED BY <1>1, <1>2, <1>3, <1>5, SetupCommands DEF InOrder, Counted

\* The modem executes a command: it answers the one it was sent.
LEMMA AnswerGiven ==
  ASSUME NEW n \in Int, NEW a \in Seq(Commands), NEW w \in Seq(Lines), NEW d, NEW most,
         a # <<>>, InOrder(n, a, w, d), Counted(n, a, w, d, most), most \in Int,
         NEW u \in Seq(Lines \ Final), NEW r \in Final,
         NEW e, d \subseteq e, r = "OK" => Head(a) \in e
  PROVE  /\ InOrder(n, Tail(a), w \o u \o <<r>>, e)
         /\ Counted(n, Tail(a), w \o u \o <<r>>, e, most)
<1> DEFINE b == Tail(a)
           v == w \o u \o <<r>>
<1>1. /\ Len(a) \in Nat /\ Len(a) >= 1 /\ b \in Seq(Commands) /\ Len(b) = Len(a) - 1 /\ Head(a) = a[1]
      /\ \A j \in 1..(Len(a) - 1) : b[j] = a[j + 1]
  BY HeadTailProperties, LenProperties, EmptySeq
<1>2. /\ v \in Seq(Lines)
      /\ Cardinality(Finals(v)) = Cardinality(Finals(w)) + 1
      /\ \A p \in Finals(v) :
           \/ /\ p \in Finals(w) /\ v[p] = w[p]
              /\ Cardinality({k \in Finals(v) : k > p}) = Cardinality({k \in Finals(w) : k > p}) + 1
           \/ v[p] = r /\ Cardinality({k \in Finals(v) : k > p}) = 0
  BY FinalsOfAnswer
<1> HIDE DEF b, v
<1>3. Cardinality(Finals(w)) \in Nat
  BY OutstandingCounted
<1>4. Outstanding(b, v) = Outstanding(a, w)
  BY <1>1, <1>2, <1>3 DEF Outstanding
<1>5. Missed(n, b, v, e) \subseteq Missed(n, a, w, d)
  BY <1>4 DEF Missed
<1>6. Counted(n, b, v, e, most)
  <2>1. Cardinality(Missed(n, b, v, e)) <= Cardinality(Missed(n, a, w, d))
    BY <1>5, OutstandingCounted, FS_Subset
  <2>2. /\ Cardinality(Missed(n, b, v, e)) \in Nat /\ Cardinality(Missed(n, a, w, d)) \in Nat
        /\ Outstanding(a, w) \in Nat
    BY <1>1, <1>2, OutstandingCounted
  <2>3. QED BY <1>4, <2>1, <2>2 DEF Counted
<1>7. ASSUME NEW j \in 1..Len(b), n - Len(b) + j \in Configuring
      PROVE  b[j] = Setup[n - Len(b) + j]
  <2>1. j + 1 \in 1..Len(a) /\ n - Len(a) + (j + 1) = n - Len(b) + j /\ b[j] = a[j + 1]
    BY <1>1
  <2>2. QED BY <1>7, <2>1 DEF InOrder
<1>8. ASSUME NEW p \in Finals(v), v[p] = "OK", Answers(n, b, v, p) \in Configuring
      PROVE  Setup[Answers(n, b, v, p)] \in e
  <2>1. CASE /\ p \in Finals(w) /\ v[p] = w[p]
             /\ Cardinality({k \in Finals(v) : k > p}) = Cardinality({k \in Finals(w) : k > p}) + 1
    <3>1. p \in Nat
      BY DEF Finals
    <3>2. Cardinality({k \in Finals(w) : k > p}) \in Nat
      BY <3>1, FinalsCounted
    <3>3. Answers(n, b, v, p) = Answers(n, a, w, p)
      BY <1>1, <2>1, <3>2 DEF Answers
    <3>4. QED BY <1>8, <2>1, <3>3 DEF InOrder
  <2>2. CASE v[p] = r /\ Cardinality({k \in Finals(v) : k > p}) = 0
    <3>1. Answers(n, b, v, p) = n - Len(a) + 1 /\ 1 \in 1..Len(a)
      BY <1>1, <2>2 DEF Answers
    <3>2. a[1] = Setup[n - Len(a) + 1]
      BY <1>8, <3>1 DEF InOrder
    <3>3. QED BY <1>1, <1>8, <2>2, <3>1, <3>2
  <2>3. QED BY <1>2, <2>1, <2>2
<1>9. InOrder(n, b, v, e)
  BY <1>7, <1>8 DEF InOrder
<1>10. QED BY <1>6, <1>9 DEF b, v

\* The host takes a line.  A final result that is dropped may leave a command that
\* nobody knows was done; one that says OK leaves none.
LEMMA LineTaken ==
  ASSUME NEW n \in Int, NEW a \in Seq(Commands), NEW w \in Seq(Lines), NEW d, NEW most,
         w # <<>>, InOrder(n, a, w, d), Counted(n, a, w, d, most), most \in Int
  PROVE  /\ InOrder(n, a, Tail(w), d)
         /\ Counted(n, a, Tail(w), d, most)
         /\ Head(w) = "OK" => Counted(n, a, Tail(w), d, most - 1)
         /\ Head(w) \in Final => Outstanding(a, Tail(w)) <= most - 1
<1> DEFINE t == Tail(w)
<1>1. /\ Cardinality(Finals(t)) = Cardinality(Finals(w)) - (IF Head(w) \in Final THEN 1 ELSE 0)
      /\ \A p \in Finals(t) :
           /\ p + 1 \in Finals(w) /\ t[p] = w[p + 1]
           /\ Cardinality({k \in Finals(t) : k > p}) = Cardinality({k \in Finals(w) : k > p + 1})
      /\ Head(w) \in Final =>
           /\ 1 \in Finals(w) /\ w[1] = Head(w)
           /\ Cardinality({k \in Finals(w) : k > 1}) = Cardinality(Finals(w)) - 1
      /\ t \in Seq(Lines)
  BY FinalsOfTail, HeadTailProperties
<1> HIDE DEF t
<1>2. /\ Len(a) \in Nat /\ Cardinality(Finals(w)) \in Nat /\ Cardinality(Finals(t)) \in Nat
      /\ Cardinality(Missed(n, a, w, d)) \in Nat /\ IsFiniteSet(Missed(n, a, w, d))
      /\ Cardinality(Missed(n, a, t, d)) \in Nat
      /\ Outstanding(a, w) \in Nat /\ Outstanding(a, t) \in Nat
  BY <1>1, OutstandingCounted
<1>3. Outstanding(a, t) = Outstanding(a, w) - (IF Head(w) \in Final THEN 1 ELSE 0)
  BY <1>1, <1>2 DEF Outstanding
<1>4. InOrder(n, a, t, d)
  <2>1. \A p \in Finals(t) : Answers(n, a, t, p) = Answers(n, a, w, p + 1)
    BY <1>1 DEF Answers
  <2>2. QED BY <1>1, <2>1 DEF InOrder
<1>5. CASE Head(w) \notin Final
  <2>1. Missed(n, a, t, d) = Missed(n, a, w, d)
    BY <1>3, <1>5, <1>2 DEF Missed
  <2>2. Counted(n, a, t, d, most)
    BY <1>2, <1>3, <1>5, <2>1 DEF Counted
  <2>3. QED BY <1>4, <1>5, <2>2 DEF t, Final
<1>6. CASE Head(w) \in Final
  <2> DEFINE q == n - Outstanding(a, w) + 1
  <2>1. Answers(n, a, w, 1) = q
    BY <1>1, <1>2, <1>6 DEF Answers, Outstanding
  <2>2. ASSUME NEW i \in Missed(n, a, t, d)
        PROVE  i = q \/ i \in Missed(n, a, w, d)
    <3>1. i \in Configuring /\ i \in 9..11 /\ i <= n - Outstanding(a, t) /\ Setup[i] \notin d
      BY SetupCommands DEF Missed
    <3>2. i = q \/ i <= n - Outstanding(a, w)
      BY <1>2, <1>3, <1>6, <3>1
    <3>3. QED BY <3>1, <3>2 DEF Missed
  <2>3. Cardinality(Missed(n, a, t, d)) <= Cardinality(Missed(n, a, w, d)) + 1
    <3>1. /\ IsFiniteSet(Missed(n, a, w, d) \union {q})
          /\ Cardinality(Missed(n, a, w, d) \union {q}) =
               IF q \in Missed(n, a, w, d) THEN Cardinality(Missed(n, a, w, d))
                                           ELSE Cardinality(Missed(n, a, w, d)) + 1
      BY <1>2, FS_AddElement
    <3>2. Missed(n, a, t, d) \subseteq Missed(n, a, w, d) \union {q}
      BY <2>2
    <3>3. Cardinality(Missed(n, a, t, d)) <= Cardinality(Missed(n, a, w, d) \union {q})
      BY <3>1, <3>2, FS_Subset
    <3>4. QED BY <1>2, <3>1, <3>3
  <2>4. Counted(n, a, t, d, most) /\ Outstanding(a, t) <= most - 1
    BY <1>2, <1>3, <1>6, <2>3 DEF Counted
  <2>5. ASSUME Head(w) = "OK"
        PROVE  Counted(n, a, t, d, most - 1)
    <3>1. q \in Configuring => Setup[q] \in d
      BY <1>1, <1>6, <2>1, <2>5 DEF InOrder
    <3>2. q \notin Missed(n, a, t, d)
      BY <3>1 DEF Missed
    <3>3. Missed(n, a, t, d) \subseteq Missed(n, a, w, d)
      BY <2>2, <3>2
    <3>4. Cardinality(Missed(n, a, t, d)) <= Cardinality(Missed(n, a, w, d))
      BY <1>2, <3>3, FS_Subset
    <3>5. QED BY <1>2, <1>3, <1>6, <3>4 DEF Counted
  <2>6. QED BY <1>4, <2>4, <2>5 DEF t
<1>7. QED BY <1>5, <1>6

\* The next setup command is sent.
LEMMA CommandSent ==
  ASSUME NEW n \in 0..10, NEW m \in 1..11, m = n + 1, NEW a \in Seq(Commands), NEW w \in Seq(Lines), NEW d, NEW most,
         InOrder(n, a, w, d), Counted(n, a, w, d, most), most \in Int
  PROVE  /\ InOrder(m, Append(a, Setup[m]), w, d)
         /\ Counted(m, Append(a, Setup[m]), w, d, most + 1)
<1> DEFINE c == Setup[m]
           b == Append(a, c)
<1>1. c \in Commands
  BY SetupCommands
<1> HIDE DEF c
<1>2. /\ Len(a) \in Nat /\ b \in Seq(Commands) /\ Len(b) = Len(a) + 1
      /\ \A j \in 1..Len(a) : b[j] = a[j]
      /\ b[Len(a) + 1] = c
  BY <1>1, AppendProperties, LenProperties
<1> HIDE DEF b
<1>3. /\ Outstanding(a, w) \in Nat /\ Cardinality(Finals(w)) \in Nat
      /\ Cardinality(Missed(n, a, w, d)) \in Nat
  BY OutstandingCounted
<1>4. Outstanding(b, w) = Outstanding(a, w) + 1
  BY <1>2, <1>3 DEF Outstanding
<1>5. Missed(m, b, w, d) = Missed(n, a, w, d)
  <2>1. m - Outstanding(b, w) = n - Outstanding(a, w)
    BY <1>3, <1>4
  <2>2. QED BY <2>1 DEF Missed
<1>6. Counted(m, b, w, d, most + 1)
  BY <1>3, <1>4, <1>5 DEF Counted
<1>7. m - Len(b) = n - Len(a)
  BY <1>2
<1>8. ASSUME NEW j \in 1..Len(b), m - Len(b) + j \in Configuring
      PROVE  b[j] = Setup[m - Len(b) + j]
  <2>1. CASE j \in 1..Len(a)
    BY <1>2, <1>7, <1>8, <2>1 DEF InOrder
  <2>2. CASE j = Len(a) + 1
    <3>1. m - Len(b) + j = m
      BY <1>2, <2>2
    <3>2. QED BY <1>2, <2>2, <3>1 DEF c
  <2>3. QED BY <1>2, <2>1, <2>2
<1>9. \A p \in Finals(w) : Answers(m, b, w, p) = Answers(n, a, w, p)
  BY <1>7 DEF Answers
<1>10. InOrder(m, b, w, d)
  BY <1>8, <1>9 DEF InOrder
<1>11. QED BY <1>6, <1>10 DEF b, c

\* Once the last command has returned, what the modem has not done is missed or outstanding.
LEMMA AllCounted ==
  ASSUME NEW a \in Seq(Commands), NEW w \in Seq(Lines), NEW d, NEW most \in Int,
         Counted(11, a, w, d, most)
  PROVE  Cardinality(Required \ d) <= most
<1> DEFINE M == Missed(11, a, w, d)
           o == Outstanding(a, w)
           I == (12 - o)..11
           U == M \union I
           V == {i \in U : i \in 9..11 /\ Setup[i] \notin d}
           f == [i \in V |-> Setup[i]]
<1>1. o \in Nat /\ IsFiniteSet(M) /\ Cardinality(M) \in Nat
  BY OutstandingCounted
<1>2. IsFiniteSet(I) /\ Cardinality(I) = o
  <2>1. 12 - o \in Int /\ 11 \in Int
    BY <1>1
  <2>2. IsFiniteSet(I) /\ Cardinality(I) = IF 12 - o > 11 THEN 0 ELSE 11 - (12 - o) + 1
    BY <2>1, FS_Interval
  <2>3. QED BY <1>1, <2>2
<1>3. IsFiniteSet(U) /\ Cardinality(U) <= most
  <2>1. IsFiniteSet(U) /\ Cardinality(U) = Cardinality(M) + Cardinality(I) - Cardinality(M \intersect I)
    BY <1>1, <1>2, FS_Union
  <2>2. Cardinality(M \intersect I) \in Nat
    BY <1>1, FS_Subset, FS_CardinalityType
  <2>3. QED BY <1>1, <1>2, <2>1, <2>2 DEF Counted
<1>4. IsFiniteSet(V) /\ Cardinality(V) <= Cardinality(U)
  BY <1>3, FS_Subset
<1>5. Required \ d = {Setup[i] : i \in V}
  <2>1. ASSUME NEW i \in 9..11, Setup[i] \notin d
        PROVE  i \in V
    <3>1. i \in M \/ i \in I
      BY <1>1, <2>1, SetupCommands DEF Missed
    <3>2. QED BY <2>1, <3>1
  <2>2. QED BY <2>1, SetupCommands
<1>6. f \in Surjection(V, Required \ d)
  BY <1>5 DEF Surjection
<1>7. Cardinality(Required \ d) <= Cardinality(V)
  BY <1>4, <1>6, FS_Surjection
<1>8. Cardinality(V) \in Nat /\ Cardinality(U) \in Nat /\ Cardinality(Required \ d) \in Nat
  BY <1>3, <1>4, <1>6, FS_Surjection, FS_CardinalityType
<1>9. QED BY <1>3, <1>4, <1>7, <1>8

-------------------------------------------------------------------------------
(* The ports *)

\* The slices that findATPort joins: the third port, those above it from the
\* highest down, the second and the first.
LEMMA PortOrderIs ==
  ASSUME NEW n \in Nat
  PROVE  /\ PortOrder(n) \in Seq(1..n) /\ Len(PortOrder(n)) = n
         /\ \A i \in 1..n : PortOrder(n)[i] =
              IF n <= 2 THEN n + 1 - i
              ELSE IF i = 1 THEN 3 ELSE IF i <= n - 2 THEN n + 2 - i ELSE n + 1 - i
<1> DEFINE R == [i \in 1..n |-> n + 1 - i]
           a == SubSeq(R, n - 2, n - 2)
           b == SubSeq(R, 1, n - 3)
           c == SubSeq(R, n - 1, n)
<1>1. R \in [1..n -> 1..n]
  OBVIOUS
<1>2. CASE n <= 2
  <2>1. R \in Seq(1..n) /\ Len(R) = n
    BY <1>1
  <2>2. PortOrder(n) = R
    BY <1>2 DEF PortOrder
  <2>3. QED BY <1>2, <2>1, <2>2
<1>3. CASE n > 2
  <2>1. \A i \in 1..n : R[i] \in 1..n /\ R[i] = n + 1 - i
    OBVIOUS
  <2> HIDE DEF R
  <2>2. /\ n - 2 \in Int /\ 1 \in Int /\ n - 3 \in Int /\ n - 1 \in Int /\ n \in Int
        /\ \A i \in (n - 2)..(n - 2) : R[i] \in 1..n
        /\ \A i \in 1..(n - 3) : R[i] \in 1..n
        /\ \A i \in (n - 1)..n : R[i] \in 1..n
    BY <1>3, <2>1
  <2>3. a \in Seq(1..n) /\ Len(a) = 1 /\ a[1] = 3
    <3>1. /\ a \in Seq(1..n) /\ Len(a) = (IF n - 2 <= n - 2 THEN n - 2 - (n - 2) + 1 ELSE 0)
          /\ \A i \in 1..(n - 2 - (n - 2) + 1) : a[i] = R[n - 2 + i - 1]
      BY <2>2, SubSeqProperties
    <3>2. a[1] = R[n - 2] /\ Len(a) = 1
      BY <2>2, <3>1
    <3>3. QED BY <1>3, <2>1, <3>1, <3>2
  <2>4. b \in Seq(1..n) /\ Len(b) = n - 3 /\ \A i \in 1..(n - 3) : b[i] = n + 1 - i
    <3>1. /\ b \in Seq(1..n) /\ Len(b) = (IF 1 <= n - 3 THEN n - 3 - 1 + 1 ELSE 0)
          /\ \A i \in 1..(n - 3 - 1 + 1) : b[i] = R[1 + i - 1]
      BY <2>2, SubSeqProperties
    <3>2. \A i \in 1..(n - 3) : b[i] = R[i] /\ i \in 1..n
      BY <1>3, <3>1
    <3>3. QED BY <1>3, <2>1, <3>1, <3>2
  <2>5. c \in Seq(1..n) /\ Len(c) = 2 /\ c[1] = 2 /\ c[2] = 1
    <3>1. /\ c \in Seq(1..n) /\ Len(c) = (IF n - 1 <= n THEN n - (n - 1) + 1 ELSE 0)
          /\ \A i \in 1..(n - (n - 1) + 1) : c[i] = R[n - 1 + i - 1]
      BY <2>2, SubSeqProperties
    <3>2. c[1] = R[n - 1] /\ c[2] = R[n] /\ Len(c) = 2
      BY <2>2, <3>1
    <3>3. QED BY <1>3, <2>1, <3>1, <3>2
  <2>6. PortOrder(n) = a \o b \o c
    BY <1>3 DEF PortOrder, R
  <2> HIDE DEF a, b, c
  <2>7. /\ a \o b \in Seq(1..n) /\ Len(a \o b) = n - 2
        /\ \A i \in 1..(n - 2) : (a \o b)[i] = IF i <= 1 THEN a[i] ELSE b[i - 1]
    <3>1. /\ a \o b \in Seq(1..n) /\ Len(a \o b) = Len(a) + Len(b)
          /\ \A i \in 1..(Len(a) + Len(b)) : (a \o b)[i] = IF i <= Len(a) THEN a[i] ELSE b[i - Len(a)]
      BY <2>3, <2>4, ConcatProperties
    <3>2. QED BY <1>3, <2>3, <2>4, <3>1
  <2> DEFINE d == a \o b
           s == d \o c
  <2>8. PortOrder(n) = s
    BY <2>6
  <2>9. d \in Seq(1..n)
    BY <2>7
  <2>10. Len(d) = n - 2 /\ \A i \in 1..(n - 2) : d[i] = IF i = 1 THEN 3 ELSE n + 2 - i
    <3>1. \A i \in 1..(n - 2) : i <= 1 <=> i = 1
      OBVIOUS
    <3>2. QED BY <1>3, <2>3, <2>4, <2>7, <3>1
  <2> HIDE DEF d
  <2>11. /\ s \in Seq(1..n) /\ Len(s) = Len(d) + Len(c)
         /\ \A i \in 1..(Len(d) + Len(c)) : s[i] = IF i <= Len(d) THEN d[i] ELSE c[i - Len(d)]
    BY <2>5, <2>9, ConcatProperties
  <2> HIDE DEF s
  <2>12. Len(s) = n /\ \A i \in 1..n : s[i] = IF i <= n - 2 THEN d[i] ELSE c[i - (n - 2)]
    BY <1>3, <2>5, <2>10, <2>11
  <2>13. s[n - 1] = 2 /\ s[n] = 1
    <3>1. n - 1 \in 1..n /\ ~(n - 1 <= n - 2) /\ n - 1 - (n - 2) = 1
      BY <1>3
    <3>2. n \in 1..n /\ ~(n <= n - 2) /\ n - (n - 2) = 2
      BY <1>3
    <3>3. QED BY <2>5, <2>12, <3>1, <3>2
  <2>14. ASSUME NEW i \in 1..n
         PROVE  s[i] = IF i = 1 THEN 3 ELSE IF i <= n - 2 THEN n + 2 - i ELSE n + 1 - i
    <3>1. CASE i \in 1..(n - 2)
      BY <1>3, <2>10, <2>12, <3>1
    <3>2. CASE i = n - 1 \/ i = n
      BY <1>3, <2>13, <3>2
    <3>3. QED BY <1>3, <3>1, <3>2
  <2>15. QED BY <1>3, <2>8, <2>11, <2>12, <2>14
<1>4. QED BY <1>2, <1>3

\* Every port of a modem is tried, each once, and first the third one, which is the
\* documented AT port; however many there are.
THEOREM EveryPortOnce ==
  \A n \in Nat :
    /\ ToSet(PortOrder(n)) = 1..n
    /\ IsInjective(PortOrder(n))
    /\ n > 2 => PortOrder(n)[1] = 3
<1> SUFFICES ASSUME NEW n \in Nat
             PROVE  /\ ToSet(PortOrder(n)) = 1..n
                    /\ IsInjective(PortOrder(n))
                    /\ n > 2 => PortOrder(n)[1] = 3
  OBVIOUS
<1> DEFINE o == PortOrder(n)
<1>1. /\ DOMAIN o = 1..n
      /\ \A i \in 1..n : o[i] =
           IF n <= 2 THEN n + 1 - i ELSE IF i = 1 THEN 3 ELSE IF i <= n - 2 THEN n + 2 - i ELSE n + 1 - i
  BY PortOrderIs, LenProperties
<1> HIDE DEF o
<1>2. \A i \in 1..n : o[i] \in 1..n
  BY <1>1
<1>3. ASSUME NEW p \in 1..n
      PROVE  \E i \in 1..n : o[i] = p
  <2>1. CASE n <= 2
    BY <1>1, <2>1
  <2>2. CASE n > 2 /\ p = 3
    BY <1>1, <2>2
  <2>3. CASE n > 2 /\ p > 3
    <3>1. n + 2 - p \in 1..n /\ o[n + 2 - p] = p
      BY <1>1, <2>3
    <3>2. QED BY <3>1
  <2>4. CASE n > 2 /\ p < 3
    <3>1. n + 1 - p \in 1..n /\ o[n + 1 - p] = p
      BY <1>1, <2>4
    <3>2. QED BY <3>1
  <2>5. QED BY <2>1, <2>2, <2>3, <2>4
<1>4. \A i, j \in 1..n : o[i] = o[j] => i = j
  BY <1>1
<1>5. n > 2 => o[1] = 3
  BY <1>1
<1>6. ToSet(o) = 1..n
  BY <1>1, <1>2, <1>3 DEF ToSet
<1>7. IsInjective(o)
  BY <1>1, <1>4 DEF IsInjective
<1>8. QED BY <1>5, <1>6, <1>7 DEF o

-------------------------------------------------------------------------------
(* Types, identity and the link *)

ModemTypes ==
  /\ nports \in 1..MaxPorts /\ listening \subseteq 1..nports
  /\ simReady \in BOOLEAN /\ echo \in BOOLEAN /\ done \subseteq Commands

LinkTypes ==
  /\ open \in BOOLEAN /\ port \in 0..nports
  /\ asked \in Seq(Commands) /\ wire \in Seq(Lines)
  /\ waiting \in BOOLEAN /\ got \in Seq(Lines \ {"OK", "ERROR"})

Infos == [imei : Read, iccid : Read, number : Read, operator : Read]

WorkerTypes ==
  /\ left \in Seq(1..nports)
  /\ port = 0 <=> pc \in {"opening", "failed"}
  /\ pc \in {"opening", "probing", "setup", "pausing", "giving up", "failed", "ready"}
  /\ step \in 0..Len(Setup) /\ overdue \in BOOLEAN
  /\ info \in Infos

HistoryTypes == late \in 0..MaxFaults /\ faults \in Nat

LEMMA TypeParts ==
  /\ TypeOK <=> ModemTypes /\ LinkTypes /\ WorkerTypes /\ HistoryTypes
  /\ TypeOK' <=> ModemTypes' /\ LinkTypes' /\ WorkerTypes' /\ HistoryTypes'
BY DEF TypeOK, ModemTypes, LinkTypes, WorkerTypes, HistoryTypes, Infos

LEMMA HistoryKept ==
  ASSUME HistoryTypes, LinkInv,
         \/ UNCHANGED <<late, faults>>
         \/ \E kind : Fault(kind) /\ (late' = late \/ late' = late + 1)
         \/ late' = 0 /\ UNCHANGED faults
  PROVE  HistoryTypes' /\ late' <= faults' /\ faults' <= MaxFaults
BY FaultsAssumption DEF HistoryTypes, LinkInv, Fault

\* A command is sent; a line is read.
LEMMA SendTyped ==
  ASSUME LinkTypes, NEW c \in Commands, Send(c)
  PROVE  /\ asked' \in Seq(Commands) /\ wire' \in Seq(Lines)
         /\ waiting' = TRUE /\ got' = <<>> /\ UNCHANGED <<open, port, wire>>
<1>1. asked' = Append(asked, c) \/ asked' = asked
  BY DEF Send
<1>2. asked' \in Seq(Commands)
  BY <1>1, AppendProperties DEF LinkTypes
<1>3. QED BY <1>2 DEF Send, LinkTypes

LEMMA LineRead ==
  ASSUME LinkTypes, wire # <<>>
  PROVE  Head(wire) \in Lines /\ Tail(wire) \in Seq(Lines)
BY HeadTailProperties DEF LinkTypes

LEMMA ReturnTyped ==
  ASSUME LinkTypes, HistoryTypes, LinkInv, Succeeds \/ Fails, Returns
  PROVE  /\ asked' \in Seq(Commands) /\ wire' \in Seq(Lines)
         /\ waiting /\ waiting' = FALSE /\ UNCHANGED <<open, port, got>>
         /\ asked' = <<>> \/ asked' = asked
         /\ wire = <<>> => wire' = <<>>
         /\ HistoryTypes' /\ late' <= faults' /\ faults' <= MaxFaults
<1>1. waiting /\ waiting' = FALSE /\ UNCHANGED <<open, port, got>>
  BY DEF Succeeds, Fails, Answered, Returns
<1>2. CASE Answered(TRUE) \/ Answered(FALSE)
  <2>1. wire # <<>> /\ wire' = Tail(wire) /\ UNCHANGED <<asked, late, faults>>
    BY <1>2 DEF Answered
  <2>2. QED BY <1>1, <2>1, LineRead, HistoryKept DEF LinkTypes
<1>3. CASE Unanswered
  <2>1. /\ asked' = <<>> \/ asked' = asked
        /\ wire' = <<>> \/ wire' = wire
    BY <1>3 DEF Unanswered
  <2>2. \/ UNCHANGED <<late, faults>>
        \/ Fault("mute") /\ late' = late
        \/ Fault("late") /\ late' = late + 1
    BY <1>3 DEF Unanswered
  <2>3. HistoryTypes' /\ late' <= faults' /\ faults' <= MaxFaults
    BY <2>2, HistoryKept
  <2>4. asked' \in Seq(Commands) /\ wire' \in Seq(Lines)
    BY <2>1, EmptySeq DEF LinkTypes
  <2>5. QED BY <1>1, <2>1, <2>3, <2>4
<1>4. QED BY <1>2, <1>3 DEF Succeeds, Fails

LEMMA CurrentIsCommand ==
  ASSUME pc = "probing" \/ step \in 1..11
  PROVE  Current \in Commands
BY SetupCommands DEF Current, Commands

LEMMA InitSafe == Init => SafeInv
<1> SUFFICES ASSUME Init PROVE SafeInv
  OBVIOUS
<1>1. ModemTypes /\ HistoryTypes
  BY FaultsAssumption DEF Init, ModemTypes, HistoryTypes
<1>0. nports \in Nat
  BY PortsAssumption DEF Init
<1>2. LinkTypes
  <2>1. open = FALSE /\ port = 0 /\ asked = <<>> /\ wire = <<>> /\ waiting = FALSE /\ got = <<>>
    BY DEF Init
  <2>2. 0 \in 0..nports
    BY <1>0
  <2>3. QED BY <2>1, <2>2, EmptySeq DEF LinkTypes
<1>3. left \in Seq(1..nports)
  BY <1>0, PortOrderIs DEF Init
<1>4. NoInfo \in Infos
  BY DEF NoInfo, Infos, Read
<1>5. WorkerTypes
  <2>1. port = 0 /\ pc = "opening" /\ step = 0 /\ overdue = FALSE /\ info = NoInfo
    BY DEF Init
  <2>2. step \in 0..Len(Setup)
    BY <2>1, SetupCommands
  <2>3. info \in Infos
    BY <1>4, <2>1
  <2>4. QED BY <1>3, <2>1, <2>2, <2>3 DEF WorkerTypes
<1>6. LinkInv
  BY FaultsAssumption DEF Init, LinkInv
<1>7. QED BY <1>1, <1>2, <1>5, <1>6, TypeParts DEF SafeInv

LEMMA ModemSafe ==
  ASSUME SafeInv, ModemExecutes \/ SimBecomesReady \/ PortFails
  PROVE  SafeInv'
<1>0. ModemTypes /\ LinkTypes /\ WorkerTypes /\ HistoryTypes /\ LinkInv
  BY TypeParts DEF SafeInv
<1>1. CASE ModemExecutes
  <2> DEFINE c == Head(asked)
  <2>1. /\ asked # <<>> /\ port \in listening /\ asked' = Tail(asked)
        /\ UNCHANGED <<nports, listening, simReady, open, port, waiting, got, worker, late>>
    BY <1>1 DEF ModemExecutes
  <2>2. c \in Commands /\ asked' \in Seq(Commands)
    BY <1>0, <2>1, HeadTailProperties DEF LinkTypes
  <2>3. /\ wire' \in Seq(Lines) /\ done' \subseteq Commands /\ echo' \in BOOLEAN
        /\ faults' = faults \/ Fault("error")
    <3>1. CASE /\ \E lines \in Reply(c) : wire' = wire \o Echo(c) \o lines \o <<"OK">>
               /\ done' = done \union {c}
               /\ echo' = (echo /\ c # "ATE0")
               /\ UNCHANGED faults
      <4>0. PICK lines \in Reply(c) : wire' = wire \o Echo(c) \o lines \o <<"OK">>
        BY <3>1
      <4>1. Echo(c) \in Seq(Lines) /\ lines \in Seq(Lines) /\ <<"OK">> \in Seq(Lines)
        BY <2>2, LinesAndCommands, SingleLine DEF Final, SaidBy
      <4>2. wire \o Echo(c) \in Seq(Lines)
        BY <1>0, <4>1, ConcatProperties DEF LinkTypes
      <4>3. wire \o Echo(c) \o lines \in Seq(Lines)
        BY <4>1, <4>2, ConcatProperties
      <4>4. wire' \in Seq(Lines)
        BY <4>0, <4>1, <4>3, ConcatProperties
      <4>5. QED BY <1>0, <2>2, <3>1, <4>4 DEF ModemTypes
    <3>2. CASE /\ UNCHANGED faults \/ Fault("error")
               /\ wire' = wire \o Echo(c) \o <<"ERROR">>
               /\ UNCHANGED <<done, echo>>
      <4>1. Echo(c) \in Seq(Lines) /\ <<"ERROR">> \in Seq(Lines)
        BY <2>2, LinesAndCommands, SingleLine DEF Final, SaidBy
      <4>2. wire \o Echo(c) \in Seq(Lines)
        BY <1>0, <4>1, ConcatProperties DEF LinkTypes
      <4>3. wire' \in Seq(Lines)
        BY <3>2, <4>1, <4>2, ConcatProperties
      <4>4. QED BY <1>0, <3>2, <4>3 DEF ModemTypes
    <3>3. QED BY <1>1, <3>1, <3>2 DEF ModemExecutes
  <2>4. open
    BY <1>0, <2>1 DEF LinkInv, LinkTypes
  <2>5. HistoryTypes' /\ late' <= faults' /\ faults' <= MaxFaults
    BY <1>0, <2>1, <2>3, HistoryKept
  <2>6. ModemTypes' /\ LinkTypes' /\ WorkerTypes' /\ LinkInv'
    BY <1>0, <2>1, <2>2, <2>3, <2>4, <2>5
       DEF ModemTypes, LinkTypes, WorkerTypes, LinkInv, worker
  <2>7. QED BY <2>5, <2>6, TypeParts DEF SafeInv
<1>2. CASE SimBecomesReady
  <2>1. HistoryTypes' /\ late' <= faults' /\ faults' <= MaxFaults
    BY <1>0, <1>2, HistoryKept DEF SimBecomesReady
  <2>2. /\ UNCHANGED <<nports, listening, echo, done, open, port, asked, wire, waiting, got>>
        /\ UNCHANGED <<left, pc, step, overdue, info>> /\ simReady' = TRUE
    BY <1>2 DEF SimBecomesReady, link, worker
  <2>3. ModemTypes' /\ LinkTypes' /\ WorkerTypes'
    BY <1>0, <2>2 DEF ModemTypes, LinkTypes, WorkerTypes
  <2>4. LinkInv'
    BY <1>0, <2>1, <2>2 DEF LinkInv
  <2>5. QED BY <2>1, <2>3, <2>4, TypeParts DEF SafeInv
<1>3. CASE PortFails
  <2>1. HistoryTypes' /\ late' <= faults' /\ faults' <= MaxFaults
    BY <1>0, <1>3, HistoryKept DEF PortFails
  <2>2. /\ UNCHANGED <<nports, listening, simReady, echo, done, port, waiting, got>>
        /\ UNCHANGED <<left, pc, step, overdue, info>>
        /\ open' = FALSE /\ asked' = <<>> /\ wire' = <<>>
    BY <1>3 DEF PortFails, modem, worker
  <2>3. ModemTypes' /\ LinkTypes' /\ WorkerTypes'
    BY <1>0, <2>2, EmptySeq DEF ModemTypes, LinkTypes, WorkerTypes
  <2>4. LinkInv'
    BY <1>0, <2>1, <2>2 DEF LinkInv
  <2>5. QED BY <2>1, <2>3, <2>4, TypeParts DEF SafeInv
<1>4. QED BY <1>1, <1>2, <1>3

\* Lines are read, or dropped, before the final result.
LEMMA LinesSafe ==
  ASSUME SafeInv, Collect \/ DropLine
  PROVE  SafeInv'
<1>0. ModemTypes /\ LinkTypes /\ WorkerTypes /\ HistoryTypes /\ LinkInv
  BY TypeParts DEF SafeInv
<1>1. /\ wire # <<>> /\ wire' = Tail(wire)
      /\ UNCHANGED <<nports, listening, simReady, echo, done, open, port, asked, waiting>>
      /\ UNCHANGED <<left, pc, step, overdue, info, late, faults>>
  BY DEF Collect, DropLine, modem, worker
<1>2. wire' \in Seq(Lines) /\ Head(wire) \in Lines
  BY <1>0, <1>1, LineRead
<1>3. got' \in Seq(Lines \ {"OK", "ERROR"})
  <2>1. CASE got' = got
    BY <1>0, <2>1 DEF LinkTypes
  <2>2. CASE Head(wire) \notin {"OK", "ERROR"} /\ got' = Append(got, Head(wire))
    BY <1>0, <1>2, <2>2, AppendProperties DEF LinkTypes
  <2>3. QED BY <2>1, <2>2 DEF Collect, DropLine
<1>4. ModemTypes' /\ LinkTypes' /\ WorkerTypes' /\ HistoryTypes'
  BY <1>0, <1>1, <1>2, <1>3 DEF ModemTypes, LinkTypes, WorkerTypes, HistoryTypes
<1>5. LinkInv'
  BY <1>0, <1>1 DEF LinkInv
<1>6. QED BY <1>4, <1>5, TypeParts DEF SafeInv

LEMMA PortsSafe ==
  ASSUME SafeInv, Ports
  PROVE  SafeInv'
<1>0. ModemTypes /\ LinkTypes /\ WorkerTypes /\ HistoryTypes /\ LinkInv
  BY TypeParts DEF SafeInv
<1>1. UNCHANGED <<nports, listening, simReady, echo, done, overdue, info>>
  BY DEF Ports, OpenPort, NoPortAnswers, SendProbe, ProbeSucceeds, ProbeFails, NextPort, modem, worker
<1>2. ModemTypes'
  BY <1>0, <1>1 DEF ModemTypes
<1>3. CASE OpenPort
  <2>1. left # <<>> /\ left' = Tail(left) /\ UNCHANGED <<asked, wire, waiting, got>> /\ pc = "opening"
    BY <1>3 DEF OpenPort
  <2>2. Head(left) \in 1..nports /\ left' \in Seq(1..nports)
    BY <1>0, <2>1, HeadTailProperties DEF WorkerTypes
  <2>3. asked = <<>> /\ wire = <<>> /\ ~waiting
    BY <1>0, <2>1 DEF LinkInv
  <2>4. HistoryTypes' /\ late' <= faults' /\ faults' <= MaxFaults
    BY <1>0, <1>3, HistoryKept DEF OpenPort
  <2>5. CASE port' = Head(left) /\ open' = TRUE /\ pc' = "probing" /\ step' = 0
    <3>1. Head(left) \in 0..nports /\ Head(left) # 0
      BY <1>0, <2>2 DEF ModemTypes
    <3>2. step' \in 0..Len(Setup)
      BY <2>5, SetupCommands
    <3>3. LinkTypes' /\ WorkerTypes'
      BY <1>0, <1>1, <2>1, <2>2, <2>5, <3>1, <3>2 DEF LinkTypes, WorkerTypes
    <3>4. LinkInv'
      BY <2>1, <2>3, <2>4, <2>5 DEF LinkInv
    <3>5. QED BY <1>2, <2>4, <3>3, <3>4, TypeParts DEF SafeInv
  <2>6. CASE UNCHANGED <<open, port, pc, step>>
    <3>1. LinkTypes' /\ WorkerTypes' /\ LinkInv'
      BY <1>0, <1>1, <2>1, <2>2, <2>4, <2>6 DEF LinkTypes, WorkerTypes, LinkInv
    <3>2. QED BY <1>2, <2>4, <3>1, TypeParts DEF SafeInv
  <2>7. QED BY <1>3, <2>5, <2>6 DEF OpenPort
<1>4. CASE NoPortAnswers
  <2>1. /\ pc = "opening" /\ pc' = "failed"
        /\ UNCHANGED <<open, port, asked, wire, waiting, got, left, step, late, faults>>
    BY <1>4 DEF NoPortAnswers, link
  <2>2. LinkTypes' /\ WorkerTypes' /\ HistoryTypes' /\ LinkInv'
    BY <1>0, <1>1, <2>1 DEF LinkTypes, WorkerTypes, HistoryTypes, LinkInv
  <2>3. QED BY <1>2, <2>2, TypeParts DEF SafeInv
<1>5. CASE SendProbe
  <2>1. pc = "probing" /\ step < 2 /\ Send(Probe) /\ step' = step + 1 /\ UNCHANGED <<left, pc, late, faults>>
    BY <1>5 DEF SendProbe
  <2>2. /\ asked' \in Seq(Commands) /\ wire' \in Seq(Lines) /\ waiting' = TRUE /\ got' = <<>>
        /\ UNCHANGED <<open, port, wire>>
    BY <1>0, <2>1, SendTyped DEF Commands
  <2>3. step' \in 0..Len(Setup)
    BY <1>0, <2>1, SetupCommands DEF WorkerTypes
  <2>4. ~open => asked' = asked
    BY <2>1 DEF Send
  <2>5. LinkTypes' /\ WorkerTypes' /\ HistoryTypes'
    BY <1>0, <1>1, <2>1, <2>2, <2>3, EmptySeq DEF LinkTypes, WorkerTypes, HistoryTypes
  <2>6. LinkInv'
    BY <1>0, <1>1, <2>1, <2>2, <2>4 DEF LinkInv
  <2>7. QED BY <1>2, <2>5, <2>6, TypeParts DEF SafeInv
<1>6. CASE ProbeSucceeds \/ ProbeFails
  <2>1. /\ pc = "probing" /\ (Succeeds \/ Fails) /\ Returns
        /\ left' = left
        /\ \/ Succeeds /\ pc' = "setup" /\ step' = 1
           \/ UNCHANGED <<pc, step>>
    BY <1>6 DEF ProbeSucceeds, ProbeFails, worker
  <2>2. /\ asked' \in Seq(Commands) /\ wire' \in Seq(Lines)
        /\ waiting' = FALSE /\ UNCHANGED <<open, port, got>>
        /\ asked' = <<>> \/ asked' = asked
        /\ wire = <<>> => wire' = <<>>
        /\ HistoryTypes' /\ late' <= faults' /\ faults' <= MaxFaults
    BY <1>0, <2>1, ReturnTyped
  <2>3. Succeeds => port \in listening
    BY <1>0 DEF Succeeds, Answered, LinkInv
  <2>4. step' \in 0..Len(Setup)
    BY <1>0, <2>1, SetupCommands DEF WorkerTypes
  <2>5. LinkTypes' /\ WorkerTypes'
    BY <1>0, <1>1, <2>1, <2>2, <2>4 DEF LinkTypes, WorkerTypes
  <2>6. LinkInv'
    BY <1>0, <1>1, <2>1, <2>2, <2>3 DEF LinkInv
  <2>7. QED BY <1>2, <2>2, <2>5, <2>6, TypeParts DEF SafeInv
<1>7. CASE NextPort
  <2>1. pc' = "opening" /\ Close /\ UNCHANGED <<left, step, late, faults>>
    BY <1>7 DEF NextPort
  <2>2. 0 \in 0..nports
    BY <1>0 DEF ModemTypes
  <2>3. LinkTypes' /\ WorkerTypes' /\ HistoryTypes' /\ LinkInv'
    BY <1>0, <1>1, <2>1, <2>2, EmptySeq DEF Close, LinkTypes, WorkerTypes, HistoryTypes, LinkInv
  <2>4. QED BY <1>2, <2>3, TypeParts DEF SafeInv
<1>8. QED BY <1>3, <1>4, <1>5, <1>6, <1>7 DEF Ports

\* What is read of the modem is a line it has sent, or nothing.
LEMMA RecordSafe ==
  ASSUME LinkTypes, info \in Infos, NEW c, Record(c)
  PROVE  info' \in Infos
<1>1. Has("number") \in {"", "number"} /\ Has("operator") \in {"", "operator"}
  BY DEF Has
<1>2. {"", "iccid", "number", "operator"} \subseteq Read /\ Lines \subseteq Read
  BY DEF Read, Lines
<1>3. FirstDigits \in Read
  BY <1>2, FirstOfDigits DEF LinkTypes
<1>4. ParseICCID \in Read
  BY <1>2, HeadTailProperties DEF ParseICCID, LinkTypes
<1>5. CASE info' = [info EXCEPT !.imei = FirstDigits]
  BY <1>3, <1>5 DEF Infos
<1>6. CASE info' = [info EXCEPT !.iccid = ParseICCID]
  BY <1>4, <1>6 DEF Infos
<1>7. CASE info' = [info EXCEPT !.number = Has("number")]
  BY <1>1, <1>2, <1>7 DEF Infos
<1>8. CASE info' = [info EXCEPT !.operator = Has("operator")]
  BY <1>1, <1>2, <1>8 DEF Infos
<1>9. QED BY <1>5, <1>6, <1>7, <1>8 DEF Record

LEMMA SettingSafe ==
  ASSUME SafeInv, Setting
  PROVE  SafeInv'
<1>0. ModemTypes /\ LinkTypes /\ WorkerTypes /\ HistoryTypes /\ LinkInv
  BY TypeParts DEF SafeInv
<1>1. UNCHANGED <<nports, listening, simReady, echo, done, left, overdue>>
  BY DEF Setting, SendSetup, StepSucceeds, StepFails, PauseEnds, GiveUp, modem, worker
<1>2. ModemTypes'
  BY <1>0, <1>1 DEF ModemTypes
<1>3. nports \in Nat /\ MaxPorts \in Nat
  BY <1>0, PortsAssumption DEF ModemTypes
<1>4. CASE SendSetup
  <2>1. pc = "setup" /\ Send(Setup[step]) /\ UNCHANGED <<pc, step, info, late, faults>>
    BY <1>4 DEF SendSetup, worker
  <2>2. step \in 1..11
    BY <1>0, <2>1, SetupCommands DEF LinkInv, WorkerTypes
  <2>3. /\ asked' \in Seq(Commands) /\ wire' \in Seq(Lines) /\ waiting' = TRUE /\ got' = <<>>
        /\ UNCHANGED <<open, port, wire>>
    BY <1>0, <2>1, <2>2, SendTyped, SetupCommands
  <2>4. ~open => asked' = asked
    BY <2>1 DEF Send
  <2>5. LinkTypes' /\ WorkerTypes' /\ HistoryTypes'
    BY <1>0, <1>1, <2>1, <2>3, EmptySeq DEF LinkTypes, WorkerTypes, HistoryTypes
  <2>6. LinkInv'
    BY <1>0, <1>1, <2>1, <2>3, <2>4 DEF LinkInv
  <2>7. QED BY <1>2, <2>5, <2>6, TypeParts DEF SafeInv
<1>5. CASE StepSucceeds \/ StepFails
  <2>1. pc = "setup" /\ (Succeeds \/ Fails) /\ Returns
    BY <1>5 DEF StepSucceeds, StepFails
  <2>2. /\ asked' \in Seq(Commands) /\ wire' \in Seq(Lines)
        /\ waiting' = FALSE /\ UNCHANGED <<open, port, got>>
        /\ asked' = <<>> \/ asked' = asked
        /\ wire = <<>> => wire' = <<>>
        /\ HistoryTypes' /\ late' <= faults' /\ faults' <= MaxFaults
    BY <1>0, <2>1, ReturnTyped
  <2>3. step \in 1..11 /\ port \in listening /\ port # 0
    BY <1>0, <2>1, SetupCommands DEF LinkInv, WorkerTypes
  <2>4. \/ Current = "AT+CPIN?" /\ Pause /\ UNCHANGED <<step, info>>
        \/ Advance /\ UNCHANGED info
        \/ Advance /\ Record(Current)
        \/ pc' = "giving up" /\ UNCHANGED <<step, info>>
    BY <1>5 DEF StepSucceeds, StepFails, FailOrMoveOn
  <2>5. info' \in Infos
    <3>1. CASE UNCHANGED info
      BY <1>0, <3>1 DEF WorkerTypes
    <3>2. CASE Record(Current)
      BY <1>0, <3>2, RecordSafe DEF WorkerTypes
    <3>3. QED BY <2>4, <3>1, <3>2
  <2>6. /\ pc' \in {"setup", "pausing", "giving up", "ready"} /\ step' \in 1..11
        /\ pc' = "pausing" => Setup[step'] = "AT+CPIN?"
        /\ pc' = "ready" => step' = Len(Setup)
    <3>1. Len(Setup) = 11 /\ Current = Setup[step]
      BY <2>1, SetupCommands DEF Current
    <3>2. CASE Current = "AT+CPIN?" /\ Pause /\ UNCHANGED step
      BY <2>3, <3>1, <3>2 DEF Pause
    <3>3. CASE Advance
      <4>1. \/ step = 11 /\ pc' = "ready" /\ step' = step
            \/ step # 11 /\ pc' = "setup" /\ step' = step + 1
        BY <2>1, <3>1, <3>3 DEF Advance
      <4>2. CASE step = 11 /\ pc' = "ready" /\ step' = step
        <5>1. pc' # "pausing" /\ step' = Len(Setup)
          BY <3>1, <4>2
        <5>2. QED BY <2>3, <4>2, <5>1
      <4>3. CASE step # 11 /\ pc' = "setup" /\ step' = step + 1
        <5>1. step' \in 1..11 /\ pc' # "pausing" /\ pc' # "ready"
          BY <2>3, <4>3
        <5>2. QED BY <4>3, <5>1
      <4>4. QED BY <4>1, <4>2, <4>3
    <3>4. CASE pc' = "giving up" /\ UNCHANGED step
      BY <2>3, <3>4
    <3>5. QED BY <2>4, <3>2, <3>3, <3>4
  <2>7. step' \in 0..Len(Setup) /\ step' >= 1
    <3>1. Len(Setup) = 11 /\ step' \in 1..11
      BY <2>6, SetupCommands
    <3>2. QED BY <3>1
  <2>8. LinkTypes'
    BY <1>0, <1>1, <2>2 DEF LinkTypes
  <2>9. WorkerTypes'
    BY <1>0, <1>1, <2>1, <2>2, <2>3, <2>5, <2>6, <2>7 DEF WorkerTypes
  <2>10. LinkInv'
    BY <1>0, <1>1, <2>1, <2>2, <2>3, <2>6, <2>7 DEF LinkInv
  <2>11. QED BY <1>2, <2>2, <2>5, <2>8, <2>9, <2>10, TypeParts DEF SafeInv
<1>6. CASE PauseEnds
  <2>1. /\ pc = "pausing" /\ pc' = "setup"
        /\ UNCHANGED <<open, port, asked, wire, waiting, got, step, info, late, faults>>
    BY <1>6 DEF PauseEnds, link
  <2>2. LinkTypes' /\ WorkerTypes' /\ HistoryTypes' /\ LinkInv'
    BY <1>0, <1>1, <2>1 DEF LinkTypes, WorkerTypes, HistoryTypes, LinkInv
  <2>3. QED BY <1>2, <2>2, TypeParts DEF SafeInv
<1>7. CASE GiveUp
  <2>1. pc' = "failed" /\ Close /\ UNCHANGED <<step, info, late, faults>>
    BY <1>7 DEF GiveUp
  <2>2. 0 \in 0..nports
    BY <1>3
  <2>3. LinkTypes' /\ WorkerTypes' /\ HistoryTypes' /\ LinkInv'
    BY <1>0, <1>1, <2>1, <2>2, EmptySeq
       DEF Close, LinkTypes, WorkerTypes, HistoryTypes, LinkInv
  <2>4. QED BY <1>2, <2>3, TypeParts DEF SafeInv
<1>8. QED BY <1>4, <1>5, <1>6, <1>7 DEF Setting

LEMMA NextSafe == SafeInv /\ [Next]_vars => SafeInv'
<1> SUFFICES ASSUME SafeInv, [Next]_vars PROVE SafeInv'
  OBVIOUS
<1>0. ModemTypes /\ LinkTypes /\ WorkerTypes /\ HistoryTypes /\ LinkInv
  BY TypeParts DEF SafeInv
<1>1. CASE ModemExecutes \/ SimBecomesReady \/ PortFails
  BY <1>1, ModemSafe
<1>2. CASE Collect \/ DropLine
  BY <1>2, LinesSafe
<1>3. CASE Ports
  BY <1>3, PortsSafe
<1>4. CASE Setting
  BY <1>4, SettingSafe
<1>5. CASE DeadlinePasses
  <2>1. /\ overdue' = TRUE /\ UNCHANGED <<nports, listening, simReady, echo, done>>
        /\ UNCHANGED <<open, port, asked, wire, waiting, got, left, pc, step, info, late, faults>>
    BY <1>5 DEF DeadlinePasses, modem, link
  <2>2. ModemTypes' /\ LinkTypes' /\ WorkerTypes' /\ HistoryTypes'
    BY <1>0, <2>1 DEF ModemTypes, LinkTypes, WorkerTypes, HistoryTypes
  <2>3. LinkInv'
    BY <1>0, <2>1 DEF LinkInv
  <2>4. QED BY <2>2, <2>3, TypeParts DEF SafeInv
<1>6. CASE NextWorker
  <2>1. /\ done' = {} /\ left' = PortOrder(nports) /\ Close
        /\ pc' = "opening" /\ step' = 0 /\ overdue' = FALSE /\ info' = NoInfo /\ late' = 0
        /\ UNCHANGED <<nports, listening, simReady, echo, faults>>
    BY <1>6 DEF NextWorker
  <2>2. nports \in Nat
    BY <1>0, PortsAssumption DEF ModemTypes
  <2>3. PortOrder(nports) \in Seq(1..nports) /\ 0 \in 0..nports
    BY <2>2, PortOrderIs
  <2>4. NoInfo \in Infos
    BY DEF NoInfo, Infos, Read
  <2>5. 0 \in 0..Len(Setup) /\ HistoryTypes' /\ late' <= faults' /\ faults' <= MaxFaults
    BY <1>0, <2>1, SetupCommands, FaultsAssumption DEF HistoryTypes, LinkInv
  <2>6. ModemTypes' /\ LinkTypes' /\ WorkerTypes'
    BY <1>0, <2>1, <2>3, <2>4, <2>5, EmptySeq DEF ModemTypes, LinkTypes, WorkerTypes, Close
  <2>7. LinkInv'
    BY <2>1, <2>4, <2>5 DEF LinkInv, Close
  <2>8. QED BY <2>5, <2>6, <2>7, TypeParts DEF SafeInv
<1>7. CASE UNCHANGED vars
  <2>1. /\ UNCHANGED <<nports, listening, simReady, echo, done>>
        /\ UNCHANGED <<open, port, asked, wire, waiting, got>>
        /\ UNCHANGED <<left, pc, step, overdue, info, late, faults>>
    BY <1>7 DEF vars, modem, link, worker
  <2>2. ModemTypes' /\ LinkTypes' /\ WorkerTypes' /\ HistoryTypes'
    BY <1>0, <2>1 DEF ModemTypes, LinkTypes, WorkerTypes, HistoryTypes
  <2>3. LinkInv'
    BY <1>0, <2>1 DEF LinkInv
  <2>4. QED BY <2>2, <2>3, TypeParts DEF SafeInv
<1>8. QED BY <1>1, <1>2, <1>3, <1>4, <1>5, <1>6, <1>7 DEF Next

LEMMA AlwaysSafe == Spec => []SafeInv
<1>1. Init => SafeInv
  BY InitSafe
<1>2. SafeInv /\ [Next]_vars => SafeInv'
  BY NextSafe
<1>3. QED BY <1>1, <1>2, PTL DEF Spec

\* Variables stay in range; a port is in use from when it is opened until Init has
\* closed it, and none while another is opened or once Init has failed.
THEOREM TypeCorrect == Spec => []TypeOK
<1>1. SafeInv => TypeOK
  BY DEF SafeInv
<1>2. QED BY <1>1, AlwaysSafe, PTL

-------------------------------------------------------------------------------
(* The answers that are owed, step by step *)

LEMMA SentIs ==
  /\ pc = "ready" => Sent = 11
  /\ pc = "setup" /\ waiting => Sent = step
  /\ pc = "setup" /\ ~waiting => Sent = step - 1
  /\ pc \notin {"ready", "setup"} => Sent = 0
  /\ pc' = "ready" => Sent' = 11
  /\ pc' = "setup" /\ waiting' => Sent' = step'
  /\ pc' = "setup" /\ ~waiting' => Sent' = step' - 1
  /\ pc' \notin {"ready", "setup"} => Sent' = 0
BY SetupCommands DEF Sent

LEMMA ExcessIs ==
  ASSUME late \in Int, late' \in Int
  PROVE  /\ waiting => Excess = late + 1
         /\ ~waiting => Excess = late
         /\ waiting' => Excess' = late' + 1
         /\ ~waiting' => Excess' = late'
<1>1. Excess = late + (IF waiting THEN 1 ELSE 0)
  BY DEF Excess
<1>2. Excess' = late' + (IF waiting' THEN 1 ELSE 0)
  BY DEF Excess
<1>3. waiting => Excess = late + 1
  BY <1>1
<1>4. ~waiting => Excess = late
  BY <1>1
<1>5. waiting' => Excess' = late' + 1
  BY <1>2
<1>6. ~waiting' => Excess' = late'
  <2>1. \A x \in Int : x + 0 = x
    OBVIOUS
  <2>2. late' + 0 = late'
    BY <2>1
  <2>3. ~waiting' => Excess' = late' + 0
    BY <1>2
  <2>4. QED BY <2>2, <2>3
<1>7. QED BY <1>3, <1>4, <1>5, <1>6

LEMMA TypesUsed ==
  ASSUME SafeInv
  PROVE  /\ asked \in Seq(Commands) /\ wire \in Seq(Lines) /\ step \in 0..11 /\ late \in Int
         /\ Sent \in Int /\ Sent <= 11 /\ Excess \in Int /\ Excess \in {late, late + 1}
         /\ waiting \in BOOLEAN /\ open \in BOOLEAN
<1>1. LinkTypes /\ WorkerTypes /\ HistoryTypes
  BY TypeParts DEF SafeInv
<1>2. asked \in Seq(Commands) /\ wire \in Seq(Lines) /\ waiting \in BOOLEAN /\ open \in BOOLEAN
  BY <1>1 DEF LinkTypes
<1>3. step \in 0..11
  BY <1>1, SetupCommands DEF WorkerTypes
<1>4. late \in Int
  BY <1>1, FaultsAssumption DEF HistoryTypes
<1>5. Sent \in Int /\ Sent <= 11
  BY <1>3, SentIs
<1>6. Excess \in Int /\ Excess \in {late, late + 1}
  BY <1>4 DEF Excess
<1>7. QED BY <1>2, <1>3, <1>4, <1>5, <1>6

\* The modem answers with its echo, what it has to say and one final result.
LEMMA LinesAnswered ==
  ASSUME SafeInv, ModemExecutes
  PROVE  /\ asked # <<>> /\ asked' = Tail(asked)
         /\ \E u \in Seq(Lines \ Final), r \in Final :
              /\ wire' = wire \o u \o <<r>> /\ done \subseteq done'
              /\ r = "OK" => Head(asked) \in done'
              /\ u \in Seq({Head(asked)} \union Replies(Head(asked)))
<1> DEFINE c == Head(asked)
           e == Echo(c)
           Own == {c} \union Replies(c)
<1>1. asked # <<>> /\ asked' = Tail(asked)
  BY DEF ModemExecutes
<1>2. c \in Commands /\ wire \in Seq(Lines)
  BY <1>1, TypesUsed, HeadTailProperties
<1>3. e \in Seq(Lines \ Final) /\ e \in Seq(Own) /\ e \in Seq(Lines)
  BY <1>2, LinesAndCommands DEF SaidBy
<1>4. \/ /\ \E lines \in Reply(c) : wire' = wire \o e \o lines \o <<"OK">>
         /\ done' = done \union {c}
      \/ wire' = wire \o e \o <<"ERROR">> /\ done' = done
  BY DEF ModemExecutes
<1>5. CASE /\ \E lines \in Reply(c) : wire' = wire \o e \o lines \o <<"OK">>
           /\ done' = done \union {c}
  <2>1. PICK lines \in Reply(c) : wire' = wire \o e \o lines \o <<"OK">>
    BY <1>5
  <2>2. lines \in Seq(Lines \ Final) /\ lines \in Seq(Own) /\ lines \in Seq(Lines)
    BY <1>2, LinesAndCommands DEF SaidBy
  <2> DEFINE u == e \o lines
  <2>3. u \in Seq(Lines \ Final) /\ u \in Seq(Own)
    BY <1>3, <2>2, ConcatProperties
  <2>4. wire \o e \o lines = wire \o u
    <3> HIDE DEF e
    <3>1. QED BY <1>2, <1>3, <2>2, ConcatAssociative
  <2>5. "OK" \in Final /\ done \subseteq done' /\ c \in done'
    BY <1>5 DEF Final
  <2> HIDE DEF u
  <2>6. wire' = wire \o u \o <<"OK">>
    BY <2>1, <2>4
  <2>7. QED BY <1>1, <2>3, <2>5, <2>6
<1>6. CASE wire' = wire \o e \o <<"ERROR">> /\ done' = done
  <2>1. "ERROR" \in Final /\ "ERROR" # "OK"
    BY DEF Final
  <2>2. QED BY <1>1, <1>3, <1>6, <2>1
<1>7. QED BY <1>4, <1>5, <1>6

\* Nothing is owed as long as nothing was sent.
LEMMA AnswersOfModem ==
  ASSUME SafeInv, AnswersInv, ModemExecutes \/ SimBecomesReady \/ PortFails
  PROVE  AnswersInv'
<1>1. CASE ModemExecutes
  <2>1. /\ asked # <<>> /\ asked' = Tail(asked)
        /\ UNCHANGED <<listening, open, port, waiting, pc, step, late>>
    BY <1>1 DEF ModemExecutes, worker
  <2>2. Sent' = Sent /\ Excess' = Excess /\ Working' = Working
    BY <2>1 DEF Sent, Excess, Working
  <2>3. SUFFICES ASSUME Working
                 PROVE  InOrder(Sent, asked', wire', done') /\ Counted(Sent, asked', wire', done', Excess)
    BY <2>2 DEF AnswersInv
  <2>4. /\ InOrder(Sent, asked, wire, done) /\ Counted(Sent, asked, wire, done, Excess)
        /\ Sent \in Int /\ Excess \in Int /\ asked \in Seq(Commands) /\ wire \in Seq(Lines)
    BY <2>3, TypesUsed DEF AnswersInv
  <2>5. Head(asked) \in Commands
    BY <2>1, <2>4, HeadTailProperties
  <2>6. \E u \in Seq(Lines \ Final), r \in Final :
          /\ wire' = wire \o u \o <<r>> /\ done \subseteq done'
          /\ r = "OK" => Head(asked) \in done'
    BY <1>1, LinesAnswered
  <2>7. QED BY <2>1, <2>4, <2>6, AnswerGiven
<1>2. CASE SimBecomesReady
  <2>1. UNCHANGED <<listening, open, port, asked, wire, waiting, done, pc, step, late>>
    BY <1>2 DEF SimBecomesReady, link, worker
  <2>2. Sent' = Sent /\ Excess' = Excess /\ Working' = Working
    BY <2>1 DEF Sent, Excess, Working
  <2>3. QED BY <2>1, <2>2 DEF AnswersInv
<1>3. CASE PortFails
  BY <1>3 DEF PortFails, AnswersInv, Working
<1>4. QED BY <1>1, <1>2, <1>3

LEMMA AnswersOfLines ==
  ASSUME SafeInv, AnswersInv, Collect \/ DropLine
  PROVE  AnswersInv'
<1>1. /\ wire # <<>> /\ wire' = Tail(wire)
      /\ UNCHANGED <<listening, open, port, asked, waiting, done, pc, step, late>>
  BY DEF Collect, DropLine, modem, worker
<1>2. Sent' = Sent /\ Excess' = Excess /\ Working' = Working
  BY <1>1 DEF Sent, Excess, Working
<1>3. SUFFICES ASSUME Working
               PROVE  InOrder(Sent, asked, wire', done) /\ Counted(Sent, asked, wire', done, Excess)
  BY <1>1, <1>2 DEF AnswersInv
<1>4. /\ InOrder(Sent, asked, wire, done) /\ Counted(Sent, asked, wire, done, Excess)
      /\ Sent \in Int /\ Excess \in Int /\ asked \in Seq(Commands) /\ wire \in Seq(Lines)
  BY <1>3, TypesUsed DEF AnswersInv
<1>5. QED BY <1>1, <1>4, LineTaken

\* A command that returns leaves one answer less to wait for.
LEMMA AnswersOwed ==
  ASSUME SafeInv, AnswersInv, Working, waiting,
         \/ Answered(TRUE) \/ Answered(FALSE) \/ Unanswered
  PROVE  /\ Outstanding(asked, wire) <= late + 1
         /\ \/ ~open \/ port \notin listening
            \/ Outstanding(asked', wire') <= late' /\ late' \in Int
<1>1. /\ InOrder(Sent, asked, wire, done) /\ Counted(Sent, asked, wire, done, late + 1)
      /\ Sent \in Int /\ late \in Int /\ asked \in Seq(Commands) /\ wire \in Seq(Lines)
  BY TypesUsed DEF AnswersInv, Excess
<1>2. Outstanding(asked, wire) <= late + 1
  BY <1>1, OutstandingCounted DEF Counted
<1>3. CASE Answered(TRUE) \/ Answered(FALSE)
  <2>1. wire # <<>> /\ Head(wire) \in Final /\ wire' = Tail(wire) /\ asked' = asked /\ late' = late
    BY <1>3 DEF Answered, Final
  <2>2. Outstanding(asked, Tail(wire)) <= late + 1 - 1
    BY <1>1, <2>1, LineTaken
  <2>3. QED BY <1>1, <1>2, <2>1, <2>2
<1>4. CASE Unanswered
  <2>1. CASE asked' = <<>> /\ wire' = <<>> /\ late' = late
    <3>1. Len(asked') = 0 /\ Cardinality(Finals(wire')) = 0
      BY <2>1, NoFinals
    <3>2. late >= 0
      BY TypeParts, FaultsAssumption DEF SafeInv, HistoryTypes
    <3>3. QED BY <1>1, <1>2, <2>1, <3>1, <3>2 DEF Outstanding
  <2>2. CASE late' = late + 1 /\ UNCHANGED <<asked, wire>>
    BY <1>1, <1>2, <2>2
  <2>3. QED BY <1>2, <1>4, <2>1, <2>2 DEF Unanswered
<1>5. QED BY <1>3, <1>4

\* Before the first of the required commands only what is outstanding counts.
LEMMA EarlyKept ==
  ASSUME asked' \in Seq(Commands), wire' \in Seq(Lines), Sent' \in Int, Sent' <= 8,
         Outstanding(asked', wire') <= Excess'
  PROVE  AnswersInv'
BY EarlyAnswers DEF AnswersInv
LEMMA AnswersOfPorts ==
  ASSUME SafeInv, SafeInv', AnswersInv, Ports
  PROVE  AnswersInv'
<1>0. /\ asked' \in Seq(Commands) /\ wire' \in Seq(Lines) /\ waiting' \in BOOLEAN
      /\ asked \in Seq(Commands) /\ wire \in Seq(Lines) /\ waiting \in BOOLEAN /\ open \in BOOLEAN
      /\ late \in Int /\ step \in 0..11
  BY TypesUsed, TypeParts DEF SafeInv, LinkTypes
<1>1. CASE OpenPort
  <2>1. CASE pc' = "probing"
    <3>1. pc = "opening" /\ UNCHANGED <<asked, wire, waiting, late>>
      BY <1>1 DEF OpenPort
    <3>2. asked = <<>> /\ wire = <<>> /\ ~waiting
      BY <1>0, <3>1 DEF SafeInv, LinkInv
    <3>3. Outstanding(asked', wire') = 0
      BY <3>1, <3>2, NoFinals DEF Outstanding
    <3>4. late >= 0
      BY TypeParts, FaultsAssumption DEF SafeInv, HistoryTypes
    <3>5. Sent' = 0 /\ Excess' = late
      BY <1>0, <2>1, <3>1, <3>2, SentIs DEF Excess
    <3>6. QED BY <1>0, <3>3, <3>4, <3>5, EarlyKept
  <2>2. CASE pc' # "probing"
    BY <1>1, <2>2 DEF OpenPort, AnswersInv, Working
  <2>3. QED BY <2>1, <2>2
<1>2. CASE NoPortAnswers \/ NextPort
  BY <1>2 DEF NoPortAnswers, NextPort, AnswersInv, Working
<1>3. CASE SendProbe
  <2>1. /\ pc = "probing" /\ pc' = "probing" /\ ~waiting /\ waiting'
        /\ UNCHANGED <<listening, open, port, wire, late>>
        /\ asked' = IF open THEN Append(asked, Probe) ELSE asked
    BY <1>3 DEF SendProbe, Send, modem
  <2>2. CASE ~Working
    BY <2>1, <2>2 DEF AnswersInv, Working
  <2>3. CASE Working
    <3>1. open /\ asked' = Append(asked, Probe)
      BY <2>1, <2>3 DEF Working
    <3>2. Len(asked') = Len(asked) + 1 /\ Len(asked) \in Nat
      BY <1>0, <3>1, AppendProperties, LenProperties DEF Commands
    <3>3. Sent = 0 /\ Sent' = 0 /\ Excess = late /\ Excess' = late + 1
      <4>1. Sent = 0 /\ Sent' = 0
        BY <2>1, SentIs
      <4>2. Excess = late /\ Excess' = late' + 1 /\ late' = late
        BY <1>0, <2>1, ExcessIs
      <4>3. QED BY <4>1, <4>2
    <3>4. Outstanding(asked, wire) <= late
      BY <1>0, <2>3, <3>3, EarlyAnswers DEF AnswersInv
    <3>5. Cardinality(Finals(wire)) \in Nat
      BY <1>0, FinalsCounted
    <3>6. Outstanding(asked', wire') <= late + 1
      BY <1>0, <2>1, <3>2, <3>4, <3>5 DEF Outstanding
    <3>7. QED BY <1>0, <3>3, <3>6, EarlyKept
  <2>4. QED BY <2>2, <2>3
<1>4. CASE ProbeSucceeds \/ ProbeFails
  <2>1. /\ pc = "probing" /\ waiting /\ ~waiting' /\ UNCHANGED <<listening, open, port>>
        /\ Answered(TRUE) \/ Answered(FALSE) \/ Unanswered
        /\ (pc' = "setup" /\ step' = 1) \/ pc' = "probing"
    BY <1>4 DEF ProbeSucceeds, ProbeFails, Succeeds, Fails, Answered, Returns, modem, worker
  <2>2. CASE ~Working
    BY <2>1, <2>2 DEF AnswersInv, Working
  <2>3. CASE Working
    <3>1. Outstanding(asked', wire') <= late'
      BY <2>1, <2>3, AnswersOwed DEF Working
    <3>2. Sent' = 0 /\ Excess' = late'
      BY <2>1, SentIs, TypeParts, FaultsAssumption DEF Excess, SafeInv, HistoryTypes
    <3>3. QED BY <1>0, <3>1, <3>2, EarlyKept
  <2>4. QED BY <2>2, <2>3
<1>5. QED BY <1>1, <1>2, <1>3, <1>4 DEF Ports

\* A required command that returns an error ends Init; one that returns OK was done,
\* or another's answer was taken for its own.
LEMMA AnswersOfSetting ==
  ASSUME SafeInv, SafeInv', AnswersInv, Setting
  PROVE  AnswersInv'
<1>0. /\ asked' \in Seq(Commands) /\ wire' \in Seq(Lines) /\ waiting' \in BOOLEAN
      /\ asked \in Seq(Commands) /\ wire \in Seq(Lines) /\ waiting \in BOOLEAN /\ open \in BOOLEAN
      /\ late \in Int /\ late' \in Int /\ step \in 0..11 /\ Sent \in Int /\ Excess \in Int
  BY TypesUsed, TypeParts, FaultsAssumption DEF SafeInv, LinkTypes, HistoryTypes
<1>1. CASE SendSetup
  <2>1. /\ pc = "setup" /\ pc' = "setup" /\ ~waiting /\ waiting' /\ step' = step
        /\ UNCHANGED <<listening, open, port, wire, done, late>>
        /\ asked' = IF open THEN Append(asked, Setup[step]) ELSE asked
    BY <1>1 DEF SendSetup, Send, modem, worker
  <2>2. CASE ~Working
    BY <2>1, <2>2 DEF AnswersInv, Working
  <2>3. CASE Working
    <3>1. asked' = Append(asked, Setup[step])
      BY <2>1, <2>3 DEF Working
    <3>2. Sent = step - 1 /\ Sent' = step /\ Excess = late /\ Excess' = late + 1
      <4>1. Sent = step - 1 /\ Sent' = step
        BY <2>1, SentIs
      <4>2. Excess = late /\ Excess' = late' + 1 /\ late' = late
        BY <1>0, <2>1, ExcessIs
      <4>3. QED BY <4>1, <4>2
    <3>3. step \in 1..11 /\ step - 1 \in 0..10 /\ step = step - 1 + 1
      BY <1>0, <2>1 DEF SafeInv, LinkInv
    <3>4. InOrder(step - 1, asked, wire, done) /\ Counted(step - 1, asked, wire, done, late)
      BY <2>3, <3>2 DEF AnswersInv
    <3>5. /\ InOrder(step, Append(asked, Setup[step]), wire, done)
          /\ Counted(step, Append(asked, Setup[step]), wire, done, late + 1)
      BY <1>0, <3>3, <3>4, CommandSent
    <3>6. QED BY <2>1, <3>1, <3>2, <3>5 DEF AnswersInv
  <2>4. QED BY <2>2, <2>3
<1>2. CASE StepSucceeds \/ StepFails
  <2>1. /\ pc = "setup" /\ waiting /\ ~waiting' /\ UNCHANGED <<listening, open, port, done>>
        /\ Answered(TRUE) \/ Answered(FALSE) \/ Unanswered
    BY <1>2 DEF StepSucceeds, StepFails, Succeeds, Fails, Answered, Returns, modem
  <2>2. CASE ~Working
    BY <2>1, <2>2 DEF AnswersInv, Working
  <2>3. Current = Setup[step] /\ step \in 1..11 /\ Len(Setup) = 11
    BY <1>0, <2>1, SetupCommands DEF Current, SafeInv, LinkInv
  <2>4. Excess' = late' /\ Sent = step /\ Excess = late + 1
    <3>1. Sent = step
      BY <2>1, SentIs
    <3>2. Excess' = late' /\ Excess = late + 1
      BY <1>0, <2>1, ExcessIs
    <3>3. QED BY <3>1, <3>2
  <2>5. ASSUME Working
        PROVE  Outstanding(asked', wire') <= Excess'
    BY <2>1, <2>4, <2>5, AnswersOwed DEF Working
  <2>6. CASE Working /\ pc' \in {"pausing", "giving up"}
    <3>1. Sent' = 0
      BY <2>6, SentIs
    <3>2. Outstanding(asked', wire') <= Excess'
      BY <2>5, <2>6
    <3>3. Sent' \in Int /\ Sent' <= 8
      BY <3>1
    <3>4. QED BY <1>0, <3>2, <3>3, EarlyKept
  <2>7. CASE Working /\ Advance
    <3>1. /\ step = 11 => pc' = "ready"
          /\ pc' \in {"ready", "setup"} /\ Sent' = step
      <4>1. \/ step = 11 /\ pc' = "ready" /\ step' = step
            \/ step # 11 /\ pc' = "setup" /\ step' = step + 1
        BY <2>1, <2>3, <2>7 DEF Advance
      <4>2. CASE step = 11 /\ pc' = "ready" /\ step' = step
        BY <1>0, <4>2, SentIs
      <4>3. CASE step # 11 /\ pc' = "setup" /\ step' = step + 1
        <5>1. Sent' = step' - 1
          BY <2>1, <4>3, SentIs
        <5>2. QED BY <2>3, <4>3, <5>1
      <4>4. QED BY <4>1, <4>2, <4>3
    <3>2. CASE step <= 8
      BY <1>0, <2>3, <2>5, <2>7, <3>1, <3>2, EarlyKept
    <3>3. CASE step > 8
      <4>1. step \in 9..11
        BY <2>3, <3>3
      <4>2. Current \in Required /\ Current # "AT+CPIN?"
        BY <2>3, <4>1, SetupCommands
      <4>3. Answered(TRUE)
        <5>1. ~StepFails
          <6>1. SUFFICES ASSUME StepFails PROVE FALSE
            OBVIOUS
          <6>2. pc' = "giving up"
            BY <4>2, <6>1 DEF StepFails, FailOrMoveOn
          <6>3. QED BY <3>1, <6>2
        <5>2. QED BY <1>2, <5>1 DEF StepSucceeds, Succeeds
      <4>4. wire # <<>> /\ Head(wire) = "OK" /\ wire' = Tail(wire) /\ asked' = asked /\ late' = late
        BY <4>3 DEF Answered
      <4>5. InOrder(step, asked, wire, done) /\ Counted(step, asked, wire, done, late + 1)
        BY <2>4, <2>7 DEF AnswersInv
      <4>6. InOrder(step, asked, wire', done) /\ Counted(step, asked, wire', done, late + 1 - 1)
        BY <1>0, <2>3, <4>4, <4>5, LineTaken
      <4>7. late + 1 - 1 = late
        BY <1>0
      <4>8. QED BY <2>1, <2>4, <3>1, <4>4, <4>6, <4>7 DEF AnswersInv
    <3>4. QED BY <2>3, <3>2, <3>3
  <2>8. Advance \/ pc' \in {"pausing", "giving up"}
    BY <1>2 DEF StepSucceeds, StepFails, FailOrMoveOn, Pause
  <2>9. QED BY <2>2, <2>6, <2>7, <2>8
<1>3. CASE PauseEnds
  <2>1. /\ pc = "pausing" /\ pc' = "setup"
        /\ UNCHANGED <<listening, open, port, asked, wire, waiting, done, step, late>>
    BY <1>3 DEF PauseEnds, link, modem
  <2>2. CASE ~Working
    BY <2>1, <2>2 DEF AnswersInv, Working
  <2>3. CASE Working
    <3>1. step = 4 /\ ~waiting
      <4>1. Setup[step] = "AT+CPIN?" /\ step >= 1 /\ ~waiting
        BY <1>0, <2>1 DEF SafeInv, LinkInv
      <4>2. step \in 1..11
        BY <1>0, <4>1
      <4>3. QED BY <4>1, <4>2, SetupCommands
    <3>2. Sent = 0 /\ Sent' = 3 /\ Excess' = Excess
      BY <2>1, <3>1, SentIs DEF Excess
    <3>3. Outstanding(asked, wire) <= Excess
      BY <1>0, <2>3, <3>2, EarlyAnswers DEF AnswersInv
    <3>4. QED BY <1>0, <2>1, <3>2, <3>3, EarlyKept
  <2>4. QED BY <2>2, <2>3
<1>4. CASE GiveUp
  BY <1>4 DEF GiveUp, AnswersInv, Working
<1>5. QED BY <1>1, <1>2, <1>3, <1>4 DEF Setting

LEMMA AnswersKept == SafeInv /\ AnswersInv /\ [Next]_vars => AnswersInv'
<1> SUFFICES ASSUME SafeInv, AnswersInv, [Next]_vars PROVE AnswersInv'
  OBVIOUS
<1>0. SafeInv'
  BY NextSafe
<1>1. CASE ModemExecutes \/ SimBecomesReady \/ PortFails
  BY <1>1, AnswersOfModem
<1>2. CASE Collect \/ DropLine
  BY <1>2, AnswersOfLines
<1>3. CASE Ports
  BY <1>0, <1>3, AnswersOfPorts
<1>4. CASE Setting
  BY <1>0, <1>4, AnswersOfSetting
<1>5. CASE DeadlinePasses \/ UNCHANGED vars
  <2>1. UNCHANGED <<listening, open, port, asked, wire, waiting, done, pc, step, late>>
    BY <1>5 DEF DeadlinePasses, vars, modem, link, worker
  <2>2. Sent' = Sent /\ Excess' = Excess /\ Working' = Working
    BY <2>1 DEF Sent, Excess, Working
  <2>3. QED BY <2>1, <2>2 DEF AnswersInv
<1>6. CASE NextWorker
  BY <1>6 DEF NextWorker, AnswersInv, Working
<1>7. QED BY <1>1, <1>2, <1>3, <1>4, <1>5, <1>6 DEF Next
-------------------------------------------------------------------------------
(* What is configured when Init has succeeded *)

LEMMA ReadyKept == SafeInv /\ AnswersInv /\ ReadyIsConfigured /\ [Next]_vars => ReadyIsConfigured'
<1> SUFFICES ASSUME SafeInv, AnswersInv, ReadyIsConfigured, [Next]_vars, pc' = "ready"
             PROVE  Cardinality(Required \ done') <= late'
  BY DEF ReadyIsConfigured
<1>0. SafeInv' /\ AnswersInv'
  BY NextSafe, AnswersKept
<1>1. CASE pc = "ready"
  <2>1. UNCHANGED late /\ done \subseteq done'
    <3>1. ~waiting
      BY <1>1 DEF SafeInv, LinkInv
    <3>2. CASE ModemExecutes \/ SimBecomesReady \/ PortFails
      BY <3>2 DEF ModemExecutes, SimBecomesReady, PortFails, modem
    <3>3. CASE Collect \/ DropLine
      BY <3>3 DEF Collect, DropLine, modem
    <3>4. CASE Ports \/ Setting \/ DeadlinePasses
      BY <1>1, <3>4 DEF Ports, OpenPort, NoPortAnswers, SendProbe, ProbeSucceeds, ProbeFails, NextPort,
                        Setting, SendSetup, StepSucceeds, StepFails, PauseEnds, GiveUp, DeadlinePasses
    <3>5. CASE NextWorker
      BY <3>5 DEF NextWorker
    <3>6. CASE UNCHANGED vars
      BY <3>6 DEF vars, modem
    <3>7. QED BY <3>2, <3>3, <3>4, <3>5, <3>6 DEF Next
  <2>2. IsFiniteSet(Required)
    <3>1. IsFiniteSet({"AT+CMGF"}) /\ IsFiniteSet({"AT+CPMS"}) /\ IsFiniteSet({"AT+CNMI"})
      BY FS_Singleton
    <3>2. IsFiniteSet({"AT+CMGF"} \union {"AT+CPMS"})
      BY <3>1, FS_Union
    <3>3. IsFiniteSet(({"AT+CMGF"} \union {"AT+CPMS"}) \union {"AT+CNMI"})
      BY <3>1, <3>2, FS_Union
    <3>4. Required = ({"AT+CMGF"} \union {"AT+CPMS"}) \union {"AT+CNMI"}
      BY DEF Required
    <3>5. QED BY <3>3, <3>4
  <2>3. Required \ done' \subseteq Required \ done /\ IsFiniteSet(Required \ done)
    BY <2>1, <2>2, FS_Subset
  <2>4. Cardinality(Required \ done') <= Cardinality(Required \ done)
    BY <2>3, FS_Subset
  <2>5. Cardinality(Required \ done) <= late
    BY <1>1 DEF ReadyIsConfigured
  <2>6. Cardinality(Required \ done') \in Nat /\ Cardinality(Required \ done) \in Nat /\ late \in Int
    BY <2>3, FS_Subset, FS_CardinalityType, TypesUsed
  <2>7. QED BY <2>1, <2>4, <2>5, <2>6
<1>2. CASE pc # "ready"
  <2>1. StepSucceeds \/ StepFails
    <3>1. CASE ModemExecutes \/ SimBecomesReady \/ PortFails \/ Collect \/ DropLine
      BY <1>2, <3>1 DEF ModemExecutes, SimBecomesReady, PortFails, Collect, DropLine, worker
    <3>2. CASE Ports \/ DeadlinePasses \/ NextWorker \/ UNCHANGED vars
      BY <1>2, <3>2 DEF Ports, OpenPort, NoPortAnswers, SendProbe, ProbeSucceeds, ProbeFails, NextPort,
                        DeadlinePasses, NextWorker, vars, worker
    <3>3. CASE SendSetup \/ PauseEnds \/ GiveUp
      BY <1>2, <3>3 DEF SendSetup, PauseEnds, GiveUp, worker
    <3>4. QED BY <3>1, <3>2, <3>3 DEF Next, Setting
  <2>2. pc = "setup" /\ Returns
    BY <2>1 DEF StepSucceeds, StepFails
  <2>3. step = 11 /\ Setup[step] \in Required /\ Setup[step] # "AT+CPIN?" /\ Current = Setup[step]
    <3>1. Current = Setup[step] /\ step \in 1..11 /\ Len(Setup) = 11
      BY <2>2, TypesUsed, SetupCommands DEF Current, SafeInv, LinkInv
    <3>2. Advance
      BY <2>1 DEF StepSucceeds, StepFails, FailOrMoveOn, Pause
    <3>3. step = 11
      BY <2>2, <3>1, <3>2 DEF Advance
    <3>4. QED BY <3>1, <3>3, SetupCommands
  <2>4. StepSucceeds
    BY <2>1, <2>3 DEF StepFails, FailOrMoveOn
  <2>5. wire # <<>> /\ waiting' = FALSE /\ UNCHANGED <<listening, open, port>>
    BY <2>4 DEF StepSucceeds, Succeeds, Answered, Returns, modem
  <2>6. Working'
    BY <2>5, TypesUsed DEF SafeInv, LinkInv, Working
  <2>7. Sent' = 11 /\ Excess' = late' /\ late' \in Int
    <3>1. Sent' = 11 /\ ~waiting'
      BY <2>5, SentIs
    <3>2. late \in Int /\ late' \in Int
      BY <1>0, TypesUsed, TypeParts, FaultsAssumption DEF SafeInv, HistoryTypes
    <3>3. QED BY <3>1, <3>2, ExcessIs
  <2>8. Counted(11, asked', wire', done', late')
    BY <1>0, <2>6, <2>7 DEF AnswersInv
  <2>9. asked' \in Seq(Commands) /\ wire' \in Seq(Lines)
    BY <1>0, TypeParts DEF SafeInv, LinkTypes
  <2>10. QED BY <2>7, <2>8, <2>9, AllCounted
<1>3. QED BY <1>1, <1>2

\* worker.go:94: once Init has succeeded, the modem has done every one of the required
\* commands, except at most one for each answer that came after its command had timed
\* out: whatever else failed, and however often.
THEOREM ReadyConfigured == Spec => []ReadyIsConfigured
<1>1. Init => IInv
  <2>1. Init => SafeInv
    BY InitSafe
  <2>2. Init => AnswersInv /\ ReadyIsConfigured
    BY DEF Init, AnswersInv, Working, ReadyIsConfigured
  <2>3. QED BY <2>1, <2>2 DEF IInv
<1>2. IInv /\ [Next]_vars => IInv'
  BY NextSafe, AnswersKept, ReadyKept DEF IInv
<1>3. IInv => ReadyIsConfigured
  BY DEF IInv
<1>4. QED BY <1>1, <1>2, <1>3, PTL DEF Spec
-------------------------------------------------------------------------------
(* Whose identity is read *)

\* Up to the SIM's state nothing that is asked, under way or collected can be mistaken
\* for an IMEI.
Early == pc \in {"opening", "probing", "failed"} \/ step <= 4
Others == Lines \ {"bare iccid"}
EarlyInv ==
  Early => asked \in Seq(Commands \ {"AT+CICCID"}) /\ wire \in Seq(Others) /\ got \in Seq(Others)

\* What is under way ends with a final result: once none is owed, nothing is under way.
EndsInv == wire # <<>> => wire[Len(wire)] \in Final

\* As long as no answer came late, the command at hand reads its own answer.
OwnInv ==
  Working /\ late = 0 /\ waiting =>
    /\ asked \in Seq({Current})
    /\ wire \in Seq({Current} \union Replies(Current) \union Final)
    /\ got \in Seq(Replies(Current))

IdentityInv == EarlyInv /\ EndsInv /\ OwnInv /\ IdentityIsOwn

LEMMA EmptyIn == \A S : <<>> \in Seq(S)
BY SingleLine

LEMMA TailIn ==
  ASSUME NEW S, NEW s \in Seq(S), s # <<>>
  PROVE  Tail(s) \in Seq(S) /\ Head(s) \in S
BY HeadTailProperties

\* An answer of lines of S that ends with a final result.
LEMMA AnswerIn ==
  ASSUME NEW S, NEW w \in Seq(S), NEW u \in Seq(S), NEW r \in S
  PROVE  /\ w \o u \o <<r>> \in Seq(S)
         /\ (w \o u \o <<r>>)[Len(w \o u \o <<r>>)] = r
<1> DEFINE x == w \o u
           e == <<r>>
<1>1. x \in Seq(S) /\ e \in Seq(S) /\ Len(e) = 1 /\ e[1] = r
  BY ConcatProperties, SingleLine
<1> HIDE DEF x, e
<1>2. /\ x \o e \in Seq(S) /\ Len(x \o e) = Len(x) + Len(e) /\ Len(x) \in Nat
      /\ \A i \in 1..(Len(x) + Len(e)) : (x \o e)[i] = IF i <= Len(x) THEN x[i] ELSE e[i - Len(x)]
  BY <1>1, ConcatProperties, LenProperties
<1>3. (x \o e)[Len(x) + 1] = e[1]
  BY <1>1, <1>2
<1>4. QED BY <1>1, <1>2, <1>3 DEF x, e


LEMMA EarlyLinesKept ==
  ASSUME SafeInv, EarlyInv, [Next]_vars
  PROVE  EarlyInv'
<1>0. step \in 0..11 /\ Final \subseteq Others /\ (pc = "setup" => step >= 1)
  <2>1. step \in 0..11
    BY TypesUsed
  <2>2. Final \subseteq Others
    BY LinesAndCommands DEF Others, Final
  <2>3. pc = "setup" => step >= 1
    BY DEF SafeInv, LinkInv
  <2>4. QED BY <2>1, <2>2, <2>3
<1>1. CASE ModemExecutes
  <2>1. UNCHANGED <<pc, step, got>>
    BY <1>1 DEF ModemExecutes, worker
  <2>2. SUFFICES ASSUME Early
                 PROVE  asked' \in Seq(Commands \ {"AT+CICCID"}) /\ wire' \in Seq(Others) /\ got' \in Seq(Others)
    BY <2>1 DEF EarlyInv, Early
  <2> DEFINE c == Head(asked)
             Own == {c} \union Replies(c)
  <2>3. PICK u \in Seq(Lines \ Final), r \in Final :
          /\ asked # <<>> /\ asked' = Tail(asked)
          /\ wire' = wire \o u \o <<r>>
          /\ u \in Seq(Own)
    BY <1>1, LinesAnswered
  <2>4. asked' \in Seq(Commands \ {"AT+CICCID"}) /\ c \in Commands \ {"AT+CICCID"}
    BY <2>2, <2>3, TailIn DEF EarlyInv
  <2>5. Own \subseteq Others
    <3>1. c \in Lines /\ c # "bare iccid"
      BY <2>4, LinesAndCommands
    <3>2. Replies(c) \subseteq Others
      BY <2>4 DEF Replies, Others, Lines
    <3>3. QED BY <3>1, <3>2 DEF Others
  <2>6. u \in Seq(Others) /\ r \in Others
    BY <1>0, <2>3, <2>5, SeqMonotonic
  <2>7. wire \in Seq(Others)
    BY <2>2 DEF EarlyInv
  <2>8. wire' \in Seq(Others)
    BY <2>3, <2>6, <2>7, AnswerIn
  <2>9. QED BY <2>1, <2>2, <2>4, <2>8 DEF EarlyInv
<1>2. CASE Collect \/ DropLine
  <2>1. /\ wire # <<>> /\ wire' = Tail(wire) /\ UNCHANGED <<pc, step, asked>>
        /\ got' = got \/ got' = Append(got, Head(wire))
    BY <1>2 DEF Collect, DropLine, worker
  <2>2. SUFFICES ASSUME Early
                 PROVE  asked' \in Seq(Commands \ {"AT+CICCID"}) /\ wire' \in Seq(Others) /\ got' \in Seq(Others)
    BY <2>1 DEF EarlyInv, Early
  <2>3. asked \in Seq(Commands \ {"AT+CICCID"}) /\ wire \in Seq(Others) /\ got \in Seq(Others)
    BY <2>2 DEF EarlyInv
  <2>4. wire' \in Seq(Others) /\ Head(wire) \in Others
    BY <2>1, <2>3, TailIn
  <2>5. Append(got, Head(wire)) \in Seq(Others)
    BY <2>3, <2>4, AppendProperties
  <2>6. QED BY <2>1, <2>3, <2>4, <2>5
<1>3. CASE SendProbe \/ SendSetup
  <2>1. /\ pc' = pc /\ wire' = wire /\ got' = <<>>
        /\ \/ pc = "probing" /\ (asked' = asked \/ asked' = Append(asked, Probe))
           \/ /\ pc = "setup" /\ step' = step
              /\ asked' = asked \/ asked' = Append(asked, Setup[step])
    BY <1>3 DEF SendProbe, SendSetup, Send, worker
  <2>2. SUFFICES ASSUME Early'
                 PROVE  asked' \in Seq(Commands \ {"AT+CICCID"}) /\ wire' \in Seq(Others) /\ got' \in Seq(Others)
    BY DEF EarlyInv
  <2>3. Early
    BY <2>1, <2>2 DEF Early
  <2>4. asked \in Seq(Commands \ {"AT+CICCID"}) /\ wire \in Seq(Others)
    BY <2>3 DEF EarlyInv
  <2>5. Probe \in Commands \ {"AT+CICCID"}
    BY DEF Commands, Probe
  <2>6. pc = "setup" => Setup[step] \in Commands \ {"AT+CICCID"}
    <3>1. SUFFICES ASSUME pc = "setup" PROVE Setup[step] \in Commands \ {"AT+CICCID"}
      OBVIOUS
    <3>2. step \in 1..11 /\ step # 5
      BY <1>0, <2>3, <3>1 DEF Early
    <3>3. QED BY <3>2, SetupCommands
  <2>7. asked' \in Seq(Commands \ {"AT+CICCID"})
    <3>1. \A c \in Commands \ {"AT+CICCID"} : Append(asked, c) \in Seq(Commands \ {"AT+CICCID"})
      BY <2>4, AppendProperties
    <3>2. CASE pc = "probing"
      <4>1. asked' = asked \/ asked' = Append(asked, Probe)
        BY <2>1, <3>2
      <4>2. Append(asked, Probe) \in Seq(Commands \ {"AT+CICCID"})
        BY <2>5, <3>1
      <4>3. QED BY <2>4, <4>1, <4>2
    <3>3. CASE pc = "setup"
      <4>1. asked' = asked \/ asked' = Append(asked, Setup[step])
        BY <2>1, <3>3
      <4>2. Append(asked, Setup[step]) \in Seq(Commands \ {"AT+CICCID"})
        BY <2>6, <3>1, <3>3
      <4>3. QED BY <2>4, <4>1, <4>2
    <3>4. QED BY <2>1, <3>2, <3>3
  <2>8. QED BY <2>1, <2>4, <2>7, EmptyIn
<1>4. CASE ProbeSucceeds \/ ProbeFails \/ StepSucceeds \/ StepFails
  <2>1. /\ Answered(TRUE) \/ Answered(FALSE) \/ Unanswered
        /\ got' = got
    BY <1>4 DEF ProbeSucceeds, ProbeFails, StepSucceeds, StepFails, Succeeds, Fails, Returns
  <2>2. /\ asked' = asked \/ asked' = <<>>
        /\ wire' = wire \/ wire' = <<>> \/ (wire # <<>> /\ wire' = Tail(wire))
    BY <2>1 DEF Answered, Unanswered
  <2>3. Early' => Early
    <3>1. CASE ProbeSucceeds \/ ProbeFails
      BY <3>1 DEF ProbeSucceeds, ProbeFails, Early
    <3>2. CASE StepSucceeds \/ StepFails
      <4>1. /\ pc = "setup" /\ pc' \in {"setup", "pausing", "giving up", "ready"}
            /\ step' = step \/ step' = step + 1
        BY <3>2 DEF StepSucceeds, StepFails, FailOrMoveOn, Pause, Advance
      <4>2. CASE step' = step
        BY <4>1, <4>2 DEF Early
      <4>3. CASE step' = step + 1
        <5>1. step + 1 <= 4 => step <= 4
          BY <1>0
        <5>2. QED BY <4>1, <4>3, <5>1 DEF Early
      <4>4. QED BY <4>1, <4>2, <4>3
    <3>3. QED BY <1>4, <3>1, <3>2
  <2>4. SUFFICES ASSUME Early
                 PROVE  asked' \in Seq(Commands \ {"AT+CICCID"}) /\ wire' \in Seq(Others) /\ got' \in Seq(Others)
    BY <2>3 DEF EarlyInv
  <2>5. asked \in Seq(Commands \ {"AT+CICCID"}) /\ wire \in Seq(Others) /\ got \in Seq(Others)
    BY <2>4 DEF EarlyInv
  <2>6. QED BY <2>1, <2>2, <2>5, EmptyIn, TailIn
<1>5. CASE NextPort \/ GiveUp \/ NextWorker
  <2>1. asked' = <<>> /\ wire' = <<>> /\ got' = <<>>
    BY <1>5 DEF NextPort, GiveUp, NextWorker, Close
  <2>2. QED BY <2>1, EmptyIn DEF EarlyInv
<1>6. CASE PortFails
  <2>1. asked' = <<>> /\ wire' = <<>> /\ UNCHANGED <<got, pc, step>>
    BY <1>6 DEF PortFails, worker
  <2>2. QED BY <2>1, EmptyIn DEF EarlyInv, Early
<1>7. CASE OpenPort \/ NoPortAnswers \/ PauseEnds \/ DeadlinePasses \/ SimBecomesReady \/ UNCHANGED vars
  <2>1. /\ UNCHANGED <<asked, wire, got>>
        /\ pc = "opening" \/ (pc = "pausing" /\ pc' = "setup" /\ step' = step) \/ UNCHANGED <<pc, step>>
    BY <1>7 DEF OpenPort, NoPortAnswers, PauseEnds, DeadlinePasses, SimBecomesReady, vars, link, worker
  <2>2. Early' => Early
    BY <2>1 DEF Early
  <2>3. QED BY <2>1, <2>2 DEF EarlyInv
<1>8. QED BY <1>1, <1>2, <1>3, <1>4, <1>5, <1>6, <1>7 DEF Next, Ports, Setting

LEMMA EndsKept ==
  ASSUME SafeInv, EndsInv, [Next]_vars
  PROVE  EndsInv'
<1>0. wire \in Seq(Lines)
  BY TypesUsed
<1>1. CASE ModemExecutes
  <2>1. PICK u \in Seq(Lines \ Final), r \in Final : wire' = wire \o u \o <<r>>
    BY <1>1, LinesAnswered
  <2>2. u \in Seq(Lines) /\ r \in Lines
    <3>1. Lines \ Final \subseteq Lines
      OBVIOUS
    <3>2. QED BY <3>1, LinesAndCommands, SeqMonotonic
  <2>3. wire'[Len(wire')] = r
    BY <1>0, <2>1, <2>2, AnswerIn
  <2>4. QED BY <2>1, <2>3 DEF EndsInv
<1>2. CASE wire # <<>> /\ wire' = Tail(wire)
  <2>1. SUFFICES ASSUME wire' # <<>> PROVE wire'[Len(wire')] \in Final
    BY DEF EndsInv
  <2>2. /\ wire' \in Seq(Lines) /\ Len(wire') = Len(wire) - 1 /\ Len(wire) \in Nat /\ Len(wire') \in Nat
        /\ \A i \in 1..Len(wire') : wire'[i] = wire[i + 1]
    BY <1>0, <1>2, HeadTailProperties, LenProperties
  <2>3. Len(wire') # 0
    BY <2>1, <2>2, EmptySeq
  <2>4. wire'[Len(wire')] = wire[Len(wire)]
    BY <2>2, <2>3
  <2>5. QED BY <1>2, <2>4 DEF EndsInv
<1>3. CASE wire' = wire \/ wire' = <<>>
  BY <1>3 DEF EndsInv
<1>4. ModemExecutes \/ (wire # <<>> /\ wire' = Tail(wire)) \/ wire' = wire \/ wire' = <<>>
  <2>1. CASE ModemExecutes \/ SimBecomesReady \/ PortFails \/ Collect \/ DropLine
    BY <2>1 DEF SimBecomesReady, PortFails, Collect, DropLine, link
  <2>2. CASE Ports
    BY <2>2 DEF Ports, OpenPort, NoPortAnswers, SendProbe, Send, ProbeSucceeds, ProbeFails, NextPort,
                Succeeds, Fails, Answered, Unanswered, Close, link
  <2>3. CASE Setting \/ DeadlinePasses \/ NextWorker \/ UNCHANGED vars
    BY <2>3 DEF Setting, SendSetup, Send, StepSucceeds, StepFails, PauseEnds, GiveUp, DeadlinePasses,
                NextWorker, Succeeds, Fails, Answered, Unanswered, Close, link, vars
  <2>4. QED BY <2>1, <2>2, <2>3 DEF Next
<1>5. QED BY <1>1, <1>2, <1>3, <1>4

\* When none is owed, nothing is on its way.
LEMMA NothingOwed ==
  ASSUME SafeInv, AnswersInv, EndsInv, Working, late = 0, ~waiting
  PROVE  asked = <<>> /\ wire = <<>>
<1>1. asked \in Seq(Commands) /\ wire \in Seq(Lines) /\ Sent \in Int /\ Excess = 0
  <2>1. Excess = late + 0
    BY DEF Excess
  <2>2. QED BY <2>1, TypesUsed
<1>2. Counted(Sent, asked, wire, done, 0)
  BY <1>1 DEF AnswersInv
<1>3. /\ Len(asked) \in Nat /\ Cardinality(Finals(wire)) \in Nat
      /\ Cardinality(Missed(Sent, asked, wire, done)) \in Nat
  BY <1>1, OutstandingCounted
<1>4. Len(asked) = 0 /\ Cardinality(Finals(wire)) = 0
  BY <1>2, <1>3 DEF Counted, Outstanding
<1>5. Finals(wire) = {}
  BY <1>1, <1>4, FinalsCounted, FS_EmptySet
<1>6. ASSUME wire # <<>> PROVE FALSE
  <2>1. Len(wire) \in 1..Len(wire)
    BY <1>1, <1>6, LenProperties, EmptySeq
  <2>2. Len(wire) \in Finals(wire)
    BY <1>6, <2>1 DEF EndsInv, Finals
  <2>3. QED BY <1>5, <2>2
<1>7. QED BY <1>1, <1>4, <1>6, EmptySeq

LEMMA OwnKept ==
  ASSUME SafeInv, AnswersInv, EndsInv, OwnInv, [Next]_vars
  PROVE  OwnInv'
<1> DEFINE Own(c) == {c} \union Replies(c) \union Final
<1> SUFFICES ASSUME Working', late' = 0, waiting'
             PROVE  /\ asked' \in Seq({Current'})
                    /\ wire' \in Seq({Current'} \union Replies(Current') \union Final)
                    /\ got' \in Seq(Replies(Current'))
  BY DEF OwnInv
<1>1. CASE ModemExecutes
  <2>1. /\ UNCHANGED <<listening, open, port, waiting, got, pc, step, late>>
        /\ Working /\ Current' = Current
    BY <1>1 DEF ModemExecutes, worker, Working, Current
  <2>2. asked \in Seq({Current}) /\ wire \in Seq(Own(Current)) /\ got \in Seq(Replies(Current))
    BY <2>1 DEF OwnInv
  <2>3. PICK u \in Seq(Lines \ Final), r \in Final :
          /\ asked # <<>> /\ asked' = Tail(asked)
          /\ wire' = wire \o u \o <<r>>
          /\ u \in Seq({Head(asked)} \union Replies(Head(asked)))
    BY <1>1, LinesAnswered
  <2>4. Head(asked) = Current /\ asked' \in Seq({Current})
    BY <2>2, <2>3, TailIn
  <2>5. u \in Seq(Own(Current)) /\ r \in Own(Current)
    <3>1. {Current} \union Replies(Current) \subseteq Own(Current)
      OBVIOUS
    <3>2. u \in Seq({Current} \union Replies(Current))
      BY <2>3, <2>4
    <3>3. QED BY <3>1, <3>2, SeqMonotonic
  <2>6. wire' \in Seq(Own(Current))
    <3> HIDE DEF Own
    <3>1. QED BY <2>2, <2>3, <2>5, AnswerIn
  <2>7. QED BY <2>1, <2>2, <2>4, <2>6
<1>2. CASE Collect \/ DropLine
  <2>1. /\ UNCHANGED <<listening, open, port, asked, waiting, pc, step, late>>
        /\ Working /\ Current' = Current
    BY <1>2 DEF Collect, DropLine, worker, modem, Working, Current
  <2>2. /\ wire # <<>> /\ wire' = Tail(wire) /\ Head(wire) \notin Final
        /\ got' = IF Head(wire) = Current THEN got ELSE Append(got, Head(wire))
    BY <1>2, <2>1 DEF Collect, DropLine, Final
  <2>3. asked \in Seq({Current}) /\ wire \in Seq(Own(Current)) /\ got \in Seq(Replies(Current))
    BY <2>1 DEF OwnInv
  <2>4. wire' \in Seq(Own(Current)) /\ Head(wire) \in Own(Current)
    <3> HIDE DEF Own
    <3>1. QED BY <2>2, <2>3, TailIn
  <2>5. Head(wire) # Current => Head(wire) \in Replies(Current)
    BY <2>2, <2>4
  <2>6. got' \in Seq(Replies(Current))
    BY <2>2, <2>3, <2>5, AppendProperties
  <2>7. QED BY <2>1, <2>3, <2>4, <2>6
<1>3. CASE SendProbe \/ SendSetup
  <2>1. /\ ~waiting /\ UNCHANGED <<listening, open, port, pc, late, wire>>
        /\ got' = <<>> /\ Current' = Current
        /\ asked' = asked \/ asked' = Append(asked, Current)
    BY <1>3 DEF SendProbe, SendSetup, Send, worker, modem, Current
  <2>2. asked = <<>> /\ wire = <<>>
    BY <2>1, NothingOwed DEF Working
  <2>3. asked \in Seq({Current}) /\ Current \in {Current}
    BY <2>2, EmptyIn
  <2>4. asked' \in Seq({Current})
    BY <2>1, <2>3, AppendProperties
  <2>5. QED BY <2>1, <2>2, <2>4, EmptyIn
<1>4. CASE SimBecomesReady \/ DeadlinePasses \/ UNCHANGED vars
  <2>1. UNCHANGED <<listening, open, port, asked, wire, waiting, got, pc, step, late>>
    BY <1>4 DEF SimBecomesReady, DeadlinePasses, vars, modem, link, worker
  <2>2. Working /\ Current' = Current
    BY <2>1 DEF Working, Current
  <2>3. QED BY <2>1, <2>2 DEF OwnInv
<1>5. CASE \/ PortFails \/ OpenPort \/ NoPortAnswers \/ NextPort \/ GiveUp \/ NextWorker \/ PauseEnds
           \/ ProbeSucceeds \/ ProbeFails \/ StepSucceeds \/ StepFails
  <2>1. \/ ~open' \/ ~waiting'
        \/ pc \in {"opening", "pausing"} /\ waiting' = waiting
    BY <1>5 DEF PortFails, OpenPort, NoPortAnswers, NextPort, GiveUp, NextWorker, PauseEnds, ProbeSucceeds,
                ProbeFails, StepSucceeds, StepFails, Returns, Close, link
  <2>2. pc \in {"opening", "pausing"} => ~waiting
    BY DEF SafeInv, LinkInv
  <2>3. QED BY <2>1, <2>2 DEF Working
<1>6. QED BY <1>1, <1>2, <1>3, <1>4, <1>5 DEF Next, Ports, Setting

LEMMA IdentityKept ==
  ASSUME SafeInv, EarlyInv, OwnInv, IdentityIsOwn, [Next]_vars
  PROVE  IdentityIsOwn'
<1>0. late \in Nat /\ step \in 0..11 /\ info \in Infos
  <2>1. step \in 0..11
    BY TypesUsed
  <2>2. late \in 0..MaxFaults /\ info \in Infos
    BY TypeParts DEF SafeInv, HistoryTypes, WorkerTypes
  <2>3. QED BY <2>1, <2>2, FaultsAssumption
<1>1. CASE info' = info /\ late' \in {late, late + 1}
  <2>1. late' = 0 => late = 0
    BY <1>0, <1>1
  <2>2. QED BY <1>1, <2>1 DEF IdentityIsOwn
<1>2. CASE info' = NoInfo
  BY <1>2 DEF NoInfo, IdentityIsOwn
<1>3. CASE StepSucceeds
  <2>1. /\ pc = "setup" /\ waiting /\ wire # <<>> /\ late' = late
        /\ info' = info \/ Record(Current)
    BY <1>3 DEF StepSucceeds, Succeeds, Answered
  <2>2. Current = Setup[step] /\ step \in 1..11
    BY <1>0, <2>1 DEF Current, SafeInv, LinkInv
  <2>3. CASE info' = info
    BY <1>1, <2>1, <2>3
  <2>4. CASE Current = "AT+CGSN" /\ info' = [info EXCEPT !.imei = FirstDigits]
    <3>1. step = 3
      BY <2>2, <2>4, SetupCommands
    <3>2. got \in Seq(Others)
      BY <3>1 DEF EarlyInv, Early
    <3>3. FirstDigits = "" \/ FirstDigits \in Others \intersect Digits
      BY <3>2, FirstOfDigits
    <3>4. FirstDigits \in {"", "imei"}
      BY <3>3 DEF Others, Digits
    <3>5. info'.imei = FirstDigits /\ info'.iccid = info.iccid
      BY <1>0, <2>4 DEF Infos
    <3>6. QED BY <2>1, <3>4, <3>5 DEF IdentityIsOwn
  <2>5. CASE Current = "AT+CICCID" /\ info' = [info EXCEPT !.iccid = ParseICCID]
    <3>1. info'.imei = info.imei /\ info'.iccid = ParseICCID
      BY <1>0, <2>5 DEF Infos
    <3>2. Working
      BY <2>1, TypesUsed DEF SafeInv, LinkInv, Working
    <3>3. late = 0 => ParseICCID \in {"", "iccid"}
      <4>1. SUFFICES ASSUME late = 0, got # <<>> PROVE Head(got) \in {"iccid", "bare iccid"}
        BY DEF ParseICCID
      <4>2. got \in Seq(Replies("AT+CICCID"))
        BY <2>1, <2>5, <3>2, <4>1 DEF OwnInv
      <4>3. QED BY <4>1, <4>2, TailIn DEF Replies
    <3>4. QED BY <2>1, <3>1, <3>3 DEF IdentityIsOwn
  <2>6. CASE \/ info' = [info EXCEPT !.number = Has("number")]
             \/ info' = [info EXCEPT !.operator = Has("operator")]
    <3>1. info'.imei = info.imei /\ info'.iccid = info.iccid
      BY <1>0, <2>6 DEF Infos
    <3>2. QED BY <2>1, <3>1 DEF IdentityIsOwn
  <2>7. QED BY <2>1, <2>3, <2>4, <2>5, <2>6 DEF Record
<1>4. (info' = info /\ late' \in {late, late + 1}) \/ info' = NoInfo \/ StepSucceeds
  <2>1. CASE ModemExecutes \/ SimBecomesReady \/ PortFails \/ Collect \/ DropLine \/ DeadlinePasses
    BY <2>1 DEF ModemExecutes, SimBecomesReady, PortFails, Collect, DropLine, DeadlinePasses, worker
  <2>2. CASE Ports
    BY <2>2 DEF Ports, OpenPort, NoPortAnswers, SendProbe, ProbeSucceeds, ProbeFails, NextPort,
                Succeeds, Fails, Answered, Unanswered, worker
  <2>3. CASE Setting \/ NextWorker \/ UNCHANGED vars
    BY <2>3 DEF Setting, SendSetup, StepFails, PauseEnds, GiveUp, NextWorker,
                Fails, Answered, Unanswered, worker, vars
  <2>4. QED BY <2>1, <2>2, <2>3 DEF Next
<1>5. QED BY <1>1, <1>2, <1>3, <1>4

\* messageKey, resolveName: however late its answers come, no modem is taken for another,
\* since the IMEI is asked for before anything else that answers with digits; and no SIM
\* is, unless an answer came late.
THEOREM IdentityRead == Spec => []IdentityIsOwn
<1>1. Init => IInv /\ IdentityInv
  <2>1. Init => IInv
    BY InitSafe DEF Init, IInv, AnswersInv, Working, ReadyIsConfigured
  <2>2. Init => EarlyInv
    BY EmptyIn DEF Init, EarlyInv
  <2>3. Init => EndsInv /\ OwnInv /\ IdentityIsOwn
    <3>1. Init => wire = <<>> /\ ~waiting /\ info = NoInfo
      BY DEF Init
    <3>2. NoInfo.imei = "" /\ NoInfo.iccid = ""
      BY DEF NoInfo
    <3>3. QED BY <3>1, <3>2 DEF EndsInv, OwnInv, IdentityIsOwn
  <2>4. QED BY <2>1, <2>2, <2>3 DEF IdentityInv
<1>2. IInv /\ IdentityInv /\ [Next]_vars => (IInv /\ IdentityInv)'
  BY NextSafe, AnswersKept, ReadyKept, EarlyLinesKept, EndsKept, OwnKept, IdentityKept DEF IInv, IdentityInv
<1>3. IdentityInv => IdentityIsOwn
  BY DEF IdentityInv
<1>4. QED BY <1>1, <1>2, <1>3, PTL DEF Spec
==============================================================================
