-------------------------- MODULE ModemWorkerProofs --------------------------
(***************************************************************************)
(* What the worker joins and saves: variables stay in range, and without a *)
(* segment stored twice a message is forwarded whole at most once.         *)
(***************************************************************************)
EXTENDS ModemWorker, SequencesExt, SequenceTheorems, FiniteSetTheorems, TLAPS

\* What was listed at one moment: of each slot one entry.
Snapshot(E) == \A e, f \in E : e[1] = f[1] => e = f

\* What is joined by one reference.
Joined(g) == g # {} /\ \A e, f \in g : Ref[e[2][1]] = Ref[f[2][1]]

\* The answers on their way are snapshots, and groups are what was joined.  Rows
\* are finitely many, being counted for the time of a message without one.
ListingInv ==
  /\ \A a \in ToSet(answers) : Snapshot(a.entries)
  /\ \A g \in todo : Joined(g) /\ Snapshot(g)
  /\ IsFiniteSet(saved)

TypeInv == TypeOK /\ ListingInv

Answer == [entries : SUBSET Entries, ok : BOOLEAN]
Rows == [segments : SUBSET Segments, whole : BOOLEAN, imei : BOOLEAN, time : Nat]

\* TypeOK by what actions change together.
LinkTypes ==
  /\ asked \in Seq({List} \union Slots)
  /\ answers \in Seq(Answer)
  /\ open \in BOOLEAN

WorkerTypes ==
  /\ pc \in {"off", "idle", "listing", "handling", "deleting"}
  /\ todo \subseteq SUBSET Entries
  /\ orphans \subseteq Slots /\ doomed \subseteq Slots
  /\ firstSeen \in [References -> {"no", "recently", "long ago"}]
  /\ imei \in BOOLEAN

RowTypes ==
  /\ saved \subseteq Rows
  /\ \A r \in saved : r.segments # {} /\ \A g, h \in r.segments : Ref[g[1]] = Ref[h[1]]

NetTypes ==
  /\ slots \in [Slots -> Segments \union {Empty}]
  /\ arrived \subseteq Segments
  /\ faults \in Nat

LEMMA TypeParts ==
  /\ TypeOK <=> LinkTypes /\ WorkerTypes /\ RowTypes /\ NetTypes
  /\ TypeOK' <=> LinkTypes' /\ WorkerTypes' /\ RowTypes' /\ NetTypes'
BY DEF TypeOK, LinkTypes, WorkerTypes, RowTypes, NetTypes, Answer, Rows

-------------------------------------------------------------------------------
(* Segments, entries and answers *)

LEMMA SegmentTypes ==
  ASSUME NEW g \in Segments
  PROVE  /\ g[1] \in Messages /\ g[2] \in 1..Parts[g[1]] /\ g = <<g[1], g[2]>>
         /\ Parts[g[1]] \in Nat \ {0} /\ Ref[g[1]] \in References
         /\ g # Empty
BY MessagesAssumption DEF Segments, References, Empty

LEMMA EntryTypes ==
  ASSUME NEW e \in Entries
  PROVE  e[1] \in Slots /\ e[2] \in Segments /\ e = <<e[1], e[2]>>
BY DEF Entries

\* One answer more, and one less.
LEMMA AnswerAppended ==
  ASSUME NEW S, NEW q \in Seq(S), NEW a \in S
  PROVE  ToSet(Append(q, a)) = ToSet(q) \union {a}
<1> DEFINE t == Append(q, a)
<1>1. /\ Len(q) \in Nat /\ DOMAIN q = 1..Len(q) /\ DOMAIN t = 1..(Len(q) + 1)
      /\ \A k \in 1..Len(q) : t[k] = q[k]
      /\ t[Len(q) + 1] = a
  BY AppendProperties, LenProperties
<1> HIDE DEF t
<1>2. \A k \in 1..(Len(q) + 1) : k \in 1..Len(q) \/ k = Len(q) + 1
  BY <1>1
<1>3. 1..Len(q) \subseteq 1..(Len(q) + 1) /\ Len(q) + 1 \in 1..(Len(q) + 1)
  BY <1>1
<1>4. ToSet(t) = ToSet(q) \union {a}
  BY <1>1, <1>2, <1>3 DEF ToSet
<1>5. QED BY <1>4 DEF t

LEMMA AnswerTaken ==
  ASSUME NEW S, NEW q \in Seq(S), q # <<>>
  PROVE  Head(q) \in ToSet(q) /\ ToSet(Tail(q)) \subseteq ToSet(q)
<1>1. /\ Len(q) \in Nat \ {0} /\ DOMAIN q = 1..Len(q)
      /\ Tail(q) \in Seq(S) /\ Len(Tail(q)) = Len(q) - 1
      /\ DOMAIN Tail(q) = 1..(Len(q) - 1)
      /\ \A k \in 1..(Len(q) - 1) : Tail(q)[k] = q[k + 1]
  BY HeadTailProperties, LenProperties, EmptySeq
<1>2. \A k \in 1..(Len(q) - 1) : k + 1 \in 1..Len(q)
  BY <1>1
<1>3. Head(q) = q[1] /\ 1 \in 1..Len(q)
  BY <1>1
<1>4. QED BY <1>1, <1>2, <1>3 DEF ToSet

\* An answer of which a line is dropped.
LEMMA AnswerReplaced ==
  ASSUME NEW S, NEW q \in Seq(S), q # <<>>, NEW a \in S
  PROVE  /\ <<a>> \o Tail(q) \in Seq(S)
         /\ ToSet(<<a>> \o Tail(q)) \subseteq {a} \union ToSet(q)
<1> DEFINE t == Tail(q)
           r == <<a>> \o t
<1>1. t \in Seq(S) /\ <<a>> \in Seq(S) /\ Len(<<a>>) = 1 /\ <<a>>[1] = a
  BY HeadTailProperties
<1>2. ToSet(t) \subseteq ToSet(q)
  BY AnswerTaken
<1> HIDE DEF t
<1>3. /\ r \in Seq(S) /\ Len(r) = 1 + Len(t)
      /\ \A k \in 1..(1 + Len(t)) : r[k] = IF k <= 1 THEN <<a>>[k] ELSE t[k - 1]
  BY <1>1, ConcatProperties
<1> HIDE DEF r
<1>4. /\ Len(t) \in Nat /\ DOMAIN t = 1..Len(t) /\ DOMAIN r = 1..(1 + Len(t))
  BY <1>1, <1>3, LenProperties
<1>5. \A k \in 1..(1 + Len(t)) : r[k] = a \/ (k - 1 \in 1..Len(t) /\ r[k] = t[k - 1])
  BY <1>1, <1>3, <1>4
<1>6. ToSet(r) \subseteq {a} \union ToSet(t)
  BY <1>4, <1>5 DEF ToSet
<1>7. QED BY <1>2, <1>3, <1>6 DEF r, t

-------------------------------------------------------------------------------
(* Groups and rows *)

\* Groups part the segments of a listing that decode and are no reports, and each
\* is joined by one reference.
LEMMA GroupsJoin ==
  ASSUME NEW E \in SUBSET Entries, Snapshot(E), NEW g \in Groups(E)
  PROVE  /\ g \subseteq E /\ Joined(g) /\ Snapshot(g)
         /\ \A e \in g : Decodes(e) /\ ~IsReport(e)
         /\ \A h \in Groups(E) : g \intersect h # {} => g = h
<1> DEFINE segments == {e \in E : Decodes(e) /\ ~IsReport(e)}
<1>1. PICK k \in {GroupKey(e) : e \in segments} : g = {e \in segments : GroupKey(e) = k}
  BY DEF Groups
<1>2. g \subseteq E /\ (\A e \in g : Decodes(e) /\ ~IsReport(e)) /\ g # {}
  BY <1>1
<1>3. ASSUME NEW e \in g, NEW f \in g
      PROVE  Ref[e[2][1]] = Ref[f[2][1]]
  <2>1. GroupKey(e) = GroupKey(f) /\ e \in E /\ f \in E
    BY <1>1
  <2>2. CASE Parts[e[2][1]] = 1 \/ Parts[f[2][1]] = 1
    <3>1. e[1] = f[1]
      BY <2>1, <2>2 DEF GroupKey
    <3>2. QED BY <2>1, <3>1 DEF Snapshot
  <2>3. CASE Parts[e[2][1]] # 1 /\ Parts[f[2][1]] # 1
    BY <2>1, <2>3 DEF GroupKey
  <2>4. QED BY <2>2, <2>3
<1>4. ASSUME NEW h \in Groups(E), g \intersect h # {}
      PROVE  g = h
  <2>1. PICK l : h = {e \in segments : GroupKey(e) = l}
    BY DEF Groups
  <2>2. QED BY <1>1, <1>4, <2>1
<1>5. QED BY <1>2, <1>3, <1>4 DEF Joined, Snapshot

LEMMA MessageOfGroup ==
  ASSUME NEW g \in SUBSET Entries, g # {}
  PROVE  /\ \E e \in g : MessageOf(g) = e[2][1]
         /\ MessageOf(g) \in Messages /\ RefOf(g) \in References
<1>1. \E e \in g : MessageOf(g) = e[2][1]
  BY DEF MessageOf
<1>2. QED BY <1>1, EntryTypes, SegmentTypes DEF RefOf

LEMMA RowTyped ==
  ASSUME NEW g \in SUBSET Entries, Joined(g), imei \in BOOLEAN, IsFiniteSet(saved)
  PROVE  /\ Row(g) \in Rows
         /\ Row(g).segments # {}
         /\ \A s, t \in Row(g).segments : Ref[s[1]] = Ref[t[1]]
<1>1. Cardinality(saved) \in Nat
  BY FS_CardinalityType
<1>2. Complete(g) \in BOOLEAN
  BY DEF Complete
<1>3. {e[2] : e \in g} \in SUBSET Segments
  BY EntryTypes
<1>4. Row(g) \in Rows
  BY <1>1, <1>2, <1>3 DEF Row, Rows
<1>5. QED BY <1>4 DEF Row, Joined

\* What is listed.
LEMMA ListingTyped ==
  ASSUME slots \in [Slots -> Segments \union {Empty}]
  PROVE  Listing \in SUBSET Entries /\ Snapshot(Listing)
BY DEF Listing, Entries, Snapshot

-------------------------------------------------------------------------------
(* Type correctness *)

LEMMA InitTyped == Init => TypeInv
<1> SUFFICES ASSUME Init PROVE TypeInv
  OBVIOUS
<1>1. LinkTypes
  BY EmptySeq DEF Init, LinkTypes
<1>2. WorkerTypes
  BY DEF Init, WorkerTypes
<1>3. RowTypes /\ NetTypes
  BY DEF Init, RowTypes, NetTypes
<1>4. ListingInv
  BY FS_EmptySet DEF Init, ListingInv, ToSet
<1>5. QED BY <1>1, <1>2, <1>3, <1>4, TypeParts DEF TypeInv

\* What leaves the worker and its port alone keeps the invariant about listings.
LEMMA ListingKept ==
  ASSUME ListingInv, ToSet(answers') \subseteq ToSet(answers), todo' \subseteq todo, saved' = saved
  PROVE  ListingInv'
BY DEF ListingInv

\* A command that is sent, or fails at once.
LEMMA CommandTyped ==
  ASSUME LinkTypes, NEW c \in {List} \union Slots, NEW waiting, NEW failed,
         Command(c, waiting, failed), open' = open
  PROVE  LinkTypes' /\ answers' = answers /\ pc' \in {waiting, failed}
<1>1. CASE open /\ asked' = Append(asked, c) /\ pc' = waiting /\ UNCHANGED answers
  <2>1. asked' \in Seq({List} \union Slots)
    BY <1>1, AppendProperties DEF LinkTypes
  <2>2. QED BY <1>1, <2>1 DEF LinkTypes
<1>2. CASE ~open /\ pc' = failed /\ UNCHANGED <<asked, answers>>
  BY <1>2 DEF LinkTypes
<1>3. QED BY <1>1, <1>2 DEF Command

LEMMA ModemExecutesTyped ==
  ASSUME TypeInv, ModemExecutes
  PROVE  TypeInv'
<1>1. LinkTypes /\ WorkerTypes /\ RowTypes /\ NetTypes /\ ListingInv
  BY TypeParts DEF TypeInv
<1>2. asked' = Tail(asked) /\ asked # <<>> /\ UNCHANGED <<arrived, open, worker, saved>>
  BY DEF ModemExecutes
<1>3. /\ NetTypes'
      /\ \E a \in Answer : Snapshot(a.entries) /\ answers' = Append(answers, a)
  <2>1. CASE answers' = Append(answers, Ok(Listing)) /\ UNCHANGED <<slots, faults>>
    <3>1. Listing \in SUBSET Entries /\ Snapshot(Listing)
      BY <1>1, ListingTyped DEF NetTypes
    <3>2. Ok(Listing) \in Answer /\ Ok(Listing).entries = Listing
      BY <3>1 DEF Ok, Answer
    <3>3. QED BY <1>1, <1>2, <2>1, <3>1, <3>2 DEF NetTypes
  <2>2. ASSUME NEW c \in Slots, slots' = [slots EXCEPT ![c] = Empty],
               answers' = Append(answers, Ok({})), UNCHANGED faults
        PROVE  <1>3!1 /\ <1>3!2
    <3>1. Ok({}) \in Answer /\ Snapshot(Ok({}).entries)
      BY DEF Ok, Answer, Snapshot
    <3>2. QED BY <1>1, <1>2, <2>2, <3>1 DEF NetTypes
  <2>3. CASE Fault("error") /\ answers' = Append(answers, Error) /\ UNCHANGED slots
    <3>1. Error \in Answer /\ Snapshot(Error.entries)
      BY DEF Error, Answer, Snapshot
    <3>2. QED BY <1>1, <1>2, <2>3, <3>1 DEF NetTypes, Fault
  <2>4. QED BY <2>1, <2>2, <2>3 DEF ModemExecutes
<1>4. PICK a \in Answer : Snapshot(a.entries) /\ answers' = Append(answers, a)
  BY <1>3
<1>5. LinkTypes'
  BY <1>1, <1>2, <1>4, AppendProperties, HeadTailProperties DEF LinkTypes
<1>6. ToSet(answers') = ToSet(answers) \union {a}
  BY <1>1, <1>4, AnswerAppended DEF LinkTypes
<1>7. ListingInv'
  BY <1>1, <1>2, <1>4, <1>6 DEF ListingInv, worker
<1>8. QED BY <1>1, <1>2, <1>3, <1>5, <1>7, TypeParts DEF TypeInv, WorkerTypes, RowTypes, worker

LEMMA DropLineTyped ==
  ASSUME TypeInv, DropLine
  PROVE  TypeInv'
<1>1. LinkTypes /\ WorkerTypes /\ RowTypes /\ NetTypes /\ ListingInv
  BY TypeParts DEF TypeInv
<1>2. answers # <<>> /\ UNCHANGED <<slots, arrived, asked, open, worker, saved, faults>>
  BY DEF DropLine
<1>3. Head(answers) \in Answer /\ Head(answers) \in ToSet(answers)
  BY <1>1, <1>2, HeadTailProperties, AnswerTaken DEF LinkTypes
<1>4. answers' \in Seq(Answer) /\ \A a \in ToSet(answers') : Snapshot(a.entries)
  <2>1. CASE answers' = Tail(answers)
    BY <1>1, <1>2, <2>1, HeadTailProperties, AnswerTaken DEF LinkTypes, ListingInv
  <2>2. ASSUME NEW e \in Head(answers).entries,
               answers' = <<[Head(answers) EXCEPT !.entries = @ \ {e}]>> \o Tail(answers)
        PROVE  <1>4!1 /\ <1>4!2
    <3> DEFINE a == [Head(answers) EXCEPT !.entries = @ \ {e}]
    <3>1. a \in Answer /\ a.entries \subseteq Head(answers).entries
      BY <1>3 DEF Answer
    <3>2. Snapshot(a.entries)
      BY <1>1, <1>3, <3>1 DEF ListingInv, Snapshot
    <3>3. answers' = <<a>> \o Tail(answers)
      BY <2>2
    <3> HIDE DEF a
    <3>4. answers' \in Seq(Answer) /\ ToSet(answers') \subseteq {a} \union ToSet(answers)
      BY <1>1, <1>2, <3>1, <3>3, AnswerReplaced DEF LinkTypes
    <3>5. QED BY <1>1, <3>2, <3>4 DEF ListingInv
  <2>3. QED BY <2>1, <2>2 DEF DropLine
<1>5. LinkTypes' /\ ListingInv'
  BY <1>1, <1>2, <1>4 DEF LinkTypes, ListingInv, worker
<1>6. QED BY <1>1, <1>2, <1>5, TypeParts DEF TypeInv, WorkerTypes, RowTypes, NetTypes, worker

LEMMA ListAnsweredTyped ==
  ASSUME TypeInv, ListAnswered
  PROVE  TypeInv'
<1>1. LinkTypes /\ WorkerTypes /\ RowTypes /\ NetTypes /\ ListingInv
  BY TypeParts DEF TypeInv
<1> DEFINE a == Head(answers)
<1>2. /\ answers # <<>> /\ answers' = Tail(answers)
      /\ UNCHANGED <<slots, arrived, asked, open, doomed, firstSeen, imei, saved, faults>>
  BY DEF ListAnswered
<1>3. /\ a \in Answer /\ Snapshot(a.entries)
      /\ answers' \in Seq(Answer) /\ ToSet(answers') \subseteq ToSet(answers)
  BY <1>1, <1>2, HeadTailProperties, AnswerTaken DEF LinkTypes, ListingInv
<1>4. a.entries \in SUBSET Entries
  BY <1>3 DEF Answer
<1>5. WorkerTypes' /\ \A g \in todo' : Joined(g) /\ Snapshot(g)
  <2>1. CASE /\ todo' = Groups(a.entries)
             /\ orphans' = {e[1] : e \in {e \in a.entries : Decodes(e) /\ IsReport(e)}}
             /\ pc' = "handling"
    <3>1. todo' \subseteq SUBSET Entries /\ \A g \in todo' : Joined(g) /\ Snapshot(g)
      BY <1>3, <1>4, <2>1, GroupsJoin
    <3>2. orphans' \subseteq Slots
      BY <1>4, <2>1, EntryTypes
    <3>3. QED BY <1>1, <1>2, <2>1, <3>1, <3>2 DEF WorkerTypes
  <2>2. CASE pc' = "idle" /\ UNCHANGED <<todo, orphans>>
    BY <1>1, <1>2, <2>2 DEF WorkerTypes, ListingInv
  <2>3. QED BY <2>1, <2>2 DEF ListAnswered
<1>6. LinkTypes' /\ ListingInv'
  BY <1>1, <1>2, <1>3, <1>5 DEF LinkTypes, ListingInv
<1>7. QED BY <1>1, <1>2, <1>5, <1>6, TypeParts DEF TypeInv, RowTypes, NetTypes

\* Each group handled leaves a row, or waits, or fails.
LEMMA HandleGroupTyped ==
  ASSUME TypeInv, HandleGroup
  PROVE  TypeInv'
<1>1. LinkTypes /\ WorkerTypes /\ RowTypes /\ NetTypes /\ ListingInv
  BY TypeParts DEF TypeInv
<1>2. PICK g \in todo : todo' = todo \ {g} /\ (NotYet(g) \/ TextFails(g) \/ Store(g))
  BY DEF HandleGroup
<1>3. UNCHANGED <<slots, arrived, asked, answers, open, pc, orphans, imei>>
  BY DEF HandleGroup, link
<1>4. /\ g \in SUBSET Entries /\ Joined(g) /\ RefOf(g) \in References
      /\ imei \in BOOLEAN /\ IsFiniteSet(saved)
  BY <1>1, MessageOfGroup DEF WorkerTypes, ListingInv, Joined
<1>5. /\ firstSeen' \in [References -> {"no", "recently", "long ago"}]
      /\ doomed' \subseteq Slots /\ faults' \in Nat
  <2>1. CASE NotYet(g)
    BY <1>1, <1>4, <2>1 DEF NotYet, WorkerTypes, NetTypes
  <2>2. CASE TextFails(g)
    BY <1>1, <2>2 DEF TextFails, WorkerTypes, NetTypes
  <2>3. CASE Store(g)
    <3>1. SlotsOf(g) \subseteq Slots
      BY <1>4, EntryTypes DEF SlotsOf
    <3>2. CASE /\ firstSeen' = [firstSeen EXCEPT ![RefOf(g)] = "no"]
               /\ doomed' = IF DeleteAfterRead THEN SlotsOf(g) ELSE {}
               /\ UNCHANGED faults
      BY <1>1, <1>4, <3>1, <3>2 DEF WorkerTypes, NetTypes
    <3>3. CASE Fault("db") /\ UNCHANGED <<saved, firstSeen, doomed>>
      <4>1. faults' \in Nat
        BY <1>1, <3>3 DEF Fault, NetTypes
      <4>2. QED BY <1>1, <3>3, <4>1 DEF WorkerTypes
    <3>4. QED BY <2>3, <3>2, <3>3 DEF Store
  <2>4. QED BY <1>2, <2>1, <2>2, <2>3
<1>6. RowTypes' /\ IsFiniteSet(saved')
  <2>1. CASE UNCHANGED saved
    BY <1>1, <1>4, <2>1 DEF RowTypes
  <2>2. CASE saved' = saved \union {Row(g)}
    <3>1. IsFiniteSet(saved')
      BY <1>4, <2>2, FS_AddElement
    <3>2. RowTypes'
      BY <1>1, <1>4, <2>2, RowTyped DEF RowTypes
    <3>3. QED BY <3>1, <3>2
  <2>3. QED BY <1>2, <2>1, <2>2 DEF NotYet, TextFails, Store
<1>7. LinkTypes' /\ WorkerTypes' /\ NetTypes' /\ ListingInv'
  BY <1>1, <1>2, <1>3, <1>5, <1>6 DEF LinkTypes, WorkerTypes, NetTypes, ListingInv
<1>8. QED BY <1>6, <1>7, TypeParts DEF TypeInv

\* The worker's remaining steps touch no answer, group or row but to forget them.
LEMMA OtherStepsTyped ==
  ASSUME TypeInv,
         \/ Start \/ BeginRead \/ DeleteSegment \/ DeleteAnswered \/ EndRead
         \/ PortClosed \/ WorkerEnds \/ PortFails \/ CommandTimesOut \/ Crash
  PROVE  TypeInv'
<1>1. LinkTypes /\ WorkerTypes /\ RowTypes /\ NetTypes /\ ListingInv
  BY TypeParts DEF TypeInv
<1>2. UNCHANGED <<slots, arrived, saved>>
  BY DEF Start, BeginRead, DeleteSegment, DeleteAnswered, EndRead, PortClosed, WorkerEnds,
         PortFails, CommandTimesOut, Crash
<1>3. faults' \in Nat
  BY <1>1 DEF Start, BeginRead, DeleteSegment, DeleteAnswered, EndRead, PortClosed, WorkerEnds,
              PortFails, CommandTimesOut, Crash, Fault, NetTypes
<1>4. LinkTypes' /\ ToSet(answers') \subseteq ToSet(answers)
  <2>1. CASE Start
    BY <1>1, <2>1 DEF Start, LinkTypes
  <2>2. CASE BeginRead
    BY <1>1, <2>2, CommandTyped DEF BeginRead
  <2>3. CASE DeleteSegment
    BY <1>1, <2>3, CommandTyped DEF DeleteSegment, WorkerTypes
  <2>4. CASE DeleteAnswered
    BY <1>1, <2>4, HeadTailProperties, AnswerTaken DEF DeleteAnswered, LinkTypes
  <2>5. CASE EndRead \/ PortClosed
    BY <1>1, <2>5 DEF EndRead, PortClosed, LinkTypes, link
  <2>6. CASE asked' = <<>> /\ answers' = <<>> /\ open' \in BOOLEAN
    BY <2>6, EmptySeq DEF LinkTypes, ToSet
  <2>7. CASE CommandTimesOut
    BY <1>1, <2>6, <2>7 DEF CommandTimesOut, LinkTypes
  <2>8. CASE WorkerEnds \/ PortFails \/ Crash
    BY <1>1, <2>6, <2>8 DEF WorkerEnds, PortFails, Crash, Forget, LinkTypes
  <2>9. QED BY <2>1, <2>2, <2>3, <2>4, <2>5, <2>7, <2>8
<1>5. WorkerTypes' /\ todo' \subseteq todo
  <2>1. CASE Start
    BY <1>1, <2>1 DEF Start, WorkerTypes
  <2>2. CASE BeginRead \/ DeleteSegment
    BY <1>1, <2>2 DEF BeginRead, DeleteSegment, Command, WorkerTypes
  <2>3. CASE DeleteAnswered \/ EndRead
    BY <1>1, <2>3 DEF DeleteAnswered, EndRead, WorkerTypes
  <2>4. CASE PortClosed \/ CommandTimesOut
    BY <1>1, <2>4 DEF PortClosed, CommandTimesOut, GiveUp, WorkerTypes
  <2>5. CASE WorkerEnds \/ Crash
    BY <1>1, <2>5 DEF WorkerEnds, Crash, Forget, WorkerTypes
  <2>6. CASE PortFails
    BY <1>1, <2>6 DEF PortFails, worker, WorkerTypes
  <2>7. QED BY <2>1, <2>2, <2>3, <2>4, <2>5, <2>6
<1>6. ListingInv'
  BY <1>1, <1>2, <1>4, <1>5, ListingKept
<1>7. QED BY <1>1, <1>2, <1>3, <1>4, <1>5, <1>6, TypeParts DEF TypeInv, RowTypes, NetTypes

LEMMA NextTyped == TypeInv /\ [Next]_vars => TypeInv'
<1> SUFFICES ASSUME TypeInv, [Next]_vars PROVE TypeInv'
  OBVIOUS
<1>0. LinkTypes /\ WorkerTypes /\ RowTypes /\ NetTypes /\ ListingInv
  BY TypeParts DEF TypeInv
<1>1. ASSUME NEW g \in Segments, NEW s \in Slots, Arrive(g, s)
      PROVE  TypeInv'
  <2>1. NetTypes'
    BY <1>0, <1>1 DEF Arrive, Fault, NetTypes
  <2>2. LinkTypes' /\ WorkerTypes' /\ RowTypes' /\ ListingInv'
    BY <1>0, <1>1 DEF Arrive, link, worker, LinkTypes, WorkerTypes, RowTypes, ListingInv
  <2>3. QED BY <2>1, <2>2, TypeParts DEF TypeInv
<1>2. CASE ModemExecutes
  BY <1>2, ModemExecutesTyped
<1>3. CASE DropLine
  BY <1>3, DropLineTyped
<1>4. CASE ListAnswered
  BY <1>4, ListAnsweredTyped
<1>5. CASE HandleGroup
  BY <1>5, HandleGroupTyped
<1>6. ASSUME NEW k \in References, WaitIsOver(k)
      PROVE  TypeInv'
  BY <1>0, <1>6, TypeParts
     DEF WaitIsOver, link, TypeInv, LinkTypes, WorkerTypes, RowTypes, NetTypes, ListingInv
<1>7. CASE UNCHANGED vars
  BY <1>0, <1>7, TypeParts
     DEF vars, link, worker, TypeInv, LinkTypes, WorkerTypes, RowTypes, NetTypes, ListingInv
<1>8. QED BY <1>1, <1>2, <1>3, <1>4, <1>5, <1>6, <1>7, OtherStepsTyped DEF Next, WorkerStep

LEMMA TypeInvHolds == Spec => []TypeInv
BY InitTyped, NextTyped, PTL DEF Spec

\* Variables stay in range for any messages, SIM size and faults: in particular
\* what a row joins shares a reference, though answers be late or cut short.
THEOREM TypeCorrect == Spec => []TypeOK
<1>1. TypeInv => TypeOK
  BY DEF TypeInv
<1>2. QED BY <1>1, TypeInvHolds, PTL

-------------------------------------------------------------------------------
(* A message is forwarded whole at most once *)

\* Each segment was listed once.
Apart(E) == \A e, f \in E : e[2] = f[2] => e = f

\* Without a segment stored twice, slots, answers and groups hold a segment once.
\* Then a group that counts as complete is complete.
OnceInv ==
  /\ Stored \subseteq arrived
  /\ \A s, t \in Slots : slots[s] = slots[t] /\ slots[s] # Empty => s = t
  /\ \A a \in ToSet(answers) : Apart(a.entries)
  /\ \A g \in todo : Apart(g)

WholeRows ==
  \A r \in saved : r.whole =>
    \A s \in r.segments : Recognisable(s[1]) =>
      r.segments = {s[1]} \X (1..Parts[s[1]]) /\ r.time = 0

WholeInv == OnceInv /\ WholeRows

\* Segments are counted and not told apart, but then there are just as many as told.
LEMMA CompleteIsWhole ==
  ASSUME NEW g \in SUBSET Entries, Joined(g), Apart(g), Complete(g),
         NEW s \in Row(g).segments, Recognisable(s[1])
  PROVE  Row(g).segments = {s[1]} \X (1..Parts[s[1]]) /\ Row(g).time = 0
<1> DEFINE m == s[1]
           P == {m} \X (1..Parts[m])
           f == [e \in g |-> e[2]]
<1>1. Row(g).segments = {e[2] : e \in g}
  BY DEF Row
<1>2. m \in Messages /\ Parts[m] \in Nat \ {0}
  BY <1>1, EntryTypes, SegmentTypes
<1>3. \A e \in g : e[2][1] = m
  <2>1. \A e \in g : e[2][1] \in Messages /\ Ref[e[2][1]] = Ref[m]
    BY <1>1, EntryTypes, SegmentTypes DEF Joined
  <2>2. QED BY <2>1 DEF Recognisable
<1>4. MessageOf(g) = m
  BY <1>1, <1>3, MessageOfGroup DEF Joined
<1>5. ASSUME NEW e \in g
      PROVE  e[2] \in P
  <2>1. e[2] = <<e[2][1], e[2][2]>> /\ e[2][2] \in 1..Parts[e[2][1]]
    BY EntryTypes, SegmentTypes
  <2>2. e[2][1] = m
    BY <1>3
  <2>3. QED BY <2>1, <2>2
<1>6. IsFiniteSet(P) /\ Cardinality(P) = Parts[m]
  <2>1. IsFiniteSet({m}) /\ Cardinality({m}) = 1
    BY FS_Singleton
  <2>2. IsFiniteSet(1..Parts[m]) /\ Cardinality(1..Parts[m]) = Parts[m]
    <3>1. Parts[m] \in Int /\ 1 \in Int /\ ~(1 > Parts[m]) /\ Parts[m] - 1 + 1 = Parts[m]
      BY <1>2
    <3>2. QED BY <3>1, FS_Interval
  <2>3. IsFiniteSet(P) /\ Cardinality(P) = 1 * Parts[m]
    BY <2>1, <2>2, FS_Product
  <2>4. QED BY <1>2, <2>3
<1>7. f \in Injection(g, P)
  <2>1. f \in [g -> P]
    BY <1>5
  <2>2. \A a, b \in g : f[a] = f[b] => a = b
    BY DEF Apart
  <2>3. QED BY <2>1, <2>2 DEF Injection, IsInjective
<1> HIDE DEF P, f
<1>8. IsFiniteSet(g) /\ Cardinality(g) <= Parts[m]
      /\ (Cardinality(g) = Parts[m] => f \in Surjection(g, P))
  BY <1>6, <1>7, FS_Injection
<1>9. Cardinality(g) = Parts[m]
  <2>1. Cardinality(g) >= Parts[m]
    BY <1>4 DEF Complete
  <2>2. Cardinality(g) \in Nat
    BY <1>8, FS_CardinalityType
  <2>3. QED BY <1>2, <1>8, <2>1, <2>2
<1>10. P \subseteq {e[2] : e \in g}
  BY <1>8, <1>9 DEF Surjection, f
<1>11. Row(g).segments = P
  BY <1>1, <1>5, <1>10
<1>12. Row(g).time = 0
  BY <1>4 DEF Row, Recognisable
<1>13. QED BY <1>11, <1>12 DEF P

LEMMA WholeRowsKept ==
  ASSUME WholeRows, saved' = saved
  PROVE  WholeRows'
BY DEF WholeRows, Recognisable

\* What leaves the slots alone, and lists and joins nothing new.
LEMMA OnceKept ==
  ASSUME OnceInv, UNCHANGED <<slots, arrived>>,
         ToSet(answers') \subseteq ToSet(answers), todo' \subseteq todo
  PROVE  OnceInv'
BY DEF OnceInv, Stored

LEMMA NextWhole ==
  ASSUME "twice" \notin FaultKinds, TypeInv, WholeInv, [Next]_vars
  PROVE  WholeInv'
<1>0. LinkTypes /\ WorkerTypes /\ RowTypes /\ NetTypes /\ ListingInv /\ OnceInv /\ WholeRows
  BY TypeParts DEF TypeInv, WholeInv
<1>1. ASSUME NEW g \in Segments, NEW s \in Slots, Arrive(g, s)
      PROVE  WholeInv'
  <2>1. g \notin arrived /\ slots' = [slots EXCEPT ![s] = g] /\ arrived' = arrived \union {g}
    BY <1>1 DEF Arrive, Fault
  <2>2. Stored' \subseteq arrived'
    BY <1>0, <2>1 DEF OnceInv, NetTypes, Stored
  <2>3. \A t \in Slots : slots[t] # g
    BY <1>0, <2>1, SegmentTypes DEF OnceInv, Stored
  <2>4. \A t, u \in Slots : slots'[t] = slots'[u] /\ slots'[t] # Empty => t = u
    BY <1>0, <2>1, <2>3 DEF OnceInv, NetTypes
  <2>5. QED BY <1>0, <1>1, <2>2, <2>4, WholeRowsKept DEF Arrive, link, worker, OnceInv, WholeInv
<1>2. CASE ModemExecutes
  <2>1. Stored' \subseteq arrived' /\ \A s, t \in Slots : slots'[s] = slots'[t] /\ slots'[s] # Empty => s = t
    <3>1. CASE UNCHANGED <<slots, arrived>>
      BY <1>0, <3>1 DEF OnceInv, Stored
    <3>2. ASSUME NEW c \in Slots, slots' = [slots EXCEPT ![c] = Empty], arrived' = arrived
          PROVE  <2>1
      BY <1>0, <3>2 DEF OnceInv, Stored, NetTypes
    <3>3. QED BY <1>2, <3>1, <3>2 DEF ModemExecutes
  <2>2. \E a \in Answer : Apart(a.entries) /\ answers' = Append(answers, a)
    <3>1. Listing \in SUBSET Entries /\ Apart(Listing)
      BY <1>0, ListingTyped DEF NetTypes, OnceInv, Listing, Apart
    <3>2. /\ \A E \in SUBSET Entries : Ok(E) \in Answer /\ Ok(E).entries = E
          /\ Error \in Answer /\ Error.entries = {}
      BY DEF Ok, Error, Answer
    <3>3. Apart({})
      BY DEF Apart
    <3>4. QED BY <1>2, <3>1, <3>2, <3>3 DEF ModemExecutes
  <2>3. \A a \in ToSet(answers') : Apart(a.entries)
    BY <1>0, <2>2, AnswerAppended DEF LinkTypes, OnceInv
  <2>4. QED BY <1>0, <1>2, <2>1, <2>3, WholeRowsKept DEF ModemExecutes, worker, OnceInv, WholeInv
<1>3. CASE DropLine
  <2>1. answers # <<>> /\ UNCHANGED <<slots, arrived, todo, saved>>
    BY <1>3 DEF DropLine, worker
  <2>2. Head(answers) \in Answer /\ Head(answers) \in ToSet(answers)
    BY <1>0, <2>1, HeadTailProperties, AnswerTaken DEF LinkTypes
  <2>3. CASE answers' = Tail(answers)
    BY <1>0, <2>1, <2>3, AnswerTaken, OnceKept, WholeRowsKept DEF LinkTypes, WholeInv
  <2>4. ASSUME NEW e \in Head(answers).entries,
               answers' = <<[Head(answers) EXCEPT !.entries = @ \ {e}]>> \o Tail(answers)
        PROVE  WholeInv'
    <3> DEFINE a == [Head(answers) EXCEPT !.entries = @ \ {e}]
    <3>1. a \in Answer /\ a.entries \subseteq Head(answers).entries
      BY <2>2 DEF Answer
    <3>2. Apart(a.entries)
      BY <1>0, <2>2, <3>1 DEF OnceInv, Apart
    <3>3. answers' = <<a>> \o Tail(answers)
      BY <2>4
    <3> HIDE DEF a
    <3>4. ToSet(answers') \subseteq {a} \union ToSet(answers)
      BY <1>0, <2>1, <3>1, <3>3, AnswerReplaced DEF LinkTypes
    <3>5. QED BY <1>0, <2>1, <3>2, <3>4, WholeRowsKept DEF OnceInv, Stored, WholeInv
  <2>5. QED BY <1>3, <2>3, <2>4 DEF DropLine
<1>4. CASE ListAnswered
  <2> DEFINE a == Head(answers)
  <2>1. answers # <<>> /\ answers' = Tail(answers) /\ UNCHANGED <<slots, arrived, saved>>
    BY <1>4 DEF ListAnswered
  <2>2. /\ a \in Answer /\ Snapshot(a.entries) /\ Apart(a.entries)
        /\ ToSet(answers') \subseteq ToSet(answers)
    BY <1>0, <2>1, HeadTailProperties, AnswerTaken DEF LinkTypes, ListingInv, OnceInv
  <2>3. a.entries \in SUBSET Entries
    BY <2>2 DEF Answer
  <2>4. \A g \in Groups(a.entries) : Apart(g)
    BY <2>2, <2>3, GroupsJoin DEF Apart
  <2>5. \A g \in todo' : Apart(g)
    BY <1>0, <1>4, <2>4 DEF ListAnswered, OnceInv
  <2>6. QED BY <1>0, <2>1, <2>2, <2>5, WholeRowsKept DEF OnceInv, Stored, WholeInv
<1>5. CASE HandleGroup
  <2>1. PICK g \in todo : todo' = todo \ {g} /\ (NotYet(g) \/ TextFails(g) \/ Store(g))
    BY <1>5 DEF HandleGroup
  <2>2. OnceInv'
    BY <1>0, <1>5, <2>1, OnceKept DEF HandleGroup, link
  <2>3. /\ g \in SUBSET Entries /\ Joined(g) /\ Apart(g)
        /\ imei \in BOOLEAN /\ IsFiniteSet(saved)
    BY <1>0 DEF WorkerTypes, ListingInv, OnceInv
  <2>4. CASE saved' = saved \union {Row(g)}
    <3>1. Row(g).whole => Complete(g)
      BY DEF Row
    <3>2. \A s \in Row(g).segments : Row(g).whole /\ Recognisable(s[1]) =>
            Row(g).segments = {s[1]} \X (1..Parts[s[1]]) /\ Row(g).time = 0
      BY <2>3, <3>1, CompleteIsWhole
    <3> DEFINE new == Row(g)
    <3>3. saved' = saved \union {new}
      BY <2>4
    <3>4. new.whole => \A s \in new.segments : Recognisable(s[1]) =>
            new.segments = {s[1]} \X (1..Parts[s[1]]) /\ new.time = 0
      BY <3>2
    <3> HIDE DEF new
    <3>5. WholeRows'
      BY <1>0, <3>3, <3>4 DEF WholeRows, Recognisable
    <3>6. QED BY <2>2, <3>5 DEF WholeInv
  <2>5. CASE UNCHANGED saved
    BY <1>0, <2>2, <2>5, WholeRowsKept DEF WholeInv
  <2>6. QED BY <2>1, <2>4, <2>5 DEF NotYet, TextFails, Store
<1>6. CASE UNCHANGED <<slots, arrived, saved>> /\ ToSet(answers') \subseteq ToSet(answers) /\ todo' \subseteq todo
  BY <1>0, <1>6, OnceKept, WholeRowsKept DEF WholeInv
<1>7. CASE UNCHANGED vars \/ \E k \in References : WaitIsOver(k)
  BY <1>6, <1>7 DEF vars, link, worker, WaitIsOver
<1>8. ASSUME Start \/ BeginRead \/ DeleteSegment \/ EndRead \/ PortClosed
      PROVE  WholeInv'
  <2>1. UNCHANGED <<slots, arrived, saved, answers>> /\ todo' \subseteq todo
    BY <1>8 DEF Start, BeginRead, DeleteSegment, Command, EndRead, PortClosed, GiveUp, link
  <2>2. QED BY <1>6, <2>1
<1>9. ASSUME WorkerEnds \/ PortFails \/ CommandTimesOut \/ Crash
      PROVE  WholeInv'
  <2>1. ToSet(<<>>) = {}
    BY DEF ToSet
  <2>2. UNCHANGED <<slots, arrived, saved>> /\ todo' \subseteq todo /\ (answers' = <<>> \/ answers' = answers)
    BY <1>9 DEF WorkerEnds, PortFails, CommandTimesOut, Crash, Forget, GiveUp, worker
  <2>3. QED BY <1>6, <2>1, <2>2
<1>10. CASE DeleteAnswered
  BY <1>0, <1>6, <1>10, AnswerTaken DEF DeleteAnswered, LinkTypes
<1>11. QED BY <1>1, <1>2, <1>3, <1>4, <1>5, <1>7, <1>8, <1>9, <1>10 DEF Next, WorkerStep

LEMMA WholeInvHolds ==
  ASSUME "twice" \notin FaultKinds
  PROVE  Spec => []WholeInv
<1>1. Init => WholeInv
  BY DEF Init, WholeInv, OnceInv, WholeRows, Stored, ToSet
<1>2. TypeInv /\ WholeInv /\ [Next]_vars => WholeInv'
  BY NextWhole
<1>3. QED BY <1>1, <1>2, TypeInvHolds, PTL DEF Spec

\* A message with a time stamp and a reference of its own is forwarded as complete
\* at most once by workers that agree on the IMEI, for any messages, SIM size and
\* settings, and whatever answers are late, listings cut short, deletes left
\* undone and workers restarted.  Of what may go wrong only a segment stored
\* twice is left out: two copies of one part count as two parts.
THEOREM ForwardedWholeOnce ==
  ASSUME "twice" \notin FaultKinds
  PROVE  Spec => []WholeOnce
<1>1. TypeInv /\ WholeInv => WholeOnce
  <2> SUFFICES ASSUME TypeInv, WholeInv,
                      NEW a \in saved, NEW b \in saved,
                      a.whole, b.whole, a.imei = b.imei,
                      NEW g \in a.segments \intersect b.segments, Recognisable(g[1])
               PROVE  a = b
    BY DEF WholeOnce
  <2>1. a \in Rows /\ b \in Rows
    BY TypeParts DEF TypeInv, RowTypes
  <2>2. WholeRows /\ g \in a.segments /\ g \in b.segments
    BY DEF WholeInv
  <2>3. a.segments = {g[1]} \X (1..Parts[g[1]]) /\ a.time = 0
    BY <2>2 DEF WholeRows
  <2>4. b.segments = {g[1]} \X (1..Parts[g[1]]) /\ b.time = 0
    BY <2>2 DEF WholeRows
  <2>5. QED BY <2>1, <2>3, <2>4 DEF Rows
<1>2. QED BY <1>1, WholeInvHolds, TypeInvHolds, PTL
==============================================================================
