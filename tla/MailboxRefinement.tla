-------------------------- MODULE MailboxRefinement --------------------------
(***************************************************************************)
(* As long as no answer of the modem is late, a worker implements Mailbox: *)
(* what it saves is still on the SIM, and what it deletes is saved.  And   *)
(* a message without a time stamp is copied no more often than faults and  *)
(* segments can account for.                                               *)
(***************************************************************************)
EXTENDS ModemWorkerProofs

\* What was listed is still there.
Current(E) == \A e \in E : slots[e[1]] = e[2]

\* A command or its answer is under way exactly while the worker waits for it.
LinkInv ==
  /\ ~(Waiting /\ open) => asked = <<>> /\ answers = <<>>
  /\ pc = "listing" /\ open =>
       \/ asked = <<List>> /\ answers = <<>>
       \/ asked = <<>> /\ \E a \in Answer : answers = <<a>> /\ Current(a.entries)
  /\ pc = "deleting" /\ open =>
       \/ \E c \in Slots : asked = <<c>> /\ answers = <<>>
       \/ asked = <<>> /\ \E a \in Answer : answers = <<a>>

\* The slots to be deleted, that of the command under way included.
Condemned == doomed \union {s \in Slots : pc = "deleting" /\ asked = <<s>>}

\* What the worker has in hand it has just listed; groups do not overlap.
TodoInv ==
  /\ \A g \in todo : Current(g) /\ \A e \in g : e[2] \notin ReportSegments /\ e[1] \notin Condemned
  /\ \A g, h \in todo : g \intersect h # {} => g = h

\* Nothing is to be deleted but what is saved, or a report; each slot once.
CondemnedInv ==
  /\ \A s \in orphans : slots[s] \in ReportSegments /\ s \notin Condemned
  /\ \A s \in Condemned : slots[s] \in Kept \union ReportSegments
  /\ pc = "deleting" => \A s \in doomed : asked # <<s>>

IdleInv == pc \in {"off", "idle", "listing"} => todo = {} /\ orphans = {} /\ doomed = {}

HandInv == IdleInv /\ TodoInv /\ CondemnedInv

KeptInv ==
  /\ Stored \union Kept \subseteq arrived
  /\ Kept \intersect ReportSegments = {}
  /\ NothingLost

MailboxInv == LinkInv /\ HandInv /\ KeptInv

MWhere == [g \in Segments |-> Whereabouts(g)]

-------------------------------------------------------------------------------
(* Sequences of one element, rows and whereabouts *)

LEMMA OneElement ==
  ASSUME NEW c
  PROVE  /\ Append(<<>>, c) = <<c>> /\ <<c>> # <<>>
         /\ Head(<<c>>) = c /\ Tail(<<c>>) = <<>>
         /\ \A d : <<c>> = <<d>> => c = d
OBVIOUS

LEMMA KeptTyped ==
  ASSUME RowTypes
  PROVE  Kept \subseteq Segments
BY DEF RowTypes, Rows, Kept

LEMMA KeptGrows ==
  ASSUME NEW g, saved' = saved \union {Row(g)}
  PROVE  Kept' = Kept \union {e[2] : e \in g}
<1>1. Row(g).segments = {e[2] : e \in g}
  BY DEF Row
<1> DEFINE new == Row(g)
<1>2. saved' = saved \union {new} /\ new.segments = {e[2] : e \in g}
  BY <1>1
<1> HIDE DEF new
<1>3. QED BY <1>2 DEF Kept

LEMMA WhereKept ==
  ASSUME UNCHANGED <<Stored, Kept, arrived>>
  PROVE  UNCHANGED MWhere
BY DEF MWhere, Whereabouts

\* One segment's whereabouts change.
LEMMA WhereMoves ==
  ASSUME NEW g \in Segments, NEW place, Whereabouts(g)' = place,
         \A h \in Segments \ {g} : (Whereabouts(h))' = Whereabouts(h)
  PROVE  MWhere' = [MWhere EXCEPT ![g] = place]
BY DEF MWhere

\* Steps that touch neither the SIM nor what is in hand.
LEMMA KeptInvKept ==
  ASSUME KeptInv, UNCHANGED <<slots, arrived, saved>>
  PROVE  KeptInv' /\ UNCHANGED MWhere
<1>1. UNCHANGED <<Stored, Kept, arrived>>
  BY DEF Stored, Kept
<1>2. QED BY <1>1, WhereKept DEF KeptInv, NothingLost

\* Steps that take nothing in hand and condemn nothing.
LEMMA HandKept ==
  ASSUME HandInv, UNCHANGED <<slots, saved>>, IdleInv',
         todo' \subseteq todo, orphans' \subseteq orphans, Condemned' \subseteq Condemned,
         pc' = "deleting" => asked' = asked /\ doomed' = doomed /\ pc = "deleting"
  PROVE  HandInv'
<1>1. Kept' = Kept
  BY DEF Kept
<1>2. TodoInv'
  BY DEF HandInv, TodoInv, Current, ReportSegments
<1>3. CondemnedInv'
  BY <1>1 DEF HandInv, CondemnedInv, ReportSegments
<1>4. QED BY <1>2, <1>3 DEF HandInv

-------------------------------------------------------------------------------
(* The SIM and the modem *)

LEMMA ArriveMaps ==
  ASSUME TypeInv, MailboxInv, NEW g \in Segments, NEW s \in Slots, Arrive(g, s)
  PROVE  MailboxInv' /\ (Promise!Next \/ UNCHANGED MWhere)
<1>0. /\ NetTypes /\ RowTypes /\ LinkTypes /\ WorkerTypes /\ LinkInv /\ HandInv /\ KeptInv
  BY TypeParts DEF TypeInv, MailboxInv
<1>1. /\ slots[s] = Empty /\ slots' = [slots EXCEPT ![s] = g] /\ arrived' = arrived \union {g}
      /\ UNCHANGED <<asked, answers, open, pc, todo, orphans, doomed, saved>>
  BY DEF Arrive, link, worker
<1>2. /\ Stored' = Stored \union {g} /\ Kept' = Kept /\ Kept \subseteq Segments
      /\ UNCHANGED Condemned
  BY <1>0, <1>1, SegmentTypes, KeptTyped DEF Stored, Kept, Condemned, NetTypes
<1>3. \A t \in Slots : slots[t] \in Segments => slots'[t] = slots[t]
  BY <1>0, <1>1, SegmentTypes DEF NetTypes
<1>4. \A E \in SUBSET Entries : Current(E) => Current(E)'
  BY <1>3, EntryTypes DEF Current
<1>5. LinkInv'
  BY <1>0, <1>1, <1>4 DEF LinkInv, Waiting, Answer
<1>6. HandInv'
  <2>1. Condemned \subseteq Slots /\ ReportSegments \subseteq Segments
    BY <1>0 DEF Condemned, WorkerTypes, ReportSegments
  <2>2. IdleInv'
    BY <1>0, <1>1 DEF HandInv, IdleInv
  <2>3. TodoInv'
    BY <1>0, <1>1, <1>2, <1>4 DEF HandInv, TodoInv, WorkerTypes, ReportSegments
  <2>4. CondemnedInv'
    BY <1>0, <1>1, <1>2, <1>3, <2>1 DEF HandInv, CondemnedInv, WorkerTypes, ReportSegments
  <2>5. QED BY <2>2, <2>3, <2>4 DEF HandInv
<1>7. KeptInv'
  BY <1>0, <1>1, <1>2 DEF KeptInv, NothingLost
<1>8. \A h \in Segments \ {g} : (Whereabouts(h))' = Whereabouts(h)
  BY <1>1, <1>2 DEF Whereabouts
<1>9. (Whereabouts(g))' = IF g \in Kept THEN "saved" ELSE "stored"
  BY <1>1, <1>2 DEF Whereabouts
<1>10. MWhere' = [MWhere EXCEPT ![g] = IF g \in Kept THEN "saved" ELSE "stored"]
  BY <1>8, <1>9, WhereMoves
<1>11. Promise!Next \/ UNCHANGED MWhere
  <2>1. CASE g \in Stored
    BY <1>1, <1>2, <1>0, <2>1, WhereKept DEF KeptInv
  <2>2. CASE g \notin arrived
    <3>1. MWhere[g] = "coming" /\ g \notin Kept
      BY <1>0, <2>2 DEF MWhere, Whereabouts, KeptInv
    <3>2. Promise!Store(g)
      BY <1>10, <3>1 DEF Promise!Store, MWhere
    <3>3. QED BY <3>2 DEF Promise!Next
  <2>3. CASE g \in arrived /\ g \notin Stored /\ g \in Kept
    <3>1. MWhere[g] = "gone" /\ g \notin ReportSegments
      BY <1>0, <2>3 DEF MWhere, Whereabouts, KeptInv
    <3>2. Promise!StoreAgain(g)
      BY <1>10, <2>3, <3>1 DEF Promise!StoreAgain, MWhere
    <3>3. QED BY <3>2 DEF Promise!Next
  <2>4. CASE g \in arrived /\ g \notin Stored /\ g \notin Kept
    <3>1. MWhere[g] = "gone" /\ g \in ReportSegments
      BY <1>0, <2>4 DEF MWhere, Whereabouts, KeptInv, NothingLost
    <3>2. Promise!Store(g)
      BY <1>10, <2>4, <3>1 DEF Promise!Store, MWhere
    <3>3. QED BY <3>2 DEF Promise!Next
  <2>5. QED BY <2>1, <2>2, <2>3, <2>4
<1>12. QED BY <1>5, <1>6, <1>7, <1>11 DEF MailboxInv

\* The modem answers the one command there is, for which the worker waits.
LEMMA AnswerLinked ==
  ASSUME LinkInv, asked # <<>>, asked' = Tail(asked), NEW a \in Answer,
         answers' = Append(answers, a), UNCHANGED <<pc, open>>,
         pc = "listing" => Current(a.entries)'
  PROVE  LinkInv' /\ asked' = <<>>
<1>1. Waiting /\ open /\ answers = <<>>
  BY OneElement DEF LinkInv, Waiting
<1>2. asked' = <<>> /\ answers' = <<a>>
  BY <1>1, OneElement DEF LinkInv, Waiting
<1>3. QED BY <1>1, <1>2 DEF LinkInv, Waiting

LEMMA DeleteExecutedMaps ==
  ASSUME TypeInv, MailboxInv, ModemExecutes, NEW c \in Slots, asked = <<c>>,
         pc = "deleting", slots' = [slots EXCEPT ![c] = Empty], LinkInv', asked' = <<>>
  PROVE  MailboxInv' /\ (Promise!Next \/ UNCHANGED MWhere)
<1>0. NetTypes /\ RowTypes /\ WorkerTypes /\ HandInv /\ KeptInv
  BY TypeParts DEF TypeInv, MailboxInv
<1>1. UNCHANGED <<arrived, open, pc, todo, orphans, doomed, saved>>
  BY DEF ModemExecutes, worker
<1>x. PICK x : x = slots[c]
  OBVIOUS
<1>2. c \in Condemned /\ c \notin doomed /\ Condemned' = doomed /\ Condemned' \subseteq Condemned
  BY <1>0, <1>1, OneElement DEF Condemned, HandInv, CondemnedInv, WorkerTypes
<1>3. x \in Kept \union ReportSegments /\ x \in Segments
  BY <1>0, <1>x, <1>2, KeptTyped DEF HandInv, CondemnedInv, ReportSegments
<1>4. Kept' = Kept /\ Stored' \subseteq Stored /\ Stored \subseteq Stored' \union {x}
  BY <1>0, <1>x, <1>1 DEF Kept, Stored, NetTypes
<1>5. HandInv'
  <2>1. IdleInv'
    BY <1>0, <1>1 DEF HandInv, IdleInv
  <2>2. TodoInv'
    <3>1. ASSUME NEW g \in todo, NEW e \in g
          PROVE  e[1] \in Slots \ {c}
      <4>1. e[1] \notin Condemned
        BY <1>0 DEF HandInv, TodoInv
      <4>2. e \in Entries
        BY <1>0 DEF WorkerTypes
      <4>3. QED BY <1>2, <4>1, <4>2, EntryTypes
    <3>2. \A g \in todo : Current(g)'
      BY <1>0, <3>1 DEF HandInv, TodoInv, Current, NetTypes
    <3>3. QED BY <1>0, <1>1, <1>2, <3>2 DEF HandInv, TodoInv, ReportSegments
  <2>3. CondemnedInv'
    <3>1. \A s \in orphans \union doomed : s # c /\ slots'[s] = slots[s]
      BY <1>0, <1>2 DEF HandInv, CondemnedInv, NetTypes, WorkerTypes
    <3>2. doomed \subseteq Condemned
      BY DEF Condemned
    <3>3. QED BY <1>0, <1>1, <1>2, <1>4, <3>1, <3>2, OneElement DEF HandInv, CondemnedInv, ReportSegments
  <2>4. QED BY <2>1, <2>2, <2>3 DEF HandInv
<1>6. KeptInv'
  BY <1>0, <1>1, <1>3, <1>4 DEF KeptInv, NothingLost, ReportSegments
<1>7. Promise!Next \/ UNCHANGED MWhere
  <2>1. CASE x \in Stored'
    BY <1>1, <1>4, <2>1, WhereKept
  <2>2. CASE x \notin Stored'
    <3>1. x \in Stored /\ x \in arrived /\ x # Empty
      BY <1>0, <1>x, <1>3, SegmentTypes DEF Stored, KeptInv
    <3>2. MWhere[x] = IF x \in ReportSegments THEN "stored" ELSE "saved"
      BY <1>0, <1>3, <3>1 DEF MWhere, Whereabouts, KeptInv
    <3>3. (Whereabouts(x))' = "gone" /\ \A h \in Segments \ {x} : (Whereabouts(h))' = Whereabouts(h)
      BY <1>1, <1>4, <2>2, <3>1 DEF Whereabouts
    <3>4. MWhere' = [MWhere EXCEPT ![x] = "gone"]
      BY <1>3, <3>3, WhereMoves
    <3>5. Promise!Delete(x)
      BY <3>2, <3>4 DEF Promise!Delete, MWhere
    <3>6. QED BY <1>3, <3>5 DEF Promise!Next
  <2>3. QED BY <2>1, <2>2
<1>8. QED BY <1>5, <1>6, <1>7 DEF MailboxInv

LEMMA ModemExecutesMaps ==
  ASSUME TypeInv, MailboxInv, ModemExecutes
  PROVE  MailboxInv' /\ (Promise!Next \/ UNCHANGED MWhere)
<1>0. NetTypes /\ RowTypes /\ LinkTypes /\ WorkerTypes /\ LinkInv /\ HandInv /\ KeptInv
  BY TypeParts DEF TypeInv, MailboxInv
<1>1. /\ asked # <<>> /\ asked' = Tail(asked)
      /\ UNCHANGED <<arrived, open, pc, todo, orphans, doomed, saved>>
  BY DEF ModemExecutes, worker
<1>2. Waiting /\ open
  BY <1>0, <1>1 DEF LinkInv
<1>3. Listing \in SUBSET Entries /\ List \notin Slots
  BY <1>0, ListingTyped DEF NetTypes, List, Slots
<1>4. /\ \A E \in SUBSET Entries : Ok(E) \in Answer /\ Ok(E).entries = E
      /\ Error \in Answer /\ Error.entries = {}
  BY DEF Ok, Error, Answer
<1>5. CASE slots' = slots /\ \E a \in Answer : Current(a.entries) /\ answers' = Append(answers, a)
  <2>1. LinkInv' /\ asked' = <<>>
    BY <1>0, <1>1, <1>5, AnswerLinked DEF Current
  <2>2. IdleInv' /\ Condemned' \subseteq Condemned
    BY <1>0, <1>1, <2>1, OneElement DEF HandInv, IdleInv, Condemned
  <2>3. HandInv'
    <3>1. TodoInv'
      BY <1>0, <1>1, <1>5, <2>2 DEF HandInv, TodoInv, Current, ReportSegments
    <3>2. CondemnedInv'
      BY <1>0, <1>1, <1>5, <2>1, <2>2, OneElement DEF HandInv, CondemnedInv, Kept, ReportSegments
    <3>3. QED BY <2>2, <3>1, <3>2 DEF HandInv
  <2>4. QED BY <1>0, <1>1, <1>5, <2>1, <2>3, KeptInvKept DEF MailboxInv
<1>6. ASSUME NEW c \in Slots, c = Head(asked), slots' = [slots EXCEPT ![c] = Empty],
             answers' = Append(answers, Ok({}))
      PROVE  MailboxInv' /\ (Promise!Next \/ UNCHANGED MWhere)
  <2>1. pc = "deleting" /\ asked = <<c>>
    BY <1>0, <1>1, <1>2, <1>3, <1>6, OneElement DEF LinkInv, Waiting
  <2>2. LinkInv' /\ asked' = <<>>
    BY <1>0, <1>1, <1>4, <1>6, <2>1, AnswerLinked
  <2>3. QED BY <1>6, <2>1, <2>2, DeleteExecutedMaps
<1>7. Current(Listing) /\ Current({})
  BY DEF Current, Listing
<1>8. QED BY <1>3, <1>4, <1>5, <1>6, <1>7 DEF ModemExecutes

-------------------------------------------------------------------------------
(* The worker *)

\* What is joined from a listing is in hand, and is on the SIM.
LEMMA ListAnsweredMaps ==
  ASSUME TypeInv, MailboxInv, ListAnswered
  PROVE  MailboxInv' /\ UNCHANGED MWhere
<1>0. /\ NetTypes /\ RowTypes /\ LinkTypes /\ WorkerTypes /\ ListingInv
      /\ LinkInv /\ HandInv /\ KeptInv
  BY TypeParts DEF TypeInv, MailboxInv
<1>1. /\ pc = "listing" /\ answers # <<>> /\ answers' = Tail(answers)
      /\ UNCHANGED <<slots, arrived, asked, open, doomed, saved>>
  BY DEF ListAnswered
<1>2. PICK a \in Answer : answers = <<a>> /\ Current(a.entries) /\ asked = <<>>
  BY <1>0, <1>1 DEF LinkInv, Waiting
<1>3. Head(answers) = a /\ answers' = <<>> /\ Snapshot(a.entries) /\ a.entries \in SUBSET Entries
  BY <1>0, <1>1, <1>2, OneElement, AnswerTaken DEF ListingInv, Answer, LinkTypes
<1>4. todo = {} /\ orphans = {} /\ doomed = {} /\ Condemned = {}
  BY <1>0, <1>1 DEF HandInv, IdleInv, Condemned
<1>5. pc' \in {"handling", "idle"} /\ Condemned' = {} /\ UNCHANGED Kept
  BY <1>1, <1>4 DEF ListAnswered, Condemned, Kept
<1>6. LinkInv'
  BY <1>1, <1>2, <1>3, <1>5 DEF LinkInv, Waiting
<1>7. KeptInv' /\ UNCHANGED MWhere
  BY <1>0, <1>1, KeptInvKept
<1>8. HandInv'
  <2>1. CASE /\ todo' = Groups(a.entries)
             /\ orphans' = {e[1] : e \in {e \in a.entries : Decodes(e) /\ IsReport(e)}}
             /\ pc' = "handling"
    <3>1. \A g \in todo' : g \subseteq a.entries /\ \A e \in g : ~IsReport(e)
      BY <1>3, <2>1, GroupsJoin
    <3>2. \A g, h \in todo' : g \intersect h # {} => g = h
      BY <1>3, <2>1, GroupsJoin
    <3>3. \A e \in a.entries : slots[e[1]] = e[2] /\ e[2] \in Segments
      BY <1>2, <1>3, EntryTypes DEF Current
    <3>4. TodoInv'
      BY <1>1, <1>5, <3>1, <3>2, <3>3 DEF TodoInv, Current, IsReport, ReportSegments
    <3>5. \A s \in orphans' : slots[s] \in ReportSegments
      BY <2>1, <3>3 DEF IsReport, ReportSegments
    <3>6. CondemnedInv'
      BY <1>1, <1>5, <2>1, <3>5 DEF CondemnedInv, ReportSegments
    <3>7. QED BY <2>1, <3>4, <3>6 DEF HandInv, IdleInv
  <2>2. CASE pc' = "idle" /\ UNCHANGED <<todo, orphans>>
    BY <1>0, <1>1, <1>4, <1>5, <2>2, HandKept DEF IdleInv
  <2>3. QED BY <1>3, <2>1, <2>2 DEF ListAnswered
<1>9. QED BY <1>6, <1>7, <1>8 DEF MailboxInv

\* A group's segments are saved together, and only then its slots are condemned.
LEMMA HandleGroupMaps ==
  ASSUME TypeInv, MailboxInv, HandleGroup
  PROVE  MailboxInv' /\ (Promise!Next \/ UNCHANGED MWhere)
<1>0. /\ NetTypes /\ RowTypes /\ LinkTypes /\ WorkerTypes /\ ListingInv
      /\ LinkInv /\ HandInv /\ KeptInv
  BY TypeParts DEF TypeInv, MailboxInv
<1>1. PICK g \in todo : todo' = todo \ {g} /\ (NotYet(g) \/ TextFails(g) \/ Store(g))
  BY DEF HandleGroup
<1>2. /\ pc = "handling" /\ doomed = {}
      /\ UNCHANGED <<slots, arrived, asked, answers, open, pc, orphans, imei>>
  BY DEF HandleGroup, link
<1>3. LinkInv'
  BY <1>0, <1>2 DEF LinkInv, Waiting, Current
<1>4. Condemned = {} /\ Condemned' = doomed'
  BY <1>0, <1>2 DEF Condemned, WorkerTypes
<1>5. IdleInv'
  BY <1>2 DEF IdleInv
<1>6. CASE UNCHANGED <<saved, doomed>>
  <2>1. HandInv'
    BY <1>0, <1>1, <1>2, <1>4, <1>5, <1>6, HandKept
  <2>2. QED BY <1>0, <1>2, <1>3, <1>6, <2>1, KeptInvKept DEF MailboxInv
<1>7. CASE saved' = saved \union {Row(g)} /\ doomed' = IF DeleteAfterRead THEN SlotsOf(g) ELSE {}
  <2> DEFINE G == {e[2] : e \in g}
  <2>1. Kept' = Kept \union G
    BY <1>7, KeptGrows
  <2>2. /\ g \in SUBSET Entries
        /\ \A e \in g : slots[e[1]] = e[2] /\ e[2] \in Segments \ ReportSegments /\ e[1] \in Slots
    BY <1>0, EntryTypes DEF HandInv, TodoInv, Current, WorkerTypes
  <2>3. G \subseteq Stored \ ReportSegments /\ G \subseteq Segments /\ G \subseteq arrived
    BY <1>0, <2>2, SegmentTypes DEF Stored, KeptInv
  <2>4. Stored' = Stored
    BY <1>2 DEF Stored
  <2>5. \A s \in doomed' : s \in Slots /\ slots[s] \in G /\ \E e \in g : e[1] = s
    BY <1>7, <2>2 DEF SlotsOf
  <2> HIDE DEF G
  <2>6. KeptInv'
    BY <1>0, <1>2, <2>1, <2>3, <2>4 DEF KeptInv, NothingLost, ReportSegments
  <2>7. TodoInv'
    <3>1. ASSUME NEW h \in todo', NEW f \in h PROVE f[1] \notin doomed'
      <4>1. SUFFICES ASSUME NEW e \in g, e[1] = f[1] PROVE FALSE
        BY <2>5
      <4>2. h \in todo /\ h # g /\ h \in SUBSET Entries
        BY <1>0, <1>1 DEF WorkerTypes
      <4>3. e = f
        BY <1>0, <2>2, <4>1, <4>2, EntryTypes DEF HandInv, TodoInv, Current
      <4>4. QED BY <1>0, <4>2, <4>3 DEF HandInv, TodoInv
    <3>2. QED BY <1>0, <1>1, <1>2, <1>4, <3>1 DEF HandInv, TodoInv, Current, ReportSegments
  <2>8. CondemnedInv'
    <3>1. \A s \in orphans : slots[s] \in ReportSegments
      BY <1>0 DEF HandInv, CondemnedInv
    <3>2. QED BY <1>2, <1>4, <2>1, <2>3, <2>5, <3>1 DEF CondemnedInv, ReportSegments
  <2>9. Promise!Save(G)
    <3>1. \A h \in G : MWhere[h] \in {"stored", "saved"} /\ h \notin ReportSegments
      BY <1>0, <2>3 DEF MWhere, Whereabouts, KeptInv
    <3>2. \A h \in Segments : (Whereabouts(h))' = IF h \in G THEN "saved" ELSE Whereabouts(h)
      BY <1>2, <2>1, <2>3, <2>4 DEF Whereabouts
    <3>3. MWhere' = [h \in Segments |-> IF h \in G THEN "saved" ELSE MWhere[h]]
      BY <3>2 DEF MWhere
    <3>4. QED BY <3>1, <3>3 DEF Promise!Save, MWhere
  <2>10. Promise!Next
    BY <2>3, <2>9 DEF Promise!Next
  <2>11. QED BY <1>3, <1>5, <2>6, <2>7, <2>8, <2>10 DEF HandInv, MailboxInv
<1>8. QED BY <1>1, <1>6, <1>7 DEF NotYet, TextFails, Store

\* A slot leaves the list of those to delete for a command, or is passed over.
LEMMA DeleteSegmentMaps ==
  ASSUME TypeInv, MailboxInv, DeleteSegment
  PROVE  MailboxInv' /\ UNCHANGED MWhere
<1>0. WorkerTypes /\ LinkInv /\ HandInv /\ KeptInv
  BY TypeParts DEF TypeInv, MailboxInv
<1>1. PICK s \in doomed : doomed' = doomed \ {s} /\ Command(s, "deleting", "handling")
  BY DEF DeleteSegment
<1>2. pc = "handling" /\ UNCHANGED <<slots, arrived, open, todo, orphans, saved>>
  BY DEF DeleteSegment
<1>3. asked = <<>> /\ answers = <<>> /\ s \in Slots /\ Condemned = doomed
  BY <1>0, <1>1, <1>2 DEF LinkInv, Waiting, Condemned, WorkerTypes
<1>4. CASE open /\ asked' = Append(asked, s) /\ pc' = "deleting" /\ UNCHANGED answers
  <2>1. asked' = <<s>>
    BY <1>3, <1>4, OneElement
  <2>2. LinkInv'
    BY <1>2, <1>3, <1>4, <2>1 DEF LinkInv, Waiting
  <2>3. Condemned' = Condemned
    BY <1>1, <1>3, <1>4, <2>1, OneElement DEF Condemned
  <2>4. UNCHANGED Kept
    BY <1>2 DEF Kept
  <2>5. TodoInv'
    BY <1>0, <1>2, <2>3 DEF HandInv, TodoInv, Current, ReportSegments
  <2>6. CondemnedInv'
    BY <1>0, <1>1, <1>2, <2>1, <2>3, <2>4, OneElement DEF HandInv, CondemnedInv, ReportSegments
  <2>7. IdleInv'
    BY <1>4 DEF IdleInv
  <2>8. QED BY <1>0, <1>2, <2>2, <2>5, <2>6, <2>7, KeptInvKept DEF HandInv, MailboxInv
<1>5. CASE ~open /\ pc' = "handling" /\ UNCHANGED <<asked, answers>>
  <2>1. LinkInv'
    BY <1>2, <1>3, <1>5 DEF LinkInv, Waiting
  <2>2. IdleInv' /\ Condemned' \subseteq Condemned
    BY <1>1, <1>5 DEF IdleInv, Condemned
  <2>3. HandInv'
    BY <1>0, <1>2, <1>5, <2>2, HandKept
  <2>4. QED BY <1>0, <1>2, <2>1, <2>3, KeptInvKept DEF MailboxInv
<1>6. QED BY <1>1, <1>4, <1>5 DEF Command

\* Reports are condemned last.
LEMMA EndReadMaps ==
  ASSUME TypeInv, MailboxInv, EndRead
  PROVE  MailboxInv' /\ UNCHANGED MWhere
<1>0. LinkInv /\ HandInv /\ KeptInv
  BY DEF MailboxInv
<1>1. /\ pc = "handling" /\ todo = {} /\ doomed = {} /\ orphans' = {}
      /\ pc' \in {"handling", "idle"} /\ doomed' \subseteq orphans
      /\ pc' = "idle" => doomed' = {}
      /\ UNCHANGED <<slots, arrived, asked, answers, open, todo, saved>>
  BY DEF EndRead, link
<1>2. LinkInv'
  BY <1>0, <1>1 DEF LinkInv, Waiting
<1>3. Condemned' = doomed'
  BY <1>1 DEF Condemned
<1>4. HandInv'
  BY <1>0, <1>1, <1>3 DEF HandInv, IdleInv, TodoInv, CondemnedInv, ReportSegments
<1>5. QED BY <1>0, <1>1, <1>2, <1>4, KeptInvKept DEF MailboxInv

\* The remaining steps ask for a listing, give up waiting or forget what they had
\* in hand.  This is where a late answer would make a difference.
LEMMA QuietStepsMap ==
  ASSUME "late" \notin FaultKinds, TypeInv, MailboxInv,
         \/ Start \/ BeginRead \/ DeleteAnswered \/ PortClosed \/ WorkerEnds
         \/ PortFails \/ CommandTimesOut \/ Crash
  PROVE  MailboxInv' /\ UNCHANGED MWhere
<1>0. LinkTypes /\ WorkerTypes /\ LinkInv /\ HandInv /\ KeptInv
  BY TypeParts DEF TypeInv, MailboxInv
<1>1. UNCHANGED <<slots, arrived, saved>>
  BY DEF Start, BeginRead, DeleteAnswered, PortClosed, WorkerEnds, PortFails, CommandTimesOut, Crash
<1>2. LinkInv'
  <2>1. CASE asked' = <<>> /\ answers' = <<>> /\ (pc' \notin {"listing", "deleting"} \/ ~open')
    BY <2>1 DEF LinkInv, Waiting
  <2>2. CASE PortFails
    BY <2>1, <2>2 DEF PortFails
  <2>3. CASE WorkerEnds \/ Crash
    BY <2>1, <2>3 DEF WorkerEnds, Crash, Forget
  <2>4. CASE CommandTimesOut
    <3>1. asked' = <<>> /\ answers' = <<>>
      BY <2>4 DEF CommandTimesOut, Fault
    <3>2. pc' \in {"idle", "handling"}
      BY <2>4 DEF CommandTimesOut, GiveUp
    <3>3. QED BY <2>1, <3>1, <3>2
  <2>5. CASE PortClosed
    <3>1. asked = <<>> /\ answers = <<>> /\ UNCHANGED <<asked, answers>>
      BY <1>0, <2>5 DEF PortClosed, LinkInv, link
    <3>2. pc' \in {"idle", "handling"}
      BY <2>5 DEF PortClosed, GiveUp
    <3>3. QED BY <2>1, <3>1, <3>2
  <2>6. CASE Start
    BY <1>0, <2>1, <2>6 DEF Start, LinkInv, Waiting
  <2>7. CASE DeleteAnswered
    <3>1. pc = "deleting" /\ open /\ asked = <<>> /\ \E a \in Answer : answers = <<a>>
      BY <1>0, <2>7 DEF DeleteAnswered, LinkInv, Waiting
    <3>2. asked' = <<>> /\ answers' = <<>> /\ pc' = "handling"
      BY <2>7, <3>1, OneElement DEF DeleteAnswered
    <3>3. QED BY <2>1, <3>2
  <2>8. CASE BeginRead
    <3>1. pc = "idle" /\ open /\ asked = <<>> /\ answers = <<>> /\ open' = open
      BY <1>0, <2>8 DEF BeginRead, LinkInv, Waiting
    <3>2. asked' = <<List>> /\ answers' = <<>> /\ pc' = "listing"
      BY <2>8, <3>1, OneElement DEF BeginRead, Command
    <3>3. QED BY <3>1, <3>2 DEF LinkInv, Waiting
  <2>9. QED BY <2>2, <2>3, <2>4, <2>5, <2>6, <2>7, <2>8
<1>3. todo' \subseteq todo /\ orphans' \subseteq orphans /\ doomed' \subseteq doomed
  BY DEF Start, BeginRead, DeleteAnswered, PortClosed, WorkerEnds, PortFails, CommandTimesOut,
         Crash, Forget, GiveUp, worker
<1>4. IdleInv'
  <2>1. CASE BeginRead \/ PortFails \/ Start
    BY <1>0, <2>1 DEF BeginRead, PortFails, Start, worker, HandInv, IdleInv
  <2>2. CASE PortClosed \/ CommandTimesOut
    BY <1>0, <2>2 DEF PortClosed, CommandTimesOut, GiveUp, Waiting, HandInv, IdleInv
  <2>3. CASE DeleteAnswered
    BY <2>3 DEF DeleteAnswered, IdleInv
  <2>4. CASE WorkerEnds \/ Crash
    BY <2>4 DEF WorkerEnds, Crash, Forget, IdleInv
  <2>5. QED BY <2>1, <2>2, <2>3, <2>4
<1>5. pc' = "deleting" => pc = "deleting" /\ UNCHANGED doomed /\ asked' = <<>>
  BY <1>0 DEF Start, BeginRead, DeleteAnswered, PortClosed, WorkerEnds, PortFails, CommandTimesOut,
         Crash, Forget, GiveUp, worker, Command
<1>6. HandInv'
  <2>1. Condemned' \subseteq doomed'
    BY <1>5, OneElement DEF Condemned
  <2>2. UNCHANGED Kept /\ doomed \subseteq Condemned
    BY <1>1 DEF Kept, Condemned
  <2>3. TodoInv'
    BY <1>0, <1>1, <1>3, <2>1, <2>2 DEF HandInv, TodoInv, Current, ReportSegments
  <2>4. CondemnedInv'
    BY <1>0, <1>1, <1>3, <1>5, <2>1, <2>2, OneElement DEF HandInv, CondemnedInv, ReportSegments
  <2>5. QED BY <1>4, <2>3, <2>4 DEF HandInv
<1>7. QED BY <1>0, <1>1, <1>2, <1>6, KeptInvKept DEF MailboxInv

\* Nothing comes while no command waits.
LEMMA NoLineDropped ==
  ASSUME LinkInv
  PROVE  ~DropLine
BY DEF LinkInv, DropLine

-------------------------------------------------------------------------------
(* Every step is a step of Mailbox or invisible there *)

LEMMA InitMaps == Init => MailboxInv /\ Promise!Init
<1> SUFFICES ASSUME Init PROVE MailboxInv /\ Promise!Init
  OBVIOUS
<1>1. Stored = {} /\ Kept = {} /\ Condemned = {}
  BY DEF Init, Stored, Kept, Condemned
<1>2. LinkInv
  BY DEF Init, LinkInv, Waiting
<1>3. HandInv
  BY <1>1 DEF Init, HandInv, IdleInv, TodoInv, CondemnedInv
<1>4. KeptInv
  BY <1>1 DEF Init, KeptInv, NothingLost
<1>5. Promise!Init
  BY DEF Init, Promise!Init, Whereabouts
<1>6. QED BY <1>2, <1>3, <1>4, <1>5 DEF MailboxInv

LEMMA StepMaps ==
  ASSUME "late" \notin FaultKinds, TypeInv, MailboxInv, [Next]_vars
  PROVE  MailboxInv' /\ (Promise!Next \/ UNCHANGED MWhere)
<1>0. LinkInv /\ HandInv /\ KeptInv
  BY DEF MailboxInv
<1>1. CASE UNCHANGED vars
  <2>1. UNCHANGED <<slots, arrived, asked, answers, open, pc, todo, orphans, doomed, saved>>
    BY <1>1 DEF vars, link, worker
  <2>2. UNCHANGED Condemned
    BY <2>1 DEF Condemned
  <2>3. LinkInv' /\ HandInv'
    BY <1>0, <2>1, <2>2, HandKept DEF LinkInv, Waiting, Current, HandInv, IdleInv
  <2>4. QED BY <1>0, <2>1, <2>3, KeptInvKept DEF MailboxInv
<1>2. ASSUME NEW k \in References, WaitIsOver(k)
      PROVE  MailboxInv' /\ UNCHANGED MWhere
  <2>1. UNCHANGED <<slots, arrived, asked, answers, open, pc, todo, orphans, doomed, saved>>
    BY <1>2 DEF WaitIsOver, link
  <2>2. UNCHANGED Condemned
    BY <2>1 DEF Condemned
  <2>3. LinkInv' /\ HandInv'
    BY <1>0, <2>1, <2>2, HandKept DEF LinkInv, Waiting, Current, HandInv, IdleInv
  <2>4. QED BY <1>0, <2>1, <2>3, KeptInvKept DEF MailboxInv
<1>3. ASSUME NEW g \in Segments, NEW s \in Slots, Arrive(g, s)
      PROVE  MailboxInv' /\ (Promise!Next \/ UNCHANGED MWhere)
  BY <1>3, ArriveMaps
<1>4. CASE ModemExecutes
  BY <1>4, ModemExecutesMaps
<1>5. CASE ListAnswered
  BY <1>5, ListAnsweredMaps
<1>6. CASE HandleGroup
  BY <1>6, HandleGroupMaps
<1>7. CASE DeleteSegment \/ EndRead
  BY <1>7, DeleteSegmentMaps, EndReadMaps
<1>8. QED BY <1>0, <1>1, <1>2, <1>3, <1>4, <1>5, <1>6, <1>7, QuietStepsMap, NoLineDropped
          DEF Next, WorkerStep

LEMMA MailboxInvHolds ==
  ASSUME "late" \notin FaultKinds
  PROVE  Spec => []MailboxInv
<1>1. Init => MailboxInv
  BY InitMaps
<1>2. TypeInv /\ MailboxInv /\ [Next]_vars => MailboxInv'
  BY StepMaps
<1>3. QED BY <1>1, <1>2, TypeInvHolds, PTL DEF Spec

\* Whatever fails, times out or restarts, a segment leaves the SIM only once a
\* saved message has it, or as a status report; for any messages, SIM size and
\* settings.  Only a late answer is left out, which ModemLateAnswer shows to
\* break it.
THEOREM NoSegmentLost ==
  ASSUME "late" \notin FaultKinds
  PROVE  Spec => []NothingLost
<1>1. MailboxInv => NothingLost
  BY DEF MailboxInv, KeptInv
<1>2. QED BY <1>1, MailboxInvHolds, PTL

\* The worker, its port and the modem together implement Mailbox: besides what
\* NothingLost says, no segment is saved that is not on the SIM, the segments of a
\* message are saved in one step, and none goes back to being unsaved.
THEOREM ImplementsMailbox ==
  ASSUME "late" \notin FaultKinds
  PROVE  Spec => KeepsMailbox
<1>1. Init => Promise!Init
  BY InitMaps
<1>2. TypeInv /\ MailboxInv /\ [Next]_vars => [Promise!Next]_MWhere
  BY StepMaps
<1>3. QED BY <1>1, <1>2, TypeInvHolds, MailboxInvHolds, PTL DEF Spec, KeepsMailbox, Promise!Spec, MWhere

-------------------------------------------------------------------------------
(* What the copies of a message without a time stamp cost *)

\* Rows with the message, and its segments still to come.
Copies(m) == {r \in saved : \E g \in r.segments : g[1] = m}
Coming(m) == ({m} \X (1..Parts[m])) \ arrived

Has(E, m) == \E e \in E : e[2][1] = m

\* Entries the worker is going to handle, and those of the listing on its way to it.
InHand == UNION todo
Listed == IF pc = "listing" /\ answers # <<>> THEN Head(answers).entries ELSE {}

\* The message is on the SIM where a later listing will find it: in a slot that is
\* not in hand and not about to be deleted.  On a failed port nothing is.
LeftOver(m) ==
  \E s \in Slots :
    /\ slots[s][1] = m
    /\ open => s \notin Condemned
    /\ \A e \in InHand \union Listed : e[1] # s

\* Rows that may follow without a further fault or segment: of what is in hand one,
\* and one more of what it leaves behind when its deletes cannot be sent.
FromHand(m) ==
  IF Has(InHand, m) THEN IF open THEN 1 ELSE 2 ELSE IF Has(Listed, m) THEN 1 ELSE 0
FromSim(m) == IF LeftOver(m) THEN 1 ELSE 0

OneGroup(m) == \A g, h \in todo : Has(g, m) /\ Has(h, m) => g = h
NotBoth(m) == Has(InHand, m) => \A s \in Condemned : slots[s][1] # m

Paid(m) ==
  Cardinality(Copies(m)) + Cardinality(Coming(m)) + FromHand(m) + FromSim(m) <= Parts[m] + faults

PaidInv == \A m \in Undated : Paid(m) /\ OneGroup(m) /\ NotBoth(m)

LEMMA PaidTypes ==
  ASSUME NEW m \in Undated, TypeInv
  PROVE  /\ m \in Messages /\ m # 0 /\ Parts[m] \in Nat \ {0} /\ faults \in Nat
         /\ IsFiniteSet(Copies(m)) /\ Cardinality(Copies(m)) \in Nat
         /\ IsFiniteSet(Coming(m)) /\ Cardinality(Coming(m)) \in Nat
         /\ FromHand(m) \in 0..2 /\ FromSim(m) \in 0..1
         /\ FromHand(m)' \in 0..2 /\ FromSim(m)' \in 0..1
<1>1. m \in Messages /\ m # 0 /\ Parts[m] \in Nat \ {0} /\ faults \in Nat
  BY MessagesAssumption, TypeParts DEF TypeInv, NetTypes
<1>2. IsFiniteSet(Copies(m))
  BY FS_Subset DEF Copies, TypeInv, ListingInv
<1>3. IsFiniteSet({m} \X (1..Parts[m]))
  <2>1. IsFiniteSet({m})
    BY FS_Singleton
  <2>2. IsFiniteSet(1..Parts[m])
    BY <1>1, FS_Interval
  <2>3. QED BY <2>1, <2>2, FS_Product
<1>4. IsFiniteSet(Coming(m))
  BY <1>3, FS_Subset DEF Coming
<1>5. FromHand(m) \in 0..2 /\ FromSim(m) \in 0..1
  BY DEF FromHand, FromSim
<1>6. FromHand(m)' \in 0..2 /\ FromSim(m)' \in 0..1
  BY DEF FromHand, FromSim
<1>7. QED BY <1>1, <1>2, <1>4, <1>5, <1>6, FS_CardinalityType

\* A step that saves nothing costs at most the fault it takes.
LEMMA PaidKept ==
  ASSUME NEW m \in Undated, TypeInv, Paid(m), UNCHANGED <<saved, arrived>>,
         NEW k \in 0..1, faults' = faults + k,
         FromHand(m)' + FromSim(m)' <= FromHand(m) + FromSim(m) + k
  PROVE  Paid(m)'
<1>1. Copies(m)' = Copies(m) /\ Coming(m)' = Coming(m)
  BY DEF Copies, Coming
<1>2. QED BY <1>1, PaidTypes DEF Paid

\* What is still left over was left over before.
LEMMA LeftOverKept ==
  ASSUME NEW m, LeftOver(m)',
         \A s \in Slots : slots'[s][1] = m =>
           /\ slots[s][1] = m
           /\ (open /\ s \in Condemned) => (open' /\ s \in Condemned')
           /\ \A e \in InHand \union Listed :
                e[1] = s => \E f \in InHand' \union Listed' : f[1] = s
  PROVE  LeftOver(m)
BY DEF LeftOver

\* A worker has no listing under way while it has groups in hand.
LEMMA HandFacts ==
  ASSUME TypeInv, MailboxInv
  PROVE  /\ \A e \in InHand \union Listed : e \in Entries /\ e[1] \in Slots /\ slots[e[1]] = e[2]
         /\ Listed # {} => pc = "listing" /\ open
         /\ pc \in {"off", "idle", "listing"} => todo = {} /\ InHand = {} /\ Condemned = {}
<1>0. LinkTypes /\ WorkerTypes /\ LinkInv /\ HandInv
  BY TypeParts DEF TypeInv, MailboxInv
<1>1. pc \in {"off", "idle", "listing"} => todo = {} /\ InHand = {} /\ Condemned = {}
  BY <1>0 DEF HandInv, IdleInv, InHand, Condemned
<1>2. ASSUME NEW e \in InHand
      PROVE  e \in Entries /\ slots[e[1]] = e[2]
  BY <1>0 DEF InHand, HandInv, TodoInv, Current, WorkerTypes
<1>3. ASSUME NEW e \in Listed
      PROVE  pc = "listing" /\ open /\ e \in Entries /\ slots[e[1]] = e[2]
  <2>1. pc = "listing" /\ answers # <<>> /\ e \in Head(answers).entries
    BY DEF Listed
  <2>2. open /\ \E a \in Answer : answers = <<a>> /\ Current(a.entries)
    BY <1>0, <2>1 DEF LinkInv, Waiting
  <2>3. PICK a \in Answer : answers = <<a>> /\ Current(a.entries)
    BY <2>2
  <2>4. e \in a.entries /\ a.entries \subseteq Entries
    BY <2>1, <2>3, OneElement DEF Answer
  <2>5. QED BY <2>1, <2>2, <2>3, <2>4 DEF Current
<1>4. QED BY <1>1, <1>2, <1>3, EntryTypes

LEMMA SlotTypes ==
  ASSUME TypeInv, NEW m \in Undated, NEW s \in Slots, slots[s][1] = m
  PROVE  slots[s] \in Segments /\ slots[s] # Empty
BY PaidTypes, TypeParts, SegmentTypes DEF TypeInv, NetTypes, Empty

\* What the network stores has not been stored before.
LEMMA ArrivePaid ==
  ASSUME "twice" \notin FaultKinds, TypeInv, MailboxInv,
         NEW m \in Undated, Paid(m), OneGroup(m), NotBoth(m),
         NEW g \in Segments, NEW s \in Slots, Arrive(g, s)
  PROVE  Paid(m)' /\ OneGroup(m)' /\ NotBoth(m)'
<1>1. /\ slots[s] = Empty /\ slots' = [slots EXCEPT ![s] = g] /\ arrived' = arrived \union {g}
      /\ g \notin arrived
      /\ UNCHANGED <<asked, answers, open, pc, todo, doomed, saved, faults>>
  BY DEF Arrive, Fault, link, worker
<1>2. UNCHANGED <<InHand, Listed, Condemned, Copies(m), FromHand(m)>>
  BY <1>1 DEF InHand, Listed, Condemned, Copies, FromHand, Has
<1>3. slots \in [Slots -> Segments \union {Empty}] /\ m # 0 /\ Empty[1] = 0 /\ g = <<g[1], g[2]>>
  BY TypeParts, PaidTypes, SegmentTypes DEF TypeInv, NetTypes, Empty
<1>4. \A t \in Slots : slots'[t] = IF t = s THEN g ELSE slots[t]
  BY <1>1, <1>3
<1>5. s \notin Condemned
  <2>1. Kept \union ReportSegments \subseteq Segments
    BY KeptTyped, TypeParts DEF TypeInv, ReportSegments
  <2>2. QED BY <1>1, <2>1, SegmentTypes DEF MailboxInv, HandInv, CondemnedInv
<1>6. NotBoth(m)'
  <2>1. Has(InHand, m)' <=> Has(InHand, m)
    BY <1>2 DEF Has
  <2>2. Condemned \subseteq Slots
    BY TypeParts DEF TypeInv, WorkerTypes, Condemned
  <2>3. \A t \in Condemned : slots'[t] = slots[t]
    BY <1>4, <1>5, <2>2
  <2>4. QED BY <1>2, <2>1, <2>3 DEF NotBoth
<1>7. OneGroup(m)'
  BY <1>1 DEF OneGroup, Has
<1>8. Paid(m)'
  <2>1. CASE g[1] = m
    <3>1. Coming(m)' = Coming(m) \ {g} /\ g \in Coming(m)
      BY <1>1, <1>3, <2>1, SegmentTypes DEF Coming
    <3>2. Cardinality(Coming(m)') = Cardinality(Coming(m)) - 1
      BY <3>1, PaidTypes, FS_RemoveElement
    <3>3. QED BY <1>1, <1>2, <3>2, PaidTypes DEF Paid
  <2>2. CASE g[1] # m
    <3>1. Coming(m)' = Coming(m)
      BY <1>1, <2>2 DEF Coming
    <3>2. LeftOver(m)' => LeftOver(m)
      BY <1>1, <1>2, <1>3, <1>4, <2>2, LeftOverKept
    <3>3. FromSim(m)' <= FromSim(m)
      BY <3>2 DEF FromSim
    <3>4. QED BY <1>1, <1>2, <3>1, <3>3, PaidTypes DEF Paid
  <2>3. QED BY <2>1, <2>2
<1>9. QED BY <1>6, <1>7, <1>8

\* The listing takes over what was left over; a delete makes an end of it.
LEMMA ModemExecutesPaid ==
  ASSUME TypeInv, MailboxInv, NEW m \in Undated, Paid(m), OneGroup(m), NotBoth(m), ModemExecutes
  PROVE  Paid(m)' /\ OneGroup(m)' /\ NotBoth(m)'
<1>0. /\ LinkTypes /\ WorkerTypes /\ NetTypes /\ LinkInv /\ HandInv
  BY TypeParts DEF TypeInv, MailboxInv
<1>1. /\ asked # <<>> /\ asked' = Tail(asked)
      /\ UNCHANGED <<arrived, open, pc, todo, doomed, saved>>
  BY DEF ModemExecutes, worker
<1>2. Waiting /\ open /\ answers = <<>> /\ Listed = {}
  BY <1>0, <1>1, OneElement DEF LinkInv, Waiting, Listed
<1>3. UNCHANGED InHand /\ (\A x : Has(InHand, x)' <=> Has(InHand, x)) /\ OneGroup(m)'
  BY <1>1 DEF InHand, OneGroup, Has
<1>4. PICK c \in {List} \union Slots : asked = <<c>> /\ asked' = <<>> /\ (pc = "listing" <=> c = List)
  <2>1. List \notin Slots
    BY DEF List, Slots
  <2>2. QED BY <1>0, <1>1, <1>2, <2>1, OneElement DEF LinkInv, Waiting
<1>5. c = Head(asked)
  BY <1>4, OneElement
<1>6. /\ Condemned = IF pc = "deleting" THEN doomed \union {c} ELSE doomed
      /\ Condemned' = doomed
  BY <1>0, <1>1, <1>2, <1>4, OneElement DEF Condemned, Waiting, WorkerTypes, List, Slots
<1>7. ASSUME \A s \in Slots : slots'[s] = slots[s] \/ slots'[s] = Empty
      PROVE  NotBoth(m)'
  <2>1. Empty[1] # m
    BY PaidTypes DEF Empty
  <2>2. Condemned' \subseteq Condemned /\ Condemned \subseteq Slots
    BY <1>0, <1>6 DEF Condemned, WorkerTypes
  <2>3. QED BY <1>3, <1>7, <2>1, <2>2 DEF NotBoth
<1>8. CASE c = List /\ answers' = Append(answers, Ok(Listing)) /\ UNCHANGED <<slots, faults>>
  <2>1. pc = "listing" /\ todo = {} /\ InHand = {} /\ Condemned = {}
    BY <1>4, <1>8, HandFacts
  <2>2. Listed' = Listing
    BY <1>1, <1>2, <1>8, <2>1, OneElement DEF Listed, Ok
  <2>3. ~Has(InHand, m) /\ ~Has(Listed, m) /\ FromHand(m) = 0
    BY <1>2, <2>1 DEF Has, FromHand
  <2>4. ~LeftOver(m)'
    <3>1. \A s \in Slots : slots[s][1] = m => <<s, slots[s]>> \in Listing
      BY SlotTypes DEF Listing
    <3>2. \A s \in Slots : slots[s][1] = m => \E e \in Listed' : e[1] = s
      BY <2>2, <3>1
    <3>3. QED BY <1>8, <3>2 DEF LeftOver
  <2>5. Has(Listed, m)' => LeftOver(m)
    <3>1. ASSUME NEW e \in Listing, e[2][1] = m PROVE LeftOver(m)
      <4>1. PICK s \in Slots : e = <<s, slots[s]>>
        BY DEF Listing
      <4>2. slots[s][1] = m
        BY <3>1, <4>1
      <4>3. QED BY <1>2, <2>1, <4>2 DEF LeftOver
    <3>2. QED BY <2>2, <3>1 DEF Has
  <2>6. ~Has(InHand, m)'
    BY <1>3, <2>3
  <2>7. FromHand(m)' + FromSim(m)' <= FromHand(m) + FromSim(m) + 0
    BY <2>3, <2>4, <2>5, <2>6 DEF FromHand, FromSim
  <2>8. faults' = faults + 0
    BY <1>8, PaidTypes
  <2>9. QED BY <1>1, <1>3, <1>7, <1>8, <2>7, <2>8, PaidKept
<1>9. CASE c \in Slots /\ slots' = [slots EXCEPT ![c] = Empty] /\ UNCHANGED faults
  <2>1. pc # "listing" /\ pc = "deleting"
    BY <1>2, <1>4, <1>9 DEF Waiting, List, Slots
  <2>2. Listed' = {}
    BY <1>1, <2>1 DEF Listed
  <2>3. FromHand(m)' = FromHand(m)
    BY <1>1, <1>2, <1>3, <2>2 DEF FromHand, Has
  <2>4. \A s \in Slots : slots'[s] = IF s = c THEN Empty ELSE slots[s]
    BY <1>0, <1>9 DEF NetTypes
  <2>5. Empty[1] # m
    BY PaidTypes DEF Empty
  <2>6. LeftOver(m)' => LeftOver(m)
    BY <1>1, <1>2, <1>3, <1>6, <2>1, <2>2, <2>4, <2>5, LeftOverKept
  <2>7. FromHand(m)' + FromSim(m)' <= FromHand(m) + FromSim(m) + 0
    BY <2>3, <2>6, PaidTypes DEF FromSim
  <2>8. faults' = faults + 0
    BY <1>9, PaidTypes
  <2>9. QED BY <1>1, <1>3, <1>7, <2>4, <2>7, <2>8, PaidKept
<1>10. CASE faults' = faults + 1 /\ answers' = Append(answers, Error) /\ UNCHANGED slots
  <2>1. Listed' = {}
    BY <1>2, <1>10, OneElement DEF Listed, Error
  <2>2. FromHand(m)' = FromHand(m)
    BY <1>1, <1>2, <1>3, <2>1 DEF FromHand, Has
  <2>3. FromHand(m)' + FromSim(m)' <= FromHand(m) + FromSim(m) + 1
    BY <2>2, PaidTypes
  <2>4. QED BY <1>1, <1>3, <1>7, <1>10, <2>3, PaidKept
<1>11. QED BY <1>5, <1>8, <1>9, <1>10 DEF ModemExecutes, Fault

\* A group has the entries of its key, and every entry that is read has a group.
LEMMA SameGroup ==
  ASSUME NEW E, NEW g \in Groups(E), NEW h \in Groups(E), NEW e \in g, NEW f \in h,
         GroupKey(e) = GroupKey(f)
  PROVE  g = h
BY DEF Groups

LEMMA InSomeGroup ==
  ASSUME NEW E, NEW e \in E, Decodes(e), ~IsReport(e)
  PROVE  \E g \in Groups(E) : e \in g
<1> DEFINE segments == {f \in E : Decodes(f) /\ ~IsReport(f)}
           g == {f \in segments : GroupKey(f) = GroupKey(e)}
<1>1. e \in segments
  OBVIOUS
<1>2. e \in g /\ g \in Groups(E)
  BY <1>1 DEF Groups
<1>3. QED BY <1>2

\* What is in hand is what was listed.
LEMMA ListAnsweredPaid ==
  ASSUME TypeInv, MailboxInv, OnceInv, NEW m \in Undated, Paid(m), OneGroup(m), NotBoth(m), ListAnswered
  PROVE  Paid(m)' /\ OneGroup(m)' /\ NotBoth(m)'
<1>0. LinkTypes /\ LinkInv /\ ListingInv
  BY TypeParts DEF TypeInv, MailboxInv
<1>1. /\ pc = "listing" /\ answers # <<>> /\ pc' \in {"handling", "idle"}
      /\ UNCHANGED <<slots, arrived, asked, open, doomed, saved, faults>>
  BY DEF ListAnswered
<1>2. open /\ \E a \in Answer : answers = <<a>> /\ Current(a.entries)
  BY <1>0, <1>1 DEF LinkInv, Waiting
<1>3. PICK a \in Answer : answers = <<a>> /\ Current(a.entries)
  BY <1>2
<1>4. /\ Head(answers) = a /\ Listed = a.entries /\ a.entries \in SUBSET Entries
      /\ Snapshot(a.entries) /\ Apart(a.entries)
  <2>1. Head(answers) = a /\ ToSet(answers) = {a}
    BY <1>3, OneElement DEF ToSet
  <2>2. QED BY <1>0, <1>1, <2>1 DEF Listed, Answer, ListingInv, OnceInv
<1>5. todo = {} /\ InHand = {} /\ Condemned = {} /\ Condemned' = {} /\ Listed' = {}
  <2>1. doomed = {}
    BY <1>1, HandFacts DEF Condemned
  <2>2. QED BY <1>1, <2>1, HandFacts DEF Condemned, Listed
<1>6. NotBoth(m)'
  BY <1>5 DEF NotBoth
<1>7. \A s \in Slots : \A e \in a.entries : e[1] = s => e[2] = slots[s] /\ e \in Entries
  BY <1>3, <1>4 DEF Current
<1>8. FromHand(m) = IF Has(a.entries, m) THEN 1 ELSE 0
  BY <1>4, <1>5 DEF FromHand, Has
<1>9. ASSUME NEW E, ~Has(E, m), InHand' = E
      PROVE  FromHand(m)' + FromSim(m)' <= FromHand(m) + FromSim(m) + 0
  <2>1. ~Has(InHand, m)' /\ ~Has(Listed, m)'
    BY <1>5, <1>9 DEF Has
  <2>2. FromHand(m)' = 0
    BY <2>1 DEF FromHand
  <2>3. CASE Has(a.entries, m)
    BY <1>8, <2>2, <2>3, PaidTypes
  <2>4. CASE ~Has(a.entries, m)
    <3>1. \A s \in Slots : slots[s][1] = m => \A e \in a.entries : e[1] # s
      BY <1>7, <2>4 DEF Has
    <3>2. LeftOver(m)' => LeftOver(m)
      BY <1>1, <1>4, <1>5, <3>1, LeftOverKept
    <3>3. QED BY <1>8, <2>2, <2>4, <3>2, PaidTypes DEF FromSim
  <2>5. QED BY <2>3, <2>4
<1>10. faults' = faults + 0
  BY <1>1, PaidTypes
<1>11. CASE pc' = "idle" /\ UNCHANGED todo
  <2>1. InHand' = {} /\ ~Has({}, m)
    BY <1>5, <1>11 DEF InHand, Has
  <2>2. OneGroup(m)'
    BY <1>5, <1>11 DEF OneGroup
  <2>3. QED BY <1>1, <1>6, <1>9, <1>10, <2>1, <2>2, PaidKept
<1>12. CASE todo' = Groups(a.entries) /\ pc' = "handling"
  <2>1. \A g \in Groups(a.entries) : g \subseteq a.entries /\ \A e \in g : Decodes(e) /\ ~IsReport(e)
    BY <1>4, GroupsJoin
  <2>2. InHand' \subseteq a.entries
    BY <1>12, <2>1 DEF InHand
  <2>3. OneGroup(m)'
    <3>1. SUFFICES ASSUME NEW g \in Groups(a.entries), NEW h \in Groups(a.entries),
                          NEW e \in g, NEW f \in h, e[2][1] = m, f[2][1] = m
                   PROVE  g = h
      BY <1>12 DEF OneGroup, Has
    <3>2. e \in a.entries /\ f \in a.entries /\ e \in Entries /\ f \in Entries
      BY <1>4, <2>1
    <3>3. GroupKey(e) = GroupKey(f)
      <4>1. CASE Parts[m] = 1
        <5>1. e[2] = <<m, 1>> /\ f[2] = <<m, 1>>
          BY <3>1, <3>2, <4>1, EntryTypes, SegmentTypes
        <5>2. e = f
          BY <1>4, <3>2, <5>1 DEF Apart
        <5>3. QED BY <5>2
      <4>2. CASE Parts[m] # 1
        BY <3>1, <4>2 DEF GroupKey
      <4>3. QED BY <4>1, <4>2
    <3>4. QED BY <3>3, SameGroup
  <2>4. CASE ~Has(InHand', m)
    BY <1>1, <1>6, <1>9, <1>10, <2>3, <2>4, PaidKept
  <2>5. CASE Has(InHand', m)
    <3>1. PICK e \in InHand' : e[2][1] = m
      BY <2>5 DEF Has
    <3>2. m \notin Unreadable /\ m \notin Reports
      BY <1>12, <2>1, <3>1 DEF InHand, Decodes, IsReport
    <3>3. \A f \in a.entries : f[2][1] = m => f \in InHand'
      <4>1. \A f \in a.entries : f[2][1] = m => Decodes(f) /\ ~IsReport(f)
        BY <3>2 DEF Decodes, IsReport
      <4>2. QED BY <1>12, <4>1, InSomeGroup DEF InHand
    <3>4. Has(a.entries, m) /\ FromHand(m) = 1
      BY <1>8, <2>2, <3>1 DEF Has
    <3>5. FromHand(m)' = 1
      BY <1>1, <1>2, <2>5 DEF FromHand, Has
    <3>6. LeftOver(m)' => LeftOver(m)
      <4>1. ASSUME NEW s \in Slots, slots[s][1] = m, NEW f \in a.entries, f[1] = s
            PROVE  f \in InHand'
        BY <1>7, <3>3, <4>1
      <4>2. QED BY <1>1, <1>4, <1>5, <4>1, LeftOverKept
    <3>7. FromHand(m)' + FromSim(m)' <= FromHand(m) + FromSim(m) + 0
      BY <3>4, <3>5, <3>6, PaidTypes DEF FromSim
    <3>8. QED BY <1>1, <1>6, <1>10, <2>3, <3>7, PaidKept
  <2>6. QED BY <2>4, <2>5
<1>13. QED BY <1>4, <1>11, <1>12 DEF ListAnswered

\* A group that is saved makes one row and is then deleted; one that is kept is left
\* over.  On a failed port it makes a row and is left over too.
LEMMA HandleGroupPaid ==
  ASSUME DeleteAfterRead, TypeInv, MailboxInv,
         NEW m \in Undated, Paid(m), OneGroup(m), NotBoth(m), HandleGroup
  PROVE  Paid(m)' /\ OneGroup(m)' /\ NotBoth(m)'
<1>1. PICK g \in todo :
        /\ todo' = todo \ {g}
        /\ \/ UNCHANGED <<saved, doomed>> /\ \E k \in 0..1 : faults' = faults + k
           \/ /\ saved' = saved \union {Row(g)} /\ doomed' = SlotsOf(g) /\ faults' = faults + 0
  <2>1. PICK g \in todo : todo' = todo \ {g} /\ (NotYet(g) \/ TextFails(g) \/ Store(g))
    BY DEF HandleGroup
  <2>2. faults + 0 = faults /\ 0 \in 0..1 /\ 1 \in 0..1
    BY PaidTypes
  <2>3. QED BY <2>1, <2>2 DEF NotYet, TextFails, Store, Fault
<1>2. /\ pc = "handling" /\ doomed = {}
      /\ UNCHANGED <<slots, arrived, asked, answers, open, pc>>
  BY DEF HandleGroup, link
<1>3. Condemned = {} /\ Condemned' = doomed' /\ Listed = {} /\ Listed' = {}
  BY <1>2, TypeParts DEF Condemned, Listed, TypeInv, WorkerTypes
<1>4. InHand' \subseteq InHand /\ InHand \subseteq InHand' \union g /\ g \subseteq InHand
  BY <1>1 DEF InHand
<1>5. OneGroup(m)'
  BY <1>1 DEF OneGroup, Has
<1>6. \A e \in g : e[1] \in Slots /\ slots[e[1]] = e[2]
  BY <1>4, HandFacts
<1>7. CASE Has(g, m)
  <2>1. ~Has(InHand, m)'
    BY <1>1, <1>7 DEF OneGroup, InHand, Has
  <2>2. FromHand(m)' = 0
    BY <1>3, <2>1 DEF FromHand, Has
  <2>3. NotBoth(m)'
    BY <2>1 DEF NotBoth
  <2>4. Has(InHand, m) /\ FromHand(m) = IF open THEN 1 ELSE 2
    BY <1>4, <1>7 DEF FromHand, Has
  <2>5. CASE UNCHANGED <<saved, doomed>> /\ \E k \in 0..1 : faults' = faults + k
    <3>1. PICK k \in 0..1 : faults' = faults + k
      BY <2>5
    <3>2. FromHand(m)' + FromSim(m)' <= FromHand(m) + FromSim(m) + k
      BY <2>2, <2>4, <3>1, PaidTypes
    <3>3. QED BY <1>2, <1>5, <2>3, <2>5, <3>1, <3>2, PaidKept
  <2>6. CASE saved' = saved \union {Row(g)} /\ doomed' = SlotsOf(g) /\ faults' = faults + 0
    <3>1. Copies(m)' \subseteq Copies(m) \union {Row(g)}
      BY <2>6 DEF Copies
    <3>2. Cardinality(Copies(m)') <= Cardinality(Copies(m)) + 1 /\ Cardinality(Copies(m)') \in Nat
      <4>1. /\ IsFiniteSet(Copies(m) \union {Row(g)})
            /\ Cardinality(Copies(m) \union {Row(g)}) \in {Cardinality(Copies(m)), Cardinality(Copies(m)) + 1}
        BY PaidTypes, FS_AddElement
      <4>2. /\ IsFiniteSet(Copies(m)')
            /\ Cardinality(Copies(m)') <= Cardinality(Copies(m) \union {Row(g)})
        BY <3>1, <4>1, FS_Subset
      <4>3. QED BY <4>1, <4>2, PaidTypes, FS_CardinalityType
    <3>3. Coming(m)' = Coming(m)
      BY <1>2 DEF Coming
    <3>4. FromHand(m)' + FromSim(m)' + 1 <= FromHand(m) + FromSim(m)
      <4>1. CASE ~open
        BY <2>2, <2>4, <4>1, PaidTypes
      <4>2. CASE open
        <5>1. \A s \in Slots : s \in Condemned' <=> \E e \in g : e[1] = s
          BY <1>3, <2>6 DEF SlotsOf
        <5>2. LeftOver(m)' => LeftOver(m)
          BY <1>2, <1>3, <1>4, <4>2, <5>1 DEF LeftOver
        <5>3. QED BY <2>2, <2>4, <4>2, <5>2, PaidTypes DEF FromSim
      <4>3. QED BY <4>1, <4>2
    <3>5. Paid(m)'
      BY <2>6, <3>2, <3>3, <3>4, PaidTypes DEF Paid
    <3>6. QED BY <1>5, <2>3, <3>5
  <2>7. QED BY <1>1, <2>5, <2>6
<1>8. CASE ~Has(g, m)
  <2>1. Has(InHand, m)' <=> Has(InHand, m)
    BY <1>4, <1>8 DEF Has
  <2>2. FromHand(m)' = FromHand(m)
    BY <1>2, <1>3, <2>1 DEF FromHand, Has
  <2>3. \A e \in g : slots[e[1]][1] # m
    BY <1>6, <1>8 DEF Has
  <2>4. LeftOver(m)' => LeftOver(m)
    BY <1>2, <1>3, <1>4, <2>3 DEF LeftOver
  <2>5. NotBoth(m)'
    <3>1. \A s \in Condemned' : slots[s][1] # m
      BY <1>1, <1>2, <1>3, <2>3 DEF SlotsOf
    <3>2. QED BY <1>2, <3>1 DEF NotBoth
  <2>6. FromHand(m)' + FromSim(m)' <= FromHand(m) + FromSim(m)
    BY <2>2, <2>4, PaidTypes DEF FromSim
  <2>7. Copies(m)' = Copies(m) /\ Coming(m)' = Coming(m)
    <3>1. ~\E s \in Row(g).segments : s[1] = m
      BY <1>8 DEF Row, Has
    <3>2. QED BY <1>1, <1>2, <3>1 DEF Copies, Coming
  <2>8. faults' \in Nat /\ faults <= faults'
    BY <1>1, PaidTypes
  <2>9. Paid(m)'
    BY <2>6, <2>7, <2>8, PaidTypes DEF Paid
  <2>10. QED BY <1>5, <2>5, <2>9
<1>9. QED BY <1>7, <1>8

\* A slot leaves the list of those to delete for a command.
LEMMA DeleteSegmentPaid ==
  ASSUME TypeInv, MailboxInv, NEW m \in Undated, Paid(m), OneGroup(m), NotBoth(m), DeleteSegment
  PROVE  Paid(m)' /\ OneGroup(m)' /\ NotBoth(m)'
<1>0. LinkInv /\ WorkerTypes
  BY TypeParts DEF TypeInv, MailboxInv
<1>1. PICK s \in doomed : doomed' = doomed \ {s} /\ Command(s, "deleting", "handling")
  BY DEF DeleteSegment
<1>2. pc = "handling" /\ UNCHANGED <<slots, arrived, open, todo, saved, faults>>
  BY DEF DeleteSegment
<1>3. Condemned' \subseteq Condemned /\ (open => Condemned' = Condemned)
  <2>1. asked = <<>> /\ s \in Slots /\ Condemned = doomed
    BY <1>0, <1>1, <1>2 DEF LinkInv, Waiting, Condemned, WorkerTypes
  <2>2. CASE open /\ asked' = <<s>> /\ pc' = "deleting"
    BY <1>1, <2>1, <2>2, OneElement DEF Condemned
  <2>3. CASE ~open /\ pc' = "handling"
    BY <1>1, <2>1, <2>3 DEF Condemned
  <2>4. QED BY <1>1, <2>1, <2>2, <2>3, OneElement DEF Command
<1>4. UNCHANGED InHand /\ Listed = {} /\ Listed' = {}
  BY <1>1, <1>2 DEF InHand, Listed, Command
<1>5. FromHand(m)' = FromHand(m) /\ (LeftOver(m)' => LeftOver(m))
  BY <1>2, <1>3, <1>4 DEF FromHand, Has, LeftOver
<1>6. FromHand(m)' + FromSim(m)' <= FromHand(m) + FromSim(m) + 0 /\ faults' = faults + 0
  BY <1>2, <1>5, PaidTypes DEF FromSim
<1>7. OneGroup(m)' /\ NotBoth(m)'
  BY <1>2, <1>3, <1>4 DEF OneGroup, NotBoth, Has
<1>8. QED BY <1>2, <1>6, <1>7, PaidKept

\* A failed port leaves over what was to be deleted, and what is in hand as soon as
\* it is saved: one more for its fault, for a message is not in both places.
LEMMA PortFailsPaid ==
  ASSUME TypeInv, MailboxInv, NEW m \in Undated, Paid(m), OneGroup(m), NotBoth(m), PortFails
  PROVE  Paid(m)' /\ OneGroup(m)' /\ NotBoth(m)'
<1>1. /\ open /\ ~open' /\ asked' = <<>> /\ answers' = <<>> /\ faults' = faults + 1
      /\ UNCHANGED <<slots, arrived, pc, todo, doomed, saved>>
  BY DEF PortFails, Fault, worker
<1>2. UNCHANGED InHand /\ Listed' = {} /\ Condemned' \subseteq Condemned
  BY <1>1, OneElement DEF InHand, Listed, Condemned
<1>3. OneGroup(m)' /\ NotBoth(m)'
  BY <1>1, <1>2 DEF OneGroup, NotBoth, Has
<1>4. FromHand(m)' + FromSim(m)' <= FromHand(m) + FromSim(m) + 1
  <2>1. CASE Has(InHand, m)
    <3>1. Listed = {}
      BY <2>1, HandFacts DEF Has
    <3>2. LeftOver(m)' => LeftOver(m)
      BY <1>1, <1>2, <2>1, <3>1 DEF LeftOver, NotBoth
    <3>3. FromHand(m) = 1 /\ FromHand(m)' = 2
      BY <1>1, <1>2, <2>1 DEF FromHand, Has
    <3>4. QED BY <3>2, <3>3, PaidTypes DEF FromSim
  <2>2. CASE ~Has(InHand, m)
    <3>1. FromHand(m)' = 0
      BY <1>2, <2>2 DEF FromHand, Has
    <3>2. QED BY <3>1, PaidTypes
  <2>3. QED BY <2>1, <2>2
<1>5. 1 \in 0..1
  OBVIOUS
<1>6. QED BY <1>1, <1>3, <1>4, <1>5, PaidKept

\* A command that is not answered, or a worker that dies, leaves over what was listed
\* or was to be deleted: one row for the fault.
LEMMA LostPaid ==
  ASSUME TypeInv, MailboxInv, NEW m \in Undated, Paid(m), OneGroup(m),
         faults' = faults + 1, UNCHANGED <<slots, arrived, saved>>,
         todo' = {} \/ (todo' = todo /\ open' = open /\ NotBoth(m)), Listed' = {},
         Condemned' \subseteq Condemned
  PROVE  Paid(m)' /\ OneGroup(m)' /\ NotBoth(m)'
<1>1. OneGroup(m)'
  BY DEF OneGroup, Has
<1>2. InHand' = {} \/ (InHand' = InHand /\ open' = open /\ NotBoth(m))
  <2>1. CASE todo' = {}
    BY <2>1 DEF InHand
  <2>2. CASE todo' = todo /\ open' = open /\ NotBoth(m)
    BY <2>2 DEF InHand
  <2>3. QED BY <2>1, <2>2
<1>3. NotBoth(m)'
  BY <1>2 DEF NotBoth, Has
<1>4. FromHand(m)' <= FromHand(m)
  <2>1. CASE InHand' = {}
    BY <2>1, PaidTypes DEF FromHand, Has
  <2>2. CASE InHand' = InHand /\ open' = open
    BY <2>2, PaidTypes DEF FromHand, Has
  <2>3. QED BY <1>2, <2>1, <2>2
<1>5. FromHand(m)' + FromSim(m)' <= FromHand(m) + FromSim(m) + 1 /\ 1 \in 0..1
  BY <1>4, PaidTypes
<1>6. QED BY <1>1, <1>3, <1>5, PaidKept

\* Steps that change nothing of the account.
LEMMA QuietPaid ==
  ASSUME TypeInv, MailboxInv, NEW m \in Undated, Paid(m), OneGroup(m), NotBoth(m),
         UNCHANGED <<slots, arrived, saved, todo>>,
         NEW k \in 0..1, faults' = faults + k,
         Listed' = Listed, Condemned' \subseteq Condemned,
         (open' = open /\ (open => Condemned' = Condemned)) \/ (todo = {} /\ Condemned = {})
  PROVE  Paid(m)' /\ OneGroup(m)' /\ NotBoth(m)'
<1>1. UNCHANGED InHand
  BY DEF InHand
<1>2. OneGroup(m)' /\ NotBoth(m)'
  BY <1>1 DEF OneGroup, NotBoth, Has
<1>3. FromHand(m)' = FromHand(m)
  BY <1>1 DEF FromHand, Has, InHand
<1>4. LeftOver(m)' => LeftOver(m)
  BY <1>1 DEF LeftOver
<1>5. FromHand(m)' + FromSim(m)' <= FromHand(m) + FromSim(m) + k
  BY <1>3, <1>4, PaidTypes DEF FromSim
<1>6. QED BY <1>2, <1>5, PaidKept

LEMMA PaidStep ==
  ASSUME "late" \notin FaultKinds, "twice" \notin FaultKinds, DeleteAfterRead,
         TypeInv, MailboxInv, OnceInv, PaidInv, [Next]_vars
  PROVE  PaidInv'
<1>0. LinkInv /\ HandInv /\ WorkerTypes
  BY TypeParts DEF MailboxInv, TypeInv
<1> SUFFICES ASSUME NEW m \in Undated
             PROVE  Paid(m)' /\ OneGroup(m)' /\ NotBoth(m)'
  BY DEF PaidInv
<1>1. Paid(m) /\ OneGroup(m) /\ NotBoth(m)
  BY DEF PaidInv
<1>2. faults + 0 = faults /\ 0 \in 0..1 /\ 1 \in 0..1
  BY PaidTypes
<1>3. ASSUME NEW g \in Segments, NEW s \in Slots, Arrive(g, s)
      PROVE  Paid(m)' /\ OneGroup(m)' /\ NotBoth(m)'
  BY <1>1, <1>3, ArrivePaid
<1>4. CASE ModemExecutes
  BY <1>1, <1>4, ModemExecutesPaid
<1>5. CASE PortFails
  BY <1>1, <1>5, PortFailsPaid
<1>6. CASE CommandTimesOut
  <2>1. /\ faults' = faults + 1 /\ asked' = <<>> /\ pc' \in {"idle", "handling"}
        /\ UNCHANGED <<slots, arrived, open, todo, doomed, saved>>
    BY <1>6 DEF CommandTimesOut, GiveUp, Fault
  <2>2. Listed' = {} /\ Condemned' \subseteq Condemned
    BY <2>1 DEF Listed, Condemned
  <2>3. QED BY <1>1, <2>1, <2>2, LostPaid
<1>7. CASE Crash
  <2>1. /\ faults' = faults + 1 /\ todo' = {} /\ doomed' = {} /\ pc' = "off"
        /\ UNCHANGED <<slots, arrived, saved>>
    BY <1>7 DEF Crash, Forget, Fault
  <2>2. Listed' = {} /\ Condemned' = {}
    BY <2>1 DEF Listed, Condemned
  <2>3. QED BY <1>1, <2>1, <2>2, LostPaid
<1>8. CASE ListAnswered
  BY <1>1, <1>8, ListAnsweredPaid
<1>9. CASE HandleGroup
  BY <1>1, <1>9, HandleGroupPaid
<1>10. CASE DeleteSegment
  BY <1>1, <1>10, DeleteSegmentPaid
<1>11. CASE Start \/ BeginRead \/ WorkerEnds
  <2>1. /\ pc \in {"off", "idle"} /\ pc' \in {"off", "idle", "listing"}
        /\ pc' = "listing" => pc = "idle" /\ answers' = answers
        /\ todo' \subseteq todo /\ doomed' \subseteq doomed
        /\ UNCHANGED <<slots, arrived, saved>>
        /\ faults' = faults \/ faults' = faults + 1
    BY <1>11 DEF Start, BeginRead, WorkerEnds, Command, Forget, Fault
  <2>2. todo = {} /\ Condemned = {} /\ Listed = {}
    BY <2>1, HandFacts DEF Listed
  <2>3. todo' = todo /\ Condemned' \subseteq Condemned
    BY <2>1, <2>2 DEF Condemned
  <2>4. Listed' = {}
    <3>1. pc = "idle" => answers = <<>>
      BY <1>0 DEF LinkInv, Waiting
    <3>2. QED BY <2>1, <3>1 DEF Listed
  <2>5. QED BY <1>1, <1>2, <2>1, <2>2, <2>3, <2>4, QuietPaid
<1>12. CASE DeleteAnswered
  <2>1. /\ pc = "deleting" /\ pc' = "handling" /\ answers # <<>>
        /\ UNCHANGED <<slots, arrived, asked, open, saved, todo, doomed, faults>>
    BY <1>12 DEF DeleteAnswered
  <2>2. Listed = {} /\ Listed' = {}
    BY <2>1 DEF Listed
  <2>3. asked = <<>>
    BY <1>0, <2>1, OneElement DEF LinkInv, Waiting
  <2>4. Condemned' = Condemned
    BY <2>1, <2>3, OneElement DEF Condemned
  <2>5. QED BY <1>1, <1>2, <2>1, <2>2, <2>4, QuietPaid
<1>13. CASE EndRead
  <2>1. /\ pc = "handling" /\ pc' \in {"handling", "idle"} /\ todo = {} /\ doomed = {}
        /\ UNCHANGED <<slots, arrived, asked, answers, open, saved, todo, faults>>
    BY <1>13 DEF EndRead, link
  <2>2. Listed = {} /\ Listed' = {} /\ Condemned = {}
    BY <2>1 DEF Listed, Condemned
  <2>3. FromHand(m)' = 0 /\ OneGroup(m)' /\ NotBoth(m)'
    BY <2>1, <2>2 DEF FromHand, OneGroup, NotBoth, Has, InHand
  <2>4. LeftOver(m)' => LeftOver(m)
    BY <2>1, <2>2 DEF LeftOver, InHand
  <2>5. FromHand(m)' + FromSim(m)' <= FromHand(m) + FromSim(m) + 0
    BY <2>3, <2>4, PaidTypes DEF FromSim
  <2>6. QED BY <1>1, <1>2, <2>1, <2>3, <2>5, PaidKept
<1>14. CASE PortClosed
  <2>1. /\ Waiting /\ ~open /\ pc' \in {"idle", "handling"}
        /\ UNCHANGED <<slots, arrived, asked, answers, open, saved, todo, doomed, faults>>
    BY <1>14 DEF PortClosed, GiveUp, link
  <2>2. asked = <<>> /\ answers = <<>>
    BY <1>0, <2>1 DEF LinkInv
  <2>3. Listed = {} /\ Listed' = {} /\ Condemned' \subseteq Condemned
    BY <2>1, <2>2 DEF Listed, Condemned
  <2>4. QED BY <1>1, <1>2, <2>1, <2>3, QuietPaid
<1>15. ASSUME NEW k \in References, WaitIsOver(k)
       PROVE  Paid(m)' /\ OneGroup(m)' /\ NotBoth(m)'
  <2>1. UNCHANGED <<slots, arrived, asked, answers, open, pc, todo, doomed, saved, faults>>
    BY <1>15 DEF WaitIsOver, link
  <2>2. Listed' = Listed /\ Condemned' = Condemned
    BY <2>1 DEF Listed, Condemned
  <2>3. QED BY <1>1, <1>2, <2>1, <2>2, QuietPaid
<1>16. CASE UNCHANGED vars
  <2>1. UNCHANGED <<slots, arrived, asked, answers, open, pc, todo, doomed, saved, faults>>
    BY <1>16 DEF vars, link, worker
  <2>2. Listed' = Listed /\ Condemned' = Condemned
    BY <2>1 DEF Listed, Condemned
  <2>3. QED BY <1>1, <1>2, <2>1, <2>2, QuietPaid
<1>17. QED BY <1>0, <1>3, <1>4, <1>5, <1>6, <1>7, <1>8, <1>9, <1>10, <1>11, <1>12, <1>13, <1>14, <1>15, <1>16,
              NoLineDropped DEF Next, WorkerStep

LEMMA PaidInit == Init => PaidInv
<1> SUFFICES ASSUME Init, NEW m \in Undated PROVE Paid(m) /\ OneGroup(m) /\ NotBoth(m)
  BY DEF PaidInv
<1>1. m \in Messages /\ m # 0 /\ Parts[m] \in Nat \ {0}
  BY MessagesAssumption
<1>2. InHand = {} /\ Listed = {} /\ OneGroup(m) /\ NotBoth(m)
  BY DEF Init, InHand, Listed, OneGroup, NotBoth, Has
<1>3. FromHand(m) = 0
  BY <1>2 DEF FromHand, Has
<1>4. FromSim(m) = 0
  BY <1>1 DEF Init, FromSim, LeftOver, Empty
<1>5. Copies(m) = {} /\ Cardinality({}) = 0
  BY FS_EmptySet DEF Init, Copies
<1>6. Coming(m) = {m} \X (1..Parts[m])
  BY DEF Init, Coming
<1>7. Cardinality({m} \X (1..Parts[m])) = Parts[m]
  <2>1. IsFiniteSet({m}) /\ Cardinality({m}) = 1
    BY FS_Singleton
  <2>2. IsFiniteSet(1..Parts[m]) /\ Cardinality(1..Parts[m]) = Parts[m]
    BY <1>1, FS_Interval
  <2>3. Cardinality({m} \X (1..Parts[m])) = Cardinality({m}) * Cardinality(1..Parts[m])
    BY <2>1, <2>2, FS_Product, Zenon
  <2>4. QED BY <1>1, <2>1, <2>2, <2>3
<1>8. faults = 0
  BY DEF Init
<1>9. QED BY <1>1, <1>2, <1>3, <1>4, <1>5, <1>6, <1>7, <1>8 DEF Paid

\* A message without a time stamp makes at most as many rows as it has parts, and one
\* more for each fault, for any messages, SIM size and number of faults: a row needs a
\* segment that has come since the last, or one whose delete a fault undid.  That
\* takes deletes at all, none executed unseen (a late answer) and no segment
\* stored twice, which a failed port would have saved twice.
THEOREM CopiesArePaid ==
  ASSUME DeleteAfterRead, "late" \notin FaultKinds, "twice" \notin FaultKinds
  PROVE  Spec => []CopiesPaid
<1>1. Init => PaidInv
  BY PaidInit
<1>2. WholeInv => OnceInv
  BY DEF WholeInv
<1>3. TypeInv /\ MailboxInv /\ OnceInv /\ PaidInv /\ [Next]_vars => PaidInv'
  BY PaidStep
<1>4. TypeInv /\ PaidInv => CopiesPaid
  <2> SUFFICES ASSUME TypeInv, PaidInv, NEW m \in Undated
               PROVE  Cardinality(Copies(m)) <= Parts[m] + faults
    BY DEF CopiesPaid, Copies
  <2>1. Paid(m)
    BY DEF PaidInv
  <2>2. QED BY <2>1, PaidTypes DEF Paid
<1>5. Spec => []WholeInv
  BY WholeInvHolds
<1>6. Spec => []PaidInv
  BY <1>1, <1>2, <1>3, <1>5, TypeInvHolds, MailboxInvHolds, PTL DEF Spec
<1>7. QED BY <1>4, <1>6, TypeInvHolds, PTL

=============================================================================
