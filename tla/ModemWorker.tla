----------------------------- MODULE ModemWorker -----------------------------
(***************************************************************************)
(* One modem's worker (internal/modem/worker.go), the AT port it talks     *)
(* through (at.go), and the messages table it saves into (db/messages.go). *)
(* The modem itself is external: it executes commands in the order they    *)
(* were sent and answers each of them.                                     *)
(*                                                                         *)
(* A message is made of segments that the network stores in slots of the   *)
(* SIM, in any order and at any time.  ReadAll lists the slots, joins the  *)
(* segments of each message, saves what is complete or has waited long     *)
(* enough, and deletes what it has saved.                                  *)
(***************************************************************************)
EXTENDS Integers, FiniteSets, Sequences

CONSTANTS
  Messages,         \* the messages the network sends
  Parts,            \* segments of each
  Ref,              \* what its sender numbered it with: one octet, so numbers come again
  Undated,          \* those without a time stamp
  Reports,          \* those that are status reports, not SMS-DELIVER
  Unreadable,       \* those whose PDU or text does not decode
  Divided,          \* those whose text may not decode unless all segments are there
  NSlots,           \* SIM capacity (bound)
  DeleteAfterRead,  \* modem.delete_after_read
  FaultKinds,       \* what may go wrong in this instance
  MaxFaults         \* how often (bound)

Slots == 1..NSlots
Segments == UNION {{m} \X (1..Parts[m]) : m \in Messages}
Empty == <<0, 0>>
References == {Ref[m] : m \in Messages}

\* error: the modem answers ERROR.  mute: no answer comes.  late: it comes after
\* the command has timed out.  port: the serial port fails.  imei: AT+CGSN fails
\* when the worker starts.  twice: the network stores a segment again.
AllFaults == {"error", "mute", "late", "port", "db", "imei", "twice", "crash"}

ASSUME MessagesAssumption ==
  /\ Messages \subseteq Nat \ {0}
  /\ Parts \in [Messages -> Nat \ {0}]
  /\ Reports \subseteq Messages /\ Unreadable \subseteq Messages /\ Divided \subseteq Messages
  /\ \A m \in Reports : Parts[m] = 1
  /\ Undated \subseteq Messages
  /\ \A m, n \in Messages : Ref[m] = Ref[n] => Parts[m] = Parts[n] /\ (m \in Undated => m = n)
ASSUME SlotsAssumption == NSlots \in Nat
ASSUME SettingAssumption == DeleteAfterRead \in BOOLEAN
ASSUME FaultsAssumption == FaultKinds \subseteq AllFaults /\ MaxFaults \in Nat

VARIABLES
  slots,      \* SIM storage
  arrived,    \* history: segments the network has stored
  asked,      \* commands the modem has still to execute
  answers,    \* its answers on their way to the host
  open,       \* the port works
  pc,         \* what the worker is doing
  todo,       \* groups of the listing still to handle
  orphans,    \* slots of the listing that held status reports
  doomed,     \* slots to delete now
  firstSeen,  \* incomplete groups: not seen, seen, or seen long ago
  imei,       \* the worker knows the modem's IMEI
  saved,      \* rows of the messages table
  faults      \* faults so far

link   == <<asked, answers, open>>
worker == <<pc, todo, orphans, doomed, firstSeen, imei>>
vars   == <<slots, arrived, link, worker, saved, faults>>

Fault(kind) ==
  /\ kind \in FaultKinds
  /\ faults < MaxFaults
  /\ faults' = faults + 1

-------------------------------------------------------------------------------
(* The SIM and the modem *)

Arrive(g, s) ==
  /\ slots[s] = Empty
  /\ \/ g \notin arrived /\ UNCHANGED faults
     \/ g \in arrived /\ Fault("twice")
  /\ slots' = [slots EXCEPT ![s] = g]
  /\ arrived' = arrived \union {g}
  /\ UNCHANGED <<link, worker, saved>>

\* Commands: AT+CMGL, or AT+CMGD of a slot.
List == 0

Listing == {<<s, slots[s]>> : s \in {s \in Slots : slots[s] # Empty}}

\* An answer is the entries it lists and its final result.
Ok(entries) == [entries |-> entries, ok |-> TRUE]
Error == [entries |-> {}, ok |-> FALSE]

ModemExecutes ==
  /\ asked # <<>>
  /\ asked' = Tail(asked)
  /\ LET c == Head(asked) IN
       \/ /\ c = List
          /\ answers' = Append(answers, Ok(Listing))
          /\ UNCHANGED <<slots, faults>>
       \/ /\ c \in Slots
          /\ slots' = [slots EXCEPT ![c] = Empty]
          /\ answers' = Append(answers, Ok({}))
          /\ UNCHANGED faults
       \/ /\ Fault("error")
          /\ answers' = Append(answers, Error)
          /\ UNCHANGED slots
  /\ UNCHANGED <<arrived, open, worker, saved>>

PortFails ==
  /\ pc # "off" /\ open
  /\ Fault("port")
  /\ open' = FALSE
  /\ asked' = <<>> /\ answers' = <<>>
  /\ UNCHANGED <<slots, arrived, worker, saved>>

-------------------------------------------------------------------------------
(* ATPort.Command *)

\* A command on a failed port returns at once.
Command(c, waiting, failed) ==
  \/ open /\ asked' = Append(asked, c) /\ pc' = waiting /\ UNCHANGED answers
  \/ ~open /\ pc' = failed /\ UNCHANGED <<asked, answers>>

Waiting == pc \in {"listing", "deleting"}

\* Lines that come while no command waits are taken for notifications and
\* ignored, and what is left in the channel is dropped by the next command.
DropLine ==
  /\ ~Waiting
  /\ answers # <<>>
  /\ LET a == Head(answers) IN
       \/ /\ a.entries = {}
          /\ answers' = Tail(answers)
       \/ \E e \in a.entries :
            answers' = <<[a EXCEPT !.entries = @ \ {e}]>> \o Tail(answers)
  /\ UNCHANGED <<slots, arrived, asked, open, worker, saved, faults>>

\* The caller gives up: ReadAll returns, a delete is passed over.
GiveUp ==
  /\ pc' = IF pc = "listing" THEN "idle" ELSE "handling"
  /\ UNCHANGED <<todo, orphans, doomed, firstSeen, imei>>

CommandTimesOut ==
  /\ Waiting /\ open
  /\ \/ Fault("mute") /\ asked' = <<>> /\ answers' = <<>>
     \/ Fault("late") /\ UNCHANGED <<asked, answers>>
  /\ GiveUp
  /\ UNCHANGED <<slots, arrived, open, saved>>

PortClosed ==
  /\ Waiting /\ ~open
  /\ GiveUp
  /\ UNCHANGED <<slots, arrived, link, saved, faults>>

-------------------------------------------------------------------------------
(* Worker.Run and ReadAll *)

\* At the start, on the ticker and on +CMTI.
BeginRead ==
  /\ pc = "idle" /\ open
  /\ Command(List, "listing", "idle")
  /\ UNCHANGED <<slots, arrived, open, todo, orphans, doomed, firstSeen, imei, saved, faults>>

IsReport(e) == e[2][1] \in Reports
Decodes(e) == e[2][1] \notin Unreadable

\* Mutant: by sender alone.
GroupKeyBySender(e) == <<"sender", 0>>

\* Segments are joined by reference, which those of several messages may share; one
\* that is a message by itself goes by slot.
GroupKey(e) == IF Parts[e[2][1]] = 1 THEN <<"single", e[1]>> ELSE <<"concat", Ref[e[2][1]]>>

Groups(entries) ==
  LET segments == {e \in entries : Decodes(e) /\ ~IsReport(e)} IN
  {{e \in segments : GroupKey(e) = k} : k \in {GroupKey(e) : e \in segments}}

\* Whatever answer comes is taken for this command's.
ListAnswered ==
  /\ pc = "listing"
  /\ answers # <<>>
  /\ answers' = Tail(answers)
  /\ LET a == Head(answers) IN
       IF a.ok
         THEN /\ todo' = Groups(a.entries)
              /\ orphans' = {e[1] : e \in {e \in a.entries : Decodes(e) /\ IsReport(e)}}
              /\ pc' = "handling"
         ELSE pc' = "idle" /\ UNCHANGED <<todo, orphans>>
  /\ UNCHANGED <<slots, arrived, asked, open, doomed, firstSeen, imei, saved, faults>>

MessageOf(g) == (CHOOSE e \in g : TRUE)[2][1]
RefOf(g) == Ref[MessageOf(g)]

\* Mutant: the last part is not waited for.
CompleteButOne(g) == Cardinality(g) + 1 >= Parts[MessageOf(g)]

\* Segments are counted, not told apart.
Complete(g) == Cardinality(g) >= Parts[MessageOf(g)]

\* buildMessage and messageKey: what makes a row of the messages table unique.  The
\* time of a message without one is that of the listing: a later one each time.
Row(g) ==
  [segments |-> {e[2] : e \in g}, whole |-> Complete(g), imei |-> imei,
   time |-> IF MessageOf(g) \in Undated THEN Cardinality(saved) + 1 ELSE 0]

\* Mutant: one slot is forgotten.
SlotsButOne(g) == {e[1] : e \in g} \ {CHOOSE s \in Slots : \E e \in g : e[1] = s}

SlotsOf(g) == {e[1] : e \in g}

Waits(g) == ~Complete(g) /\ firstSeen[RefOf(g)] # "long ago"

NotYet(g) ==
  /\ Waits(g)
  /\ firstSeen' = [firstSeen EXCEPT ![RefOf(g)] = "recently"]
  /\ UNCHANGED <<saved, doomed, faults>>

\* Mutants: a failed handler does not keep the segments from being deleted; a
\* message that is known already is not passed over but reported as an error.
StoreDeletesAnyway(g) ==
  /\ \/ saved' = saved \union {Row(g)} /\ UNCHANGED faults
     \/ Fault("db") /\ UNCHANGED saved
  /\ firstSeen' = [firstSeen EXCEPT ![RefOf(g)] = "no"]
  /\ doomed' = IF DeleteAfterRead THEN SlotsOf(g) ELSE {}

StoreRefusesKnown(g) ==
  \/ /\ Row(g) \notin saved
     /\ saved' = saved \union {Row(g)}
     /\ firstSeen' = [firstSeen EXCEPT ![RefOf(g)] = "no"]
     /\ doomed' = IF DeleteAfterRead THEN SlotsOf(g) ELSE {}
     /\ UNCHANGED faults
  \/ Row(g) \in saved /\ UNCHANGED <<saved, firstSeen, doomed, faults>>

\* sms.Decode, of a character that lies in two segments (a surrogate pair): the group
\* lacks one of them, whether it waited for it or counts another in its place.
TextFails(g) ==
  /\ \E m \in Divided :
       /\ \E e \in g : e[2][1] = m
       /\ \E i \in 1..Parts[m] : \A e \in g : e[2] # <<m, i>>
  /\ UNCHANGED <<saved, firstSeen, doomed, faults>>

\* The handler saves the message unless it is known; only then is it deleted.
Store(g) ==
  \/ /\ saved' = saved \union {Row(g)}
     /\ firstSeen' = [firstSeen EXCEPT ![RefOf(g)] = "no"]
     /\ doomed' = IF DeleteAfterRead THEN SlotsOf(g) ELSE {}
     /\ UNCHANGED faults
  \/ Fault("db") /\ UNCHANGED <<saved, firstSeen, doomed>>

\* The listing's order is the modem's choice, and a group's slots are deleted in
\* the order of its segments: any order here.
HandleGroup ==
  /\ pc = "handling" /\ doomed = {}
  /\ \E g \in todo :
       /\ todo' = todo \ {g}
       /\ \/ NotYet(g)
          \/ ~Waits(g) /\ (TextFails(g) \/ Store(g))
  /\ UNCHANGED <<slots, arrived, link, pc, orphans, imei>>

\* An error or a timeout passes over to the next slot.
DeleteSegment ==
  /\ pc = "handling"
  /\ \E s \in doomed :
       /\ doomed' = doomed \ {s}
       /\ Command(s, "deleting", "handling")
  /\ UNCHANGED <<slots, arrived, open, todo, orphans, firstSeen, imei, saved, faults>>

DeleteAnswered ==
  /\ pc = "deleting"
  /\ answers # <<>>
  /\ answers' = Tail(answers)
  /\ pc' = "handling"
  /\ UNCHANGED <<slots, arrived, asked, open, todo, orphans, doomed, firstSeen, imei, saved, faults>>

\* Status reports are deleted last, when anything is.
EndRead ==
  /\ pc = "handling" /\ todo = {} /\ doomed = {}
  /\ IF DeleteAfterRead /\ orphans # {}
       THEN doomed' = orphans /\ UNCHANGED pc
       ELSE pc' = "idle" /\ UNCHANGED doomed
  /\ orphans' = {}
  /\ UNCHANGED <<slots, arrived, link, todo, firstSeen, imei, saved, faults>>

\* incompleteTimeout passes since a group was first seen incomplete.
WaitIsOver(k) ==
  /\ firstSeen[k] = "recently"
  /\ firstSeen' = [firstSeen EXCEPT ![k] = "long ago"]
  /\ UNCHANGED <<slots, arrived, link, pc, todo, orphans, doomed, imei, saved, faults>>

-------------------------------------------------------------------------------
(* The worker's end and its successor *)

\* What a worker remembers goes with it.
Forget ==
  /\ todo' = {} /\ orphans' = {} /\ doomed' = {}
  /\ firstSeen' = [k \in References |-> "no"]
  /\ asked' = <<>> /\ answers' = <<>>
  /\ pc' = "off"

WorkerEnds ==
  /\ pc = "idle" /\ ~open
  /\ Forget
  /\ UNCHANGED <<slots, arrived, open, imei, saved, faults>>

\* The process dies, or is told to stop, whether or not the modem has executed
\* what it was sent.
Crash ==
  /\ pc # "off"
  /\ Fault("crash")
  /\ Forget
  /\ open' = FALSE
  /\ UNCHANGED <<slots, arrived, imei, saved>>

\* The manager starts a worker whose Init succeeds; setup passes over an IMEI it
\* cannot read.
Start ==
  /\ pc = "off"
  /\ pc' = "idle"
  /\ open' = TRUE
  /\ \/ imei' = TRUE /\ UNCHANGED faults
     \/ imei' = FALSE /\ Fault("imei")
  /\ UNCHANGED <<slots, arrived, asked, answers, todo, orphans, doomed, firstSeen, saved>>

Init ==
  /\ slots = [s \in Slots |-> Empty]
  /\ arrived = {}
  /\ asked = <<>> /\ answers = <<>>
  /\ open = FALSE
  /\ pc = "off"
  /\ todo = {} /\ orphans = {} /\ doomed = {}
  /\ firstSeen = [k \in References |-> "no"]
  /\ imei = TRUE
  /\ saved = {}
  /\ faults = 0

WorkerStep ==
  \/ Start \/ BeginRead \/ ListAnswered \/ HandleGroup
  \/ DeleteSegment \/ DeleteAnswered \/ EndRead \/ PortClosed \/ WorkerEnds

Next ==
  \/ \E g \in Segments, s \in Slots : Arrive(g, s)
  \/ ModemExecutes \/ PortFails \/ DropLine \/ CommandTimesOut
  \/ WorkerStep
  \/ \E k \in References : WaitIsOver(k)
  \/ Crash

Spec == Init /\ [][Next]_vars

\* The worker's goroutine runs, its ticker fires, the modem works through its
\* commands, time passes, and the manager's scan starts a worker that is missing.
LiveSpec ==
  /\ Spec
  /\ WF_vars(WorkerStep) /\ WF_vars(ModemExecutes)
  /\ \A k \in References : WF_vars(WaitIsOver(k))

-------------------------------------------------------------------------------
(* Properties *)

Entries == Slots \X Segments

\* Variables stay in range; in particular a row is made of segments that
\* share a reference.
TypeOK ==
  /\ slots \in [Slots -> Segments \union {Empty}]
  /\ arrived \subseteq Segments
  /\ asked \in Seq({List} \union Slots)
  /\ answers \in Seq([entries : SUBSET Entries, ok : BOOLEAN])
  /\ open \in BOOLEAN
  /\ pc \in {"off", "idle", "listing", "handling", "deleting"}
  /\ todo \subseteq SUBSET Entries
  /\ orphans \subseteq Slots /\ doomed \subseteq Slots
  /\ firstSeen \in [References -> {"no", "recently", "long ago"}]
  /\ imei \in BOOLEAN
  /\ saved \subseteq [segments : SUBSET Segments, whole : BOOLEAN, imei : BOOLEAN, time : Nat]
  /\ \A r \in saved : r.segments # {} /\ \A g, h \in r.segments : Ref[g[1]] = Ref[h[1]]
  /\ faults \in Nat

Stored == {slots[s] : s \in Slots} \ {Empty}
Kept == UNION {r.segments : r \in saved}
ReportSegments == {g \in Segments : g[1] \in Reports}

\* worker.go:37, README.md:493: a segment is deleted from the modem only once a
\* message with it is saved, whatever fails or restarts in between.
NothingLost == \A g \in arrived : g \in Stored \union Kept \union ReportSegments

\* The life of a segment as Mailbox has it.
Whereabouts(g) ==
  IF g \notin arrived THEN "coming"
  ELSE IF g \in Stored THEN IF g \in Kept THEN "saved" ELSE "stored"
  ELSE "gone"

Promise == INSTANCE Mailbox WITH
  Dropped <- ReportSegments, where <- [g \in Segments |-> Whereabouts(g)]

KeepsMailbox == Promise!Spec

\* A message is forwarded as complete at most once: segments left behind by
\* deletes that failed, or listed by a later worker, come again only as the
\* same row or as a remainder (messageKey, Complete).  That takes a time stamp, a
\* reference of its own, and workers that all know the IMEI or all do not.
Recognisable(m) == m \notin Undated /\ \A n \in Messages : Ref[n] = Ref[m] => n = m

WholeOnce ==
  \A a, b \in saved :
    /\ a.whole /\ b.whole /\ a.imei = b.imei
    /\ \E g \in a.segments \intersect b.segments : Recognisable(g[1])
    => a = b

\* A message without a time stamp has a new key at each listing (worker.go:386): only
\* that it is deleted keeps it from coming again, so that each copy takes a fault.
CopiesPaid ==
  \A m \in Undated : Cardinality({r \in saved : \E g \in r.segments : g[1] = m}) <= Parts[m] + faults


\* Those whose text decodes however many of its segments are there, with whatever others
\* share their reference.
Readable(m) == m \notin Unreadable /\ \A n \in Divided : Ref[n] # Ref[m]

\* Faults being finite, whatever can be read is saved and leaves the SIM, whether its
\* other segments ever come or not (worker.go:317, 350).
SimDrains == <>[](\A s \in Slots : slots[s] = Empty \/ ~Readable(slots[s][1]))
===============================================================================
