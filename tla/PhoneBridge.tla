----------------------------- MODULE PhoneBridge -----------------------------
(***************************************************************************)
(* From the phones to the outbox: the watcher (adb/watcher.go), main's     *)
(* event loop, the poller (adb/sms.go), and processMessages with           *)
(* saveAndEnqueue (main.go, db/messages.go).  The phones, whose user may   *)
(* delete messages, the ADB server and the translation service are         *)
(* external.                                                               *)
(*                                                                         *)
(* The goroutines of a poller whose context is cancelled are left out:     *)
(* every statement of theirs is refused and nobody reads their channel.    *)
(***************************************************************************)
EXTENDS Integers, Sequences, SequencesExt

CONSTANTS
  Phones,
  NoPhone,
  Preferred,      \* adb.device_serial; NoPhone when it is empty
  NSms,           \* messages a phone receives (bound)
  Understands,    \* the first of the three queries a phone understands
  Unparsable,     \* messages whose rows ParseSMSOutput cannot read (SmsRows)
  Deletable,      \* messages the user may delete from the phone (bound)
  Foreign,        \* messages the translation service finds in another language
  Channels,       \* channels messages are forwarded to
  MessagesSize,   \* capacity of Poller.Messages
  EventsSize,     \* capacity of Watcher.Events
  FaultKinds,     \* what may go wrong in this instance
  MaxFaults       \* how often (bound)

\* A phone numbers the messages it receives: these are their android_ids.
Ids == 1..NSms
NoSms == 0

\* unplug: a phone goes.  list, fetch: main cannot list the devices, or query the
\* newest message, when a phone is connected.  db: a statement fails.
AllFaults == {"unplug", "list", "fetch", "db", "crash"}

ASSUME PhonesAssumption == NoPhone \notin Phones /\ Preferred \in Phones \union {NoPhone}
ASSUME SmsAssumption == NSms \in Nat /\ Understands \in [Phones -> 0..2]
ASSUME TextsAssumption ==
  Unparsable \subseteq Phones \X Ids /\ Deletable \subseteq Phones \X Ids /\ Foreign \subseteq Ids
ASSUME SizesAssumption == MessagesSize \in Nat \ {0} /\ EventsSize \in Nat \ {0}
ASSUME FaultsAssumption == FaultKinds \subseteq AllFaults /\ MaxFaults \in Nat

VARIABLES
  online,     \* phones the ADB server has in state "device"
  inbox,      \* messages each phone has received
  removed,    \* those that were deleted from it
  watching,   \* Watcher.state: a phone is connected
  events,     \* Watcher.Events, and the event its sender is blocked with
  polling,    \* the phone main runs a poller for
  present,    \* history: messages it had when main was told of it
  start,      \* where that poller's cursor started
  lastID,     \* its cursor
  query,      \* the query it uses
  batch,      \* messages of the present poll still to look at
  newest,     \* the newest of the present poll; NoSms between polls
  messages,   \* Poller.Messages
  handler,    \* what processMessages is doing
  hand,       \* the message it has in hand
  left,       \* channels it has still to enqueue that for
  taken,      \* history: messages it took from this poller
  row,        \* messages table: the phone whose message has an android_id
  translated, \* messages of that table that have a translation
  queued,     \* outbox rows made of each message for each channel
  faults      \* faults so far

phones  == <<online, inbox, removed>>
watcher == <<watching, events>>
poller  == <<polling, present, start, lastID, query, batch, newest>>
saving  == <<handler, hand, left, taken>>
tables  == <<row, translated, queued>>
vars == <<phones, watcher, poller, messages, saving, tables, faults>>

Fault(kind) ==
  /\ kind \in FaultKinds
  /\ faults < MaxFaults
  /\ faults' = faults + 1

-------------------------------------------------------------------------------
(* The phones *)

SmsArrives(p) ==
  /\ inbox[p] < NSms
  /\ inbox' = [inbox EXCEPT ![p] = @ + 1]
  /\ UNCHANGED <<online, removed, watcher, poller, messages, saving, tables, faults>>

Delete(p, i) ==
  /\ <<p, i>> \in Deletable \ removed /\ i <= inbox[p]
  /\ removed' = removed \union {<<p, i>>}
  /\ UNCHANGED <<online, inbox, watcher, poller, messages, saving, tables, faults>>

PlugIn(p) ==
  /\ p \notin online
  /\ online' = online \union {p}
  /\ UNCHANGED <<inbox, removed, watcher, poller, messages, saving, tables, faults>>

Unplug(p) ==
  /\ p \in online
  /\ Fault("unplug")
  /\ online' = online \ {p}
  /\ UNCHANGED <<inbox, removed, watcher, poller, messages, saving, tables>>

\* What the inbox of a phone holds.
OnPhone(p) == {i \in 1..inbox[p] : <<p, i>> \notin removed}
Newest(p, n) == n \in OnPhone(p) /\ \A i \in OnPhone(p) : i <= n

\* One row that cannot be read refuses all of them.
Legible(p) == \A i \in OnPhone(p) : <<p, i>> \notin Unparsable

-------------------------------------------------------------------------------
(* Watcher.check *)

\* PickOnlineDevice, over the devices in any order.
Pick == {p \in online : Preferred \in {p, NoPhone}}

\* Mutant: what is connected is announced at every check.
WatcherAnnounces ==
  /\ Len(events) <= EventsSize
  /\ \/ \E p \in Pick : watching' = TRUE /\ events' = Append(events, p)
     \/ Pick = {} /\ watching /\ watching' = FALSE /\ events' = Append(events, NoPhone)
     \/ Pick = {} /\ ~watching /\ UNCHANGED watcher
  /\ UNCHANGED <<phones, poller, messages, saving, tables, faults>>

\* Mutant: an event that does not fit into the channel is dropped.
WatcherDrops ==
  /\ LET event(e) == events' = IF Len(events) < EventsSize THEN Append(events, e) ELSE events IN
       \/ \E p \in Pick : ~watching /\ watching' = TRUE /\ event(p)
       \/ Pick = {} /\ watching /\ watching' = FALSE /\ event(NoPhone)
       \/ watching = (Pick # {}) /\ UNCHANGED watcher
  /\ UNCHANGED <<phones, poller, messages, saving, tables, faults>>

\* Which phone it is counts only when there was none.
WatcherCheck ==
  /\ Len(events) <= EventsSize
  /\ \/ \E p \in Pick : ~watching /\ watching' = TRUE /\ events' = Append(events, p)
     \/ Pick = {} /\ watching /\ watching' = FALSE /\ events' = Append(events, NoPhone)
     \/ watching = (Pick # {}) /\ UNCHANGED watcher
  /\ UNCHANGED <<phones, poller, messages, saving, tables, faults>>

-------------------------------------------------------------------------------
(* main's event loop *)

IsMaxAndroidID(m) ==
  /\ m = 0 \/ (m \in Ids /\ row[m] # NoPhone)
  /\ \A i \in Ids : row[i] # NoPhone => i <= m

\* It has no answer (0) where the inbox cannot be read.
FetchMaxAndroidID(p, n) ==
  IF p \in online /\ Legible(p) /\ OnPhone(p) # {} THEN Newest(p, n) ELSE n = 0

\* The newest message of the database or the newest on the phone, whichever is
\* later; one counts as none if it cannot be read, and neither is asked for if
\* the devices cannot be listed.
StartCursor(p) ==
  \/ Fault("list") /\ start' = 0
  \/ \E n \in 0..NSms : FetchMaxAndroidID(p, n) /\ Fault("db") /\ start' = n
  \/ \E m, n \in 0..NSms :
       /\ IsMaxAndroidID(m) /\ FetchMaxAndroidID(p, n)
       /\ \/ Fault("fetch") /\ start' = m
          \/ start' = (IF m < n THEN n ELSE m) /\ UNCHANGED faults

\* A poller starts with no poll under way and an empty channel.
FreshPoller ==
  /\ query' = 0
  /\ batch' = {} /\ newest' = NoSms
  /\ messages' = <<>>
  /\ handler' = "waiting" /\ hand' = NoSms /\ left' = {} /\ taken' = {}

MainConnect ==
  /\ events # <<>> /\ Head(events) # NoPhone
  /\ events' = Tail(events)
  /\ polling' = Head(events)
  /\ present' = inbox[Head(events)]
  /\ StartCursor(Head(events))
  /\ lastID' = start'
  /\ FreshPoller
  /\ UNCHANGED <<phones, watching, tables>>

NoPoller ==
  /\ polling' = NoPhone
  /\ present' = 0 /\ start' = 0 /\ lastID' = 0
  /\ FreshPoller

\* The context of the poller and of what it has in hand is cancelled.
MainDisconnect ==
  /\ events # <<>> /\ Head(events) = NoPhone
  /\ events' = Tail(events)
  /\ NoPoller
  /\ UNCHANGED <<phones, watching, tables, faults>>

\* The process ends, in whatever way, and starts again.
Crash ==
  /\ Fault("crash")
  /\ watching' = FALSE /\ events' = <<>>
  /\ NoPoller
  /\ UNCHANGED <<phones, tables>>

-------------------------------------------------------------------------------
(* Poller.poll *)

CanPoll == polling \in online /\ newest = NoSms

\* A query the phone does not understand, or a message that reads like its answer to
\* one: the next poll tries the next query.
PollFallsBack ==
  /\ CanPoll
  /\ query < Understands[polling] \/ (query < 2 /\ ~Legible(polling))
  /\ query' = query + 1
  /\ UNCHANGED <<phones, watcher, polling, present, start, lastID, batch, newest,
                 messages, saving, tables, faults>>

\* Mutant: of an inbox that cannot be read, nothing is new.
PollReadsNothing ==
  /\ CanPoll
  /\ query >= Understands[polling] /\ OnPhone(polling) # {}
  /\ \E n \in Ids : Newest(polling, n) /\ newest' = n
  /\ batch' = IF Legible(polling) THEN OnPhone(polling) ELSE {}
  /\ UNCHANGED <<phones, watcher, polling, present, start, lastID, query,
                 messages, saving, tables, faults>>

\* An inbox that cannot be read is left for the next poll.
PollReads ==
  /\ CanPoll
  /\ query >= Understands[polling] /\ Legible(polling)
  /\ \E n \in Ids : Newest(polling, n) /\ newest' = n
  /\ batch' = OnPhone(polling)
  /\ UNCHANGED <<phones, watcher, polling, present, start, lastID, query,
                 messages, saving, tables, faults>>

New == {i \in batch : i > lastID}

\* Mutant: the cursor moves with each message.
PollSendsAndAdvances ==
  /\ Len(messages) < MessagesSize
  /\ \E i \in New :
       /\ messages' = Append(messages, i)
       /\ batch' = batch \ {i}
       /\ lastID' = i
  /\ UNCHANGED <<phones, watcher, polling, present, start, query, newest,
                 saving, tables, faults>>

\* Rows come by date, which is any order of the numbers.
PollSends ==
  /\ Len(messages) < MessagesSize
  /\ \E i \in New :
       /\ messages' = Append(messages, i)
       /\ batch' = batch \ {i}
  /\ UNCHANGED <<phones, watcher, polling, present, start, lastID, query, newest,
                 saving, tables, faults>>

\* Mutant: the cursor stays behind.
PollEndsInPlace ==
  /\ newest # NoSms /\ New = {}
  /\ newest' = NoSms /\ batch' = {}
  /\ UNCHANGED <<phones, watcher, polling, present, start, lastID, query,
                 messages, saving, tables, faults>>

\* Only now is the cursor moved.
PollEnds ==
  /\ newest # NoSms /\ New = {}
  /\ lastID' = IF newest > lastID THEN newest ELSE lastID
  /\ newest' = NoSms /\ batch' = {}
  /\ UNCHANGED <<phones, watcher, polling, present, start, query,
                 messages, saving, tables, faults>>

-------------------------------------------------------------------------------
(* processMessages and saveAndEnqueue *)

Take ==
  /\ handler = "waiting" /\ messages # <<>>
  /\ messages' = Tail(messages)
  /\ hand' = Head(messages)
  /\ taken' = taken \union {Head(messages)}
  /\ handler' = "saving"
  /\ UNCHANGED <<phones, watcher, poller, left, tables, faults>>

Done == handler' = "waiting" /\ hand' = NoSms /\ left' = {}

\* Mutant: a message that is known already is enqueued all the same.
SaveAnyway ==
  /\ handler = "saving"
  /\ row' = [row EXCEPT ![hand] = polling]
  /\ handler' = "translating" /\ UNCHANGED <<hand, left, faults>>
  /\ UNCHANGED <<phones, watcher, poller, messages, taken, translated, queued>>

\* Mutant: a message is known when the newest that is saved is no older.
SaveIfNewest ==
  /\ handler = "saving"
  /\ \/ /\ \A i \in Ids : row[i] # NoPhone => i < hand
        /\ row' = [row EXCEPT ![hand] = polling]
        /\ handler' = "translating"
        /\ UNCHANGED <<hand, left, faults>>
     \/ (\E i \in Ids : row[i] # NoPhone /\ i >= hand) /\ Done /\ UNCHANGED <<row, faults>>
     \/ Fault("db") /\ Done /\ UNCHANGED row
  /\ UNCHANGED <<phones, watcher, poller, messages, taken, translated, queued>>

\* SaveMessage.  An error is logged and returned to processMessages, which ignores it.
Save ==
  /\ handler = "saving"
  /\ \/ /\ row[hand] = NoPhone
        /\ row' = [row EXCEPT ![hand] = polling]
        /\ handler' = "translating"
        /\ UNCHANGED <<hand, left, faults>>
     \/ row[hand] # NoPhone /\ Done /\ UNCHANGED <<row, faults>>
     \/ Fault("db") /\ Done /\ UNCHANGED row
  /\ UNCHANGED <<phones, watcher, poller, messages, taken, translated, queued>>

\* The service answers that the text is in another language, and its translation.
TranslateFor(i) == i \in Foreign

UpdateTranslation(i) == translated' = translated \union {i}

\* Where the service or the statement fails, the message goes without.
Translate ==
  /\ handler = "translating"
  /\ (TranslateFor(hand) /\ UpdateTranslation(hand)) \/ UNCHANGED translated
  /\ handler' = "enqueueing" /\ left' = Channels
  /\ UNCHANGED <<phones, watcher, poller, messages, hand, taken, row, queued, faults>>

\* CreateOutboxEntry; an error leaves the channel out.
Enqueue(c) ==
  /\ handler = "enqueueing" /\ c \in left
  /\ left' = left \ {c}
  /\ \/ queued' = [queued EXCEPT ![hand][c] = @ + 1] /\ UNCHANGED faults
     \/ Fault("db") /\ UNCHANGED queued
  /\ UNCHANGED <<phones, watcher, poller, messages, handler, hand, taken, row, translated>>

\* Mutant: the translation comes last.
EnqueuedThenTranslated ==
  /\ handler = "enqueueing" /\ left = {}
  /\ Done
  /\ translated' = translated \union ({hand} \intersect Foreign)
  /\ UNCHANGED <<phones, watcher, poller, messages, taken, row, queued, faults>>

\* A sweep is started, and the next message awaited.
Enqueued ==
  /\ handler = "enqueueing" /\ left = {}
  /\ Done
  /\ UNCHANGED <<phones, watcher, poller, messages, taken, tables, faults>>

-------------------------------------------------------------------------------
Init ==
  /\ online \in SUBSET Phones
  /\ inbox = [p \in Phones |-> 0] /\ removed = {}
  /\ watching = FALSE /\ events = <<>>
  /\ polling = NoPhone
  /\ present = 0 /\ start = 0 /\ lastID = 0
  /\ query = 0 /\ batch = {} /\ newest = NoSms
  /\ messages = <<>>
  /\ handler = "waiting" /\ hand = NoSms /\ left = {} /\ taken = {}
  /\ row = [i \in Ids |-> NoPhone] /\ translated = {}
  /\ queued = [i \in Ids |-> [c \in Channels |-> 0]]
  /\ faults = 0

MainStep == MainConnect \/ MainDisconnect
PollStep == PollFallsBack \/ PollReads \/ PollSends \/ PollEnds
SaveStep == Take \/ Save \/ Translate \/ (\E c \in Channels : Enqueue(c)) \/ Enqueued

Next ==
  \/ \E p \in Phones : SmsArrives(p) \/ PlugIn(p) \/ Unplug(p) \/ \E i \in Ids : Delete(p, i)
  \/ WatcherCheck
  \/ MainStep \/ PollStep \/ SaveStep
  \/ Crash

Spec == Init /\ [][Next]_vars

\* Tickers fire and goroutines run; the phones do as they please.
LiveSpec ==
  /\ Spec
  /\ WF_vars(WatcherCheck) /\ WF_vars(MainStep)
  /\ WF_vars(PollStep) /\ WF_vars(SaveStep)

-------------------------------------------------------------------------------
(* Properties *)

Places == {"waiting", "saving", "translating", "enqueueing"}

\* Variables stay in range; in particular a message makes at most one outbox row
\* per channel, however often it is read.
TypeOK ==
  /\ online \subseteq Phones
  /\ inbox \in [Phones -> 0..NSms] /\ removed \subseteq Phones \X Ids
  /\ watching \in BOOLEAN
  /\ events \in Seq(Phones \union {NoPhone}) /\ Len(events) <= EventsSize + 1
  /\ polling \in Phones \union {NoPhone}
  /\ present \in 0..NSms /\ start \in 0..NSms /\ lastID \in 0..NSms /\ newest \in 0..NSms
  /\ query \in 0..2
  /\ batch \subseteq Ids
  /\ messages \in Seq(Ids) /\ Len(messages) <= MessagesSize
  /\ handler \in Places
  /\ hand \in 0..NSms
  /\ left \subseteq Channels
  /\ taken \subseteq Ids
  /\ row \in [Ids -> Phones \union {NoPhone}] /\ translated \subseteq Foreign
  /\ queued \in [Ids -> [Channels -> 0..1]]
  /\ faults \in Nat

Sent == ToSet(messages)

\* A poller is stopped before another is started: main keeps one cancel function
\* only, so a second Connected would leave a poller nobody can stop.
OnePoller == [][MainConnect => polling = NoPhone]_vars

\* The cursor passes a message only when that is on its way or was taken, or the user
\* deleted it: a poll that is cut short, waits for room in the channel or cannot read
\* the inbox leaves none behind.
CursorPassesNone ==
  \A i \in Ids : start < i /\ i <= lastID => i \in taken \union Sent \/ <<polling, i>> \in removed

\* Messages the cursor has passed that are neither saved nor on their way.
PassedUnsaved ==
  {i \in OnPhone(polling) : start < i /\ i <= lastID /\ row[i] = NoPhone /\ i \notin Sent \union {hand}}

\* processMessages drops the error of a save while the cursor moves on (main.go:252):
\* such a message is not read again.  Nothing else loses one, so each has its fault.
UnsavedPaid == polling # NoPhone => Cardinality(PassedUnsaved) <= faults

\* A poller hands a message over once.
HandedOnce ==
  /\ Sent \intersect taken = {}
  /\ IsInjective(messages)

\* A phone that stays is polled in the end, whatever came and went before.
PhoneIsPolled ==
  \A p \in Phones : Preferred = p => (<>[](p \in online) => <>[](polling = p))

\* What reaches a phone while it is polled is saved as its message and queued for every
\* channel, while the database works (sms.go:130: what the cursor's start skips is
\* already there); an inbox that cannot be read holds it up, and no longer than that.
PolledIsQueued ==
  <>[](\A p \in Phones : polling = p /\ p \in online /\ Legible(p) =>
         \A i \in OnPhone(p) : present < i =>
           row[i] = p /\ \A c \in Channels : queued[i][c] = 1)

\* A message is queued only when its translation is settled: no sweep, not even one
\* another message starts, reads it without and a later one with it (main.go:276-293).
SettledBeforeQueued ==
  [][\A i \in Ids : (\E c \in Channels : queued[i][c] > 0) =>
       (i \in translated' <=> i \in translated)]_vars

-------------------------------------------------------------------------------
(* What the repository says and this code does not do *)

\* ARCHITECTURE.md T2-01: a new message the poller finds appears in messages and
\* in outbox.
SavedIsEnqueued ==
  \A i \in Ids : row[i] # NoPhone /\ hand # i => \A c \in Channels : queued[i][c] = 1
===============================================================================
