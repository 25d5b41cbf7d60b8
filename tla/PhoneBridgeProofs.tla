-------------------------- MODULE PhoneBridgeProofs --------------------------
(***************************************************************************)
(* The inductive invariant of PhoneBridge and what follows from it.        *)
(***************************************************************************)
EXTENDS PhoneBridge, SequenceTheorems, TLAPS

\* What main was last told, once it has read all events.
Told == IF events = <<>> THEN polling ELSE events[Len(events)]

\* Connected and Disconnected alternate, and the last one is what the watcher
\* believes.
EventsInv ==
  /\ watching <=> Told # NoPhone
  /\ events # <<>> => (events[1] = NoPhone <=> polling # NoPhone)
  /\ \A k \in 1..(Len(events) - 1) : events[k + 1] = NoPhone <=> events[k] # NoPhone

Gone == {i \in Ids : <<polling, i>> \in removed}

\* What lies between a poller's start and its cursor was handed over, and above
\* the cursor just what the present poll has been through; or it was deleted.
CursorInv ==
  /\ start <= lastID
  /\ newest = NoSms => batch = {}
  /\ \A i \in batch : i <= newest
  /\ CursorPassesNone
  /\ \A i \in Ids : lastID < i /\ i \in taken \union Sent => i <= newest /\ i \notin batch
  /\ \A i \in Ids : i <= newest => i \in batch \/ i <= lastID \/ i \in taken \union Sent \union Gone
  /\ HandedOnce

\* The channels still to serve have no row yet, nor has a message not saved; and
\* there is nothing in hand without a poller.
QueueInv ==
  /\ polling = NoPhone => messages = <<>> /\ handler = "waiting" /\ newest = NoSms
  /\ handler # "waiting" => hand \in Ids
  /\ handler # "enqueueing" => left = {}
  /\ handler \in {"translating", "enqueueing"} => row[hand] # NoPhone
  /\ handler = "translating" => \A c \in Channels : queued[hand][c] = 0
  /\ \A c \in left : queued[hand][c] = 0
  /\ \A i \in Ids : row[i] = NoPhone => \A c \in Channels : queued[i][c] = 0

IInv == TypeOK /\ EventsInv /\ CursorInv /\ QueueInv

-------------------------------------------------------------------------------
(* Sequences *)

\* A sequence without repetition stays so when something new is appended.
LEMMA AppendedSet ==
  ASSUME NEW S, NEW s \in Seq(S), NEW e \in S
  PROVE  /\ ToSet(Append(s, e)) = ToSet(s) \union {e}
         /\ e \notin ToSet(s) /\ IsInjective(s) => IsInjective(Append(s, e))
<1> DEFINE t == Append(s, e)
<1>1. /\ Len(s) \in Nat /\ DOMAIN s = 1..Len(s) /\ DOMAIN t = 1..(Len(s) + 1)
      /\ \A k \in 1..Len(s) : t[k] = s[k]
      /\ t[Len(s) + 1] = e
  BY AppendProperties, LenProperties
<1> HIDE DEF t
<1>2. ToSet(t) = ToSet(s) \union {e}
  <2>1. \A k \in 1..(Len(s) + 1) : k \in 1..Len(s) \/ k = Len(s) + 1
    BY <1>1
  <2>2. 1..Len(s) \subseteq 1..(Len(s) + 1) /\ Len(s) + 1 \in 1..(Len(s) + 1)
    BY <1>1
  <2>3. QED BY <1>1, <2>1, <2>2 DEF ToSet
<1>3. e \notin ToSet(s) /\ IsInjective(s) => IsInjective(t)
  <2>1. SUFFICES ASSUME e \notin ToSet(s), IsInjective(s),
                        NEW j \in 1..(Len(s) + 1), NEW k \in 1..(Len(s) + 1), t[j] = t[k]
                 PROVE  j = k
    BY <1>1 DEF IsInjective
  <2>2. \A i \in 1..Len(s) : s[i] # e
    BY <2>1, <1>1 DEF ToSet
  <2>3. CASE j \in 1..Len(s) /\ k \in 1..Len(s)
    BY <2>3, <2>1, <1>1 DEF IsInjective
  <2>4. CASE ~(j \in 1..Len(s) /\ k \in 1..Len(s))
    <3>1. j = Len(s) + 1 \/ k = Len(s) + 1
      BY <2>4, <1>1
    <3>2. QED BY <3>1, <2>1, <2>2, <1>1
  <2>5. QED BY <2>3, <2>4
<1>4. QED BY <1>2, <1>3 DEF t

\* Taking the head of a sequence without repetition.
LEMMA TailSet ==
  ASSUME NEW S, NEW s \in Seq(S), s # <<>>
  PROVE  /\ ToSet(s) = ToSet(Tail(s)) \union {Head(s)}
         /\ IsInjective(s) => IsInjective(Tail(s)) /\ Head(s) \notin ToSet(Tail(s))
<1> DEFINE t == Tail(s)
           n == Len(s)
<1>1. /\ n \in Nat /\ n >= 1 /\ DOMAIN s = 1..n /\ DOMAIN t = 1..(n - 1)
      /\ \A k \in 1..(n - 1) : t[k] = s[k + 1]
      /\ Head(s) = s[1]
  BY HeadTailProperties, LenProperties, EmptySeq
<1> HIDE DEF t, n
<1>2. ToSet(s) = ToSet(t) \union {s[1]}
  <2>1. \A k \in 1..n : k = 1 \/ (k - 1 \in 1..(n - 1) /\ t[k - 1] = s[k])
    BY <1>1
  <2>2. 1 \in 1..n /\ \A k \in 1..(n - 1) : k + 1 \in 1..n
    BY <1>1
  <2>3. ToSet(s) \subseteq ToSet(t) \union {s[1]}
    BY <2>1, <1>1 DEF ToSet
  <2>4. ToSet(t) \union {s[1]} \subseteq ToSet(s)
    BY <2>2, <1>1 DEF ToSet
  <2>5. QED BY <2>3, <2>4
<1>3. ASSUME IsInjective(s) PROVE IsInjective(t) /\ s[1] \notin ToSet(t)
  <2>1. \A j, k \in 1..n : s[j] = s[k] => j = k
    BY <1>3, <1>1 DEF IsInjective
  <2>2. \A k \in 1..(n - 1) : k + 1 \in 1..n /\ k + 1 # 1
    BY <1>1
  <2>3. \A j, k \in 1..(n - 1) : t[j] = t[k] => j = k
    <3>1. TAKE j, k \in 1..(n - 1)
    <3>2. t[j] = t[k] => j + 1 = k + 1
      BY <2>1, <2>2, <1>1
    <3>3. QED BY <3>2
  <2>4. s[1] \notin ToSet(t)
    BY <2>1, <2>2, <1>1 DEF ToSet
  <2>5. QED BY <2>3, <2>4, <1>1 DEF IsInjective
<1>4. QED BY <1>1, <1>2, <1>3 DEF t

-------------------------------------------------------------------------------
(* Events *)

\* An announcement keeps the alternation when it is the opposite of the last one.
LEMMA AnnounceKeepsEvents ==
  ASSUME TypeOK, EventsInv, polling' = polling,
         NEW e \in Phones \union {NoPhone},
         e = NoPhone <=> watching,
         watching' = ~watching, events' = Append(events, e)
  PROVE  EventsInv'
<1>0. events \in Seq(Phones \union {NoPhone})
  BY DEF TypeOK
<1>1. /\ Len(events) \in Nat
      /\ events' # <<>> /\ Len(events') = Len(events) + 1
      /\ \A k \in 1..Len(events) : events'[k] = events[k]
      /\ events'[Len(events) + 1] = e
  BY <1>0, AppendProperties, LenProperties
<1>2. events = <<>> <=> Len(events) = 0
  BY <1>0, EmptySeq
<1>3. Told' = e
  BY <1>1 DEF Told
<1>4. watching' <=> Told' # NoPhone
  BY <1>3 DEF TypeOK
<1>5. e = NoPhone <=> Told # NoPhone
  BY DEF EventsInv
<1>6. events'[1] = NoPhone <=> polling' # NoPhone
  <2>1. CASE events = <<>>
    BY <2>1, <1>1, <1>2, <1>5 DEF Told
  <2>2. CASE events # <<>>
    BY <2>2, <1>1, <1>2 DEF EventsInv
  <2>3. QED BY <2>1, <2>2
<1>7. ASSUME NEW k \in 1..(Len(events') - 1)
      PROVE  events'[k + 1] = NoPhone <=> events'[k] # NoPhone
  <2>1. CASE k = Len(events)
    <3>1. Told = events[k]
      BY <2>1, <1>1, <1>2, <1>7 DEF Told
    <3>2. QED BY <3>1, <2>1, <1>1, <1>5, <1>7
  <2>2. CASE k # Len(events)
    <3>1. k \in 1..(Len(events) - 1) /\ k + 1 \in 1..Len(events) /\ k \in 1..Len(events)
      BY <2>2, <1>1, <1>7
    <3>2. QED BY <3>1, <1>1 DEF EventsInv
  <2>3. QED BY <2>1, <2>2
<1>8. QED BY <1>1, <1>4, <1>6, <1>7 DEF EventsInv

\* So does taking the oldest and doing what it says.
LEMMA TakeKeepsEvents ==
  ASSUME TypeOK, EventsInv, events # <<>>, watching' = watching,
         events' = Tail(events), polling' = Head(events)
  PROVE  EventsInv'
<1> DEFINE n == Len(events)
<1>0. events \in Seq(Phones \union {NoPhone})
  BY DEF TypeOK
<1>1. /\ n \in Nat /\ n >= 1
      /\ events' \in Seq(Phones \union {NoPhone})
      /\ Len(events') = n - 1
      /\ \A k \in 1..(n - 1) : events'[k] = events[k + 1]
      /\ polling' = events[1]
  BY <1>0, HeadTailProperties, LenProperties, EmptySeq
<1> HIDE DEF n
<1>2. events' = <<>> <=> n = 1
  <2>1. Len(<<>>) = 0 /\ (events' # <<>> => Len(events') # 0)
    BY <1>1, EmptySeq
  <2>2. QED BY <2>1, <1>1
<1>3. Told' = Told
  <2>1. CASE n = 1
    BY <2>1, <1>1, <1>2 DEF Told, n
  <2>2. CASE n # 1
    <3>1. n - 1 \in 1..(n - 1) /\ (n - 1) + 1 = n
      BY <2>2, <1>1
    <3>2. events'[n - 1] = events[n]
      BY <3>1, <1>1
    <3>3. QED BY <3>2, <2>2, <1>1, <1>2 DEF Told, n
  <2>3. QED BY <2>1, <2>2
<1>4. events' # <<>> => (events'[1] = NoPhone <=> polling' # NoPhone)
  <2>1. SUFFICES ASSUME n # 1 PROVE events'[1] = NoPhone <=> polling' # NoPhone
    BY <1>2
  <2>2. 1 \in 1..(n - 1)
    BY <2>1, <1>1
  <2>3. events[1 + 1] = NoPhone <=> events[1] # NoPhone
    BY <2>2 DEF EventsInv, n
  <2>4. QED BY <2>2, <2>3, <1>1
<1>5. ASSUME NEW k \in 1..(Len(events') - 1)
      PROVE  events'[k + 1] = NoPhone <=> events'[k] # NoPhone
  <2>1. k \in 1..(n - 1) /\ k + 1 \in 1..(n - 1)
    BY <1>1, <1>5
  <2>2. QED BY <2>1, <1>1 DEF EventsInv, n
<1>6. QED BY <1>3, <1>4, <1>5 DEF EventsInv

LEMMA EventsStep ==
  ASSUME TypeOK, EventsInv, [Next]_vars
  PROVE  EventsInv'
<1>1. CASE WatcherCheck
  <2>1. ASSUME NEW p \in Pick, ~watching, watching' = TRUE, events' = Append(events, p)
        PROVE  EventsInv'
    BY <2>1, <1>1, AnnounceKeepsEvents, PhonesAssumption DEF WatcherCheck, poller, Pick, TypeOK
  <2>2. ASSUME watching, watching' = FALSE, events' = Append(events, NoPhone)
        PROVE  EventsInv'
    BY <2>2, <1>1, AnnounceKeepsEvents DEF WatcherCheck, poller
  <2>3. ASSUME UNCHANGED watcher
        PROVE  EventsInv'
    BY <2>3, <1>1 DEF WatcherCheck, watcher, poller, EventsInv, Told
  <2>4. QED BY <1>1, <2>1, <2>2, <2>3 DEF WatcherCheck
<1>2. CASE MainConnect
  BY <1>2, TakeKeepsEvents DEF MainConnect
<1>3. CASE MainDisconnect
  BY <1>3, TakeKeepsEvents DEF MainDisconnect, NoPoller
<1>4. CASE Crash
  BY <1>4 DEF Crash, NoPoller, EventsInv, Told
<1>5. CASE UNCHANGED <<watching, events, polling>>
  BY <1>5 DEF EventsInv, Told
<1>6. QED
  BY <1>1, <1>2, <1>3, <1>4, <1>5
  DEF Next, vars, watcher, poller, SmsArrives, Delete, PlugIn, Unplug, MainStep, PollStep, PollFallsBack,
      PollReads, PollSends, PollEnds, SaveStep, Take, Save, Translate, TranslateFor, UpdateTranslation, Enqueue, Enqueued

-------------------------------------------------------------------------------
(* The cursor *)

\* What main decides about the start is a number a message may have.
LEMMA StartInRange ==
  ASSUME TypeOK, NEW p \in Phones, StartCursor(p)
  PROVE  start' \in 0..NSms
BY SmsAssumption DEF StartCursor

LEMMA FreshCursor ==
  ASSUME FreshPoller, start' \in Nat, lastID' = start', TypeOK
  PROVE  CursorInv'
<1>1. ToSet(<<>>) = {} /\ IsInjective(<<>>)
  BY DEF ToSet, IsInjective
<1>2. Sent' = {} /\ IsInjective(messages')
  BY <1>1 DEF FreshPoller, Sent
<1>3. batch' = {} /\ newest' = 0 /\ taken' = {}
  BY DEF FreshPoller, NoSms
<1>4. \A i \in Ids : i \in Nat /\ i # 0
  BY SmsAssumption DEF Ids
<1>5. CursorPassesNone'
  BY <1>2, <1>3, <1>4 DEF CursorPassesNone
<1>6. QED BY <1>2, <1>3, <1>4, <1>5 DEF CursorInv, HandedOnce, NoSms

\* The messages on a phone are those up to the newest that were not deleted.
LEMMA OnPhoneIds ==
  ASSUME TypeOK, NEW p \in Phones
  PROVE  /\ OnPhone(p) \subseteq Ids
         /\ \A n \in Ids : Newest(p, n) =>
              \A i \in Ids : i <= n => i \in OnPhone(p) \/ <<p, i>> \in removed
<1>1. inbox[p] \in 0..NSms
  BY DEF TypeOK
<1>2. QED BY <1>1, SmsAssumption DEF OnPhone, Newest, Ids

LEMMA CursorStep ==
  ASSUME TypeOK, CursorInv, [Next]_vars
  PROVE  CursorInv'
<1> DEFINE reading == <<polling, start, lastID, newest, batch, messages, taken>>
<1>t. /\ start \in Nat /\ lastID \in Nat /\ newest \in Nat
      /\ messages \in Seq(Ids) /\ taken \subseteq Ids /\ batch \subseteq Ids
      /\ \A i \in Ids : i \in Nat /\ i # 0
  BY SmsAssumption DEF TypeOK, Ids
<1>g. UNCHANGED polling /\ removed \subseteq removed' => Gone \subseteq Gone'
  BY DEF Gone
<1>1. CASE MainConnect
  <2>1. Head(events) \in Phones
    <3>1. events \in Seq(Phones \union {NoPhone}) /\ events # <<>>
      BY <1>1 DEF TypeOK, MainConnect
    <3>2. QED BY <3>1, <1>1, HeadTailProperties DEF MainConnect
  <2>2. start' \in Nat
    BY <2>1, <1>1, StartInRange, SmsAssumption DEF MainConnect
  <2>3. QED BY <2>2, <1>1, FreshCursor DEF MainConnect
<1>2. CASE MainDisconnect \/ Crash
  BY <1>2, FreshCursor DEF MainDisconnect, Crash, NoPoller
<1>3. CASE PollReads
  <2>1. /\ newest = 0 /\ batch' = OnPhone(polling)
        /\ Sent' = Sent /\ Gone' = Gone
        /\ UNCHANGED <<polling, start, lastID, messages, taken, removed>>
    BY <1>3 DEF PollReads, CanPoll, NoSms, Sent, Gone, saving, phones
  <2>2. PICK n \in Ids : Newest(polling, n) /\ newest' = n
    BY <1>3 DEF PollReads
  <2>3. polling \in Phones
    BY <1>3 DEF PollReads, CanPoll, TypeOK
  <2>4. \A i \in Ids : lastID < i => i \notin taken \union Sent
    BY <2>1, <1>t DEF CursorInv
  <2>5. \A i \in Ids : i <= n => i \in batch' \/ i \in Gone
    BY <2>1, <2>2, <2>3, OnPhoneIds DEF Gone
  <2>6. \A i \in batch' : i <= newest'
    BY <2>1, <2>2 DEF Newest
  <2>7. newest' # NoSms
    BY <2>2, <1>t DEF NoSms
  <2>8. CursorPassesNone' /\ HandedOnce'
    BY <2>1 DEF CursorInv, CursorPassesNone, HandedOnce
  <2>9. QED BY <2>1, <2>2, <2>4, <2>5, <2>6, <2>7, <2>8 DEF CursorInv
<1>4. CASE PollSends
  <2>1. PICK i \in New : messages' = Append(messages, i) /\ batch' = batch \ {i}
    BY <1>4 DEF PollSends
  <2>2. UNCHANGED <<polling, start, lastID, newest, taken, removed>> /\ Gone' = Gone
    BY <1>4 DEF PollSends, saving, phones, Gone
  <2>3. i \in Ids /\ i \in batch /\ i > lastID /\ i <= newest
    BY <2>1, <1>t DEF New, CursorInv
  <2>4. i \notin taken \union Sent
    BY <2>3, <1>t DEF CursorInv
  <2>5. Sent' = Sent \union {i} /\ (IsInjective(messages) => IsInjective(messages'))
    BY <2>1, <2>3, <2>4, <1>t, AppendedSet DEF Sent
  <2>6. CursorPassesNone' /\ HandedOnce'
    BY <2>2, <2>4, <2>5 DEF CursorInv, CursorPassesNone, HandedOnce
  <2>7. \A j \in Ids : lastID' < j /\ j \in taken' \union Sent' => j <= newest' /\ j \notin batch'
    BY <2>1, <2>2, <2>3, <2>5 DEF CursorInv
  <2>8. \A j \in Ids : j <= newest' => j \in batch' \/ j <= lastID' \/ j \in taken' \union Sent' \union Gone'
    BY <2>1, <2>2, <2>5 DEF CursorInv
  <2>9. newest # NoSms
    BY <2>3 DEF CursorInv
  <2>10. QED BY <2>1, <2>2, <2>6, <2>7, <2>8, <2>9 DEF CursorInv
<1>5. CASE PollEnds
  <2>1. /\ New = {} /\ newest' = 0 /\ batch' = {}
        /\ lastID' = IF newest > lastID THEN newest ELSE lastID
        /\ Sent' = Sent /\ Gone' = Gone
        /\ UNCHANGED <<polling, start, messages, taken, removed>>
    BY <1>5 DEF PollEnds, NoSms, Sent, Gone, saving, phones
  <2>2. \A i \in Ids : lastID < i => i \notin batch
    BY <2>1, <1>t DEF New
  <2>3. \A i \in Ids : lastID < i /\ i <= newest => i \in taken \union Sent \union Gone
    BY <2>2, <1>t DEF CursorInv
  <2>4. CursorPassesNone'
    <3>1. \A i \in Ids : start < i /\ i <= lastID => i \in taken \union Sent \union Gone
      BY DEF CursorInv, CursorPassesNone, Gone
    <3>2. ASSUME NEW i \in Ids, start < i, i <= lastID'
          PROVE  i \in taken \union Sent \union Gone
      BY <3>1, <3>2, <2>1, <2>3, <1>t
    <3>3. QED BY <3>2, <2>1 DEF CursorPassesNone, Gone
  <2>5. \A i \in Ids : lastID' < i => i \notin taken \union Sent
    BY <2>1, <1>t DEF CursorInv
  <2>6. start' <= lastID'
    BY <2>1, <1>t DEF CursorInv
  <2>7. HandedOnce'
    BY <2>1 DEF CursorInv, HandedOnce
  <2>8. \A i \in Ids : ~(i <= newest')
    BY <2>1, <1>t
  <2>9. QED BY <2>1, <2>4, <2>5, <2>6, <2>7, <2>8 DEF CursorInv
<1>6. CASE Take
  <2>1. /\ messages # <<>> /\ messages' = Tail(messages) /\ taken' = taken \union {Head(messages)}
        /\ UNCHANGED <<polling, start, lastID, newest, batch, removed>> /\ Gone' = Gone
    BY <1>6 DEF Take, poller, phones, Gone
  <2>2. Sent = Sent' \union {Head(messages)}
    BY <2>1, <1>t, TailSet DEF Sent
  <2>3. taken \union Sent = (taken \union Sent)'
    BY <2>1, <2>2
  <2>4. HandedOnce'
    <3>1. Sent \intersect taken = {} /\ IsInjective(messages)
      BY DEF CursorInv, HandedOnce
    <3>2. IsInjective(messages') /\ Head(messages) \notin Sent'
      BY <3>1, <2>1, <1>t, TailSet DEF Sent
    <3>3. QED BY <3>1, <3>2, <2>1, <2>2 DEF HandedOnce
  <2>5. CursorPassesNone'
    BY <2>1, <2>3 DEF CursorInv, CursorPassesNone
  <2>6. QED BY <2>1, <2>3, <2>4, <2>5 DEF CursorInv
<1>7. ASSUME UNCHANGED reading, removed \subseteq removed'
      PROVE  CursorInv'
  <2>1. Gone \subseteq Gone' /\ Sent' = Sent
    BY <1>7, <1>g DEF Sent
  <2>2. CursorPassesNone'
    BY <1>7, <2>1 DEF CursorInv, CursorPassesNone
  <2>3. HandedOnce'
    BY <1>7, <2>1 DEF CursorInv, HandedOnce
  <2>4. QED BY <1>7, <2>1, <2>2, <2>3 DEF CursorInv
<1>8. CASE \E p \in Phones, i \in Ids : Delete(p, i)
  BY <1>8, <1>7 DEF Delete, poller, saving
<1>9. QED
  BY <1>1, <1>2, <1>3, <1>4, <1>5, <1>6, <1>7, <1>8
  DEF Next, vars, watcher, poller, saving, phones, SmsArrives, PlugIn, Unplug, WatcherCheck,
      MainStep, PollStep, PollFallsBack, SaveStep, Save, Translate, TranslateFor, UpdateTranslation, Enqueue, Enqueued, Done

-------------------------------------------------------------------------------
(* The handler and its rows *)

LEMMA QueueStep ==
  ASSUME TypeOK, CursorInv, QueueInv, [Next]_vars
  PROVE  QueueInv'
<1> DEFINE used == <<polling, messages, handler, newest, hand, left, row, queued>>
<1>t. /\ messages \in Seq(Ids) /\ hand \in 0..NSms /\ left \subseteq Channels
      /\ row \in [Ids -> Phones \union {NoPhone}]
      /\ queued \in [Ids -> [Channels -> 0..1]]
  BY DEF TypeOK
<1>1. CASE MainConnect
  BY <1>1 DEF MainConnect, FreshPoller, QueueInv, NoSms, tables
<1>2. CASE MainDisconnect \/ Crash
  BY <1>2 DEF MainDisconnect, Crash, NoPoller, FreshPoller, QueueInv, tables
<1>3. CASE PollReads \/ PollSends \/ PollEnds
  <2>1. polling # NoPhone
    <3>1. CASE PollReads
      BY <3>1, PhonesAssumption DEF PollReads, CanPoll, TypeOK
    <3>2. CASE newest # NoSms
      BY <3>2 DEF QueueInv
    <3>3. CASE PollSends /\ newest = NoSms
      BY <3>3 DEF PollSends, New, CursorInv
    <3>4. QED BY <1>3, <3>1, <3>2, <3>3 DEF PollEnds
  <2>2. QED BY <2>1, <1>3 DEF PollReads, PollSends, PollEnds, QueueInv, saving, tables
<1>4. CASE Take
  <2>1. Head(messages) \in Ids
    BY <1>4, <1>t, HeadTailProperties DEF Take
  <2>2. polling # NoPhone
    BY <1>4 DEF Take, QueueInv
  <2>3. left = {}
    BY <1>4 DEF Take, QueueInv
  <2>4. QED BY <2>1, <2>2, <2>3, <1>4 DEF Take, QueueInv, poller, tables
<1>5. CASE Save
  <2>1. polling # NoPhone /\ hand \in Ids /\ handler = "saving"
    BY <1>5 DEF Save, QueueInv
  <2>2. CASE Done /\ UNCHANGED row
    BY <2>1, <2>2, <1>5 DEF Save, QueueInv, Done, poller
  <2>3. CASE /\ row[hand] = NoPhone
             /\ row' = [row EXCEPT ![hand] = polling]
             /\ handler' = "translating"
             /\ UNCHANGED <<hand, left>>
    <3>1. \A c \in Channels : queued[hand][c] = 0
      BY <2>1, <2>3 DEF QueueInv
    <3>2. \A i \in Ids : row'[i] = NoPhone => row[i] = NoPhone
      BY <2>1, <2>3, <1>t
    <3>3. row'[hand'] # NoPhone
      BY <2>1, <2>3, <1>t
    <3>4. QED BY <2>1, <2>3, <3>1, <3>2, <3>3, <1>5 DEF Save, QueueInv, poller
  <2>4. QED BY <2>2, <2>3, <1>5 DEF Save
<1>x. CASE Translate
  <2>1. hand \in Ids /\ polling # NoPhone /\ row[hand] # NoPhone
        /\ \A c \in Channels : queued[hand][c] = 0
    BY <1>x DEF Translate, TranslateFor, UpdateTranslation, QueueInv
  <2>2. QED BY <2>1, <1>x DEF Translate, TranslateFor, UpdateTranslation, QueueInv, poller
<1>6. ASSUME NEW c \in Channels, Enqueue(c)
      PROVE  QueueInv'
  <2>1. /\ handler = "enqueueing" /\ c \in left /\ left' = left \ {c} /\ hand \in Ids
        /\ UNCHANGED <<polling, messages, handler, newest, hand, row>>
    BY <1>6 DEF Enqueue, QueueInv, poller
  <2>2. \A i \in Ids, d \in Channels :
          i # hand \/ d # c => queued'[i][d] = queued[i][d]
    BY <1>6, <2>1, <1>t DEF Enqueue
  <2>3. row[hand] # NoPhone
    BY <2>1, <1>6 DEF QueueInv
  <2>4. QED BY <2>1, <2>2, <2>3, <1>t DEF QueueInv
<1>7. CASE Enqueued
  BY <1>7 DEF Enqueued, Done, QueueInv, poller, tables
<1>8. CASE UNCHANGED used
  BY <1>8 DEF QueueInv
<1>9. QED
  BY <1>1, <1>2, <1>3, <1>4, <1>5, <1>x, <1>6, <1>7, <1>8
  DEF Next, vars, watcher, poller, saving, tables, SmsArrives, Delete, PlugIn, Unplug,
      WatcherCheck, MainStep, PollStep, PollFallsBack, SaveStep

-------------------------------------------------------------------------------
(* Types *)

LEMMA TypeStep ==
  ASSUME TypeOK, QueueInv, [Next]_vars
  PROVE  TypeOK'
<1>1. ASSUME NEW p \in Phones, SmsArrives(p) \/ PlugIn(p) \/ Unplug(p) \/ \E i \in Ids : Delete(p, i)
      PROVE  TypeOK'
  <2>1. /\ online \subseteq Phones /\ inbox \in [Phones -> 0..NSms] /\ faults \in Nat
        /\ removed \subseteq Phones \X Ids
    BY DEF TypeOK
  <2>2. inbox' \in [Phones -> 0..NSms]
    <3>1. CASE inbox[p] < NSms /\ inbox' = [inbox EXCEPT ![p] = @ + 1]
      <4>1. inbox[p] + 1 \in 0..NSms
        BY <2>1, <3>1, SmsAssumption
      <4>2. QED BY <2>1, <3>1, <4>1
    <3>2. CASE inbox' = inbox
      BY <2>1, <3>2
    <3>3. QED BY <1>1, <3>1, <3>2 DEF SmsArrives, PlugIn, Unplug, Delete
  <2>3. online' \subseteq Phones /\ removed' \subseteq Phones \X Ids
    <3>1. CASE \E i \in Ids : Delete(p, i)
      <4>1. PICK i \in Ids : Delete(p, i)
        BY <3>1
      <4>2. <<p, i>> \in Phones \X Ids
        OBVIOUS
      <4>3. QED BY <4>1, <4>2, <2>1 DEF Delete
    <3>2. CASE SmsArrives(p) \/ PlugIn(p) \/ Unplug(p)
      BY <3>2, <2>1 DEF SmsArrives, PlugIn, Unplug
    <3>3. QED BY <1>1, <3>1, <3>2
  <2>4. faults' \in Nat
    <3>1. faults' \in {faults, faults + 1}
      BY <1>1 DEF SmsArrives, PlugIn, Unplug, Delete, Fault
    <3>2. QED BY <2>1, <3>1
  <2>5. UNCHANGED <<watching, events, polling, present, start, lastID, query, batch, newest,
                    messages, handler, hand, left, taken, row, translated, queued>>
    BY <1>1 DEF SmsArrives, PlugIn, Unplug, Delete, watcher, poller, saving, tables
  <2>6. QED BY <2>2, <2>3, <2>4, <2>5 DEF TypeOK
<1>2. CASE WatcherCheck
  <2>1. events' \in Seq(Phones \union {NoPhone}) /\ Len(events') <= EventsSize + 1 /\ watching' \in BOOLEAN
    <3>1. ASSUME NEW e \in Phones \union {NoPhone}, events' = Append(events, e)
          PROVE  events' \in Seq(Phones \union {NoPhone}) /\ Len(events') <= EventsSize + 1
      <4>1. events \in Seq(Phones \union {NoPhone}) /\ Len(events) <= EventsSize
        BY <1>2 DEF WatcherCheck, TypeOK
      <4>2. QED BY <3>1, <4>1, AppendProperties, LenProperties, SizesAssumption
    <3>2. CASE UNCHANGED watcher
      BY <3>2 DEF TypeOK, watcher
    <3>3. QED BY <1>2, <3>1, <3>2 DEF WatcherCheck, Pick, TypeOK
  <2>2. QED BY <2>1, <1>2 DEF WatcherCheck, TypeOK, poller, saving, phones, tables
<1>3. CASE MainStep
  <2>1. /\ events \in Seq(Phones \union {NoPhone}) /\ events # <<>>
        /\ Len(events) <= EventsSize + 1 /\ events' = Tail(events)
    BY <1>3 DEF MainStep, MainConnect, MainDisconnect, TypeOK
  <2>2. /\ Head(events) \in Phones \union {NoPhone}
        /\ events' \in Seq(Phones \union {NoPhone}) /\ Len(events') <= EventsSize + 1
    BY <2>1, HeadTailProperties, LenProperties, SizesAssumption
  <2>3. CASE MainConnect
    <3>1. /\ polling' \in Phones /\ Head(events) \in Phones /\ present' \in 0..NSms
      BY <2>2, <2>3 DEF MainConnect, TypeOK
    <3>2. start' \in 0..NSms /\ lastID' = start'
      BY <3>1, <2>3, StartInRange DEF MainConnect
    <3>3. faults' \in Nat
      BY <2>3 DEF MainConnect, StartCursor, Fault, TypeOK
    <3>4. FreshPoller /\ UNCHANGED <<online, inbox, removed, watching, row, translated, queued>>
      BY <2>3 DEF MainConnect, phones, tables
    <3>5. QED BY <2>2, <3>1, <3>2, <3>3, <3>4, SmsAssumption, SizesAssumption
              DEF FreshPoller, TypeOK, Places, NoSms
  <2>4. CASE MainDisconnect
    BY <2>2, <2>4, SmsAssumption, SizesAssumption
    DEF MainDisconnect, NoPoller, FreshPoller, TypeOK, Places, NoSms, phones, tables
  <2>5. QED BY <1>3, <2>3, <2>4 DEF MainStep
<1>4. CASE Crash
  <2>1. watching' = FALSE /\ events' = <<>> /\ NoPoller
        /\ UNCHANGED <<online, inbox, removed, row, translated, queued>>
    BY <1>4 DEF Crash, phones, tables
  <2>2. faults' \in Nat
    BY <1>4 DEF Crash, Fault, TypeOK
  <2>3. /\ events' \in Seq(Phones \union {NoPhone}) /\ Len(events') <= EventsSize + 1
        /\ watching' \in BOOLEAN
    <3>1. watching' \in BOOLEAN
      BY <2>1
    <3>2. events' = <<>>
      BY <2>1
    <3>3. events' \in Seq(Phones \union {NoPhone}) /\ Len(events') <= EventsSize + 1
      BY <3>2, SizesAssumption
    <3>4. QED BY <3>1, <3>3
  <2>4. QED BY <2>1, <2>2, <2>3, SmsAssumption, SizesAssumption
            DEF NoPoller, FreshPoller, TypeOK, Places, NoSms
<1>5. CASE PollFallsBack
  <2>1. /\ polling \in Phones /\ query' = query + 1
        /\ query < Understands[polling] \/ query < 2
    BY <1>5 DEF PollFallsBack, CanPoll, TypeOK
  <2>2. query' \in 0..2
    <3>1. query \in 0..2
      BY DEF TypeOK
    <3>2. Understands[polling] \in 0..2
      BY <2>1, SmsAssumption
    <3>3. QED BY <2>1, <3>1, <3>2
  <2>3. QED BY <2>2, <1>5 DEF PollFallsBack, TypeOK, watcher, saving, phones, tables
<1>6. CASE PollReads
  <2>1. /\ newest' \in 0..NSms /\ batch' \subseteq Ids
    <3>1. polling \in Phones /\ newest' \in Ids
      BY <1>6 DEF PollReads, CanPoll, TypeOK
    <3>2. batch' \subseteq Ids
      BY <3>1, <1>6, OnPhoneIds DEF PollReads
    <3>3. QED BY <3>1, <3>2, SmsAssumption DEF Ids
  <2>2. QED BY <2>1, <1>6 DEF PollReads, TypeOK, watcher, saving, phones, tables
<1>7. CASE PollSends
  <2>1. /\ messages' \in Seq(Ids) /\ Len(messages') <= MessagesSize /\ batch' \subseteq Ids
    <3>1. PICK i \in New : messages' = Append(messages, i) /\ batch' = batch \ {i}
      BY <1>7 DEF PollSends
    <3>2. /\ i \in Ids /\ messages \in Seq(Ids) /\ Len(messages) < MessagesSize
          /\ batch \subseteq Ids
      BY <1>7 DEF PollSends, New, TypeOK
    <3>3. QED BY <3>1, <3>2, AppendProperties, LenProperties, SizesAssumption
  <2>2. QED BY <2>1, <1>7 DEF PollSends, TypeOK, watcher, saving, phones, tables
<1>8. CASE PollEnds
  BY <1>8, SmsAssumption DEF PollEnds, TypeOK, NoSms, watcher, saving, phones, tables
<1>9. CASE Take
  <2>1. messages \in Seq(Ids) /\ messages # <<>> /\ Len(messages) <= MessagesSize
    BY <1>9 DEF Take, TypeOK
  <2>2. /\ Head(messages) \in Ids
        /\ Tail(messages) \in Seq(Ids) /\ Len(Tail(messages)) <= MessagesSize
    BY <2>1, HeadTailProperties, LenProperties, SizesAssumption
  <2>3. hand' \in 0..NSms /\ taken' \subseteq Ids
    <3>1. hand' = Head(messages) /\ taken' = taken \union {Head(messages)}
      BY <1>9 DEF Take
    <3>2. taken \subseteq Ids
      BY DEF TypeOK
    <3>3. \A i \in Ids : i \in 0..NSms
      BY SmsAssumption DEF Ids
    <3>4. QED BY <2>2, <3>1, <3>2, <3>3
  <2>4. QED BY <2>2, <2>3, <1>9 DEF Take, TypeOK, Places, watcher, poller, phones, tables
<1>10. CASE Save
  <2>1. handler' \in Places /\ hand' \in 0..NSms /\ left' \subseteq Channels
    BY <1>10, SmsAssumption DEF Save, Done, TypeOK, Places, NoSms
  <2>2. row' \in [Ids -> Phones \union {NoPhone}]
    BY <1>10 DEF Save, TypeOK
  <2>3. faults' \in Nat
    BY <1>10 DEF Save, Fault, TypeOK
  <2>4. QED BY <2>1, <2>2, <2>3, <1>10 DEF Save, TypeOK, watcher, poller, phones
<1>x. CASE Translate
  <2>1. translated' \subseteq Foreign
    <3>1. translated \subseteq Foreign
      BY DEF TypeOK
    <3>2. QED BY <3>1, <1>x DEF Translate, TranslateFor, UpdateTranslation
  <2>2. QED BY <2>1, <1>x DEF Translate, TranslateFor, UpdateTranslation, TypeOK, Places, watcher, poller, phones
<1>11. ASSUME NEW c \in Channels, Enqueue(c)
       PROVE  TypeOK'
  <2>1. hand \in Ids /\ queued[hand][c] = 0
    BY <1>11 DEF Enqueue, QueueInv
  <2>2. queued' \in [Ids -> [Channels -> 0..1]]
    <3>1. queued \in [Ids -> [Channels -> 0..1]]
      BY DEF TypeOK
    <3>2. CASE queued' = [queued EXCEPT ![hand][c] = @ + 1]
      BY <2>1, <3>1, <3>2
    <3>3. CASE queued' = queued
      BY <3>1, <3>3
    <3>4. QED BY <1>11, <3>2, <3>3 DEF Enqueue
  <2>3. faults' \in Nat
    BY <1>11 DEF Enqueue, Fault, TypeOK
  <2>4. QED BY <2>2, <2>3, <1>11 DEF Enqueue, TypeOK, watcher, poller, phones, tables
<1>12. CASE Enqueued
  BY <1>12, SmsAssumption
  DEF Enqueued, Done, TypeOK, Places, NoSms, watcher, poller, phones, tables
<1>13. CASE UNCHANGED vars
  BY <1>13 DEF vars, TypeOK, watcher, poller, saving, phones, tables
<1>14. QED
  BY <1>1, <1>2, <1>3, <1>4, <1>5, <1>6, <1>7, <1>8, <1>9, <1>10, <1>x, <1>11, <1>12, <1>13
  DEF Next, PollStep, SaveStep

-------------------------------------------------------------------------------
(* The invariant, and the properties *)

LEMMA InitInv == Init => IInv
<1> SUFFICES ASSUME Init PROVE IInv
  OBVIOUS
<1>1. Sent = {} /\ IsInjective(messages)
  <2>1. messages = <<>> /\ DOMAIN <<>> = {}
    BY DEF Init
  <2>2. QED BY <2>1 DEF Sent, ToSet, IsInjective
<1>2. TypeOK
  <2>1. 0 \in 0..NSms /\ 0 \in 0..2 /\ 0 \in 0..1 /\ 0 \in Nat
    BY SmsAssumption
  <2>2. /\ events \in Seq(Phones \union {NoPhone}) /\ Len(events) <= EventsSize + 1
        /\ messages \in Seq(Ids) /\ Len(messages) <= MessagesSize
    BY SizesAssumption DEF Init
  <2>3. inbox \in [Phones -> 0..NSms] /\ row \in [Ids -> Phones \union {NoPhone}]
    BY <2>1 DEF Init
  <2>4. queued \in [Ids -> [Channels -> 0..1]]
    BY <2>1 DEF Init
  <2>5. QED BY <2>1, <2>2, <2>3, <2>4 DEF Init, TypeOK, Places, NoSms
<1>3. EventsInv
  BY DEF Init, EventsInv, Told
<1>4. CursorInv
  <2>1. \A i \in Ids : i \in Nat /\ i # 0
    BY SmsAssumption DEF Ids
  <2>2. QED BY <1>1, <2>1 DEF Init, CursorInv, CursorPassesNone, HandedOnce, NoSms
<1>5. QueueInv
  BY DEF Init, QueueInv
<1>6. QED BY <1>2, <1>3, <1>4, <1>5 DEF IInv

THEOREM Invariance == Spec => []IInv
<1>1. IInv /\ [Next]_vars => IInv'
  BY TypeStep, EventsStep, CursorStep, QueueStep DEF IInv
<1>2. QED BY InitInv, <1>1, PTL DEF Spec

\* However often a message is read, and whatever fails, it makes at most one row
\* of the outbox per channel (saveAndEnqueue); all variables stay in range.
THEOREM TypeCorrect == Spec => []TypeOK
<1>1. IInv => TypeOK
  BY DEF IInv
<1>2. QED BY Invariance, <1>1, PTL

\* The poller's cursor passes no message that was not handed over (Poller.poll).
THEOREM CursorNeverPassesOne == Spec => []CursorPassesNone
<1>1. IInv => CursorPassesNone
  BY DEF IInv, CursorInv
<1>2. QED BY Invariance, <1>1, PTL

\* A poller hands a message over at most once (Poller.poll).
THEOREM AlwaysHandedOnce == Spec => []HandedOnce
<1>1. IInv => HandedOnce
  BY DEF IInv, CursorInv
<1>2. QED BY Invariance, <1>1, PTL

\* main starts a poller only when it runs none (Watcher.check, main).
THEOREM OnePollerAtATime == Spec => OnePoller
<1>1. IInv /\ [Next]_vars => [MainConnect => polling = NoPhone]_vars
  <2>1. SUFFICES ASSUME IInv, MainConnect PROVE polling = NoPhone
    OBVIOUS
  <2>2. events \in Seq(Phones \union {NoPhone}) /\ events # <<>> /\ Head(events) # NoPhone
    BY <2>1 DEF MainConnect, IInv, TypeOK
  <2>3. Head(events) = events[1]
    BY <2>2, HeadTailProperties
  <2>4. QED BY <2>1, <2>2, <2>3 DEF IInv, EventsInv
<1>2. QED BY Invariance, <1>1, PTL DEF Spec, OnePoller

\* What a message's receivers are to read is settled before they can be sent it
\* (saveAndEnqueue): its translation is stored before its rows of the outbox are.
THEOREM TranslationIsSettled == Spec => SettledBeforeQueued
<1> DEFINE Settled == \A i \in Ids : (\E c \in Channels : queued[i][c] > 0) =>
                        (i \in translated' <=> i \in translated)
<1>1. IInv /\ [Next]_vars => [Settled]_vars
  <2>1. SUFFICES ASSUME IInv, Next PROVE Settled
    OBVIOUS
  <2>2. CASE Translate
    <3>1. \A c \in Channels : queued[hand][c] = 0
      BY <2>1, <2>2 DEF Translate, TranslateFor, UpdateTranslation, IInv, QueueInv
    <3>2. \A i : i \in translated' => i \in translated \/ i = hand
      BY <2>2 DEF Translate, TranslateFor, UpdateTranslation
    <3>3. \A i : i \in translated => i \in translated'
      BY <2>2 DEF Translate, TranslateFor, UpdateTranslation
    <3>4. QED BY <3>1, <3>2, <3>3
  <2>3. CASE UNCHANGED translated
    BY <2>3
  <2>4. QED
    BY <2>1, <2>2, <2>3
    DEF Next, tables, SmsArrives, Delete, PlugIn, Unplug, WatcherCheck, MainStep, MainConnect,
        MainDisconnect, Crash, PollStep, PollFallsBack, PollReads, PollSends, PollEnds, SaveStep,
        Take, Save, Enqueue, Enqueued
<1>2. QED BY Invariance, <1>1, PTL DEF Spec, SettledBeforeQueued
===============================================================================
