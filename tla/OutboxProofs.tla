----------------------------- MODULE OutboxProofs -----------------------------
(***************************************************************************)
(* Proofs about Outbox for any number of rows and saveAndEnqueue calls,    *)
(* any max_attempts, any intervals and any faults.                         *)
(*                                                                         *)
(* None of the properties is inductive alone.  attempts stays within       *)
(* max_attempts because a row in a sweep's hands has an attempt left; that *)
(* holds because the sweep's snapshot and the retry worker's are disjoint  *)
(* and only ever overtaken by a cancellation; and that because the mutex   *)
(* admits one sweep.  IInv is their conjunction, with the copies account.  *)
(***************************************************************************)
EXTENDS Outbox, BackoffProofs, TLAPS

USE DEF Rows, Sweepers, Triggers

\* The counter of faults, whichever way a statement ends.
LEMMA FaultCount ==
  ASSUME faults \in Nat,
         NEW s, NEW kind,
         DbWorks(s) \/ DbFails(s) \/ Fault(kind) \/ UNCHANGED faults
  PROVE  faults' \in Nat
BY DEF DbWorks, DbFails, Fault

\* What each update does to a column of ages or counts.
LEMMA AgeReset ==
  ASSUME NEW f \in [Rows -> 0..AgeCap], NEW i \in Rows
  PROVE  [f EXCEPT ![i] = 0] \in [Rows -> 0..AgeCap]
BY TimeAssumption

LEMMA Ageing ==
  ASSUME NEW f \in [Rows -> 0..AgeCap]
  PROVE  [i \in Rows |-> Older(f[i])] \in [Rows -> 0..AgeCap]
BY TimeAssumption DEF Older

LEMMA CountUp ==
  ASSUME NEW f \in [Rows -> Nat], NEW i \in Rows
  PROVE  [f EXCEPT ![i] = @ + 1] \in [Rows -> Nat]
OBVIOUS

\* Type correctness, a group of variables at a time.
LEMMA TypeInit == Init => TypeOK
<1> SUFFICES ASSUME Init PROVE TypeOK
  OBVIOUS
<1> USE DEF Init
<1>1. RowTypes
  BY AttemptsAssumption, TimeAssumption DEF RowTypes, Statuses, NoLog
<1>2. HistoryTypes
  BY TimeAssumption DEF HistoryTypes
<1>3. ControlTypes
  BY DEF ControlTypes, Places, NoRow, NoOne
<1> QED
  BY <1>1, <1>2, <1>3 DEF TypeOK

LEMMA RowTypeStep == TypeOK /\ SnapshotsHold /\ [Next]_vars => RowTypes'
<1> USE RowsAssumption, AttemptsAssumption, TimeAssumption
<1> SUFFICES ASSUME RowTypes, ControlTypes, SnapshotsHold, [Next]_vars
             PROVE  RowTypes'
  BY DEF TypeOK
<1> USE DEF RowTypes, row
<1>1. ASSUME NEW t \in Triggers, NEW i \in Rows, CreateOutboxEntry(t, i) PROVE RowTypes'
  BY <1>1 DEF CreateOutboxEntry, Insert, Statuses
<1>2. ASSUME NEW s \in Sweepers, Mark(s) PROVE RowTypes'
  <2>1. cur[s] \in Rows /\ attempts[cur[s]] + 1 \in 0..MaxAttempts
    BY <1>2 DEF Mark, SnapshotsHold, SnapshotInv, Claimed, InHand, Open
  <2> QED
    BY <1>2, <2>1 DEF Mark, Record, Statuses
<1>3. ASSUME NEW s \in Sweepers, AppendDeliveryLog(s) PROVE RowTypes'
  <2>1. UNCHANGED <<status, attempts, age>>
    BY <1>3 DEF AppendDeliveryLog
  <2>2. logAge' = logAge \/ logAge' = [logAge EXCEPT ![cur[s]] = 0]
    BY <1>3 DEF AppendDeliveryLog
  <2>3. 0 \in 0..AgeCap
    OBVIOUS
  <2> QED
    BY <2>1, <2>2, <2>3
<1>4. CASE ResetToPending
  BY <1>4 DEF ResetToPending, Reset, Statuses
<1>5. CASE CancelStaleOutbox
  BY <1>5 DEF CancelStaleOutbox, Statuses
<1>6. CASE Tick
  BY <1>6 DEF Tick, Older, NoLog
<1>7. ASSUME UNCHANGED row PROVE RowTypes'
  BY <1>7
<1>8. Next => \/ \E t \in Triggers, i \in Rows : CreateOutboxEntry(t, i)
              \/ \E s \in Sweepers : Mark(s) \/ AppendDeliveryLog(s)
              \/ ResetToPending \/ CancelStaleOutbox \/ Tick
              \/ UNCHANGED row
  BY DEF Next, SweepStep, RetryStep, SpawnSweep, TickerFires, Lock, GetPendingOutbox, Return,
         EndSweep, NextItem, Send, GetFailedOutbox, WorkDone, Unplug, Sigterm, Crash, Exit, Restart
<1> QED
  BY <1>1, <1>2, <1>3, <1>4, <1>5, <1>6, <1>7, <1>8 DEF vars

LEMMA HistoryTypeStep == TypeOK /\ SnapshotsHold /\ [Next]_vars => HistoryTypes'
<1> SUFFICES ASSUME HistoryTypes, ControlTypes, SnapshotsHold, [Next]_vars
             PROVE  HistoryTypes'
  BY DEF TypeOK
<1> USE DEF HistoryTypes
<1>0. ASSUME NEW i \in Rows, Attempted(i)
      PROVE  tryAge' \in [Rows -> 0..AgeCap] /\ unlogged' \subseteq Rows
  BY <1>0, AgeReset DEF Attempted
<1>1. ASSUME NEW s \in Sweepers, NextItem(s) PROVE HistoryTypes'
  <2>1. UNCHANGED <<delivered, lost>>
    BY <1>1 DEF NextItem
  <2>2. \/ UNCHANGED <<tryAge, unlogged>>
        \/ \E i \in Rows : Attempted(i)
    BY <1>1 DEF NextItem, Oldest, ControlTypes
  <2> QED
    BY <2>1, <2>2, <1>0
<1>2. ASSUME NEW s \in Sweepers, Send(s) PROVE HistoryTypes'
  <2>1. cur[s] \in Rows
    BY <1>2 DEF Send, SnapshotsHold, SnapshotInv
  <2>2. UNCHANGED <<tryAge, unlogged>> \/ Attempted(cur[s])
    BY <1>2 DEF Send
  <2>3. \/ UNCHANGED <<delivered, lost>>
        \/ Arrives(cur[s])
        \/ ArrivesUnacknowledged(cur[s])
    BY <1>2 DEF Send
  <2>4. delivered' \in [Rows -> Nat] /\ lost' \in [Rows -> Nat]
    <3>1. CASE Arrives(cur[s])
      BY <2>1, <3>1, CountUp DEF Arrives
    <3>2. CASE ArrivesUnacknowledged(cur[s])
      BY <2>1, <3>2, CountUp DEF ArrivesUnacknowledged
    <3> QED
      BY <2>3, <3>1, <3>2
  <2> QED
    BY <2>1, <2>2, <2>4, <1>0
<1>3. ASSUME NEW s \in Sweepers, Mark(s) PROVE HistoryTypes'
  <2>1. cur[s] \in Rows
    BY <1>3 DEF Mark, SnapshotsHold, SnapshotInv
  <2>2. lost' = lost \/ lost' = [lost EXCEPT ![cur[s]] = @ + 1]
    BY <1>3, <2>1 DEF Mark
  <2> QED
    BY <1>3, <2>1, <2>2, CountUp DEF Mark
<1>4. ASSUME NEW s \in Sweepers, AppendDeliveryLog(s) PROVE HistoryTypes'
  BY <1>4 DEF AppendDeliveryLog
<1>5. CASE Restart
  BY <1>5 DEF Restart
<1>6. CASE Tick
  BY <1>6, Ageing DEF Tick
<1>7. ASSUME UNCHANGED history PROVE HistoryTypes'
  BY <1>7 DEF history
<1>8. Next => \/ \E s \in Sweepers : NextItem(s) \/ Send(s) \/ Mark(s) \/ AppendDeliveryLog(s)
              \/ Restart \/ Tick
              \/ UNCHANGED history
  BY DEF Next, SweepStep, RetryStep, CreateOutboxEntry, SpawnSweep, TickerFires, Lock,
         GetPendingOutbox, Return, EndSweep, GetFailedOutbox, ResetToPending, WorkDone,
         CancelStaleOutbox, Unplug, Sigterm, Crash, Exit
<1> QED
  BY <1>1, <1>2, <1>3, <1>4, <1>5, <1>6, <1>7, <1>8 DEF vars

\* What a sweep does to its own state when it takes the next item.
LEMMA NextItemShape ==
  ASSUME NEW s \in Sweepers, ControlTypes, NextItem(s)
  PROVE  /\ pc[s] = "next"
         /\ UNCHANGED <<row, holder, due, rescheduled, cancelled, staleDone, delivered, lost>>
         /\ \E i \in Rows :
              /\ i \in batch[s]
              /\ batch' = [batch EXCEPT ![s] = @ \ {i}]
              /\ \/ /\ cur' = [cur EXCEPT ![s] = i]
                    /\ pc' = [pc EXCEPT ![s] = "mark"]
                    /\ result' = [result EXCEPT ![s] = "err"]
                 \/ /\ cur' = [cur EXCEPT ![s] = i]
                    /\ pc' = [pc EXCEPT ![s] = "send"]
                    /\ UNCHANGED result
                 \/ UNCHANGED <<cur, pc, result>>
<1>1. \A i \in Oldest(batch[s]) : i \in batch[s] /\ i \in Rows
  BY DEF Oldest, ControlTypes
<1> QED
  BY <1>1 DEF NextItem, Goto, retry, process

LEMMA ControlTypeStep == TypeOK /\ [Next]_vars => ControlTypes'
<1> SUFFICES ASSUME ControlTypes, [Next]_vars
             PROVE  ControlTypes'
  BY DEF TypeOK
<1> USE DEF ControlTypes, Goto, Places, sweep, retry, process, NoRow
<1>1. ASSUME NEW t \in Triggers, NEW i \in Rows, CreateOutboxEntry(t, i) PROVE ControlTypes'
  BY <1>1 DEF CreateOutboxEntry
<1>2. ASSUME NEW t \in Triggers, SpawnSweep(t) PROVE ControlTypes'
  BY <1>2 DEF SpawnSweep
<1>3. CASE TickerFires
  BY <1>3 DEF TickerFires
<1>4. ASSUME NEW s \in Sweepers, Lock(s) PROVE ControlTypes'
  BY <1>4 DEF Lock
<1>5. ASSUME NEW s \in Sweepers, Return(s) PROVE ControlTypes'
  BY <1>5 DEF Return
<1>6. ASSUME NEW s \in Sweepers, GetPendingOutbox(s) PROVE ControlTypes'
  <2>1. CASE DbFails(s) /\ Return(s)
    BY <1>5, <2>1
  <2>2. CASE /\ batch' = [batch EXCEPT ![s] = PendingRows]
             /\ Goto(s, "next")
             /\ UNCHANGED <<row, history, holder, cur, result, retry, process>>
    BY <2>2 DEF PendingRows
  <2> QED
    BY <1>6, <2>1, <2>2 DEF GetPendingOutbox
<1>7. ASSUME NEW s \in Sweepers, EndSweep(s) PROVE ControlTypes'
  BY <1>5, <1>7 DEF EndSweep
<1>8. ASSUME NEW s \in Sweepers, NextItem(s) PROVE ControlTypes'
  <2>1. batch' \in [Sweepers -> SUBSET Rows]
    <3>1. PICK i \in Rows : batch' = [batch EXCEPT ![s] = @ \ {i}]
      BY <1>8, NextItemShape
    <3>2. batch[s] \ {i} \in SUBSET Rows
      OBVIOUS
    <3> QED
      BY <3>1, <3>2
  <2>2. cur' \in [Sweepers -> Rows \union {NoRow}]
    BY <1>8, NextItemShape
  <2>3. pc' \in [Sweepers -> Places]
    BY <1>8, NextItemShape
  <2>4. result' \in [Sweepers -> {"none", "ok", "err"}]
    BY <1>8, NextItemShape
  <2> QED
    BY <1>8, <2>1, <2>2, <2>3, <2>4, NextItemShape
<1>9. ASSUME NEW s \in Sweepers, Send(s) PROVE ControlTypes'
  BY <1>9 DEF Send
<1>10. ASSUME NEW s \in Sweepers, Mark(s) PROVE ControlTypes'
  BY <1>10 DEF Mark
<1>11. ASSUME NEW s \in Sweepers, AppendDeliveryLog(s) PROVE ControlTypes'
  BY <1>11 DEF AppendDeliveryLog
<1>12. CASE RetryStep
  BY <1>12 DEF RetryStep, GetFailedOutbox, DueRows, ResetToPending, WorkDone
<1>13. CASE CancelStaleOutbox
  BY <1>13 DEF CancelStaleOutbox
<1>14. CASE Unplug \/ Sigterm
  BY <1>14 DEF Unplug, Sigterm
<1>15. CASE Restart
  BY <1>15 DEF Restart
<1>16. CASE Tick
  BY <1>16 DEF Tick
<1>17. CASE UNCHANGED vars
  BY <1>17 DEF vars
<1> QED
  BY <1>1, <1>2, <1>3, <1>4, <1>6, <1>7, <1>8, <1>9, <1>10, <1>11, <1>12, <1>13, <1>14,
     <1>15, <1>16, <1>17
  DEF Next, SweepStep, Crash, Exit

LEMMA TypeStep == TypeOK /\ SnapshotsHold /\ [Next]_vars => TypeOK'
<1> SUFFICES ASSUME TypeOK, SnapshotsHold, [Next]_vars PROVE faults' \in Nat
  BY RowTypeStep, HistoryTypeStep, ControlTypeStep DEF TypeOK
<1>1. \/ \E s : DbWorks(s) \/ DbFails(s)
      \/ \E kind : Fault(kind)
      \/ UNCHANGED faults
  BY DEF Next, vars, SweepStep, RetryStep, CreateOutboxEntry, SpawnSweep, TickerFires, Lock,
         GetPendingOutbox, EndSweep, NextItem, Send, Mark, AppendDeliveryLog, GetFailedOutbox,
         ResetToPending, WorkDone, CancelStaleOutbox, Unplug, Sigterm, Crash, Exit, Tick
<1> QED
  BY <1>1, FaultCount DEF TypeOK

\* The parts of SnapshotsHold, one lemma each.
LEMMA MutexStep == TypeOK /\ SnapshotsHold /\ [Next]_vars => MutexInv'
<1> USE TriggersAssumption
<1> SUFFICES ASSUME ControlTypes, MutexInv, [Next]_vars PROVE MutexInv'
  BY DEF TypeOK, SnapshotsHold
<1> USE DEF ControlTypes, MutexInv, Inside, Goto
<1>1. ASSUME NEW t \in Triggers, NEW i \in Rows, CreateOutboxEntry(t, i) PROVE MutexInv'
  BY <1>1 DEF CreateOutboxEntry
<1>2. ASSUME NEW t \in Triggers, SpawnSweep(t) PROVE MutexInv'
  BY <1>2 DEF SpawnSweep
<1>3. CASE TickerFires
  BY <1>3 DEF TickerFires
<1>4. ASSUME NEW s \in Sweepers, Lock(s) PROVE MutexInv'
  BY <1>4 DEF Lock
<1>5. ASSUME NEW s \in Sweepers, pc[s] \in Inside, Return(s) PROVE MutexInv'
  BY <1>5 DEF Return
<1>6. ASSUME NEW s \in Sweepers, GetPendingOutbox(s) PROVE MutexInv'
  BY <1>5, <1>6 DEF GetPendingOutbox
<1>7. ASSUME NEW s \in Sweepers, EndSweep(s) PROVE MutexInv'
  BY <1>5, <1>7 DEF EndSweep
<1>8. ASSUME NEW s \in Sweepers, NextItem(s) PROVE MutexInv'
  BY <1>8, NextItemShape
<1>9. ASSUME NEW s \in Sweepers, Send(s) \/ Mark(s) \/ AppendDeliveryLog(s) PROVE MutexInv'
  BY <1>9 DEF Send, Mark, AppendDeliveryLog
<1>10. CASE RetryStep
  BY <1>10 DEF RetryStep, GetFailedOutbox, ResetToPending, WorkDone
<1>11. CASE Restart
  BY <1>11 DEF Restart
<1>12. CASE UNCHANGED <<holder, pc>>
  BY <1>12
<1> QED
  BY <1>1, <1>2, <1>3, <1>4, <1>6, <1>7, <1>8, <1>9, <1>10, <1>11, <1>12
  DEF Next, SweepStep, CancelStaleOutbox, Unplug, Sigterm, Crash, Exit, Tick, vars

LEMMA WaitingStep == TypeOK /\ SnapshotsHold /\ [Next]_vars => WaitingInv'
<1> SUFFICES ASSUME RowTypes, ControlTypes, SnapshotInv, DueInv, WaitingInv, [Next]_vars
             PROVE  WaitingInv'
  BY DEF TypeOK, SnapshotsHold
<1> USE DEF RowTypes, WaitingInv
<1>1. ASSUME NEW t \in Triggers, NEW i \in Rows, CreateOutboxEntry(t, i) PROVE WaitingInv'
  <2>1. 0 < MaxAttempts
    BY AttemptsAssumption
  <2>2. /\ status[i] = "absent"
        /\ status' = [status EXCEPT ![i] = "pending"]
        /\ UNCHANGED attempts
    BY <1>1 DEF CreateOutboxEntry, Insert
  <2>3. attempts[i] = 0
    BY <2>2
  <2> QED
    BY <2>1, <2>2, <2>3
<1>2. ASSUME NEW s \in Sweepers, Mark(s) PROVE WaitingInv'
  <2>1. UNCHANGED row \/ (cur[s] \in Rows /\ Record(s))
    BY <1>2 DEF Mark, SnapshotInv
  <2> QED
    BY <2>1 DEF Record, row
<1>3. CASE ResetToPending
  <2>1. UNCHANGED <<status, attempts>> \/ \E i \in due : Reset(i)
    BY <1>3 DEF ResetToPending, row
  <2> QED
    BY <2>1 DEF Reset, DueInv, ControlTypes
<1>4. CASE CancelStaleOutbox
  BY <1>4 DEF CancelStaleOutbox, StaleRows
<1>5. CASE UNCHANGED <<status, attempts>>
  BY <1>5
<1> QED
  BY <1>1, <1>2, <1>3, <1>4, <1>5
  DEF Next, vars, row, SweepStep, RetryStep, SpawnSweep, TickerFires, Lock, GetPendingOutbox, Return,
      EndSweep, NextItem, Send, AppendDeliveryLog, GetFailedOutbox, WorkDone, Unplug, Sigterm,
      Crash, Exit, Restart, Tick

\* While one sweep runs, no other has rows in hand.
LEMMA OneSweep ==
  ASSUME MutexInv, SnapshotInv,
         NEW s \in Sweepers, pc[s] \in Inside,
         NEW u \in Sweepers, u # s
  PROVE  Claimed(u) = {} /\ pc[u] \notin Inside
BY DEF MutexInv, SnapshotInv, Claimed, InHand, Inside

LEMMA SnapshotStep == TypeOK /\ SnapshotsHold /\ [Next]_vars => SnapshotInv'
<1> SUFFICES ASSUME RowTypes, ControlTypes, MutexInv, SnapshotInv, DueInv, WaitingInv, [Next]_vars
             PROVE  SnapshotInv'
  BY DEF TypeOK, SnapshotsHold
<1> USE DEF ControlTypes, SnapshotInv, Inside, Goto
<1>1. ASSUME NEW t \in Triggers, NEW i \in Rows, CreateOutboxEntry(t, i) PROVE SnapshotInv'
  <2>1. \A j \in Rows : Open(j) => Open(j)'
    BY <1>1 DEF CreateOutboxEntry, Insert, Open, RowTypes
  <2> QED
    BY <1>1, <2>1 DEF CreateOutboxEntry, Claimed, InHand, sweep
<1>2. ASSUME NEW t \in Triggers, SpawnSweep(t) PROVE SnapshotInv'
  BY <1>2 DEF SpawnSweep, Claimed, InHand, Open, sweep, row
<1>3. CASE TickerFires
  BY <1>3 DEF TickerFires, Claimed, InHand, Open, sweep, row
<1>4. ASSUME NEW s \in Sweepers, Lock(s) PROVE SnapshotInv'
  BY <1>4 DEF Lock, Claimed, InHand, Open, sweep, row
<1>5. ASSUME NEW s \in Sweepers, Return(s) PROVE SnapshotInv'
  BY <1>5 DEF Return, Claimed, InHand, Open, row
<1>6. ASSUME NEW s \in Sweepers, GetPendingOutbox(s) PROVE SnapshotInv'
  <2>1. CASE Return(s)
    BY <1>5, <2>1
  <2>2. CASE /\ batch' = [batch EXCEPT ![s] = PendingRows]
             /\ Goto(s, "next")
             /\ UNCHANGED <<row, history, holder, cur, result, retry, process>>
    <3>1. \A i \in PendingRows : Open(i)
      BY DEF PendingRows, WaitingInv, Open
    <3> QED
      BY <2>2, <3>1 DEF Claimed, InHand, Open, row
  <2> QED
    BY <1>6, <2>1, <2>2 DEF GetPendingOutbox
<1>7. ASSUME NEW s \in Sweepers, EndSweep(s) PROVE SnapshotInv'
  BY <1>5, <1>7 DEF EndSweep
<1>8. ASSUME NEW s \in Sweepers, NextItem(s) PROVE SnapshotInv'
  <2>1. PICK i \in Rows :
          /\ i \in batch[s]
          /\ batch' = [batch EXCEPT ![s] = @ \ {i}]
          /\ \/ /\ cur' = [cur EXCEPT ![s] = i]
                /\ pc' = [pc EXCEPT ![s] = "mark"] \/ pc' = [pc EXCEPT ![s] = "send"]
             \/ UNCHANGED <<cur, pc>>
    BY <1>8, NextItemShape
  <2>2. pc[s] = "next" /\ UNCHANGED row
    BY <1>8, NextItemShape
  <2>3. CASE UNCHANGED <<cur, pc>>
    BY <2>1, <2>2, <2>3 DEF Claimed, InHand, Open, row
  <2>4. CASE /\ cur' = [cur EXCEPT ![s] = i]
             /\ pc' = [pc EXCEPT ![s] = "mark"] \/ pc' = [pc EXCEPT ![s] = "send"]
    <3>1. Claimed(s)' = Claimed(s) /\ InHand(s)' \intersect batch'[s] = {}
      BY <2>1, <2>2, <2>4 DEF Claimed, InHand
    <3>2. \A u \in Sweepers \ {s} : Claimed(u)' = Claimed(u) /\ InHand(u)' = InHand(u)
      BY <2>1, <2>4 DEF Claimed, InHand
    <3> QED
      BY <2>1, <2>2, <2>4, <3>1, <3>2 DEF Open, row
  <2> QED
    BY <2>1, <2>3, <2>4
<1>9. ASSUME NEW s \in Sweepers, Send(s) PROVE SnapshotInv'
  <2>1. /\ pc[s] = "send"
        /\ pc' = [pc EXCEPT ![s] = "mark"] \/ pc' = [pc EXCEPT ![s] = "hung"]
        /\ UNCHANGED <<row, batch, cur>>
    BY <1>9 DEF Send
  <2> QED
    BY <2>1 DEF Claimed, InHand, Open, row
<1>10. ASSUME NEW s \in Sweepers, Mark(s) PROVE SnapshotInv'
  <2>1. /\ pc[s] = "mark"
        /\ pc' = [pc EXCEPT ![s] = "log"]
        /\ UNCHANGED <<batch, cur>>
        /\ UNCHANGED row \/ Record(s)
    BY <1>10 DEF Mark, sweep
  <2>2. \A j \in Rows \ {cur[s]} : Open(j) => Open(j)'
    BY <2>1 DEF Record, Open, row, RowTypes
  <2>3. \A u \in Sweepers \ {s} : Claimed(u) = {} /\ pc[u] \notin Inside
    BY <2>1, OneSweep
  <2>4. \A u \in Sweepers \ {s} : Claimed(u)' = {} /\ InHand(u)' = {}
    BY <2>1, <2>3 DEF Claimed, InHand
  <2>5. Claimed(s)' = batch[s] /\ InHand(s)' = {} /\ cur[s] \notin batch[s]
    BY <2>1 DEF Claimed, InHand
  <2> QED
    BY <2>1, <2>2, <2>3, <2>4, <2>5 DEF Claimed
<1>11. ASSUME NEW s \in Sweepers, AppendDeliveryLog(s) PROVE SnapshotInv'
  <2>1. /\ pc[s] = "log"
        /\ pc' = [pc EXCEPT ![s] = "next"]
        /\ cur' = [cur EXCEPT ![s] = NoRow]
        /\ UNCHANGED <<status, attempts, batch>>
    BY <1>11 DEF AppendDeliveryLog
  <2> QED
    BY <2>1 DEF Claimed, InHand, Open
<1>12. CASE GetFailedOutbox \/ WorkDone
  BY <1>12 DEF GetFailedOutbox, WorkDone, Claimed, InHand, Open, sweep, row
<1>13. CASE ResetToPending
  <2>1. UNCHANGED <<batch, cur, pc>>
    BY <1>13 DEF ResetToPending, sweep
  <2>2. UNCHANGED <<status, attempts>> \/ \E i \in due : Reset(i)
    BY <1>13 DEF ResetToPending, row
  <2>3. \A j \in Rows : Open(j) => Open(j)'
    BY <2>2 DEF Reset, Open, RowTypes
  <2> QED
    BY <2>1, <2>3 DEF Claimed, InHand
<1>14. CASE CancelStaleOutbox
  <2>1. UNCHANGED <<batch, cur, pc>>
    BY <1>14 DEF CancelStaleOutbox, sweep
  <2>2. \A j \in Rows : Open(j) => Open(j)'
    BY <1>14 DEF CancelStaleOutbox, StaleRows, Open, RowTypes
  <2> QED
    BY <2>1, <2>2 DEF Claimed, InHand
<1>15. CASE Restart
  BY <1>15 DEF Restart, Claimed, InHand
<1>16. CASE UNCHANGED <<status, attempts, pc, batch, cur>>
  BY <1>16 DEF Claimed, InHand, Open
<1> QED
  BY <1>1, <1>2, <1>3, <1>4, <1>6, <1>7, <1>8, <1>9, <1>10, <1>11, <1>12, <1>13, <1>14,
     <1>15, <1>16
  DEF Next, SweepStep, RetryStep, Unplug, Sigterm, Crash, Exit, Tick, vars, row, sweep

LEMMA DueStep == TypeOK /\ SnapshotsHold /\ [Next]_vars => DueInv'
<1> SUFFICES ASSUME RowTypes, ControlTypes, MutexInv, SnapshotInv, DueInv, WaitingInv, [Next]_vars
             PROVE  DueInv'
  BY DEF TypeOK, SnapshotsHold
<1> USE DEF ControlTypes, DueInv, Goto
<1>1. ASSUME NEW t \in Triggers, NEW i \in Rows, CreateOutboxEntry(t, i) PROVE DueInv'
  <2>1. /\ status[i] = "absent"
        /\ status' = [status EXCEPT ![i] = "pending"]
        /\ pc[t] \notin {"send", "mark"} /\ pc' = [pc EXCEPT ![t] = "enqueue"]
        /\ UNCHANGED <<attempts, batch, cur, due>>
    BY <1>1 DEF CreateOutboxEntry, Insert, sweep, retry
  <2>2. t # "retry"
    BY TriggersAssumption
  <2> QED
    BY <2>1, <2>2 DEF Claimed, InHand, RowTypes
<1>2. ASSUME NEW t \in Triggers, SpawnSweep(t) PROVE DueInv'
  <2>1. t # "retry"
    BY TriggersAssumption
  <2> QED
    BY <1>2, <2>1 DEF SpawnSweep, Claimed, InHand, sweep, row, retry
<1>3. CASE TickerFires
  BY <1>3 DEF TickerFires, Claimed, InHand, sweep, row, retry
<1>4. ASSUME NEW s \in Sweepers, Lock(s) PROVE DueInv'
  BY <1>4 DEF Lock, Claimed, InHand, sweep, row, retry
<1>5. ASSUME NEW s \in Sweepers, pc[s] \in Inside, Return(s) PROVE DueInv'
  BY <1>5 DEF Return, Inside, Claimed, InHand, row, retry
<1>6. ASSUME NEW s \in Sweepers, GetPendingOutbox(s) PROVE DueInv'
  <2>1. CASE Return(s)
    BY <1>5, <1>6, <2>1 DEF GetPendingOutbox, Inside
  <2>2. CASE /\ batch' = [batch EXCEPT ![s] = PendingRows]
             /\ Goto(s, "next")
             /\ UNCHANGED <<row, history, holder, cur, result, retry, process>>
    <3>1. due \intersect PendingRows = {}
      BY DEF PendingRows
    <3> QED
      BY <1>6, <2>2, <3>1 DEF GetPendingOutbox, Claimed, InHand, row, retry
  <2> QED
    BY <1>6, <2>1, <2>2 DEF GetPendingOutbox
<1>7. ASSUME NEW s \in Sweepers, EndSweep(s) PROVE DueInv'
  BY <1>5, <1>7 DEF EndSweep, Inside
<1>8. ASSUME NEW s \in Sweepers, NextItem(s) PROVE DueInv'
  <2>1. PICK i \in Rows :
          /\ i \in batch[s]
          /\ batch' = [batch EXCEPT ![s] = @ \ {i}]
          /\ \/ /\ cur' = [cur EXCEPT ![s] = i]
                /\ pc' = [pc EXCEPT ![s] = "mark"] \/ pc' = [pc EXCEPT ![s] = "send"]
             \/ UNCHANGED <<cur, pc>>
    BY <1>8, NextItemShape
  <2>2. pc[s] = "next" /\ UNCHANGED row /\ UNCHANGED due
    BY <1>8, NextItemShape
  <2>3. \A u \in Sweepers : Claimed(u)' \subseteq Claimed(u)
    BY <2>1, <2>2 DEF Claimed, InHand
  <2>4. pc["retry"] = "reset" => pc'["retry"] = "reset"
    BY <2>1, <2>2
  <2> QED
    BY <2>2, <2>3, <2>4 DEF row
<1>9. ASSUME NEW s \in Sweepers, Send(s) PROVE DueInv'
  <2>1. /\ pc[s] = "send"
        /\ pc' = [pc EXCEPT ![s] = "mark"] \/ pc' = [pc EXCEPT ![s] = "hung"]
        /\ UNCHANGED <<row, batch, cur, due>>
    BY <1>9 DEF Send, retry
  <2> QED
    BY <2>1 DEF Claimed, InHand, row
<1>10. ASSUME NEW s \in Sweepers, Mark(s) PROVE DueInv'
  <2>1. /\ pc[s] = "mark"
        /\ pc' = [pc EXCEPT ![s] = "log"]
        /\ UNCHANGED <<batch, cur, due>>
        /\ UNCHANGED row \/ Record(s)
    BY <1>10 DEF Mark, sweep, retry
  <2>2. cur[s] \notin due
    BY <2>1 DEF Claimed, InHand
  <2>3. \A i \in due : status'[i] = status[i] /\ attempts'[i] = attempts[i]
    BY <2>1, <2>2 DEF Record, row, RowTypes
  <2>4. \A u \in Sweepers : Claimed(u)' \subseteq Claimed(u)
    BY <2>1 DEF Claimed, InHand
  <2> QED
    BY <2>1, <2>3, <2>4
<1>11. ASSUME NEW s \in Sweepers, AppendDeliveryLog(s) PROVE DueInv'
  <2>1. /\ pc[s] = "log"
        /\ pc' = [pc EXCEPT ![s] = "next"]
        /\ cur' = [cur EXCEPT ![s] = NoRow]
        /\ UNCHANGED <<status, attempts, batch, due>>
    BY <1>11 DEF AppendDeliveryLog, retry
  <2> QED
    BY <2>1 DEF Claimed, InHand
<1>12. CASE GetFailedOutbox
  <2>1. /\ pc["retry"] = "idle" /\ pc' = [pc EXCEPT !["retry"] = "reset"]
        /\ due' = DueRows
        /\ UNCHANGED <<status, attempts, batch, cur>>
    BY <1>12 DEF GetFailedOutbox, row, sweep
  <2>2. \A i \in DueRows : status[i] = "failed" /\ attempts[i] < MaxAttempts
    BY DEF DueRows, Retryable
  <2>3. \A u \in Sweepers : Claimed(u)' = Claimed(u)
    BY <2>1 DEF Claimed, InHand
  <2> QED
    BY <2>1, <2>2, <2>3 DEF SnapshotInv, Open
<1>13. CASE ResetToPending
  <2>1. PICK i \in due :
          /\ due' = due \ {i}
          /\ UNCHANGED <<status, attempts>> \/ Reset(i)
          /\ UNCHANGED <<batch, cur, pc>>
          /\ pc["retry"] = "reset"
    BY <1>13 DEF ResetToPending, row, sweep
  <2>2. \A j \in due' : status'[j] = status[j] /\ attempts'[j] = attempts[j]
    BY <2>1 DEF Reset, RowTypes
  <2> QED
    BY <2>1, <2>2 DEF Claimed, InHand
<1>14. CASE WorkDone
  BY <1>14 DEF WorkDone, Claimed, InHand, sweep, row
<1>15. CASE CancelStaleOutbox
  <2>1. /\ UNCHANGED <<attempts, batch, cur, pc, due>>
        /\ \A i \in Rows : status'[i] = status[i] \/ status'[i] = "cancelled"
    BY <1>15 DEF CancelStaleOutbox, sweep, retry
  <2> QED
    BY <2>1 DEF Claimed, InHand
<1>16. CASE Restart
  BY <1>16 DEF Restart
<1>17. CASE UNCHANGED <<status, attempts, pc, batch, cur, due>>
  BY <1>17 DEF Claimed, InHand
<1> QED
  BY <1>1, <1>2, <1>3, <1>4, <1>6, <1>7, <1>8, <1>9, <1>10, <1>11, <1>12, <1>13, <1>14,
     <1>15, <1>16, <1>17
  DEF Next, SweepStep, RetryStep, Unplug, Sigterm, Crash, Exit, Tick, vars, row, sweep, retry

LEMMA SnapshotsInit == Init => SnapshotsHold
<1> SUFFICES ASSUME Init PROVE SnapshotsHold
  OBVIOUS
<1> USE DEF Init, Inside, Claimed, InHand
<1>1. MutexInv
  BY TriggersAssumption DEF MutexInv
<1>2. SnapshotInv
  BY DEF SnapshotInv
<1>3. DueInv
  BY DEF DueInv
<1>4. WaitingInv
  BY DEF WaitingInv
<1> QED
  BY <1>1, <1>2, <1>3, <1>4 DEF SnapshotsHold

\* The account of copies: Send opens an entry, Mark or Restart closes it.
LEMMA CopiesInit == Init => CopiesAccounted
BY DEF Init, CopiesAccounted, Unrecorded

LEMMA CopiesStep == TypeOK /\ SnapshotsHold /\ CopiesAccounted /\ [Next]_vars => CopiesAccounted'
<1> SUFFICES ASSUME RowTypes, HistoryTypes, ControlTypes, MutexInv, SnapshotInv, DueInv,
                    CopiesAccounted, [Next]_vars,
                    NEW i \in Rows
             PROVE  delivered'[i] = lost'[i]
                      + IF status'[i] = "sent" \/ Unrecorded(i)' THEN 1 ELSE 0
  BY DEF TypeOK, SnapshotsHold, CopiesAccounted
<1> DEFINE Goal == delivered'[i] = lost'[i]
                     + IF status'[i] = "sent" \/ Unrecorded(i)' THEN 1 ELSE 0
<1> USE DEF ControlTypes, Goto
<1>0. delivered[i] = lost[i] + IF status[i] = "sent" \/ Unrecorded(i) THEN 1 ELSE 0
  BY DEF CopiesAccounted
<1>1. ASSUME UNCHANGED <<delivered, lost>>,
             status'[i] = "sent" <=> status[i] = "sent",
             Unrecorded(i)' <=> Unrecorded(i)
      PROVE  Goal
  BY <1>0, <1>1
<1>2. ASSUME NEW s \in Sweepers, pc[s] # "mark",
             UNCHANGED <<cur, result>> \/ \E x, y : /\ cur' = [cur EXCEPT ![s] = x]
                                                  /\ result' = [result EXCEPT ![s] = y],
             NEW place, place # "mark", pc' = [pc EXCEPT ![s] = place]
      PROVE  Unrecorded(i)' <=> Unrecorded(i)
  BY <1>2 DEF Unrecorded
<1>3. ASSUME UNCHANGED <<pc, cur, result>> PROVE Unrecorded(i)' <=> Unrecorded(i)
  BY <1>3 DEF Unrecorded
<1>4. ASSUME NEW t \in Triggers, NEW j \in Rows, CreateOutboxEntry(t, j) PROVE Goal
  <2>1. Unrecorded(i)' <=> Unrecorded(i)
    BY <1>4, <1>2 DEF CreateOutboxEntry, sweep
  <2>2. status'[i] = "sent" <=> status[i] = "sent"
    BY <1>4 DEF CreateOutboxEntry, Insert, RowTypes
  <2> QED
    BY <1>1, <1>4, <2>1, <2>2 DEF CreateOutboxEntry, history
<1>5. ASSUME NEW s \in Sweepers, NEW place, pc[s] # "mark", place # "mark",
             pc' = [pc EXCEPT ![s] = place],
             UNCHANGED <<status, cur, result, delivered, lost>>
      PROVE  Goal
  BY <1>1, <1>2, <1>5
<1>6. ASSUME NEW t \in Triggers, SpawnSweep(t) PROVE Goal
  BY <1>6, <1>5 DEF SpawnSweep, row, sweep, history
<1>7. CASE TickerFires
  BY <1>7, <1>5 DEF TickerFires, row, sweep, history
<1>8. ASSUME NEW s \in Sweepers, Lock(s) PROVE Goal
  BY <1>8, <1>5 DEF Lock, row, sweep, history
<1>9. ASSUME NEW s \in Sweepers, GetPendingOutbox(s) \/ EndSweep(s) PROVE Goal
  BY <1>9, <1>5 DEF GetPendingOutbox, EndSweep, Return, row, history
<1>10. ASSUME NEW s \in Sweepers, NextItem(s) PROVE Goal
  <2>1. UNCHANGED <<status, delivered, lost>>
    BY <1>10, NextItemShape DEF row
  <2>2. Unrecorded(i)' <=> Unrecorded(i)
    BY <1>10, NextItemShape DEF Unrecorded
  <2> QED
    BY <1>1, <2>1, <2>2
<1>11. ASSUME NEW s \in Sweepers, Send(s) PROVE Goal
  <2>1. /\ pc[s] = "send" /\ cur[s] \in Rows
        /\ UNCHANGED <<status, cur>>
    BY <1>11 DEF Send, SnapshotInv, row
  <2>2. \A u \in Sweepers \ {s} : pc[u] # "mark"
    BY <2>1, OneSweep DEF Inside
  <2>3. ~Unrecorded(i)
    BY <2>1, <2>2 DEF Unrecorded
  <2>4. cur[s] = i => status[i] # "sent"
    BY <2>1 DEF SnapshotInv, Claimed, InHand, Open
  <2>5. CASE /\ Arrives(cur[s])
             /\ result' = [result EXCEPT ![s] = "ok"] /\ pc' = [pc EXCEPT ![s] = "mark"]
    <3>1. Unrecorded(i)' <=> cur[s] = i
      BY <2>1, <2>2, <2>5 DEF Unrecorded
    <3> QED
      BY <1>0, <2>1, <2>3, <2>4, <2>5, <3>1 DEF Arrives, HistoryTypes
  <2>6. CASE /\ UNCHANGED <<delivered, lost>> \/ ArrivesUnacknowledged(cur[s])
             /\ result' = [result EXCEPT ![s] = "err"] /\ pc' = [pc EXCEPT ![s] = "mark"]
    <3>1. ~Unrecorded(i)'
      BY <2>1, <2>2, <2>6 DEF Unrecorded
    <3>2. \/ delivered'[i] = delivered[i] /\ lost'[i] = lost[i]
          \/ delivered'[i] = delivered[i] + 1 /\ lost'[i] = lost[i] + 1
      BY <2>1, <2>6 DEF ArrivesUnacknowledged, HistoryTypes
    <3> QED
      BY <1>0, <2>1, <2>3, <3>1, <3>2 DEF HistoryTypes
  <2>7. CASE UNCHANGED <<delivered, lost, result>> /\ pc' = [pc EXCEPT ![s] = "hung"]
    BY <1>5, <2>1, <2>7
  <2> QED
    BY <1>11, <2>5, <2>6, <2>7 DEF Send
<1>12. ASSUME NEW s \in Sweepers, Mark(s) PROVE Goal
  <2>1. /\ pc[s] = "mark" /\ cur[s] \in Rows
        /\ pc' = [pc EXCEPT ![s] = "log"]
        /\ UNCHANGED <<cur, result, delivered>>
    BY <1>12 DEF Mark, SnapshotInv, sweep
  <2>2. \A u \in Sweepers \ {s} : pc[u] # "mark"
    BY <2>1, OneSweep DEF Inside
  <2>3. Unrecorded(i) <=> cur[s] = i /\ result[s] = "ok"
    BY <2>1, <2>2 DEF Unrecorded
  <2>4. ~Unrecorded(i)'
    BY <2>1, <2>2 DEF Unrecorded
  <2>5. cur[s] = i => status[i] # "sent"
    BY <2>1 DEF SnapshotInv, Claimed, InHand, Open
  <2>6. CASE Record(s) /\ UNCHANGED lost
    BY <1>0, <2>1, <2>3, <2>4, <2>5, <2>6 DEF Record, RowTypes
  <2>7. CASE /\ lost' = [lost EXCEPT ![cur[s]] = IF result[s] = "ok" THEN @ + 1 ELSE @]
             /\ UNCHANGED row
    BY <1>0, <2>1, <2>3, <2>4, <2>5, <2>7 DEF row, HistoryTypes
  <2> QED
    BY <1>12, <2>6, <2>7 DEF Mark
<1>13. ASSUME NEW s \in Sweepers, AppendDeliveryLog(s) PROVE Goal
  BY <1>1, <1>2, <1>13 DEF AppendDeliveryLog
<1>14. CASE GetFailedOutbox \/ WorkDone
  BY <1>5, <1>14 DEF GetFailedOutbox, WorkDone, row, sweep, history
<1>15. CASE ResetToPending
  <2>1. status'[i] = "sent" <=> status[i] = "sent"
    BY <1>15 DEF ResetToPending, Reset, row, RowTypes, DueInv
  <2> QED
    BY <1>1, <1>3, <1>15, <2>1 DEF ResetToPending, sweep, history
<1>16. CASE CancelStaleOutbox
  <2>1. status'[i] = "sent" <=> status[i] = "sent"
    BY <1>16 DEF CancelStaleOutbox, StaleRows
  <2> QED
    BY <1>1, <1>3, <1>16, <2>1 DEF CancelStaleOutbox, sweep, history
<1>17. CASE Restart
  <2>1. ~Unrecorded(i)' /\ UNCHANGED <<status, delivered>>
    BY <1>17 DEF Restart, Unrecorded, row
  <2>2. Unrecorded(i) => status[i] # "sent"
    BY DEF Unrecorded, SnapshotInv, Claimed, InHand, Open
  <2> QED
    BY <1>0, <1>17, <2>1, <2>2 DEF Restart, HistoryTypes
<1>18. CASE UNCHANGED <<status, delivered, lost, pc, cur, result>>
  BY <1>1, <1>3, <1>18
<1> QED
  BY <1>4, <1>6, <1>7, <1>8, <1>9, <1>10, <1>11, <1>12, <1>13, <1>14, <1>15, <1>16, <1>17, <1>18
  DEF Next, SweepStep, RetryStep, Unplug, Sigterm, Crash, Exit, Tick, vars, row, sweep, history

\* The inductive invariant.
IInv == TypeOK /\ SnapshotsHold /\ CopiesAccounted

LEMMA IInvInit == Init => IInv
BY TypeInit, SnapshotsInit, CopiesInit DEF IInv

LEMMA IInvStep == IInv /\ [Next]_vars => IInv'
BY TypeStep, MutexStep, SnapshotStep, DueStep, WaitingStep, CopiesStep DEF IInv, SnapshotsHold

\* IInv holds in every reachable state.
THEOREM Invariance == Spec => []IInv
BY IInvInit, IInvStep, PTL DEF Spec

\* No row is ever attempted and recorded more than max_attempts times.
THEOREM TypeCorrect == Spec => []TypeOK
BY Invariance, PTL DEF IInv

\* Sweeps exclude each other, and neither their snapshot nor the retry
\* worker's names a row that was since sent, failed for good or taken by the other.
THEOREM SnapshotsAlwaysHold == Spec => []SnapshotsHold
BY Invariance, PTL DEF IInv

\* Copies received = copies recorded or about to be, plus those whose
\* acknowledgement a fault, a cancelled context or a crash lost.
THEOREM CopiesAlwaysAccounted == Spec => []CopiesAccounted
BY Invariance, PTL DEF IInv

\* The steps that touch a row's status.
LEMMA StatusStep ==
  [Next]_vars => \/ \E t \in Triggers, j \in Rows : CreateOutboxEntry(t, j)
                 \/ \E s \in Sweepers : Mark(s)
                 \/ ResetToPending \/ CancelStaleOutbox
                 \/ UNCHANGED status
BY DEF Next, vars, row, SweepStep, RetryStep, SpawnSweep, TickerFires, Lock, GetPendingOutbox,
       Return, EndSweep, NextItem, Send, AppendDeliveryLog, GetFailedOutbox, WorkDone, Unplug,
       Sigterm, Crash, Exit, Restart, Tick

LEMMA SentStep ==
  ASSUME IInv, [Next]_vars, NEW i \in Rows, status[i] = "sent"
  PROVE  status'[i] = "sent"
<1> USE DEF RowTypes
<1>0. RowTypes /\ SnapshotInv /\ DueInv /\ ControlTypes
  BY DEF IInv, TypeOK, SnapshotsHold
<1>1. ASSUME NEW t \in Triggers, NEW j \in Rows, CreateOutboxEntry(t, j) PROVE status'[i] = "sent"
  BY <1>0, <1>1 DEF CreateOutboxEntry, Insert
<1>2. ASSUME NEW s \in Sweepers, Mark(s) PROVE status'[i] = "sent"
  BY <1>0, <1>2 DEF Mark, Record, row, SnapshotInv, Claimed, InHand, Open
<1>3. CASE ResetToPending
  BY <1>0, <1>3 DEF ResetToPending, Reset, row, DueInv
<1>4. CASE CancelStaleOutbox
  BY <1>4 DEF CancelStaleOutbox, StaleRows
<1>5. CASE UNCHANGED status
  BY <1>5
<1> QED
  BY <1>1, <1>2, <1>3, <1>4, <1>5, StatusStep

\* A row recorded as sent stays so, for any number of goroutines and faults.
THEOREM SentStaysSent == Spec => SentIsFinal
<1>1. IInv /\ [Next]_vars => [\A i \in Rows : status[i] = "sent" => status'[i] = "sent"]_vars
  BY SentStep
<1> QED
  BY <1>1, Invariance, PTL DEF Spec, SentIsFinal

LEMMA ExhaustedStep ==
  ASSUME IInv, [Next]_vars, NEW i \in Rows, status[i] = "failed", attempts[i] = MaxAttempts
  PROVE  status'[i] \in {"failed", "cancelled"}
<1> USE DEF RowTypes
<1>0. RowTypes /\ SnapshotInv /\ DueInv /\ ControlTypes
  BY DEF IInv, TypeOK, SnapshotsHold
<1>1. ASSUME NEW t \in Triggers, NEW j \in Rows, CreateOutboxEntry(t, j)
      PROVE  status'[i] \in {"failed", "cancelled"}
  BY <1>0, <1>1 DEF CreateOutboxEntry, Insert
<1>2. ASSUME NEW s \in Sweepers, Mark(s) PROVE status'[i] \in {"failed", "cancelled"}
  <2>1. cur[s] # i
    BY <1>0, <1>2 DEF Mark, SnapshotInv, Claimed, InHand, Open
  <2> QED
    BY <1>0, <1>2, <2>1 DEF Mark, Record, row
<1>3. CASE ResetToPending
  <2>1. i \notin due
    BY <1>0, AttemptsAssumption DEF DueInv
  <2> QED
    BY <1>0, <1>3, <2>1 DEF ResetToPending, Reset, row
<1>4. CASE CancelStaleOutbox
  BY <1>4 DEF CancelStaleOutbox
<1>5. CASE UNCHANGED status
  BY <1>5
<1> QED
  BY <1>1, <1>2, <1>3, <1>4, <1>5, StatusStep

\* A row that has used up max_attempts is never pending or sent again.
THEOREM ExhaustedStaysExhausted == Spec => ExhaustedIsFinal
<1>1. IInv /\ [Next]_vars =>
        [\A i \in Rows : status[i] = "failed" /\ attempts[i] = MaxAttempts
                         => status'[i] \in {"failed", "cancelled"}]_vars
  BY ExhaustedStep
<1> QED
  BY <1>1, Invariance, PTL DEF Spec, ExhaustedIsFinal

LEMMA CopyStep ==
  ASSUME IInv, [Next]_vars, NEW i \in Rows, delivered'[i] > delivered[i]
  PROVE  Open(i)
<1>0. HistoryTypes /\ SnapshotInv
  BY DEF IInv, TypeOK, SnapshotsHold
<1>1. ASSUME NEW s \in Sweepers, Send(s) PROVE Open(i)
  <2>1. delivered' = delivered \/ delivered' = [delivered EXCEPT ![cur[s]] = @ + 1]
    BY <1>1 DEF Send, Arrives, ArrivesUnacknowledged
  <2>2. cur[s] = i
    <3>1. cur[s] # i => delivered'[i] = delivered[i]
      BY <1>0, <2>1 DEF HistoryTypes
    <3>2. delivered[i] \in Nat
      BY <1>0 DEF HistoryTypes
    <3> QED
      BY <3>1, <3>2
  <2> QED
    BY <1>0, <1>1, <2>2 DEF Send, SnapshotInv, Claimed, InHand
<1>2. CASE UNCHANGED delivered
  BY <1>0, <1>2 DEF HistoryTypes
<1> QED
  BY <1>1, <1>2
  DEF Next, vars, history, SweepStep, RetryStep, CreateOutboxEntry, SpawnSweep, TickerFires, Lock,
      GetPendingOutbox, Return, EndSweep, NextItem, Mark, AppendDeliveryLog, GetFailedOutbox,
      ResetToPending, WorkDone, CancelStaleOutbox, Unplug, Sigterm, Crash, Exit, Restart, Tick

\* No copy goes out for a row whose success or final failure is recorded.
THEOREM NoCopyOnceSettled == Spec => NoCopyForSettledRows
<1>1. IInv /\ [Next]_vars =>
        [\A i \in Rows : delivered'[i] > delivered[i] => Open(i)]_vars
  BY CopyStep
<1> QED
  BY <1>1, Invariance, PTL DEF Spec, NoCopyForSettledRows

\* What delivery_log says of a row's newest attempt, unless a fault kept it from
\* being written: no more recent than that attempt, and nothing before the first.
LoggedInv ==
  \A i \in Rows :
    i \notin unlogged => IF logAge[i] = NoLog THEN tryAge[i] = AgeCap ELSE logAge[i] <= tryAge[i]

\* A row marked failed has counted the attempt that failed.
FailedInv == \A i \in Rows : status[i] = "failed" => attempts[i] >= 1

SpacedInv == LoggedInv /\ FailedInv

LEMMA SpacedInit == Init => SpacedInv
BY DEF Init, SpacedInv, LoggedInv, FailedInv, NoLog

LEMMA LoggedStep == IInv /\ LoggedInv /\ [Next]_vars => LoggedInv'
<1> SUFFICES ASSUME RowTypes, HistoryTypes, ControlTypes, SnapshotInv, LoggedInv, [Next]_vars
             PROVE  LoggedInv'
  BY DEF IInv, TypeOK, SnapshotsHold
<1> USE DEF LoggedInv, NoLog
<1>0. ASSUME NEW i \in Rows, Attempted(i), UNCHANGED logAge PROVE LoggedInv'
  BY <1>0 DEF Attempted, HistoryTypes
<1>1. ASSUME NEW s \in Sweepers, NextItem(s) PROVE LoggedInv'
  <2>1. UNCHANGED logAge
    BY <1>1 DEF NextItem, row
  <2>2. UNCHANGED <<tryAge, unlogged>> \/ \E i \in Rows : Attempted(i)
    BY <1>1 DEF NextItem, Oldest, ControlTypes
  <2> QED
    BY <1>0, <2>1, <2>2
<1>2. ASSUME NEW s \in Sweepers, Send(s) PROVE LoggedInv'
  <2>1. cur[s] \in Rows /\ UNCHANGED logAge
    BY <1>2 DEF Send, SnapshotInv, row
  <2>2. UNCHANGED <<tryAge, unlogged>> \/ Attempted(cur[s])
    BY <1>2 DEF Send
  <2> QED
    BY <1>0, <2>1, <2>2
<1>3. ASSUME NEW s \in Sweepers, AppendDeliveryLog(s) PROVE LoggedInv'
  <2>1. UNCHANGED tryAge
    BY <1>3 DEF AppendDeliveryLog
  <2>2. \/ logAge' = [logAge EXCEPT ![cur[s]] = 0] /\ unlogged' = unlogged \ {cur[s]}
        \/ UNCHANGED <<logAge, unlogged>>
    BY <1>3 DEF AppendDeliveryLog
  <2>3. \A i \in Rows : tryAge[i] >= 0
    BY TimeAssumption DEF HistoryTypes
  <2>4. CASE logAge' = [logAge EXCEPT ![cur[s]] = 0] /\ unlogged' = unlogged \ {cur[s]}
    <3> SUFFICES ASSUME NEW i \in Rows, i \notin unlogged'
                 PROVE  IF logAge'[i] = -1 THEN tryAge'[i] = AgeCap ELSE logAge'[i] <= tryAge'[i]
      OBVIOUS
    <3>1. CASE i = cur[s]
      BY <2>1, <2>3, <2>4, <3>1 DEF RowTypes
    <3>2. CASE i # cur[s]
      BY <2>1, <2>4, <3>2 DEF RowTypes
    <3> QED
      BY <3>1, <3>2
  <2> QED
    BY <2>1, <2>2, <2>4
<1>4. CASE Tick
  <2>1. \A a, b \in 0..AgeCap : a <= b => Older(a) <= Older(b) /\ Older(a) >= 0
    BY TimeAssumption DEF Older
  <2>2. Older(AgeCap) = AgeCap
    BY TimeAssumption DEF Older
  <2>3. \A i \in Rows : /\ logAge'[i] = IF logAge[i] = NoLog THEN NoLog ELSE Older(logAge[i])
                        /\ tryAge'[i] = Older(tryAge[i])
    BY <1>4 DEF Tick
  <2>4. UNCHANGED unlogged
    BY <1>4 DEF Tick
  <2> QED
    BY <2>1, <2>2, <2>3, <2>4 DEF RowTypes, HistoryTypes
<1>5. CASE UNCHANGED <<logAge, tryAge, unlogged>>
  BY <1>5
<1>6. Next => \/ \E s \in Sweepers : NextItem(s) \/ Send(s) \/ AppendDeliveryLog(s)
              \/ Tick
              \/ UNCHANGED <<logAge, tryAge, unlogged>>
  BY DEF Next, row, history, SweepStep, RetryStep, CreateOutboxEntry, Insert, SpawnSweep,
         TickerFires, Lock, GetPendingOutbox, Return, EndSweep, Mark, Record, GetFailedOutbox,
         ResetToPending, Reset, WorkDone, CancelStaleOutbox, Unplug, Sigterm, Crash, Exit, Restart
<1> QED
  BY <1>1, <1>2, <1>3, <1>4, <1>5, <1>6 DEF vars, row, history

LEMMA FailedStep == IInv /\ FailedInv /\ [Next]_vars => FailedInv'
<1> SUFFICES ASSUME RowTypes, SnapshotInv, FailedInv, [Next]_vars
             PROVE  FailedInv'
  BY DEF IInv, TypeOK, SnapshotsHold
<1> USE DEF FailedInv, RowTypes
<1>1. ASSUME NEW t \in Triggers, NEW i \in Rows, CreateOutboxEntry(t, i) PROVE FailedInv'
  BY <1>1 DEF CreateOutboxEntry, Insert
<1>2. ASSUME NEW s \in Sweepers, Mark(s) PROVE FailedInv'
  <2>1. cur[s] \in Rows /\ attempts[cur[s]] + 1 >= 1
    BY <1>2 DEF Mark, SnapshotInv
  <2> QED
    BY <1>2, <2>1 DEF Mark, Record, row
<1>3. CASE ResetToPending
  BY <1>3 DEF ResetToPending, Reset, row
<1>4. CASE CancelStaleOutbox
  BY <1>4 DEF CancelStaleOutbox
<1>5. CASE UNCHANGED <<status, attempts>>
  BY <1>5
<1> QED
  BY <1>1, <1>2, <1>3, <1>4, <1>5
  DEF Next, vars, row, SweepStep, RetryStep, SpawnSweep, TickerFires, Lock, GetPendingOutbox, Return,
      EndSweep, NextItem, Send, AppendDeliveryLog, GetFailedOutbox, WorkDone, Unplug, Sigterm,
      Crash, Exit, Restart, Tick

\* A row enters the retry worker's list only when its log is old enough, and so
\* is the attempt the log tells of.
LEMMA DueOnlyLate ==
  ASSUME IInv, SpacedInv, [Next]_vars, NEW i \in due' \ due, i \notin unlogged
  PROVE  tryAge[i] >= CappedPower(attempts[i], BaseInterval, MaxBackoff)
<1>0. RowTypes /\ HistoryTypes /\ ControlTypes /\ LoggedInv /\ FailedInv
  BY DEF IInv, TypeOK, SpacedInv
<1>1. due' = due \/ due' \subseteq due \/ due' = DueRows
  BY DEF Next, vars, retry, SweepStep, RetryStep, CreateOutboxEntry, SpawnSweep, TickerFires, Lock,
         GetPendingOutbox, Return, EndSweep, NextItem, Send, Mark, AppendDeliveryLog,
         GetFailedOutbox, ResetToPending, WorkDone, CancelStaleOutbox, Unplug, Sigterm, Crash,
         Exit, Restart, Tick
<1>2. i \in DueRows
  BY <1>1
<1>3. /\ i \in Rows /\ status[i] = "failed"
      /\ SinceLastAttempt(i) >= RetryBackoff(attempts[i], BaseInterval, MaxBackoff)
  BY <1>2 DEF DueRows, Retryable
<1>4. attempts[i] \in Nat /\ attempts[i] >= 1
  BY <1>0, <1>3, AttemptsAssumption DEF FailedInv, RowTypes
<1>5. SinceLastAttempt(i) \in Nat /\ tryAge[i] \in Nat /\ SinceLastAttempt(i) <= tryAge[i]
  BY <1>0, <1>3, TimeAssumption DEF SinceLastAttempt, LoggedInv, RowTypes, HistoryTypes, NoLog
<1>6. /\ RetryBackoff(attempts[i], BaseInterval, MaxBackoff) \in Nat
      /\ RetryBackoff(attempts[i], BaseInterval, MaxBackoff)
           >= CappedPower(attempts[i], BaseInterval, MaxBackoff)
  BY <1>4, RetryBackoffSuffices, TimeAssumption
<1>7. CappedPower(attempts[i], BaseInterval, MaxBackoff) \in Nat
  <2>1. CappedPower(attempts[i], BaseInterval, MaxBackoff) \in 0..MaxBackoff
    BY <1>4, CappedIs, TimeAssumption
  <2> QED
    BY <2>1, TimeAssumption
<1> QED
  BY <1>3, <1>5, <1>6, <1>7

\* The retry worker never takes a row before base * 2^(attempts-1), capped, has
\* passed since the attempt itself, for every base, cap and max_attempts; only a
\* row whose log entry was refused may come earlier.
THEOREM RetriesAfterBackoff == Spec => DueAfterBackoff
<1>1. IInv /\ SpacedInv /\ [Next]_vars => SpacedInv'
  BY LoggedStep, FailedStep DEF SpacedInv
<1>2. IInv /\ SpacedInv /\ [Next]_vars =>
        [\A i \in due' \ due :
           i \in unlogged \/ tryAge[i] >= CappedPower(attempts[i], BaseInterval, MaxBackoff)]_vars
  BY DueOnlyLate
<1>3. Spec => []SpacedInv
  BY <1>1, SpacedInit, Invariance, PTL DEF Spec
<1> QED
  BY <1>2, <1>3, Invariance, PTL DEF Spec, DueAfterBackoff
-------------------------------------------------------------------------------
(* Outbox implements Delivery under the mapping that Promise states: the   *)
(* retry worker's round trip failed -> pending is invisible, a copy counts *)
(* when its outcome is recorded or can no longer be.                       *)

MState  == [i \in Rows |-> PromisedState(i)]
MCopies == [i \in Rows |-> IF Unrecorded(i) THEN delivered[i] - 1 ELSE delivered[i]]

\* The mapped variables, kept when the columns they come from are.
LEMMA PromiseVars ==
  ASSUME MState' = MState, attempts' = attempts, MCopies' = MCopies
  PROVE  UNCHANGED Promise!vars
BY DEF MState, MCopies, Promise!vars

LEMMA StateKept ==
  ASSUME UNCHANGED <<status, attempts>>
  PROVE  MState' = MState
BY DEF MState, PromisedState

\* Copies are counted the same when the same are unrecorded.
LEMMA CopiesKept ==
  ASSUME UNCHANGED delivered, \A i \in Rows : Unrecorded(i)' <=> Unrecorded(i)
  PROVE  MCopies' = MCopies
BY DEF MCopies

\* A goroutine that neither is at nor gets to the UPDATE changes nothing there.
LEMMA UnrecordedKept ==
  ASSUME ControlTypes,
         NEW s \in Sweepers, pc[s] # "mark",
         NEW place, pc' = [pc EXCEPT ![s] = place],
         place # "mark",
         \A u \in Sweepers \ {s} : cur'[u] = cur[u] /\ result'[u] = result[u]
  PROVE  \A i \in Rows : Unrecorded(i)' <=> Unrecorded(i)
BY DEF Unrecorded, ControlTypes

LEMMA UnrecordedUnmoved ==
  ASSUME UNCHANGED <<pc, cur, result>>
  PROVE  \A i \in Rows : Unrecorded(i)' <=> Unrecorded(i)
BY DEF Unrecorded

LEMMA QuietStep ==
  ASSUME ControlTypes, UNCHANGED <<status, attempts, delivered>>,
         NEW s \in Sweepers, pc[s] # "mark",
         NEW place, pc' = [pc EXCEPT ![s] = place],
         place # "mark",
         \A u \in Sweepers \ {s} : cur'[u] = cur[u] /\ result'[u] = result[u]
  PROVE  UNCHANGED Promise!vars
BY StateKept, CopiesKept, UnrecordedKept, PromiseVars

\* Only the holder of the mutex can have an unrecorded copy.
LEMMA OneUnrecorded ==
  ASSUME IInv, NEW i \in Rows, NEW j \in Rows, Unrecorded(i), Unrecorded(j)
  PROVE  i = j
BY DEF IInv, SnapshotsHold, MutexInv, Inside, Unrecorded

LEMMA UnrecordedOpen ==
  ASSUME IInv, NEW i \in Rows, Unrecorded(i)
  PROVE  Open(i)
BY DEF IInv, SnapshotsHold, SnapshotInv, Claimed, InHand, Unrecorded

\* The recipient has one copy more that nothing will record.
LEMMA LosesAck ==
  ASSUME IInv, NEW i \in Rows, Open(i),
         UNCHANGED <<status, attempts>>,
         \A j \in Rows : MCopies'[j] = IF j = i THEN MCopies[j] + 1 ELSE MCopies[j]
  PROVE  Promise!LoseAck(i)
<1>0. MCopies' = [MCopies EXCEPT ![i] = @ + 1]
  BY DEF MCopies
<1>1. MState[i] \in {"owed", "cancelled"}
  BY DEF Open, MState, PromisedState
<1>2. MState' = MState
  BY StateKept
<1> QED
  BY <1>0, <1>1, <1>2 DEF Promise!LoseAck, MState, MCopies

\* A Send is invisible unless its acknowledgement is lost.
LEMMA SendStep ==
  ASSUME IInv, NEW s \in Sweepers, Send(s), NEW i \in Rows, i = cur[s]
  PROVE  Promise!LoseAck(i) \/ UNCHANGED Promise!vars
<1> USE DEF Goto
<1>0. ControlTypes /\ HistoryTypes /\ MutexInv /\ SnapshotInv
  BY DEF IInv, TypeOK, SnapshotsHold
<1>1. /\ pc[s] = "send" /\ cur[s] \in Rows
      /\ UNCHANGED <<status, attempts, cur>>
  BY <1>0 DEF Send, SnapshotInv, row
<1>2. \A u \in Sweepers \ {s} : pc[u] # "mark"
  BY <1>0, <1>1, OneSweep DEF Inside
<1>3. Open(i)
  BY <1>0, <1>1 DEF SnapshotInv, Claimed, InHand
<1>4. \A j \in Rows : ~Unrecorded(j)
  BY <1>1, <1>2 DEF Unrecorded
<1>5. CASE Arrives(cur[s]) /\ result' = [result EXCEPT ![s] = "ok"] /\ pc' = [pc EXCEPT ![s] = "mark"]
  <2>1. \A j \in Rows : Unrecorded(j)' <=> j = i
    BY <1>0, <1>1, <1>2, <1>5 DEF Unrecorded, ControlTypes
  <2>2. \A j \in Rows : delivered'[j] = IF j = i THEN delivered[j] + 1 ELSE delivered[j]
    BY <1>0, <1>1, <1>5 DEF Arrives, HistoryTypes
  <2>3. MCopies' = MCopies
    BY <1>0, <1>4, <2>1, <2>2 DEF MCopies, HistoryTypes
  <2> QED
    BY <1>1, <2>3, StateKept, PromiseVars
<1>6. CASE /\ UNCHANGED <<delivered, lost>>
           /\ result' = [result EXCEPT ![s] = "err"] /\ pc' = [pc EXCEPT ![s] = "mark"]
  <2>1. \A j \in Rows : ~Unrecorded(j)'
    BY <1>0, <1>1, <1>2, <1>6 DEF Unrecorded, ControlTypes
  <2> QED
    BY <1>1, <1>4, <1>6, <2>1, StateKept, CopiesKept, PromiseVars
<1>7. CASE /\ ArrivesUnacknowledged(cur[s])
           /\ result' = [result EXCEPT ![s] = "err"] /\ pc' = [pc EXCEPT ![s] = "mark"]
  <2>1. \A j \in Rows : ~Unrecorded(j)'
    BY <1>0, <1>1, <1>2, <1>7 DEF Unrecorded, ControlTypes
  <2>2. delivered' = [delivered EXCEPT ![i] = @ + 1]
    BY <1>7 DEF ArrivesUnacknowledged
  <2>3. MCopies = delivered /\ MCopies' = delivered'
    BY <1>0, <1>1, <1>4, <2>1, <2>2 DEF MCopies, HistoryTypes
  <2>4. \A j \in Rows : MCopies'[j] = IF j = i THEN MCopies[j] + 1 ELSE MCopies[j]
    BY <1>0, <1>1, <2>2, <2>3 DEF HistoryTypes
  <2> QED
    BY <1>1, <1>3, <2>4, LosesAck
<1>8. CASE UNCHANGED <<delivered, result>> /\ pc' = [pc EXCEPT ![s] = "hung"]
  BY <1>0, <1>1, <1>8, QuietStep
<1> QED
  BY <1>5, <1>6, <1>7, <1>8 DEF Send

\* The UPDATE after a Send is the promised delivery or refusal; when it fails
\* after a success, the acknowledgement is lost there.
LEMMA MarkStep ==
  ASSUME IInv, NEW s \in Sweepers, Mark(s), NEW i \in Rows, i = cur[s]
  PROVE  \/ Promise!Deliver(i) \/ Promise!Refuse(i)
         \/ Promise!LoseAck(i) \/ UNCHANGED Promise!vars
<1> USE DEF Goto
<1>0. RowTypes /\ ControlTypes /\ HistoryTypes /\ MutexInv /\ SnapshotInv
  BY DEF IInv, TypeOK, SnapshotsHold
<1>1. /\ pc[s] = "mark" /\ cur[s] \in Rows
      /\ pc' = [pc EXCEPT ![s] = "log"]
      /\ UNCHANGED <<cur, result, delivered>>
  BY <1>0 DEF Mark, SnapshotInv, sweep
<1>2. \A u \in Sweepers \ {s} : pc[u] # "mark"
  BY <1>0, <1>1, OneSweep DEF Inside
<1>3. Open(i)
  BY <1>0, <1>1 DEF SnapshotInv, Claimed, InHand
<1>4. \A j \in Rows : Unrecorded(j) <=> j = i /\ result[s] = "ok"
  BY <1>1, <1>2 DEF Unrecorded
<1>5. \A j \in Rows : ~Unrecorded(j)'
  BY <1>0, <1>1, <1>2 DEF Unrecorded, ControlTypes
<1>6. MState[i] \in {"owed", "cancelled"} /\ attempts[i] < MaxAttempts
  BY <1>1, <1>3 DEF MState, PromisedState, Open
<1>7. result[s] = "ok" =>
        \A j \in Rows : MCopies'[j] = IF j = i THEN MCopies[j] + 1 ELSE MCopies[j]
  BY <1>0, <1>1, <1>4, <1>5 DEF MCopies, HistoryTypes
<1>8. result[s] # "ok" => MCopies' = MCopies
  BY <1>1, <1>4, <1>5, CopiesKept
<1>9. CASE UNCHANGED row
  <2>1. CASE result[s] = "ok"
    BY <1>1, <1>3, <1>7, <1>9, <2>1, LosesAck DEF row
  <2>2. CASE result[s] # "ok"
    BY <1>8, <1>9, <2>2, StateKept, PromiseVars DEF row
  <2> QED
    BY <2>1, <2>2
<1>10. CASE Record(s)
  <2>1. attempts' = [attempts EXCEPT ![i] = @ + 1]
    BY <1>10 DEF Record
  <2>2. CASE result[s] = "ok"
    <3>1. MState' = [MState EXCEPT ![i] = "sent"]
      BY <1>0, <1>1, <1>10, <2>2 DEF Record, MState, PromisedState, RowTypes
    <3>2. MCopies' = [MCopies EXCEPT ![i] = @ + 1]
      BY <1>7, <2>2 DEF MCopies
    <3> QED
      BY <1>6, <2>1, <3>1, <3>2 DEF Promise!Deliver, Promise!Attempt, MState, MCopies
  <2>3. CASE result[s] # "ok"
    <3>1. MState' = [MState EXCEPT ![i] =
                       IF attempts[i] + 1 < MaxAttempts THEN "owed" ELSE "exhausted"]
      BY <1>0, <1>1, <1>10, <2>3 DEF Record, MState, PromisedState, RowTypes
    <3> QED
      BY <1>6, <1>8, <2>1, <2>3, <3>1 DEF Promise!Refuse, Promise!Attempt, MState, MCopies
  <2> QED
    BY <2>2, <2>3
<1> QED
  BY <1>9, <1>10 DEF Mark

\* A crash or exit loses at most one acknowledgement.
LEMMA RestartStep ==
  ASSUME IInv, Restart
  PROVE  (\E i \in Rows : Promise!LoseAck(i)) \/ UNCHANGED Promise!vars
<1>0. HistoryTypes
  BY DEF IInv, TypeOK
<1>1. /\ \A i \in Rows : ~Unrecorded(i)'
      /\ UNCHANGED <<status, attempts, delivered>>
  BY DEF Restart, Unrecorded, row
<1>2. CASE \E i \in Rows : Unrecorded(i)
  <2>1. PICK i \in Rows : Unrecorded(i)
    BY <1>2
  <2>2. \A j \in Rows : Unrecorded(j) <=> j = i
    BY <2>1, OneUnrecorded
  <2>3. \A j \in Rows : MCopies'[j] = IF j = i THEN MCopies[j] + 1 ELSE MCopies[j]
    BY <1>0, <1>1, <2>2 DEF MCopies, HistoryTypes
  <2> QED
    BY <1>1, <2>1, <2>3, UnrecordedOpen, LosesAck
<1>3. CASE ~\E i \in Rows : Unrecorded(i)
  BY <1>1, <1>3, StateKept, CopiesKept, PromiseVars
<1> QED
  BY <1>2, <1>3

LEMMA RowStep ==
  ASSUME IInv, UNCHANGED <<pc, cur, result, delivered>>, UNCHANGED attempts
  PROVE  MCopies' = MCopies
BY UnrecordedUnmoved, CopiesKept

\* A reset is invisible, or revives a row that startup has cancelled meanwhile.
LEMMA ResetStep ==
  ASSUME IInv, ResetToPending
  PROVE  (\E i \in Rows : Promise!Revive(i)) \/ UNCHANGED Promise!vars
<1>0. RowTypes /\ DueInv /\ due \subseteq Rows
  BY DEF IInv, TypeOK, SnapshotsHold, ControlTypes
<1>1. PICK i \in due : UNCHANGED row \/ Reset(i)
  BY DEF ResetToPending
<1>2. i \in Rows /\ status[i] \in {"failed", "cancelled"} /\ attempts[i] < MaxAttempts
  BY <1>0 DEF DueInv
<1>3. MCopies' = MCopies
  BY <1>1, RowStep DEF ResetToPending, Reset, row, sweep, history
<1>4. CASE UNCHANGED row
  BY <1>3, <1>4, StateKept, PromiseVars DEF row
<1>5. CASE Reset(i) /\ status[i] = "failed"
  <2>1. MState' = MState
    BY <1>0, <1>2, <1>5 DEF Reset, MState, PromisedState, RowTypes
  <2> QED
    BY <1>3, <1>5, <2>1, PromiseVars DEF Reset
<1>6. CASE Reset(i) /\ status[i] = "cancelled"
  <2>1. MState[i] = "cancelled" /\ MState' = [MState EXCEPT ![i] = "owed"]
    BY <1>0, <1>2, <1>6 DEF Reset, MState, PromisedState, RowTypes
  <2>2. Promise!Revive(i)
    BY <1>2, <1>3, <1>6, <2>1 DEF Promise!Revive, Reset, MState, MCopies
  <2> QED
    BY <1>2, <2>2
<1> QED
  BY <1>1, <1>2, <1>4, <1>5, <1>6

\* Startup cancellation expires the stale rows.
LEMMA ExpireStep ==
  ASSUME IInv, CancelStaleOutbox
  PROVE  (\E S \in SUBSET Rows : Promise!Expire(S)) \/ UNCHANGED Promise!vars
<1>1. MCopies' = MCopies /\ attempts' = attempts
  BY RowStep DEF CancelStaleOutbox, sweep, history
<1>2. CASE UNCHANGED status
  BY <1>1, <1>2, StateKept, PromiseVars
<1>3. CASE status' = [i \in Rows |-> IF i \in StaleRows THEN "cancelled" ELSE status[i]]
  <2>1. StaleRows \in SUBSET Rows
    BY DEF StaleRows
  <2>2. \A i \in StaleRows : MState[i] \in {"owed", "exhausted"}
    BY DEF StaleRows, MState, PromisedState
  <2>3. MState' = [i \in Rows |-> IF i \in StaleRows THEN "cancelled" ELSE MState[i]]
    BY <1>1, <1>3 DEF MState, PromisedState
  <2>4. Promise!Expire(StaleRows)
    BY <1>1, <2>2, <2>3 DEF Promise!Expire, MState, MCopies
  <2> QED
    BY <2>1, <2>4
<1> QED
  BY <1>2, <1>3 DEF CancelStaleOutbox

\* The INSERT accepts the row.
LEMMA AcceptStep ==
  ASSUME IInv, NEW t \in Triggers, NEW i \in Rows, CreateOutboxEntry(t, i)
  PROVE  Promise!Accept(i)
<1>0. RowTypes /\ ControlTypes
  BY DEF IInv, TypeOK
<1>1. /\ status[i] = "absent"
      /\ status' = [status EXCEPT ![i] = "pending"]
      /\ UNCHANGED <<attempts, delivered, cur, result>>
      /\ pc[t] # "mark" /\ pc' = [pc EXCEPT ![t] = "enqueue"]
  BY DEF CreateOutboxEntry, Insert, Goto, history, sweep
<1>2. MState[i] = "none" /\ MState' = [MState EXCEPT ![i] = "owed"]
  BY <1>0, <1>1 DEF MState, PromisedState, RowTypes
<1>3. \A j \in Rows : Unrecorded(j)' <=> Unrecorded(j)
  <2>1. t \in Sweepers
    BY DEF Sweepers
  <2> QED
    BY <1>0, <1>1, <2>1, UnrecordedKept
<1>4. MCopies' = MCopies
  BY <1>1, <1>3, CopiesKept
<1> QED
  BY <1>1, <1>2, <1>4 DEF Promise!Accept, MState, MCopies

\* The refinement: initial states, and every step.
LEMMA PromiseInit == Init => Promise!Init
BY DEF Init, Promise!Init, PromisedState, Unrecorded

LEMMA PromiseStep == IInv /\ [Next]_vars => [Promise!Next]_(Promise!vars)
<1> SUFFICES ASSUME IInv, [Next]_vars PROVE [Promise!Next]_(Promise!vars)
  OBVIOUS
<1> USE DEF Goto
<1>0. ControlTypes /\ SnapshotInv
  BY DEF IInv, TypeOK, SnapshotsHold
<1>1. ASSUME NEW t \in Triggers, NEW i \in Rows, CreateOutboxEntry(t, i) PROVE Promise!Next
  <2>1. Promise!Accept(i)
    BY <1>1, AcceptStep
  <2> QED
    BY <2>1 DEF Promise!Next
<1>2. ASSUME NEW t \in Triggers, SpawnSweep(t) PROVE UNCHANGED Promise!vars
  <2>1. t \in Sweepers
    BY DEF Sweepers
  <2>2. pc[t] # "mark" /\ pc' = [pc EXCEPT ![t] = "lock"] /\ UNCHANGED <<cur, result>>
    BY <1>2 DEF SpawnSweep, sweep
  <2>3. UNCHANGED <<status, attempts, delivered>>
    BY <1>2 DEF SpawnSweep, row, history
  <2>4. \A i \in Rows : Unrecorded(i)' <=> Unrecorded(i)
    BY <1>0, <2>1, <2>2 DEF Unrecorded, ControlTypes
  <2> QED
    BY <2>3, <2>4, StateKept, CopiesKept, PromiseVars
<1>3. CASE TickerFires
  BY <1>0, <1>3, QuietStep DEF TickerFires, row, sweep, history, Sweepers
<1>4. ASSUME NEW s \in Sweepers, Lock(s) PROVE UNCHANGED Promise!vars
  BY <1>0, <1>4, QuietStep DEF Lock, row, sweep, history
<1>5. ASSUME NEW s \in Sweepers, GetPendingOutbox(s) \/ EndSweep(s) PROVE UNCHANGED Promise!vars
  BY <1>0, <1>5, QuietStep DEF GetPendingOutbox, EndSweep, Return, row, history
<1>6. ASSUME NEW s \in Sweepers, NextItem(s) PROVE UNCHANGED Promise!vars
  <2>1. UNCHANGED <<status, attempts, delivered>>
    BY <1>0, <1>6, NextItemShape DEF row
  <2>2. \A i \in Rows : Unrecorded(i)' <=> Unrecorded(i)
    BY <1>0, <1>6, NextItemShape DEF Unrecorded, ControlTypes
  <2> QED
    BY <2>1, <2>2, StateKept, CopiesKept, PromiseVars
<1>7. ASSUME NEW s \in Sweepers, Send(s) PROVE [Promise!Next]_(Promise!vars)
  <2>1. cur[s] \in Rows
    BY <1>0, <1>7 DEF Send, SnapshotInv
  <2>2. PICK i \in Rows : i = cur[s]
    BY <2>1
  <2>3. Promise!LoseAck(i) \/ UNCHANGED Promise!vars
    BY <1>7, <2>2, SendStep
  <2> QED
    BY <2>3 DEF Promise!Next
<1>8. ASSUME NEW s \in Sweepers, Mark(s) PROVE [Promise!Next]_(Promise!vars)
  <2>1. cur[s] \in Rows
    BY <1>0, <1>8 DEF Mark, SnapshotInv
  <2>2. PICK i \in Rows : i = cur[s]
    BY <2>1
  <2>3. \/ Promise!Deliver(i) \/ Promise!Refuse(i)
        \/ Promise!LoseAck(i) \/ UNCHANGED Promise!vars
    BY <1>8, <2>2, MarkStep
  <2> QED
    BY <2>3 DEF Promise!Next
<1>9. ASSUME NEW s \in Sweepers, AppendDeliveryLog(s) PROVE UNCHANGED Promise!vars
  <2>1. /\ pc[s] = "log" /\ pc' = [pc EXCEPT ![s] = "next"]
        /\ cur' = [cur EXCEPT ![s] = NoRow] /\ result' = [result EXCEPT ![s] = "none"]
        /\ UNCHANGED <<status, attempts, delivered>>
    BY <1>9 DEF AppendDeliveryLog
  <2>2. \A i \in Rows : Unrecorded(i)' <=> Unrecorded(i)
    BY <1>0, <2>1 DEF Unrecorded, ControlTypes
  <2>3. UNCHANGED <<status, attempts, delivered>>
    BY <2>1
  <2> QED
    BY <2>2, <2>3, StateKept, CopiesKept, PromiseVars
<1>10. CASE GetFailedOutbox \/ WorkDone
  <2>1. "retry" \in Sweepers
    BY DEF Sweepers
  <2>2. /\ pc["retry"] # "mark"
        /\ \E place : place # "mark" /\ pc' = [pc EXCEPT !["retry"] = place]
    BY <1>10 DEF GetFailedOutbox, WorkDone
  <2>3. UNCHANGED <<status, attempts, delivered>> /\ UNCHANGED <<cur, result>>
    BY <1>10 DEF GetFailedOutbox, WorkDone, row, sweep, history
  <2> QED
    BY <1>0, <2>1, <2>2, <2>3, QuietStep
<1>11. CASE ResetToPending
  BY <1>11, ResetStep DEF Promise!Next
<1>12. CASE CancelStaleOutbox
  BY <1>12, ExpireStep DEF Promise!Next
<1>13. CASE Restart
  BY <1>13, RestartStep DEF Promise!Next
<1>14. CASE UNCHANGED <<status, attempts, delivered, pc, cur, result>>
  BY <1>14, RowStep, StateKept, PromiseVars
<1> QED
  BY <1>1, <1>2, <1>3, <1>4, <1>5, <1>6, <1>7, <1>8, <1>9, <1>10, <1>11, <1>12, <1>13, <1>14
  DEF Next, SweepStep, RetryStep, Unplug, Sigterm, Crash, Exit, Tick, vars, row, sweep, history

\* Outbox implements Delivery: whatever the sweeps, the retry worker, faults and
\* restarts do, a row goes through the promised states only.
THEOREM OutboxKeepsPromise == Spec => KeepsPromise
BY PromiseInit, PromiseStep, Invariance, PTL DEF Spec, KeepsPromise, Promise!Spec
===============================================================================
