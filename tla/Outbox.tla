-------------------------------- MODULE Outbox --------------------------------
(***************************************************************************)
(* The outbox and everything that touches it: the SQLite rows (internal/db *)
(* outbox.go), the dispatcher sweeps that deliver them (dispatcher.go),    *)
(* the retry worker that reschedules failed ones (retry.go), and from      *)
(* cmd/abb/main.go the startup cancellation of stale rows, the goroutines  *)
(* that saveAndEnqueue starts and the contexts that main cancels.          *)
(*                                                                         *)
(* Sweepers are goroutines: the dispatcher's ticker, the retry worker, and *)
(* one per saveAndEnqueue call.  A step is what happens between two points *)
(* where another goroutine can be seen to act: one SQL statement (the      *)
(* database has a single connection), one Send, or taking the mutex.       *)
(* Releasing the mutex is local to the step that precedes it.              *)
(*                                                                         *)
(* delivered, lost, tryAge and unlogged are history: no action reads them  *)
(* to decide anything.                                                     *)
(***************************************************************************)
EXTENDS Integers, FiniteSets, Backoff

CONSTANTS
  NRows,          \* outbox rows that are ever inserted (bound)
  Unrouted,       \* rows whose channel has no registered sender
  AdbTriggers,    \* saveAndEnqueue calls under a poller's context, at one time
  ModemTriggers,  \* saveAndEnqueue calls under the root context, at one time
  MaxAttempts,    \* dispatcher.max_attempts
  BaseInterval,   \* dispatcher.retry_base_interval
  MaxBackoff,     \* maxBackoff of retry.go
  StaleAfter,     \* age at which startup cancels a row
  AgeCap,         \* ages are not told apart beyond this (bound)
  FaultKinds,     \* what may go wrong in this instance
  MaxFaults       \* how often (bound)

Rows == 1..NRows
Triggers == AdbTriggers \union ModemTriggers
Sweepers == {"ticker", "retry"} \union Triggers
NoOne == "no one"

\* ack: a send that arrived comes back as an error.  hang: a send never returns.
\* term and unplug: main cancels the root context, or the running poller's.
AllFaults == {"crash", "db", "ack", "hang", "unplug", "term"}

ASSUME RowsAssumption == NRows \in Nat /\ Unrouted \subseteq Rows
ASSUME TriggersAssumption ==
  /\ AdbTriggers \subseteq STRING /\ ModemTriggers \subseteq STRING
  /\ NoOne \notin Sweepers
  /\ {"ticker", "retry"} \intersect Triggers = {}
ASSUME AttemptsAssumption == MaxAttempts \in Nat \ {0}
ASSUME TimeAssumption ==
  /\ BaseInterval \in Nat /\ MaxBackoff \in Nat
  /\ StaleAfter \in Nat /\ AgeCap \in Nat
ASSUME FaultsAssumption == FaultKinds \subseteq AllFaults /\ MaxFaults \in Nat

VARIABLES
  status, attempts,   \* columns of the outbox row; "absent" before the INSERT
  age,                \* time since scheduled_at
  logAge,             \* time since the newest delivery_log row, or NoLog
  tryAge, unlogged,   \* time since the newest attempt; rows it left no log of
  delivered, lost,    \* copies received; copies whose success was not recorded
  holder,             \* who holds Dispatcher.mu
  pc,                 \* where each goroutine is
  batch, cur, result, \* per sweep: items to do, the item in hand, Send's outcome
  due, rescheduled,   \* RetryWorker.work: items still to reset; did one reset
  cancelled,          \* goroutines whose context is cancelled
  staleDone,          \* main has run CancelStaleOutbox since the start
  faults              \* faults so far

row     == <<status, attempts, age, logAge>>
history == <<tryAge, unlogged, delivered, lost>>
sweep   == <<batch, cur, result>>
retry   == <<due, rescheduled>>
process == <<cancelled, staleDone>>
vars == <<row, history, holder, pc, sweep, retry, process, faults>>

NoLog == -1
NoRow == 0
Statuses == {"absent", "pending", "sent", "failed", "cancelled"}
Places == {"idle", "enqueue", "lock", "query", "next", "send", "mark", "log",
           "hung", "reset"}

-------------------------------------------------------------------------------
(* Faults and contexts *)

Fault(kind) ==
  /\ kind \in FaultKinds
  /\ faults < MaxFaults
  /\ faults' = faults + 1

\* database/sql refuses a statement under a cancelled context.
DbWorks(s) == s \notin cancelled /\ UNCHANGED faults
DbFails(s) == \/ s \in cancelled /\ UNCHANGED faults
              \/ s \notin cancelled /\ Fault("db")

Stopping == "ticker" \in cancelled

Goto(s, place) == pc' = [pc EXCEPT ![s] = place]

-------------------------------------------------------------------------------
(* saveAndEnqueue, from its loop over the channels on *)

Insert(i) ==
  /\ status' = [status EXCEPT ![i] = "pending"]
  /\ age' = [age EXCEPT ![i] = 0]
  /\ UNCHANGED <<attempts, logAge>>

\* The sources start after CancelStaleOutbox.  An INSERT that fails leaves no
\* trace here: the call goes on to the next channel.
CreateOutboxEntry(t, i) ==
  /\ t \in Triggers
  /\ pc[t] \in {"idle", "enqueue"}
  /\ staleDone
  /\ status[i] = "absent"
  /\ \A j \in Rows : j < i => status[j] # "absent"
  /\ t \notin cancelled
  /\ Insert(i)
  /\ Goto(t, "enqueue")
  /\ UNCHANGED <<history, holder, sweep, retry, process, faults>>

\* go disp.DispatchOnce(ctx)
SpawnSweep(t) ==
  /\ t \in Triggers
  /\ pc[t] = "enqueue"
  /\ Goto(t, "lock")
  /\ UNCHANGED <<row, history, holder, sweep, retry, process, faults>>

-------------------------------------------------------------------------------
(* Dispatcher.Run and DispatchOnce *)

TickerFires ==
  /\ pc["ticker"] = "idle"
  /\ ~Stopping
  /\ Goto("ticker", "lock")
  /\ UNCHANGED <<row, history, holder, sweep, retry, process, faults>>

\* Mutant: no mutual exclusion.
LockUnguarded(s) ==
  /\ pc[s] = "lock"
  /\ holder' = s
  /\ Goto(s, "query")
  /\ UNCHANGED <<row, history, sweep, retry, process, faults>>

Lock(s) ==
  /\ pc[s] = "lock"
  /\ holder = NoOne
  /\ holder' = s
  /\ Goto(s, "query")
  /\ UNCHANGED <<row, history, sweep, retry, process, faults>>

\* Mutant: the return on a cancelled context does not unlock.
ReturnWithoutUnlock(s) ==
  /\ holder' = IF s \in cancelled THEN holder ELSE NoOne
  /\ Goto(s, "idle")
  /\ batch' = [batch EXCEPT ![s] = {}]
  /\ cancelled' = IF s \in Triggers /\ ~Stopping THEN cancelled \ {s} ELSE cancelled
  /\ UNCHANGED <<row, history, cur, result, retry, staleDone>>

\* Every return of DispatchOnce unlocks (defer).  A trigger's goroutine ends,
\* and its context with it; the next call has a fresh one unless main stops.
Return(s) ==
  /\ holder' = NoOne
  /\ Goto(s, "idle")
  /\ batch' = [batch EXCEPT ![s] = {}]
  /\ cancelled' = IF s \in Triggers /\ ~Stopping THEN cancelled \ {s} ELSE cancelled
  /\ UNCHANGED <<row, history, cur, result, retry, staleDone>>

\* Mutant: failed rows are swept as well.
UnsentRows == {i \in Rows : status[i] \in {"pending", "failed"}}

PendingRows == {i \in Rows : status[i] = "pending"}

GetPendingOutbox(s) ==
  /\ pc[s] = "query"
  /\ \/ /\ DbWorks(s)
        /\ batch' = [batch EXCEPT ![s] = PendingRows]
        /\ Goto(s, "next")
        /\ UNCHANGED <<row, history, holder, cur, result, retry, process>>
     \/ DbFails(s) /\ Return(s)

EndSweep(s) ==
  /\ pc[s] = "next"
  /\ batch[s] = {} \/ s \in cancelled
  /\ Return(s)
  /\ UNCHANGED faults

\* ORDER BY scheduled_at: rows of one age come in any order.
Oldest(S) == {i \in S : \A j \in S : age[j] <= age[i]}

Attempted(i) ==
  /\ tryAge' = [tryAge EXCEPT ![i] = 0]
  /\ unlogged' = unlogged \union {i}

\* deliver, up to the Send: a row without a sender fails at once, and one whose
\* message cannot be read is left pending.
NextItem(s) ==
  /\ pc[s] = "next"
  /\ s \notin cancelled
  /\ \E i \in Oldest(batch[s]) :
       /\ batch' = [batch EXCEPT ![s] = @ \ {i}]
       /\ \/ /\ i \in Unrouted
             /\ cur' = [cur EXCEPT ![s] = i]
             /\ result' = [result EXCEPT ![s] = "err"]
             /\ Attempted(i)
             /\ Goto(s, "mark")
             /\ UNCHANGED faults
          \/ /\ i \notin Unrouted
             /\ DbWorks(s)
             /\ cur' = [cur EXCEPT ![s] = i]
             /\ Goto(s, "send")
             /\ UNCHANGED <<result, tryAge, unlogged>>
          \/ /\ i \notin Unrouted
             /\ DbFails(s)
             /\ UNCHANGED <<cur, result, pc, tryAge, unlogged>>
  /\ UNCHANGED <<row, delivered, lost, holder, retry, process>>

\* A copy that arrived, and one that arrived and was reported as an error.
Arrives(i) == delivered' = [delivered EXCEPT ![i] = @ + 1] /\ UNCHANGED lost
ArrivesUnacknowledged(i) ==
  /\ delivered' = [delivered EXCEPT ![i] = @ + 1]
  /\ lost' = [lost EXCEPT ![i] = @ + 1]

\* Telegram and email ignore the context, so a cancelled sweep's Send may
\* still arrive.  Telegram's http.DefaultClient and smtp.SendMail have no
\* timeout: against a silent peer Send does not return.
Send(s) ==
  /\ pc[s] = "send"
  /\ LET i == cur[s] IN
       \/ /\ Arrives(i)
          /\ Attempted(i)
          /\ result' = [result EXCEPT ![s] = "ok"]
          /\ Goto(s, "mark")
          /\ UNCHANGED faults
       \/ /\ UNCHANGED <<delivered, lost, faults>>
          /\ Attempted(i)
          /\ result' = [result EXCEPT ![s] = "err"]
          /\ Goto(s, "mark")
       \/ /\ Fault("ack")
          /\ ArrivesUnacknowledged(i)
          /\ Attempted(i)
          /\ result' = [result EXCEPT ![s] = "err"]
          /\ Goto(s, "mark")
       \/ /\ Fault("hang")
          /\ Goto(s, "hung")
          /\ UNCHANGED <<delivered, lost, tryAge, unlogged, result>>
  /\ UNCHANGED <<row, holder, batch, cur, retry, process>>

\* Mutant: deliver does not return after a failed Send.
RecordFallsThrough(s) ==
  /\ status' = [status EXCEPT ![cur[s]] = "sent"]
  /\ attempts' = [attempts EXCEPT ![cur[s]] = @ + 1]
  /\ UNCHANGED <<age, logAge>>

\* Mutant: the UPDATE asks for status = 'pending' too.
RecordIfPending(s) ==
  /\ status' = [status EXCEPT ![cur[s]] =
                  IF @ # "pending" THEN @ ELSE IF result[s] = "ok" THEN "sent" ELSE "failed"]
  /\ attempts' = [attempts EXCEPT ![cur[s]] = IF status[cur[s]] = "pending" THEN @ + 1 ELSE @]
  /\ UNCHANGED <<age, logAge>>

\* MarkOutboxSent and MarkOutboxFailed: both count the attempt.
Record(s) ==
  /\ status' = [status EXCEPT ![cur[s]] = IF result[s] = "ok" THEN "sent" ELSE "failed"]
  /\ attempts' = [attempts EXCEPT ![cur[s]] = @ + 1]
  /\ UNCHANGED <<age, logAge>>

\* deliver after the Send.  When the UPDATE fails the row stays as it was.
Mark(s) ==
  /\ pc[s] = "mark"
  /\ \/ DbWorks(s) /\ Record(s) /\ UNCHANGED lost
     \/ /\ DbFails(s)
        /\ lost' = [lost EXCEPT ![cur[s]] = IF result[s] = "ok" THEN @ + 1 ELSE @]
        /\ UNCHANGED row
  /\ Goto(s, "log")
  /\ UNCHANGED <<tryAge, unlogged, delivered, holder, sweep, retry, process>>

AppendDeliveryLog(s) ==
  /\ pc[s] = "log"
  /\ \/ /\ DbWorks(s)
        /\ logAge' = [logAge EXCEPT ![cur[s]] = 0]
        /\ unlogged' = unlogged \ {cur[s]}
     \/ DbFails(s) /\ UNCHANGED <<logAge, unlogged>>
  /\ cur' = [cur EXCEPT ![s] = NoRow]
  /\ result' = [result EXCEPT ![s] = "none"]
  /\ Goto(s, "next")
  /\ UNCHANGED <<status, attempts, age, tryAge, delivered, lost, holder, batch,
                 retry, process>>

-------------------------------------------------------------------------------
(* RetryWorker.Run and work *)

\* Mutant: delivery_log is not consulted.
SinceScheduled(i) == age[i]

\* GetFailedOutbox: COALESCE(MAX(delivery_log.attempted_at), scheduled_at).
SinceLastAttempt(i) == IF logAge[i] = NoLog THEN age[i] ELSE logAge[i]

\* Mutants: off by one; the filter on status dropped.
RetryableOnceMore(i) == status[i] = "failed" /\ attempts[i] <= MaxAttempts
RetryableUnsent(i) == status[i] \in {"pending", "failed"} /\ attempts[i] < MaxAttempts

Retryable(i) == status[i] = "failed" /\ attempts[i] < MaxAttempts

DueRows == {i \in Rows :
              /\ Retryable(i)
              /\ SinceLastAttempt(i) >= RetryBackoff(attempts[i], BaseInterval, MaxBackoff)}

\* One statement reads the rows; which of them are due is settled before the
\* first is reset.  A query that fails or finds none due changes nothing.
GetFailedOutbox ==
  /\ pc["retry"] = "idle"
  /\ DbWorks("retry")
  /\ DueRows # {}
  /\ due' = DueRows
  /\ rescheduled' = FALSE
  /\ Goto("retry", "reset")
  /\ UNCHANGED <<row, history, holder, sweep, process>>

\* Mutant: a retry starts counting again.
ResetAttempts(i) ==
  /\ status' = [status EXCEPT ![i] = "pending"]
  /\ attempts' = [attempts EXCEPT ![i] = 0]
  /\ UNCHANGED <<age, logAge>>

\* ResetToPending asks for the id alone, not for the status.
Reset(i) ==
  /\ status' = [status EXCEPT ![i] = "pending"]
  /\ UNCHANGED <<attempts, age, logAge>>

ResetToPending ==
  /\ pc["retry"] = "reset"
  /\ \E i \in due :
       /\ \A j \in due : i <= j
       /\ due' = due \ {i}
       /\ \/ DbWorks("retry") /\ Reset(i) /\ rescheduled' = TRUE
          \/ DbFails("retry") /\ UNCHANGED <<row, rescheduled>>
  /\ UNCHANGED <<history, holder, pc, sweep, process>>

WorkDone ==
  /\ pc["retry"] = "reset"
  /\ due = {}
  /\ Goto("retry", IF rescheduled THEN "lock" ELSE "idle")
  /\ rescheduled' = FALSE
  /\ UNCHANGED <<row, history, holder, sweep, due, process, faults>>

-------------------------------------------------------------------------------
(* main: startup, the phone's poller, shutdown; crashes and restarts *)

\* Mutant: whatever is old is cancelled.
OldRows == {i \in Rows : age[i] > StaleAfter}

StaleRows == {i \in Rows : status[i] \in {"pending", "failed"} /\ age[i] > StaleAfter}

\* Runs once per start, beside the goroutines main has already started.
CancelStaleOutbox ==
  /\ ~staleDone
  /\ staleDone' = TRUE
  /\ \/ /\ DbWorks("ticker")
        /\ status' = [i \in Rows |-> IF i \in StaleRows THEN "cancelled" ELSE status[i]]
     \/ DbFails("ticker") /\ UNCHANGED status
  /\ UNCHANGED <<attempts, age, logAge, history, holder, pc, sweep, retry, cancelled>>

\* The watcher reports the phone gone: main calls pollerCancel.
Unplug ==
  /\ Fault("unplug")
  /\ cancelled' = cancelled \union {t \in AdbTriggers : pc[t] # "idle"}
  /\ cancelled' # cancelled
  /\ UNCHANGED <<row, history, holder, pc, sweep, retry, staleDone>>

Sigterm ==
  /\ Fault("term")
  /\ ~Stopping
  /\ cancelled' = Sweepers
  /\ UNCHANGED <<row, history, holder, pc, sweep, retry, staleDone>>

\* Copies the recipient has and no UPDATE has recorded yet.
Unrecorded(i) == \E s \in Sweepers : pc[s] = "mark" /\ cur[s] = i /\ result[s] = "ok"

\* The process is gone and started again: goroutines and mutex start afresh,
\* the rows stay.
Restart ==
  /\ lost' = [i \in Rows |-> IF Unrecorded(i) THEN lost[i] + 1 ELSE lost[i]]
  /\ holder' = NoOne
  /\ pc' = [s \in Sweepers |-> "idle"]
  /\ batch' = [s \in Sweepers |-> {}]
  /\ cur' = [s \in Sweepers |-> NoRow]
  /\ result' = [s \in Sweepers |-> "none"]
  /\ due' = {}
  /\ rescheduled' = FALSE
  /\ cancelled' = {}
  /\ staleDone' = FALSE
  /\ UNCHANGED <<row, tryAge, unlogged, delivered>>

Crash == Fault("crash") /\ Restart

\* main's loop returns on ctx.Done without waiting for any goroutine.
Exit == Stopping /\ staleDone /\ Restart /\ UNCHANGED faults

Older(a) == IF a < AgeCap THEN a + 1 ELSE a

Tick ==
  /\ age' = [i \in Rows |-> IF status[i] = "absent" THEN age[i] ELSE Older(age[i])]
  /\ logAge' = [i \in Rows |-> IF logAge[i] = NoLog THEN NoLog ELSE Older(logAge[i])]
  /\ tryAge' = [i \in Rows |-> Older(tryAge[i])]
  /\ UNCHANGED <<status, attempts, unlogged, delivered, lost, holder, pc, sweep,
                 retry, process, faults>>

-------------------------------------------------------------------------------
Init ==
  /\ status = [i \in Rows |-> "absent"]
  /\ attempts = [i \in Rows |-> 0]
  /\ age = [i \in Rows |-> 0]
  /\ logAge = [i \in Rows |-> NoLog]
  /\ tryAge = [i \in Rows |-> AgeCap]
  /\ unlogged = {}
  /\ delivered = [i \in Rows |-> 0]
  /\ lost = [i \in Rows |-> 0]
  /\ holder = NoOne
  /\ pc = [s \in Sweepers |-> "idle"]
  /\ batch = [s \in Sweepers |-> {}]
  /\ cur = [s \in Sweepers |-> NoRow]
  /\ result = [s \in Sweepers |-> "none"]
  /\ due = {}
  /\ rescheduled = FALSE
  /\ cancelled = {}
  /\ staleDone = FALSE
  /\ faults = 0

SweepStep(s) ==
  \/ GetPendingOutbox(s) \/ EndSweep(s) \/ NextItem(s)
  \/ Send(s) \/ Mark(s) \/ AppendDeliveryLog(s)

RetryStep == GetFailedOutbox \/ ResetToPending \/ WorkDone

Next ==
  \/ \E t \in Triggers, i \in Rows : CreateOutboxEntry(t, i)
  \/ \E t \in Triggers : SpawnSweep(t)
  \/ TickerFires
  \/ \E s \in Sweepers : Lock(s) \/ SweepStep(s)
  \/ RetryStep
  \/ CancelStaleOutbox
  \/ Unplug \/ Sigterm \/ Crash \/ Exit
  \/ Tick

Spec == Init /\ [][Next]_vars

\* The Go scheduler runs every goroutine, tickers fire, sync.Mutex hands itself
\* to a waiter it has starved, and a stopping main returns and is started again.
Fairness ==
  /\ \A s \in Sweepers : WF_vars(SweepStep(s)) /\ SF_vars(Lock(s))
  /\ \A t \in Triggers : WF_vars(SpawnSweep(t))
  /\ WF_vars(TickerFires) /\ WF_vars(RetryStep)
  /\ WF_vars(CancelStaleOutbox) /\ WF_vars(Exit) /\ WF_vars(Tick)

LiveSpec == Spec /\ Fairness

-------------------------------------------------------------------------------
(* Invariants *)

RowTypes ==
  /\ status \in [Rows -> Statuses]
  /\ attempts \in [Rows -> 0..MaxAttempts]
  /\ age \in [Rows -> 0..AgeCap]
  /\ logAge \in [Rows -> 0..AgeCap \union {NoLog}]

HistoryTypes ==
  /\ tryAge \in [Rows -> 0..AgeCap]
  /\ unlogged \subseteq Rows
  /\ delivered \in [Rows -> Nat]
  /\ lost \in [Rows -> Nat]

ControlTypes ==
  /\ holder \in Sweepers \union {NoOne}
  /\ pc \in [Sweepers -> Places]
  /\ batch \in [Sweepers -> SUBSET Rows]
  /\ cur \in [Sweepers -> Rows \union {NoRow}]
  /\ result \in [Sweepers -> {"none", "ok", "err"}]
  /\ due \subseteq Rows
  /\ rescheduled \in BOOLEAN
  /\ cancelled \subseteq Sweepers
  /\ staleDone \in BOOLEAN

\* Columns and goroutine state stay in range; in particular no row is attempted
\* and recorded more than max_attempts times, which only GetFailedOutbox's
\* filter ensures.
TypeOK == RowTypes /\ HistoryTypes /\ ControlTypes /\ faults \in Nat

\* The places between mu.Lock and the deferred mu.Unlock.
Inside == {"query", "next", "send", "mark", "log", "hung"}

\* Rows a sweep is still going to record an outcome for.
InHand(s) == IF pc[s] \in {"send", "mark"} THEN {cur[s]} ELSE {}
Claimed(s) == batch[s] \union InHand(s)

\* A row in this state may be attempted once more.
Open(i) == status[i] \in {"pending", "cancelled"} /\ attempts[i] < MaxAttempts

\* One sweep at a time.
MutexInv == \A s \in Sweepers : pc[s] \in Inside <=> holder = s

\* The snapshot a sweep took stays good while it works through it: what it has
\* still to deliver can only have been cancelled meanwhile.
SnapshotInv ==
  \A s \in Sweepers :
    /\ pc[s] \notin Inside => batch[s] = {}
    /\ pc[s] \in {"send", "mark"} => cur[s] \in Rows
    /\ pc[s] = "log" => cur[s] \in Rows
    /\ InHand(s) \intersect batch[s] = {}
    /\ \A i \in Claimed(s) : Open(i)

\* So does the retry worker's, which it takes and works through outside the
\* mutex: no row it is about to make pending is with a sweep, or has been sent.
DueInv ==
  /\ pc["retry"] # "reset" => due = {}
  /\ \A i \in due : status[i] \in {"failed", "cancelled"} /\ attempts[i] < MaxAttempts
  /\ \A s \in Sweepers : due \intersect Claimed(s) = {}

\* A row waiting for a sweep has an attempt left.
WaitingInv ==
  \A i \in Rows :
    /\ status[i] = "absent" => attempts[i] = 0
    /\ status[i] = "pending" => attempts[i] < MaxAttempts

\* Two unsynchronised readers of the outbox (the sweeps under the mutex, the
\* retry worker outside it) never act on a row the other has moved on.
SnapshotsHold == MutexInv /\ SnapshotInv /\ DueInv /\ WaitingInv

\* Every copy the recipient has is one row's recorded success, or a success
\* nothing recorded: an error for a send that arrived, an UPDATE that failed or
\* was refused under a cancelled context, a process that died before it.  With
\* none of these a message is delivered at most once per channel, and a row
\* that says sent was delivered (dispatcher.go deliver, Dispatcher.mu).
CopiesAccounted ==
  \A i \in Rows :
    delivered[i] = lost[i] + IF status[i] = "sent" \/ Unrecorded(i) THEN 1 ELSE 0

-------------------------------------------------------------------------------
(* Action properties *)

\* A row that was sent is never put back, failed or cancelled, although
\* MarkOutboxFailed and ResetToPending update by id whatever the status is.
SentIsFinal ==
  [][\A i \in Rows : status[i] = "sent" => status'[i] = "sent"]_vars

\* A row that has failed max_attempts times is not tried again; startup may
\* still cancel it (GetFailedOutbox's filter, across restarts).
ExhaustedIsFinal ==
  [][\A i \in Rows : status[i] = "failed" /\ attempts[i] = MaxAttempts
                     => status'[i] \in {"failed", "cancelled"}]_vars

\* The retry worker takes a row whose newest attempt is logged only once the
\* backoff has passed since that attempt, whatever sweep made it.
DueAfterBackoff ==
  [][\A i \in due' \ due :
       i \in unlogged \/ tryAge[i] >= CappedPower(attempts[i], BaseInterval, MaxBackoff)]_vars

\* A copy goes out only for a row that is owed one: never for a row already
\* recorded as sent, nor for one that has failed for the last time.
NoCopyForSettledRows ==
  [][\A i \in Rows : delivered'[i] > delivered[i] => Open(i)]_vars

-------------------------------------------------------------------------------
(* The promise of Delivery *)

PromisedState(i) ==
  CASE status[i] = "absent" -> "none"
    [] status[i] = "pending" -> "owed"
    [] status[i] = "failed" -> IF attempts[i] < MaxAttempts THEN "owed" ELSE "exhausted"
    [] OTHER -> status[i]

Promise == INSTANCE Delivery WITH
  state <- [i \in Rows |-> PromisedState(i)],
  tries <- attempts,
  copies <- [i \in Rows |-> IF Unrecorded(i) THEN delivered[i] - 1 ELSE delivered[i]]

\* Every step of the goroutines, faults and restarts is a step of Delivery on
\* the rows, or none.
KeepsPromise == Promise!Spec

-------------------------------------------------------------------------------
(* Liveness *)

Settled(i) == \/ status[i] \in {"absent", "sent", "cancelled"}
              \/ status[i] = "failed" /\ attempts[i] = MaxAttempts

Hanging == \E s \in Sweepers : pc[s] = "hung"

\* Faults being finite, every row ends up sent, cancelled or out of attempts, and
\* stays so: no interleaving of sweeps, retry worker and restarts leaves a row that
\* nobody will look at again.  A Send that never returns keeps the mutex from all
\* sweeps (telegram.go:90), but not beyond the end of its process.
Drains == <>[]((\A i \in Rows : Settled(i)) \/ Hanging)
===============================================================================
