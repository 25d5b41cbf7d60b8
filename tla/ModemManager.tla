---------------------------- MODULE ModemManager ----------------------------
(***************************************************************************)
(* The modem manager (internal/modem/manager.go): a scan that looks for    *)
(* modems and starts a worker for each, and the goroutines these workers   *)
(* run in.  What a worker does once its Init has succeeded is in           *)
(* ModemWorker.  The modems and sysfs are external.                        *)
(*                                                                         *)
(* Every step is one section under Manager.mu, or one thing done without   *)
(* it.                                                                     *)
(***************************************************************************)
EXTENDS Integers, FiniteSets, Backoff

CONSTANTS
  Modems,           \* USB paths a modem may be plugged in at
  WatchInterval,    \* modem.watch_interval; 0 when it is not set
  DefaultInterval,  \* what is used then
  MaxRetryDelay,    \* maxRetryDelay
  FaultKinds,       \* what may go wrong in this instance
  MaxFaults         \* how often (bound)

\* unplug: a modem goes.  sysfs: Discover fails.  init: a modem that is there
\* cannot be set up.  port: its port fails.  hang: a callback never returns.
AllFaults == {"unplug", "sysfs", "init", "port", "hang"}

ASSUME DelaysAssumption ==
  WatchInterval \in Nat /\ DefaultInterval \in Nat \ {0} /\ MaxRetryDelay \in Nat \ {0}
ASSUME FaultsAssumption == FaultKinds \subseteq AllFaults /\ MaxFaults \in Nat

\* Where a worker's goroutine is; "leaving" has run runWorker and not yet its defers.
Stages == {"init", "connecting", "run", "disconnecting", "leaving", "stuck"}

VARIABLES
  plugged,   \* modems that sysfs shows
  gone,      \* modems whose worker has ports that are gone
  outdated,  \* candidates of the scan whose ports are gone
  scanning,  \* Run: waiting for the ticker, in a scan that has discovered, in one that
             \* starts workers, waiting for its workers, returned
  left,      \* candidates of the scan still to consider
  running,   \* Manager.running
  fails,     \* Manager.fails; 0 when there is no entry
  wait,      \* time until Manager.retryAt; 0 when past, or no entry
  work,      \* how many goroutines each modem has in each stage
  stopping,  \* the context is cancelled
  streak,    \* history: failures in a row of a modem that stays plugged in
  since,     \* history: time since the last of these, up to MaxRetryDelay
  faults     \* faults so far

world   == <<plugged, gone>>
scan    == <<scanning, left, outdated>>
maps    == <<running, fails, wait>>
history == <<streak, since>>
vars == <<world, scan, maps, work, stopping, history, faults>>

Fault(kind) ==
  /\ kind \in FaultKinds
  /\ faults < MaxFaults
  /\ faults' = faults + 1

-------------------------------------------------------------------------------
(* The modems, time, the end of the process *)

Idle(u) == \A g \in Stages : work[u][g] = 0

PlugIn(u) ==
  /\ u \notin plugged
  /\ plugged' = plugged \union {u}
  /\ UNCHANGED <<gone, scan, maps, work, stopping, history, faults>>

Unplug(u) ==
  /\ u \in plugged
  /\ Fault("unplug")
  /\ plugged' = plugged \ {u}
  /\ gone' = gone \union (IF Idle(u) THEN {} ELSE {u})
  /\ outdated' = outdated \union (left \intersect {u})
  /\ streak' = [streak EXCEPT ![u] = 0] /\ since' = [since EXCEPT ![u] = 0]
  /\ UNCHANGED <<scanning, left, maps, work, stopping>>

Tick ==
  /\ wait' = [u \in Modems |-> IF wait[u] > 0 THEN wait[u] - 1 ELSE 0]
  /\ since' = [u \in Modems |->
               IF streak[u] > 0 /\ since[u] < MaxRetryDelay THEN since[u] + 1 ELSE since[u]]
  /\ UNCHANGED <<world, scan, running, fails, work, stopping, streak, faults>>

Stop ==
  /\ ~stopping
  /\ stopping' = TRUE
  /\ UNCHANGED <<world, scan, maps, work, history, faults>>

-------------------------------------------------------------------------------
(* Manager.Run and scan *)

\* At the start and on the ticker, which may be preferred to a cancelled context.
Discover ==
  /\ scanning = "no"
  /\ scanning' = "discovered"
  /\ left' = plugged
  /\ UNCHANGED <<world, outdated, maps, work, stopping, history, faults>>

DiscoverFails ==
  /\ scanning = "no"
  /\ Fault("sysfs")
  /\ UNCHANGED <<world, scan, maps, work, stopping, history>>

\* Mutant: the failures of every modem are forgotten.
ForgetAll ==
  /\ scanning = "discovered"
  /\ fails' = [u \in Modems |-> 0]
  /\ wait' = [u \in Modems |-> 0]
  /\ scanning' = "starting"
  /\ UNCHANGED <<world, left, outdated, running, work, stopping, history, faults>>

\* The failures of a modem that is gone are forgotten.
ForgetAbsent ==
  /\ scanning = "discovered"
  /\ fails' = [u \in Modems |-> IF u \in left THEN fails[u] ELSE 0]
  /\ wait' = [u \in Modems |-> IF u \in left THEN wait[u] ELSE 0]
  /\ scanning' = "starting"
  /\ UNCHANGED <<world, left, outdated, running, work, stopping, history, faults>>

StartWorker(u) ==
  /\ running' = running \union {u}
  /\ work' = [work EXCEPT ![u]["init"] = @ + 1]
  /\ gone' = (gone \ {u}) \union (outdated \intersect {u})

\* Mutant: running is not asked, only how long to wait.
ConsiderUnasked ==
  /\ scanning = "starting"
  /\ \E u \in left :
       /\ left' = left \ {u} /\ outdated' = outdated \ {u}
       /\ IF wait[u] > 0
            THEN UNCHANGED <<running, work, gone>>
            ELSE StartWorker(u)
  /\ UNCHANGED <<plugged, scanning, fails, wait, stopping, history, faults>>

Consider ==
  /\ scanning = "starting"
  /\ \E u \in left :
       /\ left' = left \ {u} /\ outdated' = outdated \ {u}
       /\ IF u \in running \/ wait[u] > 0
            THEN UNCHANGED <<running, work, gone>>
            ELSE StartWorker(u)
  /\ UNCHANGED <<plugged, scanning, fails, wait, stopping, history, faults>>

ScanEnds ==
  /\ scanning = "starting" /\ left = {}
  /\ scanning' = "no"
  /\ UNCHANGED <<world, left, outdated, maps, work, stopping, history, faults>>

\* Run finds the context cancelled, and waits for its workers.
StopScanning ==
  /\ scanning = "no" /\ stopping
  /\ scanning' = "over"
  /\ UNCHANGED <<world, left, outdated, maps, work, stopping, history, faults>>

RunReturns ==
  /\ scanning = "over"
  /\ \A u \in Modems : Idle(u)
  /\ scanning' = "returned"
  /\ UNCHANGED <<world, left, outdated, maps, work, stopping, history, faults>>

-------------------------------------------------------------------------------
(* runWorker *)

Move(u, from, to) ==
  /\ work[u][from] > 0
  /\ work' = [work EXCEPT ![u][from] = @ - 1, ![u][to] = @ + 1]

\* backoff; the ports of a modem that was unplugged meanwhile fail too.
InitFails(u) ==
  /\ Move(u, "init", "leaving")
  /\ \/ (u \notin plugged \/ u \in gone \/ stopping) /\ UNCHANGED faults
     \/ Fault("init")
  /\ IF stopping
       THEN UNCHANGED <<fails, wait, history>>
       ELSE /\ fails' = [fails EXCEPT ![u] = @ + 1]
            /\ wait' = [wait EXCEPT ![u] =
                          InitBackoff(fails[u] + 1, WatchInterval, DefaultInterval, MaxRetryDelay)]
            /\ streak' = [streak EXCEPT ![u] = IF u \in gone THEN @ ELSE @ + 1]
            /\ since' = [since EXCEPT ![u] = 0]
  /\ UNCHANGED <<world, scan, running, stopping>>

InitSucceeds(u) ==
  /\ Move(u, "init", "connecting")
  /\ u \in plugged \ gone
  /\ fails' = [fails EXCEPT ![u] = 0]
  /\ wait' = [wait EXCEPT ![u] = 0]
  /\ streak' = [streak EXCEPT ![u] = 0] /\ since' = [since EXCEPT ![u] = 0]
  /\ UNCHANGED <<world, scan, running, stopping, faults>>

\* OnConnect and OnDisconnect send to every channel, and wait for them.
Callback(u, from, to) ==
  /\ \/ Move(u, from, to) /\ UNCHANGED faults
     \/ Move(u, from, "stuck") /\ Fault("hang")
  /\ UNCHANGED <<world, scan, maps, stopping, history>>

OnConnect(u) == Callback(u, "connecting", "run")

OnDisconnect(u) == Callback(u, "disconnecting", "leaving")

\* Mutant: a worker whose port works is not ended by the context.
RunEndsWithPort(u) ==
  /\ Move(u, "run", IF stopping THEN "leaving" ELSE "disconnecting")
  /\ \/ u \in gone /\ UNCHANGED faults
     \/ Fault("port")
  /\ UNCHANGED <<world, scan, maps, stopping, history>>

RunEnds(u) ==
  /\ Move(u, "run", IF stopping THEN "leaving" ELSE "disconnecting")
  /\ \/ (u \in gone \/ stopping) /\ UNCHANGED faults
     \/ Fault("port")
  /\ UNCHANGED <<world, scan, maps, stopping, history>>

\* Mutant: only a worker that was connected is taken off the running ones.
LeaveMarked(u) ==
  /\ work[u]["leaving"] > 0
  /\ work' = [work EXCEPT ![u]["leaving"] = @ - 1]
  /\ running' = IF fails[u] = 0 THEN running \ {u} ELSE running
  /\ gone' = gone \ {u}
  /\ UNCHANGED <<plugged, scan, fails, wait, stopping, history, faults>>

Leave(u) ==
  /\ work[u]["leaving"] > 0
  /\ work' = [work EXCEPT ![u]["leaving"] = @ - 1]
  /\ running' = running \ {u}
  /\ gone' = gone \ {u}
  /\ UNCHANGED <<plugged, scan, fails, wait, stopping, history, faults>>

-------------------------------------------------------------------------------
Init ==
  /\ plugged \in SUBSET Modems /\ gone = {} /\ outdated = {}
  /\ scanning = "no" /\ left = {}
  /\ running = {}
  /\ fails = [u \in Modems |-> 0] /\ wait = [u \in Modems |-> 0]
  /\ work = [u \in Modems |-> [g \in Stages |-> 0]]
  /\ stopping = FALSE
  /\ streak = [u \in Modems |-> 0] /\ since = [u \in Modems |-> 0]
  /\ faults = 0

ScanStep == Discover \/ ForgetAbsent \/ Consider \/ ScanEnds

WorkerStep(u) ==
  InitFails(u) \/ InitSucceeds(u) \/ OnConnect(u) \/ RunEnds(u) \/ OnDisconnect(u) \/ Leave(u)

Next ==
  \/ \E u \in Modems : PlugIn(u) \/ Unplug(u) \/ WorkerStep(u)
  \/ ScanStep \/ DiscoverFails \/ StopScanning \/ RunReturns
  \/ Tick \/ Stop

Spec == Init /\ [][Next]_vars

\* The ticker fires, goroutines run, time passes.  A select that finds the context
\* cancelled and the ticker fired takes either, so it takes the former in the end.
LiveSpec ==
  /\ Spec
  /\ WF_vars(ScanStep) /\ SF_vars(StopScanning) /\ WF_vars(RunReturns) /\ WF_vars(Tick)
  /\ \A u \in Modems : WF_vars(WorkerStep(u))

-------------------------------------------------------------------------------
(* Properties *)

\* Variables stay in range; in particular no delay is longer than maxRetryDelay.
TypeOK ==
  /\ plugged \subseteq Modems /\ gone \subseteq Modems /\ outdated \subseteq Modems
  /\ scanning \in {"no", "discovered", "starting", "over", "returned"}
  /\ left \subseteq Modems
  /\ running \subseteq Modems
  /\ fails \in [Modems -> Nat]
  /\ wait \in [Modems -> 0..MaxRetryDelay]
  /\ work \in [Modems -> [Stages -> Nat]]
  /\ stopping \in BOOLEAN
  /\ streak \in [Modems -> Nat]
  /\ since \in [Modems -> 0..MaxRetryDelay]
  /\ faults \in Nat

\* manager.go:15: one worker per modem.  Two would take each other's answers.
OneWorker ==
  \A u \in Modems : \A g, h \in Stages :
    work[u][g] > 0 /\ work[u][h] > 0 => g = h /\ work[u][g] = 1

Interval == IF WatchInterval > 0 THEN WatchInterval ELSE DefaultInterval

\* manager.go:169: a modem that stays and fails again and again is tried no sooner
\* than its delay after the last failure, though the scan, the worker and a
\* replug change the delays in sections of their own.
FailuresAreSpaced ==
  [][\A u \in Modems :
       u \in running' \ running /\ streak[u] > 0
         => since[u] >= CappedPower(streak[u], Interval, MaxRetryDelay)]_vars

Stuck(u) == work[u]["stuck"] > 0

\* A modem that stays has a worker in the end, whatever failed before, unless the
\* process is told to stop or a callback about this modem hangs (main.go:100): one about
\* another modem holds up neither the scan nor this modem's worker.
ModemIsServed ==
  \A u \in Modems :
    <>[](u \in plugged) => <>[](work[u]["run"] = 1) \/ <>(stopping \/ Stuck(u))

\* Told to stop, Run ends every worker but one whose callback hangs, and returns unless
\* there is such a one.
RunEndsItsWorkers ==
  stopping ~> \/ scanning = "returned"
              \/ /\ scanning = "over" /\ \E u \in Modems : Stuck(u)
                 /\ \A u \in Modems : Idle(u) \/ Stuck(u)
===============================================================================
