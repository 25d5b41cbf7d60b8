------------------------- MODULE ModemManagerProofs -------------------------
(***************************************************************************)
(* One worker per modem, and no try before its delay has passed.           *)
(***************************************************************************)
EXTENDS ModemManager, BackoffProofs, TLAPS

\* The stages of one goroutine that is at g.
Only(g) == [h \in Stages |-> IF h = g THEN 1 ELSE 0]

\* A modem is marked as running while its only goroutine lives, and no longer.
WorkInv ==
  /\ work \in [Modems -> [Stages -> Nat]]
  /\ plugged \subseteq Modems /\ left \subseteq Modems /\ running \subseteq Modems
  /\ \A u \in Modems :
       IF u \in running THEN \E g \in Stages : work[u] = Only(g) ELSE Idle(u)

LEMMA MoveKeepsOne ==
  ASSUME WorkInv, NEW u \in Modems, NEW from \in Stages, NEW to \in Stages,
         Move(u, from, to), UNCHANGED <<plugged, left, running>>
  PROVE  WorkInv'
<1>1. work \in [Modems -> [Stages -> Nat]] /\ work[u][from] > 0
  BY DEF WorkInv, Move
<1>2. u \in running
  BY <1>1 DEF WorkInv, Idle
<1>3. work[u] = Only(from)
  <2>1. PICK g \in Stages : work[u] = Only(g)
    BY <1>2 DEF WorkInv
  <2>2. g = from
    BY <2>1, <1>1 DEF Only
  <2>3. QED BY <2>1, <2>2
<1>4. work' = [work EXCEPT ![u] = [work[u] EXCEPT ![from] = @ - 1, ![to] = @ + 1]]
  BY <1>1 DEF Move
<1>5. [work[u] EXCEPT ![from] = @ - 1, ![to] = @ + 1] = Only(to)
  BY <1>3 DEF Only
<1>6. Only(to) \in [Stages -> Nat]
  BY DEF Only
<1>7. work' = [work EXCEPT ![u] = Only(to)]
  BY <1>4, <1>5
<1>8. QED BY <1>1, <1>2, <1>6, <1>7 DEF WorkInv, Idle

LEMMA WorkStep ==
  ASSUME WorkInv, [Next]_vars
  PROVE  WorkInv'
<1> DEFINE used == <<plugged, left, running, work>>
<1>1. CASE UNCHANGED <<running, work>> /\ plugged' \subseteq Modems /\ left' \subseteq Modems
  BY <1>1 DEF WorkInv, Idle
<1>2. ASSUME NEW u \in Modems, PlugIn(u) \/ Unplug(u)
      PROVE  WorkInv'
  <2>1. UNCHANGED <<running, work, left>> /\ plugged' \subseteq Modems
    BY <1>2 DEF PlugIn, Unplug, WorkInv, scan, maps
  <2>2. left \subseteq Modems
    BY DEF WorkInv
  <2>3. QED BY <2>1, <2>2, <1>1
<1>3. CASE Consider
  <2>1. PICK u \in left :
          /\ left' = left \ {u}
          /\ \/ UNCHANGED <<running, work>>
             \/ u \notin running /\ StartWorker(u)
    BY <1>3 DEF Consider
  <2>2. u \in Modems /\ left' \subseteq Modems /\ plugged' \subseteq Modems
    BY <2>1, <1>3 DEF WorkInv, Consider
  <2>3. CASE u \notin running /\ StartWorker(u)
    <3>1. running' = running \union {u} /\ work' = [work EXCEPT ![u]["init"] = @ + 1]
      BY <2>3 DEF StartWorker
    <3>2. work \in [Modems -> [Stages -> Nat]] /\ \A g \in Stages : work[u][g] = 0
      BY <2>2, <2>3 DEF WorkInv, Idle
    <3>3. [work[u] EXCEPT !["init"] = @ + 1] = Only("init")
      BY <2>2, <3>2 DEF Only, Stages
    <3>4. Only("init") \in [Stages -> Nat]
      BY DEF Only
    <3>5. work' = [work EXCEPT ![u] = Only("init")]
      BY <2>2, <3>1, <3>2, <3>3
    <3>6. work' \in [Modems -> [Stages -> Nat]]
      BY <3>2, <3>4, <3>5
    <3>7. ASSUME NEW v \in Modems
          PROVE  IF v \in running' THEN \E g \in Stages : work'[v] = Only(g) ELSE Idle(v)'
      <4>1. CASE v = u
        BY <4>1, <3>1, <3>2, <3>5 DEF Stages
      <4>2. CASE v # u
        BY <4>2, <3>1, <3>2, <3>5 DEF WorkInv, Idle
      <4>3. QED BY <4>1, <4>2
    <3>8. QED BY <2>2, <3>1, <3>6, <3>7 DEF WorkInv
  <2>4. QED BY <2>1, <2>2, <2>3, <1>1
<1>4. ASSUME NEW u \in Modems, Leave(u)
      PROVE  WorkInv'
  <2>1. /\ work[u]["leaving"] > 0
        /\ work' = [work EXCEPT ![u]["leaving"] = @ - 1]
        /\ running' = running \ {u}
        /\ UNCHANGED <<plugged, left>>
    BY <1>4 DEF Leave, scan
  <2>2. work \in [Modems -> [Stages -> Nat]]
    BY DEF WorkInv
  <2>3. work[u] = Only("leaving")
    <3>1. "leaving" \in Stages
      BY DEF Stages
    <3>2. PICK g \in Stages : work[u] = Only(g)
      BY <2>1, <3>1 DEF WorkInv, Idle
    <3>3. QED BY <2>1, <3>1, <3>2 DEF Only
  <2>4. \A g \in Stages : work'[u][g] = 0
    BY <2>1, <2>2, <2>3 DEF Only, Stages
  <2>5. work' \in [Modems -> [Stages -> Nat]] /\ \A v \in Modems : v # u => work'[v] = work[v]
    BY <2>1, <2>2, <2>3 DEF Only, Stages
  <2>6. QED BY <2>1, <2>4, <2>5 DEF WorkInv, Idle
<1>5. ASSUME NEW u \in Modems, InitFails(u) \/ InitSucceeds(u) \/ OnConnect(u)
                                  \/ RunEnds(u) \/ OnDisconnect(u)
      PROVE  WorkInv'
  <2>1. UNCHANGED <<plugged, left, running>>
    BY <1>5 DEF InitFails, InitSucceeds, OnConnect, RunEnds, OnDisconnect, Callback, world, scan, maps
  <2>2. \E from, to \in Stages : Move(u, from, to)
    BY <1>5 DEF InitFails, InitSucceeds, OnConnect, RunEnds, OnDisconnect, Callback, Stages
  <2>3. QED BY <2>1, <2>2, MoveKeepsOne
<1>6. CASE Discover
  BY <1>6, <1>1 DEF Discover, WorkInv, maps, world
<1>7. CASE UNCHANGED used
  BY <1>7, <1>1 DEF WorkInv
<1>8. QED
  BY <1>2, <1>3, <1>4, <1>5, <1>6, <1>7
  DEF Next, ScanStep, WorkerStep, ForgetAbsent, ScanEnds, DiscoverFails, StopScanning, RunReturns,
      Tick, Stop, vars, world, scan, maps

\* However scans, failing and ending workers and replugs interleave, a modem has at most
\* one worker (scan, runWorker).
THEOREM OneWorkerAlways == Spec => []OneWorker
<1>1. Init => WorkInv
  <2>1. \A g \in Stages : 0 \in Nat
    OBVIOUS
  <2>2. QED BY <2>1 DEF Init, WorkInv, Idle
<1>2. WorkInv /\ [Next]_vars => WorkInv'
  BY WorkStep
<1>3. WorkInv => OneWorker
  <2>1. SUFFICES ASSUME WorkInv, NEW u \in Modems, NEW g \in Stages, NEW h \in Stages,
                        work[u][g] > 0, work[u][h] > 0
                 PROVE  g = h /\ work[u][g] = 1
    BY DEF OneWorker
  <2>2. PICK k \in Stages : work[u] = Only(k)
    BY <2>1 DEF WorkInv, Idle
  <2>3. QED BY <2>1, <2>2 DEF Only
<1>4. QED BY <1>1, <1>2, <1>3, PTL DEF Spec
-------------------------------------------------------------------------------
(* Delays *)

\* A modem that has failed since it was plugged in is there, and the scan that forgets
\* the absent ones sees it; so does a worker whose ports are not gone.
PresentInv ==
  /\ \A u \in Modems : streak[u] > 0 => u \in plugged
  /\ \A u \in Modems : Idle(u) \/ u \in gone \/ u \in plugged
  /\ scanning = "discovered" =>
       \A u \in Modems : streak[u] > 0 \/ ~(Idle(u) \/ u \in gone) => u \in left
  /\ left \ outdated \subseteq plugged

\* What is left to wait and what has passed make up the delay.
DelayInv ==
  \A u \in Modems :
    /\ streak[u] <= fails[u]
    /\ streak[u] > 0 => since[u] + wait[u] >= CappedPower(streak[u], Interval, MaxRetryDelay)

IInv == TypeOK /\ WorkInv /\ PresentInv /\ DelayInv

OtherTypes ==
  /\ gone \subseteq Modems /\ outdated \subseteq Modems
  /\ scanning \in {"no", "discovered", "starting", "over", "returned"}
  /\ stopping \in BOOLEAN /\ faults \in Nat

DelayTypes ==
  /\ fails \in [Modems -> Nat] /\ wait \in [Modems -> 0..MaxRetryDelay]
  /\ streak \in [Modems -> Nat] /\ since \in [Modems -> 0..MaxRetryDelay]

LEMMA TypeParts ==
  /\ WorkInv => (TypeOK <=> OtherTypes /\ DelayTypes)
  /\ WorkInv' => (TypeOK' <=> OtherTypes' /\ DelayTypes')
BY DEF WorkInv, TypeOK, OtherTypes, DelayTypes

LEMMA IntervalIs == Interval \in Nat /\ MaxRetryDelay \in Nat
BY DelaysAssumption DEF Interval

\* The delay after a failure.
LEMMA DelayIs ==
  ASSUME NEW n \in Nat, n >= 1
  PROVE  /\ InitBackoff(n, WatchInterval, DefaultInterval, MaxRetryDelay) =
              CappedPower(n, Interval, MaxRetryDelay)
         /\ CappedPower(n, Interval, MaxRetryDelay) \in 0..MaxRetryDelay
<1>1. Interval = IF WatchInterval > 0 THEN WatchInterval ELSE DefaultInterval
  BY DEF Interval
<1>2. WatchInterval \in Nat /\ DefaultInterval \in Nat \ {0} /\ MaxRetryDelay \in Nat
  BY DelaysAssumption
<1>3. QED BY <1>1, <1>2, IntervalIs, InitBackoffIs, CappedIs

LEMMA OthersKept ==
  ASSUME OtherTypes, WorkInv, [Next]_vars
  PROVE  OtherTypes'
<1>0. left \subseteq Modems
  BY DEF WorkInv
<1>1. ASSUME NEW u \in Modems, PlugIn(u) \/ Unplug(u)
      PROVE  OtherTypes'
  BY <1>1 DEF PlugIn, Unplug, Fault, OtherTypes, scan
<1>2. ASSUME NEW u \in Modems, InitFails(u) \/ InitSucceeds(u)
      PROVE  OtherTypes'
  BY <1>2 DEF InitFails, InitSucceeds, Fault, OtherTypes, scan, world
<1>3. ASSUME NEW u \in Modems, OnConnect(u) \/ OnDisconnect(u) \/ RunEnds(u) \/ Leave(u)
      PROVE  OtherTypes'
  BY <1>3 DEF OnConnect, OnDisconnect, Callback, RunEnds, Leave, Fault, OtherTypes, scan, world
<1>4. CASE Consider
  BY <1>0, <1>4 DEF Consider, StartWorker, OtherTypes
<1>5. CASE Discover \/ ForgetAbsent \/ ScanEnds \/ DiscoverFails \/ StopScanning \/ RunReturns
  BY <1>5 DEF Discover, ForgetAbsent, ScanEnds, DiscoverFails, StopScanning, RunReturns, Fault,
              OtherTypes, scan, world
<1>6. CASE Tick \/ Stop \/ UNCHANGED vars
  BY <1>6 DEF Tick, Stop, vars, OtherTypes, scan, world
<1>7. QED BY <1>1, <1>2, <1>3, <1>4, <1>5, <1>6 DEF Next, WorkerStep, ScanStep

LEMMA DelaysKept ==
  ASSUME DelayTypes, [Next]_vars
  PROVE  DelayTypes'
<1>0. MaxRetryDelay \in Nat
  BY DelaysAssumption
<1>1. CASE UNCHANGED <<fails, wait, streak, since>>
  BY <1>1 DEF DelayTypes
<1>2. ASSUME NEW u \in Modems, Unplug(u)
      PROVE  DelayTypes'
  BY <1>0, <1>2 DEF Unplug, DelayTypes, maps
<1>3. CASE Tick
  BY <1>0, <1>3 DEF Tick, DelayTypes
<1>4. CASE ForgetAbsent
  BY <1>0, <1>4 DEF ForgetAbsent, DelayTypes, history
<1>5. ASSUME NEW u \in Modems, InitFails(u)
      PROVE  DelayTypes'
  <2>1. CASE stopping
    BY <1>1, <1>5, <2>1 DEF InitFails, history
  <2>2. CASE ~stopping
    <3>1. /\ fails' = [fails EXCEPT ![u] = @ + 1]
          /\ wait' = [wait EXCEPT ![u] =
                        InitBackoff(fails[u] + 1, WatchInterval, DefaultInterval, MaxRetryDelay)]
          /\ streak' = [streak EXCEPT ![u] = IF u \in gone THEN @ ELSE @ + 1]
          /\ since' = [since EXCEPT ![u] = 0]
      BY <1>5, <2>2 DEF InitFails
    <3>2. fails[u] + 1 \in Nat /\ fails[u] + 1 >= 1
      BY DEF DelayTypes
    <3>3. InitBackoff(fails[u] + 1, WatchInterval, DefaultInterval, MaxRetryDelay) \in 0..MaxRetryDelay
      BY <3>2, DelayIs
    <3>4. QED BY <1>0, <3>1, <3>3 DEF DelayTypes
  <2>3. QED BY <2>1, <2>2
<1>6. ASSUME NEW u \in Modems, InitSucceeds(u)
      PROVE  DelayTypes'
  BY <1>0, <1>6 DEF InitSucceeds, DelayTypes
<1>7. ASSUME NEW u \in Modems, PlugIn(u) \/ OnConnect(u) \/ RunEnds(u) \/ OnDisconnect(u) \/ Leave(u)
      PROVE  DelayTypes'
  BY <1>1, <1>7 DEF PlugIn, OnConnect, OnDisconnect, Callback, RunEnds, Leave, maps, history
<1>8. CASE \/ Discover \/ Consider \/ ScanEnds \/ DiscoverFails \/ StopScanning \/ RunReturns
           \/ Stop \/ UNCHANGED vars
  BY <1>1, <1>8 DEF Discover, Consider, ScanEnds, DiscoverFails, StopScanning, RunReturns, Stop,
                    vars, maps, history
<1>9. QED BY <1>2, <1>3, <1>4, <1>5, <1>6, <1>7, <1>8 DEF Next, WorkerStep, ScanStep

LEMMA InitInv == Init => IInv
<1> SUFFICES ASSUME Init PROVE IInv
  OBVIOUS
<1>1. 0 \in Nat /\ 0 \in 0..MaxRetryDelay
  BY DelaysAssumption
<1>2. WorkInv
  BY <1>1 DEF Init, WorkInv, Idle
<1>3. OtherTypes /\ DelayTypes
  BY <1>1 DEF Init, OtherTypes, DelayTypes
<1>4. PresentInv
  BY DEF Init, PresentInv, Idle
<1>5. DelayInv
  BY DEF Init, DelayInv
<1>6. QED BY <1>2, <1>3, <1>4, <1>5, TypeParts DEF IInv
LEMMA PresentKept ==
  ASSUME TypeOK, WorkInv, WorkInv', PresentInv, [Next]_vars
  PROVE  PresentInv'
<1>0. /\ streak \in [Modems -> Nat] /\ left \subseteq Modems /\ plugged \subseteq Modems
      /\ gone \subseteq Modems /\ work \in [Modems -> [Stages -> Nat]]
  BY DEF TypeOK
<1>1. CASE UNCHANGED <<plugged, gone, scanning, left, outdated, streak, work>>
  BY <1>1 DEF PresentInv, Idle
<1>2. ASSUME NEW u \in Modems, PlugIn(u)
      PROVE  PresentInv'
  BY <1>2 DEF PlugIn, PresentInv, Idle, scan, history
<1>3. ASSUME NEW u \in Modems, Unplug(u)
      PROVE  PresentInv'
  <2>1. /\ plugged' = plugged \ {u}
        /\ gone' = gone \union (IF Idle(u) THEN {} ELSE {u})
        /\ outdated' = outdated \union (left \intersect {u})
        /\ streak' = [streak EXCEPT ![u] = 0]
        /\ UNCHANGED <<scanning, left, work>>
    BY <1>3 DEF Unplug
  <2>2. streak'[u] = 0 /\ \A v \in Modems : v # u => streak'[v] = streak[v]
    BY <1>0, <2>1
  <2>3. \A v \in Modems : Idle(v)' <=> Idle(v)
    BY <2>1 DEF Idle
  <2>4. Idle(u) \/ u \in gone'
    BY <2>1
  <2>5. gone \subseteq gone' /\ \A v \in Modems : v # u /\ v \in plugged => v \in plugged'
    BY <2>1
  <2>6. left' \ outdated' \subseteq plugged'
    BY <2>1 DEF PresentInv
  <2>7. \A v \in Modems : streak'[v] > 0 => v \in plugged'
    BY <2>2, <2>5 DEF PresentInv
  <2>8. \A v \in Modems : Idle(v)' \/ v \in gone' \/ v \in plugged'
    BY <2>3, <2>4, <2>5 DEF PresentInv
  <2>9. scanning' = "discovered" =>
          \A v \in Modems : streak'[v] > 0 \/ ~(Idle(v)' \/ v \in gone') => v \in left'
    BY <2>1, <2>2, <2>3, <2>4, <2>5 DEF PresentInv
  <2>10. QED BY <2>6, <2>7, <2>8, <2>9 DEF PresentInv
<1>4. CASE Discover
  BY <1>0, <1>4 DEF Discover, PresentInv, Idle, world, history
<1>5. CASE ForgetAbsent \/ ScanEnds \/ StopScanning \/ RunReturns
  BY <1>5 DEF ForgetAbsent, ScanEnds, StopScanning, RunReturns, PresentInv, Idle, world, history
<1>6. CASE Consider
  <2>1. PICK u \in left :
          /\ left' = left \ {u} /\ outdated' = outdated \ {u}
          /\ \/ UNCHANGED <<running, work, gone>>
             \/ StartWorker(u)
    BY <1>6 DEF Consider
  <2>2. UNCHANGED <<plugged, scanning, streak>> /\ scanning = "starting" /\ u \in Modems
    BY <1>0, <1>6, <2>1 DEF Consider, history
  <2>3. left' \ outdated' \subseteq plugged'
    BY <2>1, <2>2 DEF PresentInv
  <2>4. CASE UNCHANGED <<running, work, gone>>
    BY <2>2, <2>3, <2>4 DEF PresentInv, Idle
  <2>5. CASE StartWorker(u)
    <3>1. /\ work' = [work EXCEPT ![u]["init"] = @ + 1]
          /\ gone' = (gone \ {u}) \union (outdated \intersect {u})
      BY <2>5 DEF StartWorker
    <3>2. \A v \in Modems : v # u => (Idle(v)' <=> Idle(v)) /\ (v \in gone' <=> v \in gone)
      BY <1>0, <3>1 DEF Idle
    <3>3. u \in gone' \/ u \in plugged
      BY <2>1, <3>1 DEF PresentInv
    <3>4. QED BY <2>2, <2>3, <3>2, <3>3 DEF PresentInv
  <2>6. QED BY <2>1, <2>4, <2>5
<1>7. ASSUME NEW u \in Modems, InitFails(u) \/ InitSucceeds(u)
      PROVE  PresentInv'
  <2>1. /\ UNCHANGED <<plugged, gone, scanning, left, outdated>>
        /\ ~Idle(u) /\ \A v \in Modems : v # u => (Idle(v)' <=> Idle(v))
    BY <1>0, <1>7 DEF InitFails, InitSucceeds, Move, Idle, Stages, world, scan
  <2>2. \/ streak' = streak
        \/ streak' = [streak EXCEPT ![u] = 0]
        \/ u \notin gone /\ streak' = [streak EXCEPT ![u] = @ + 1]
    BY <1>0, <1>7 DEF InitFails, InitSucceeds, history
  <2>3. \A v \in Modems : v # u => streak'[v] = streak[v]
    BY <1>0, <2>2
  <2>4. streak'[u] > 0 => streak[u] > 0 \/ u \notin gone
    BY <1>0, <2>2
  <2>5. QED BY <2>1, <2>3, <2>4 DEF PresentInv
<1>8. ASSUME NEW u \in Modems, OnConnect(u) \/ OnDisconnect(u) \/ RunEnds(u)
      PROVE  PresentInv'
  <2>1. /\ UNCHANGED <<plugged, gone, scanning, left, outdated, streak>>
        /\ ~Idle(u) /\ \A v \in Modems : v # u => (Idle(v)' <=> Idle(v))
    BY <1>0, <1>8 DEF OnConnect, OnDisconnect, Callback, RunEnds, Move, Idle, Stages, world, scan, history
  <2>2. QED BY <2>1 DEF PresentInv
<1>9. ASSUME NEW u \in Modems, Leave(u)
      PROVE  PresentInv'
  <2>1. /\ UNCHANGED <<plugged, scanning, left, outdated, streak>>
        /\ gone' = gone \ {u} /\ running' = running \ {u}
        /\ ~Idle(u) /\ \A v \in Modems : v # u => (Idle(v)' <=> Idle(v))
    BY <1>0, <1>9 DEF Leave, Idle, Stages, scan, history
  <2>2. Idle(u)'
    BY <2>1 DEF WorkInv
  <2>3. QED BY <2>1, <2>2 DEF PresentInv
<1>10. CASE Tick \/ Stop \/ DiscoverFails \/ UNCHANGED vars
  BY <1>1, <1>10 DEF Tick, Stop, DiscoverFails, vars, world, scan, history
<1>11. QED BY <1>2, <1>3, <1>4, <1>5, <1>6, <1>7, <1>8, <1>9, <1>10 DEF Next, WorkerStep, ScanStep

LEMMA DelayKept ==
  ASSUME TypeOK, TypeOK', PresentInv, DelayInv, [Next]_vars
  PROVE  DelayInv'
<1> DEFINE Delay(n) == CappedPower(n, Interval, MaxRetryDelay)
<1>0. /\ streak \in [Modems -> Nat] /\ fails \in [Modems -> Nat] /\ MaxRetryDelay \in Nat
      /\ wait \in [Modems -> 0..MaxRetryDelay] /\ since \in [Modems -> 0..MaxRetryDelay]
      /\ streak' \in [Modems -> Nat] /\ fails' \in [Modems -> Nat]
      /\ wait' \in [Modems -> 0..MaxRetryDelay] /\ since' \in [Modems -> 0..MaxRetryDelay]
  BY DelaysAssumption DEF TypeOK
<1>1. CASE UNCHANGED <<fails, wait, streak, since>>
  BY <1>1 DEF DelayInv
<1>2. ASSUME NEW u \in Modems, Unplug(u)
      PROVE  DelayInv'
  <2>1. /\ streak' = [streak EXCEPT ![u] = 0] /\ since' = [since EXCEPT ![u] = 0]
        /\ UNCHANGED <<fails, wait>>
    BY <1>2 DEF Unplug, maps
  <2>2. streak'[u] = 0 /\ \A v \in Modems : v # u => streak'[v] = streak[v] /\ since'[v] = since[v]
    BY <1>0, <2>1
  <2>3. QED BY <1>0, <2>1, <2>2 DEF DelayInv
<1>3. CASE Tick
  <2>1. /\ UNCHANGED <<fails, streak>>
        /\ \A v \in Modems : wait'[v] = IF wait[v] > 0 THEN wait[v] - 1 ELSE 0
        /\ \A v \in Modems : since'[v] = IF streak[v] > 0 /\ since[v] < MaxRetryDelay
                                         THEN since[v] + 1 ELSE since[v]
    BY <1>3 DEF Tick
  <2>2. ASSUME NEW v \in Modems, streak[v] > 0
        PROVE  since'[v] + wait'[v] >= Delay(streak[v])
    <3>1. Delay(streak[v]) \in 0..MaxRetryDelay
      BY <1>0, <2>2, DelayIs
    <3>2. since[v] + wait[v] >= Delay(streak[v])
      BY <2>2 DEF DelayInv
    <3>3. since[v] \in 0..MaxRetryDelay /\ wait[v] \in 0..MaxRetryDelay
      BY <1>0
    <3> HIDE DEF Delay
    <3>4. CASE since[v] < MaxRetryDelay
      BY <1>0, <2>1, <2>2, <3>1, <3>2, <3>3, <3>4
    <3>5. CASE since[v] = MaxRetryDelay
      BY <1>0, <2>1, <2>2, <3>1, <3>3, <3>5
    <3>6. QED BY <1>0, <3>3, <3>4, <3>5
  <2>3. QED BY <2>1, <2>2 DEF DelayInv
<1>4. CASE ForgetAbsent
  <2>1. /\ scanning = "discovered" /\ UNCHANGED <<streak, since>>
        /\ \A v \in Modems : fails'[v] = IF v \in left THEN fails[v] ELSE 0
        /\ \A v \in Modems : wait'[v] = IF v \in left THEN wait[v] ELSE 0
    BY <1>4 DEF ForgetAbsent, history
  <2>2. \A v \in Modems : v \in left \/ streak[v] = 0
    BY <1>0, <2>1 DEF PresentInv
  <2>3. QED BY <2>1, <2>2 DEF DelayInv
<1>5. ASSUME NEW u \in Modems, InitFails(u)
      PROVE  DelayInv'
  <2>1. CASE stopping
    BY <1>1, <1>5, <2>1 DEF InitFails, history
  <2>2. CASE ~stopping
    <3>1. /\ fails' = [fails EXCEPT ![u] = @ + 1]
          /\ wait' = [wait EXCEPT ![u] =
                        InitBackoff(fails[u] + 1, WatchInterval, DefaultInterval, MaxRetryDelay)]
          /\ streak' = [streak EXCEPT ![u] = IF u \in gone THEN @ ELSE @ + 1]
          /\ since' = [since EXCEPT ![u] = 0]
      BY <1>5, <2>2 DEF InitFails
    <3>2. PICK n \in Nat : n = fails[u] + 1 /\ n >= 1
      BY <1>0
    <3>3. wait'[u] = Delay(n) /\ Delay(n) \in 0..MaxRetryDelay
      BY <1>0, <3>1, <3>2, DelayIs
    <3>4. since'[u] = 0 /\ fails'[u] = n /\ streak'[u] \in {streak[u], streak[u] + 1}
      BY <1>0, <3>1, <3>2
    <3>5. streak'[u] <= n /\ streak'[u] \in Nat
      <4>1. streak[u] <= fails[u] /\ streak[u] \in Nat /\ fails[u] \in Nat
        BY <1>0 DEF DelayInv
      <4>2. QED BY <3>2, <3>4, <4>1
    <3>6. streak'[u] > 0 => Delay(streak'[u]) <= Delay(n)
      <4>1. ASSUME NEW k \in Nat, k > 0, k <= n PROVE Delay(k) <= Delay(n)
        BY <3>2, <4>1, CappedGrows, IntervalIs
      <4>2. QED BY <3>5, <4>1
    <3>7. streak'[u] > 0 => Delay(streak'[u]) \in 0..MaxRetryDelay
      <4>1. \A k \in Nat : k > 0 => Delay(k) \in 0..MaxRetryDelay
        BY DelayIs
      <4>2. QED BY <3>5, <4>1
    <3>8. \A v \in Modems : v # u => /\ streak'[v] = streak[v] /\ since'[v] = since[v]
                                     /\ fails'[v] = fails[v] /\ wait'[v] = wait[v]
      BY <1>0, <3>1
    <3> HIDE DEF Delay
    <3>9. streak'[u] > 0 => since'[u] + wait'[u] >= Delay(streak'[u])
      BY <1>0, <3>3, <3>4, <3>6, <3>7
    <3>10. streak'[u] <= fails'[u]
      BY <3>4, <3>5
    <3>11. QED BY <3>8, <3>9, <3>10 DEF DelayInv, Delay
  <2>3. QED BY <2>1, <2>2
<1>6. ASSUME NEW u \in Modems, InitSucceeds(u)
      PROVE  DelayInv'
  <2>1. /\ streak' = [streak EXCEPT ![u] = 0] /\ since' = [since EXCEPT ![u] = 0]
        /\ fails' = [fails EXCEPT ![u] = 0] /\ wait' = [wait EXCEPT ![u] = 0]
    BY <1>6 DEF InitSucceeds
  <2>2. /\ streak'[u] = 0 /\ fails'[u] = 0
        /\ \A v \in Modems : v # u => /\ streak'[v] = streak[v] /\ since'[v] = since[v]
                                      /\ fails'[v] = fails[v] /\ wait'[v] = wait[v]
    BY <1>0, <2>1
  <2>3. QED BY <2>2 DEF DelayInv
<1>7. ASSUME NEW u \in Modems, PlugIn(u) \/ OnConnect(u) \/ RunEnds(u) \/ OnDisconnect(u) \/ Leave(u)
      PROVE  DelayInv'
  BY <1>1, <1>7 DEF PlugIn, OnConnect, OnDisconnect, Callback, RunEnds, Leave, maps, history
<1>8. CASE \/ Discover \/ Consider \/ ScanEnds \/ DiscoverFails \/ StopScanning \/ RunReturns
           \/ Stop \/ UNCHANGED vars
  BY <1>1, <1>8 DEF Discover, Consider, ScanEnds, DiscoverFails, StopScanning, RunReturns, Stop,
                    vars, maps, history
<1>9. QED BY <1>2, <1>3, <1>4, <1>5, <1>6, <1>7, <1>8 DEF Next, WorkerStep, ScanStep

LEMMA NextInv == IInv /\ [Next]_vars => IInv'
<1> SUFFICES ASSUME IInv, [Next]_vars PROVE IInv'
  OBVIOUS
<1>1. WorkInv'
  BY WorkStep DEF IInv
<1>2. OtherTypes' /\ DelayTypes'
  BY OthersKept, DelaysKept, TypeParts DEF IInv
<1>3. TypeOK'
  BY <1>1, <1>2, TypeParts
<1>4. PresentInv'
  BY <1>1, PresentKept DEF IInv
<1>5. DelayInv'
  BY <1>3, DelayKept DEF IInv
<1>6. QED BY <1>1, <1>3, <1>4, <1>5 DEF IInv

LEMMA AlwaysInv == Spec => []IInv
BY InitInv, NextInv, PTL DEF Spec

\* Variables stay in range, and no delay is longer than maxRetryDelay.
THEOREM TypeCorrect == Spec => []TypeOK
<1>1. IInv => TypeOK
  BY DEF IInv
<1>2. QED BY <1>1, AlwaysInv, PTL

\* manager.go:169: however scans, workers and replugs interleave, a modem that stays
\* and has failed n times in a row is tried no sooner than the interval doubled n-1
\* times, up to maxRetryDelay, after the last failure.
THEOREM FailuresAlwaysSpaced == Spec => FailuresAreSpaced
<1>1. IInv /\ [Next]_vars =>
        [\A u \in Modems : u \in running' \ running /\ streak[u] > 0
           => since[u] >= CappedPower(streak[u], Interval, MaxRetryDelay)]_vars
  <2>1. SUFFICES ASSUME IInv, Next, NEW u \in Modems, u \in running' \ running, streak[u] > 0
                 PROVE  since[u] >= CappedPower(streak[u], Interval, MaxRetryDelay)
    OBVIOUS
  <2>2. Consider
    <3>1. CASE \E v \in Modems : PlugIn(v) \/ Unplug(v) \/ WorkerStep(v)
      BY <2>1, <3>1 DEF PlugIn, Unplug, WorkerStep, InitFails, InitSucceeds, OnConnect, OnDisconnect,
                        Callback, RunEnds, Leave, maps
    <3>2. CASE \/ Discover \/ ForgetAbsent \/ ScanEnds \/ DiscoverFails \/ StopScanning \/ RunReturns
               \/ Tick \/ Stop
      BY <2>1, <3>2 DEF Discover, ForgetAbsent, ScanEnds, DiscoverFails, StopScanning, RunReturns,
                        Tick, Stop, maps
    <3>3. QED BY <2>1, <3>1, <3>2 DEF Next, ScanStep
  <2>3. ~(wait[u] > 0)
    BY <2>1, <2>2 DEF Consider, StartWorker
  <2>4. wait[u] \in Nat /\ since[u] \in Nat
    BY DelaysAssumption, <2>1 DEF IInv, TypeOK
  <2>5. since[u] + wait[u] >= CappedPower(streak[u], Interval, MaxRetryDelay)
    BY <2>1 DEF IInv, DelayInv
  <2>6. QED BY <2>3, <2>4, <2>5
<1>2. QED BY <1>1, AlwaysInv, PTL DEF Spec, FailuresAreSpaced
==============================================================================
