------------------------------ MODULE ModemInit ------------------------------
(***************************************************************************)
(* How a worker finds its modem's AT port and sets the modem up            *)
(* (Worker.Init in internal/modem/worker.go) over the AT port (at.go),     *)
(* line by line.  The modem is external: it executes in order what it is   *)
(* sent at a port it listens to, and answers each command.  Nothing in an  *)
(* answer says which command it belongs to.                                *)
(***************************************************************************)
EXTENDS Integers, FiniteSets, Sequences, SequencesExt

CONSTANTS
  MaxPorts,    \* serial ports of a modem (bound)
  FaultKinds,  \* what may go wrong in this instance
  MaxFaults    \* how often (bound)

\* open: a port cannot be opened.  error: the modem answers ERROR.  mute: no
\* answer comes.  late: it comes after the command has timed out.  port: the port fails.
AllFaults == {"open", "error", "mute", "late", "port"}

ASSUME PortsAssumption == MaxPorts \in Nat \ {0}
ASSUME FaultsAssumption == FaultKinds \subseteq AllFaults /\ MaxFaults \in Nat

Probe == "AT"

\* Mutant: what is on the SIM card is asked for first.
SetupIccidFirst ==
  <<"ATE0", "AT+CMEE", "AT+CICCID", "AT+CGSN", "AT+CPIN?", "AT+CNUM",
    "AT+COPS=", "AT+COPS?", "AT+CMGF", "AT+CPMS", "AT+CNMI">>

Setup == <<"ATE0", "AT+CMEE", "AT+CGSN", "AT+CPIN?", "AT+CICCID", "AT+CNUM",
           "AT+COPS=", "AT+COPS?", "AT+CMGF", "AT+CPMS", "AT+CNMI">>
Required == {"AT+CMGF", "AT+CPMS", "AT+CNMI"}
Commands == {Probe} \union ToSet(Setup)

VARIABLES
  nports,     \* ports discovery found
  listening,  \* those at which the modem takes commands
  simReady,   \* the SIM is ready
  echo,       \* the modem repeats what it is sent
  done,       \* setup commands it has executed since Init began
  left,       \* ports still to try
  open,       \* the port in use works
  port,       \* the port in use, 0 if none
  asked,      \* commands the modem has still to execute
  wire,       \* lines on their way to the host
  waiting,    \* a command waits for its answer
  got,        \* lines it has collected
  pc,         \* what Init is doing
  step,       \* probes sent to the port, or the setup command at hand
  overdue,    \* simReadyWait has passed
  info,       \* what was read of the modem
  late,       \* history: answers that came too late since Init began
  faults      \* faults so far

modem  == <<nports, listening, simReady, echo, done>>
link   == <<open, port, asked, wire, waiting, got>>
worker == <<left, pc, step, overdue, info>>
vars   == <<modem, link, worker, late, faults>>

Fault(kind) ==
  /\ kind \in FaultKinds
  /\ faults < MaxFaults
  /\ faults' = faults + 1

-------------------------------------------------------------------------------
(* The modem *)

\* What the modem may have to say to a command besides the final result: an IMEI is a
\* line of digits, an ICCID has a prefix or is a line of digits too, the rest has one.
Replies(c) ==
  CASE c = "AT+CGSN"   -> {"imei"}
    [] c = "AT+CPIN?"  -> {"ready"}
    [] c = "AT+CICCID" -> {"iccid", "bare iccid"}
    [] c = "AT+CNUM"   -> {"number"}
    [] c = "AT+COPS?"  -> {"operator"}
    [] OTHER           -> {}

Reply(c) == IF Replies(c) = {} THEN {<<>>} ELSE {<<l>> : l \in Replies(c)}

Digits == {"imei", "bare iccid"}

Echo(c) == IF echo THEN <<c>> ELSE <<>>

ModemExecutes ==
  /\ asked # <<>> /\ port \in listening
  /\ asked' = Tail(asked)
  /\ LET c == Head(asked) IN
       \/ /\ c = "AT+CPIN?" => simReady
          /\ \E lines \in Reply(c) : wire' = wire \o Echo(c) \o lines \o <<"OK">>
          /\ done' = done \union {c}
          /\ echo' = (echo /\ c # "ATE0")
          /\ UNCHANGED faults
       \/ /\ \/ c = "AT+CPIN?" /\ ~simReady /\ UNCHANGED faults
             \/ Fault("error")
          /\ wire' = wire \o Echo(c) \o <<"ERROR">>
          /\ UNCHANGED <<done, echo>>
  /\ UNCHANGED <<nports, listening, simReady, open, port, waiting, got, worker, late>>

SimBecomesReady ==
  /\ ~simReady
  /\ simReady' = TRUE
  /\ UNCHANGED <<nports, listening, echo, done, link, worker, late, faults>>

PortFails ==
  /\ open
  /\ Fault("port")
  /\ open' = FALSE /\ asked' = <<>> /\ wire' = <<>>
  /\ UNCHANGED <<modem, port, waiting, got, worker, late>>

-------------------------------------------------------------------------------
(* ATPort *)

\* Only one command waits at a time; it starts with nothing collected.
Send(c) ==
  /\ ~waiting
  /\ waiting' = TRUE /\ got' = <<>>
  /\ asked' = IF open THEN Append(asked, c) ELSE asked
  /\ UNCHANGED <<open, port, wire>>

\* dispatch: a line that comes while no command waits is dropped.
DropLine ==
  /\ ~waiting
  /\ wire # <<>>
  /\ wire' = Tail(wire)
  /\ UNCHANGED <<modem, open, port, asked, waiting, got, worker, late, faults>>

\* The command at hand.
Current == IF pc = "probing" THEN Probe ELSE Setup[step]

\* Command: its own echo is passed over, other lines are collected.
Collect ==
  /\ waiting /\ wire # <<>> /\ Head(wire) \notin {"OK", "ERROR"}
  /\ wire' = Tail(wire)
  /\ got' = IF Head(wire) = Current THEN got ELSE Append(got, Head(wire))
  /\ UNCHANGED <<modem, open, port, asked, waiting, worker, late, faults>>

\* It returns with the first final result that comes, ...
Answered(ok) ==
  /\ waiting /\ wire # <<>>
  /\ Head(wire) = IF ok THEN "OK" ELSE "ERROR"
  /\ wire' = Tail(wire)
  /\ UNCHANGED <<asked, late, faults>>

\* ... or without one: nobody listens, no answer comes, or it comes too late.
Unanswered ==
  \/ ~open /\ UNCHANGED <<asked, wire, late, faults>>
  \/ open /\ port \notin listening /\ UNCHANGED <<asked, wire, late, faults>>
  \/ /\ open /\ port \in listening /\ Fault("mute")
     /\ asked' = <<>> /\ wire' = <<>>
     /\ UNCHANGED late
  \/ /\ open /\ port \in listening /\ Fault("late")
     /\ late' = late + 1
     /\ UNCHANGED <<asked, wire>>

Succeeds == Answered(TRUE)
Fails == Answered(FALSE) \/ (waiting /\ Unanswered)
Returns == waiting' = FALSE /\ UNCHANGED <<open, port, got>>

Close == open' = FALSE /\ port' = 0 /\ asked' = <<>> /\ wire' = <<>> /\ waiting' = FALSE /\ got' = <<>>

-------------------------------------------------------------------------------
(* findATPort *)

\* Mutant: one port is cut off where the slices are joined.
PortOrderShort(n) ==
  LET reversed == [i \in 1..n |-> n + 1 - i] IN
  IF n > 2 THEN SubSeq(reversed, n - 2, n - 2) \o SubSeq(reversed, 1, n - 3) \o SubSeq(reversed, n, n)
           ELSE reversed

\* The third port first, then from the highest down.
PortOrder(n) ==
  LET reversed == [i \in 1..n |-> n + 1 - i] IN
  IF n > 2 THEN SubSeq(reversed, n - 2, n - 2) \o SubSeq(reversed, 1, n - 3) \o SubSeq(reversed, n - 1, n)
           ELSE reversed

OpenPort ==
  /\ pc = "opening" /\ left # <<>>
  /\ left' = Tail(left)
  /\ \/ /\ port' = Head(left) /\ open' = TRUE
        /\ pc' = "probing" /\ step' = 0
        /\ UNCHANGED faults
     \/ Fault("open") /\ UNCHANGED <<open, port, pc, step>>
  /\ UNCHANGED <<modem, asked, wire, waiting, got, overdue, info, late>>

NoPortAnswers ==
  /\ pc = "opening" /\ left = <<>>
  /\ pc' = "failed"
  /\ UNCHANGED <<modem, link, left, step, overdue, info, late, faults>>

\* A port is asked twice.
SendProbe ==
  /\ pc = "probing" /\ step < 2
  /\ Send(Probe)
  /\ step' = step + 1
  /\ UNCHANGED <<modem, left, pc, overdue, info, late, faults>>

ProbeSucceeds ==
  /\ pc = "probing"
  /\ Succeeds /\ Returns
  /\ pc' = "setup" /\ step' = 1
  /\ UNCHANGED <<modem, left, overdue, info>>

ProbeFails ==
  /\ pc = "probing"
  /\ Fails /\ Returns
  /\ UNCHANGED <<modem, worker>>

\* Mutant: a port that does not answer is left open.
NextPortUnclosed ==
  /\ pc = "probing" /\ step = 2 /\ ~waiting
  /\ pc' = "opening"
  /\ UNCHANGED <<modem, link, left, step, overdue, info, late, faults>>

NextPort ==
  /\ pc = "probing" /\ step = 2 /\ ~waiting
  /\ Close
  /\ pc' = "opening"
  /\ UNCHANGED <<modem, left, step, overdue, info, late, faults>>

-------------------------------------------------------------------------------
(* setup and waitSIM *)

SendSetup ==
  /\ pc = "setup"
  /\ Send(Setup[step])
  /\ UNCHANGED <<modem, worker, late, faults>>

Has(prefix) == IF prefix \in ToSet(got) THEN prefix ELSE ""

\* firstDigits: the first line of digits, whatever it says.
FirstDigits ==
  LET places == {i \in 1..Len(got) : got[i] \in Digits} IN
  IF places = {} THEN "" ELSE got[CHOOSE i \in places : \A j \in places : i <= j]

\* parseICCID: the first line, whatever it is, without a prefix.
ParseICCID ==
  IF got = <<>> THEN "" ELSE IF Head(got) = "bare iccid" THEN "iccid" ELSE Head(got)

\* Has: quotedField, which looks for its prefix.
Record(c) ==
  CASE c = "AT+CGSN"   -> info' = [info EXCEPT !.imei = FirstDigits]
    [] c = "AT+CICCID" -> info' = [info EXCEPT !.iccid = ParseICCID]
    [] c = "AT+CNUM"   -> info' = [info EXCEPT !.number = Has("number")]
    [] c = "AT+COPS?"  -> info' = [info EXCEPT !.operator = Has("operator")]
    [] OTHER           -> UNCHANGED info

Advance ==
  IF step = Len(Setup) THEN pc' = "ready" /\ UNCHANGED step
                       ELSE step' = step + 1 /\ UNCHANGED pc

\* Mutant: every round starts the wait anew.
PauseForever == pc' = "pausing"

\* waitSIM asks again after a pause until simReadyWait is over.
Pause == pc' = IF overdue THEN "giving up" ELSE "pausing"

SimAnswersReady == got # <<>> /\ Head(got) = "ready"

StepSucceeds ==
  /\ pc = "setup"
  /\ Succeeds /\ Returns
  /\ IF Current = "AT+CPIN?" /\ ~SimAnswersReady
       THEN Pause /\ UNCHANGED <<step, info>>
       ELSE Advance /\ Record(Current)
  /\ UNCHANGED <<modem, left, overdue>>

\* Mutant: no command has to succeed.
MoveOn == IF Current = "AT+CPIN?" THEN Pause /\ UNCHANGED step ELSE Advance

\* Only the SIM and the last three commands matter.
FailOrMoveOn ==
  CASE Current = "AT+CPIN?"    -> Pause /\ UNCHANGED step
    [] Current \in Required    -> pc' = "giving up" /\ UNCHANGED step
    [] OTHER                   -> Advance

StepFails ==
  /\ pc = "setup"
  /\ Fails /\ Returns
  /\ FailOrMoveOn
  /\ UNCHANGED <<modem, left, overdue, info>>

PauseEnds ==
  /\ pc = "pausing"
  /\ pc' = "setup"
  /\ UNCHANGED <<modem, link, left, step, overdue, info, late, faults>>

DeadlinePasses ==
  /\ pc \in {"setup", "pausing"} /\ Current = "AT+CPIN?" /\ ~overdue
  /\ overdue' = TRUE
  /\ UNCHANGED <<modem, link, left, pc, step, info, late, faults>>

GiveUp ==
  /\ pc = "giving up"
  /\ Close
  /\ pc' = "failed"
  /\ UNCHANGED <<modem, left, step, overdue, info, late, faults>>

-------------------------------------------------------------------------------
(* The manager starts the next worker when this one's Init fails, or later *)

NoInfo == [imei |-> "", iccid |-> "", number |-> "", operator |-> ""]

NextWorker ==
  /\ pc \in {"failed", "ready"}
  /\ Close
  /\ done' = {}
  /\ left' = PortOrder(nports)
  /\ pc' = "opening" /\ step' = 0 /\ overdue' = FALSE
  /\ info' = NoInfo /\ late' = 0
  /\ UNCHANGED <<nports, listening, simReady, echo, faults>>

Init ==
  /\ nports \in 1..MaxPorts
  /\ listening \in (SUBSET (1..nports)) \ {{}}
  /\ simReady \in BOOLEAN /\ echo = TRUE /\ done = {}
  /\ left = PortOrder(nports)
  /\ open = FALSE /\ port = 0 /\ asked = <<>> /\ wire = <<>>
  /\ waiting = FALSE /\ got = <<>>
  /\ pc = "opening" /\ step = 0 /\ overdue = FALSE
  /\ info = NoInfo /\ late = 0
  /\ faults = 0

Ports == OpenPort \/ NoPortAnswers \/ SendProbe \/ ProbeSucceeds \/ ProbeFails \/ NextPort
Setting == SendSetup \/ StepSucceeds \/ StepFails \/ PauseEnds \/ GiveUp

Next ==
  \/ ModemExecutes \/ SimBecomesReady \/ PortFails
  \/ Collect \/ DropLine
  \/ Ports \/ Setting \/ DeadlinePasses
  \/ NextWorker

Spec == Init /\ [][Next]_vars

\* The worker runs, the modem works through its commands, time passes, and the
\* manager tries again after a failure.
LiveSpec ==
  /\ Spec
  /\ WF_vars(Ports \/ Setting \/ Collect) /\ WF_vars(ModemExecutes) /\ WF_vars(DeadlinePasses)
  /\ WF_vars(pc = "failed" /\ NextWorker)

-------------------------------------------------------------------------------
(* Properties *)

Lines ==
  Commands \union {"imei", "ready", "iccid", "bare iccid", "number", "operator", "OK", "ERROR"}
Read == Lines \union {""}

\* Variables stay in range; in particular a port is in use from when it is opened until
\* Init has closed it, and none while another is opened or once Init has failed.
TypeOK ==
  /\ nports \in 1..MaxPorts /\ listening \subseteq 1..nports
  /\ simReady \in BOOLEAN /\ echo \in BOOLEAN /\ done \subseteq Commands
  /\ left \in Seq(1..nports)
  /\ open \in BOOLEAN /\ port \in 0..nports
  /\ port = 0 <=> pc \in {"opening", "failed"}
  /\ asked \in Seq(Commands) /\ wire \in Seq(Lines)
  /\ waiting \in BOOLEAN /\ got \in Seq(Lines \ {"OK", "ERROR"})
  /\ pc \in {"opening", "probing", "setup", "pausing", "giving up", "failed", "ready"}
  /\ step \in 0..Len(Setup) /\ overdue \in BOOLEAN
  /\ info \in [imei : Read, iccid : Read, number : Read, operator : Read]
  /\ late \in 0..MaxFaults /\ faults \in Nat

\* messageKey, resolveName: the IMEI in the key of every message is the modem's own or
\* missing, although any line of digits is taken for it and an answer may come during
\* another command, for no command that prints other digits was sent before.  The ICCID,
\* for which any line is taken, is the SIM's or missing unless an answer came late.
IdentityIsOwn ==
  /\ info.imei \in {"", "imei"}
  /\ late = 0 => info.iccid \in {"", "iccid"}

\* worker.go:94: a worker that runs has a modem in PDU mode with notifications, and
\* reads the storage that was configured.  An answer that comes late stands in for
\* the next command's, so each may hide one command the modem refused or has not executed yet.
ReadyIsConfigured == pc = "ready" => Cardinality(Required \ done) <= late

\* Init returns, whatever the modem and its SIM do.
InitReturns == []<>(pc \in {"failed", "ready"})

\* A modem that takes commands at one of its ports and has a SIM is set up in the end.
SetUpInTheEnd == <>simReady => []<>(pc = "ready")
===============================================================================
