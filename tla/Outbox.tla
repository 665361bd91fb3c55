------------------------------- MODULE Outbox -------------------------------
(***************************************************************************)
(* Durable, at-least-once delivery of command results (outbox.go and the   *)
(* reporting half of sdk.go).                                              *)
(*                                                                         *)
(* Two goroutines of the agent share one directory: pollLoop fetches a     *)
(* command, runs it and reports its result (enqueue, send, ack), and       *)
(* reportLoop scans the directory and replays what is there (flush).  The  *)
(* control plane, CBS, queues commands under a per-system lock, marks a    *)
(* command dispatched when it is polled, resets one that stays dispatched  *)
(* (the TTL reaper) and records results idempotently.  The network loses   *)
(* and delays requests and replies, the disk may fail, and the process is  *)
(* stopped, killed and restarted at any point.                             *)
(*                                                                         *)
(* Abstractions.  A result is the number of the execution that produced    *)
(* it.  A command id is a number: the rank of its file name in the sort    *)
(* that pending() does.  The backoff delay is left out: the loop may       *)
(* rescan at any time.  The job itself is one step (JobControl and         *)
(* BackupPipe open it up).                                                 *)
(***************************************************************************)
EXTENDS Integers, FiniteSets

CONSTANTS
    Cmd,            \* command ids, ranked by file name
    MaxRuns,        \* bound: executions over the whole behaviour
    MaxStops,       \* bound: shutdowns and crashes
    MaxDiskFaults,  \* bound: failing disk operations
    MaxLate,        \* bound: given-up requests still in the network
    NoCmd,          \* pollLoop holds no command
    NoMsg           \* reportLoop is sending nothing

ASSUME CmdAssumption == Cmd \subseteq Nat /\ NoCmd \notin Cmd
ASSUME BoundsAssumption ==
    /\ MaxRuns \in Nat
    /\ MaxStops \in Nat
    /\ MaxDiskFaults \in Nat
    /\ MaxLate \in Nat

VARIABLES
    cbs,        \* CBS: state of each command
    recorded,   \* CBS: the run whose result it recorded, 0 for none
    run,        \* number of executions so far; names the latest result
    file,       \* disk: run whose result <id>.json holds, 0 for no file
    tmp,        \* disk: the same for <id>.json.tmp, which may be torn
    epc,        \* pollLoop: where it is in execute/report
    ecmd,       \* pollLoop: the command it is executing
    lpc,        \* reportLoop: where it is in flush
    names,      \* pending(): directory entries still to be read
    pend,       \* flush: results read and not yet sent
    lmsg,       \* flush: the result being sent
    net,        \* result requests in the network
    reply,      \* what the HTTP call of each goroutine returned
    proc,       \* the agent process: up, stopping (ctx cancelled) or down
    stops,      \* shutdowns and crashes so far
    faults,     \* failed disk operations so far
    unsafe      \* commands of which an enqueue failed

cbsVars  == <<cbs, recorded>>
diskVars == <<file, tmp, faults, unsafe>>
execVars == <<run, epc, ecmd>>
loopVars == <<lpc, names, pend, lmsg>>
netVars  == <<net, reply>>
procVars == <<proc, stops>>
vars == <<cbsVars, diskVars, execVars, loopVars, netVars, procVars>>

Sender  == {"exec", "loop"}
Torn    == -1
Run     == 1..MaxRuns
Result  == [cmd : Cmd, run : Run]
Request == [from : Sender \cup {"late"}, cmd : Cmd, run : Run]

Running == proc \in {"up", "stopping"}

Init ==
    /\ cbs = [c \in Cmd |-> "new"]
    /\ recorded = [c \in Cmd |-> 0]
    /\ run = 0
    /\ file = [c \in Cmd |-> 0]
    /\ tmp = [c \in Cmd |-> 0]
    /\ epc = "poll" /\ ecmd = NoCmd
    /\ lpc = "scan" /\ names = {} /\ pend = {} /\ lmsg = NoMsg
    /\ net = {} /\ reply = [s \in Sender |-> "none"]
    /\ proc = "up" /\ stops = 0
    /\ faults = 0 /\ unsafe = {}

-----------------------------------------------------------------------------
(* CBS, the control plane: external, known from the SDK's use of it.        *)

\* The operator asks for an operation; the state lock allows one at a time.
Queue(c) ==
    /\ cbs[c] = "new"
    /\ \A d \in Cmd : cbs[d] \notin {"queued", "dispatched"}
    /\ cbs' = [cbs EXCEPT ![c] = "queued"]
    /\ UNCHANGED <<recorded, diskVars, execVars, loopVars, netVars, procVars>>

\* The TTL reaper resets a command that has been dispatched for too long.
Reap(c) ==
    /\ cbs[c] = "dispatched"
    /\ cbs' = [cbs EXCEPT ![c] = "queued"]
    /\ UNCHANGED <<recorded, diskVars, execVars, loopVars, netVars, procVars>>

\* CBS applies a result: the first one of a command counts.
Apply(m) ==
    /\ recorded' = [recorded EXCEPT ![m.cmd] = IF @ = 0 THEN m.run ELSE @]
    /\ cbs' = [cbs EXCEPT ![m.cmd] = "terminal"]

-----------------------------------------------------------------------------
(* The network between a waiting sender and CBS.                            *)

InFlight(s, m) == m \in net /\ m.from = s

Return(s, answer) == reply' = [reply EXCEPT ![s] = answer]

\* CBS records the result and its 2xx answer arrives.
Deliver(s, m) ==
    /\ InFlight(s, m)
    /\ Apply(m)
    /\ net' = net \ {m}
    /\ Return(s, "ok")
    /\ UNCHANGED <<diskVars, execVars, loopVars, procVars>>

\* CBS records the result and the answer is lost.
DeliverReplyLost(s, m) ==
    /\ InFlight(s, m)
    /\ Apply(m)
    /\ net' = net \ {m}
    /\ Return(s, "err")
    /\ UNCHANGED <<diskVars, execVars, loopVars, procVars>>

\* Anything but a 2xx, or the request never arrives.
Refuse(s, m) ==
    /\ InFlight(s, m)
    /\ net' = net \ {m}
    /\ Return(s, "err")
    /\ UNCHANGED <<cbsVars, diskVars, execVars, loopVars, procVars>>

Late == {m \in net : m.from = "late"}
GivenUp(M) == {[m EXCEPT !.from = "late"] : m \in M}
RoomForLate(M) == Cardinality(Late \cup GivenUp(M)) <= MaxLate

\* The client gives up (30s timeout, or its context is cancelled) while the
\* request is still on its way.
GiveUp(s, m) ==
    /\ InFlight(s, m)
    /\ RoomForLate({m})
    /\ net' = (net \ {m}) \cup GivenUp({m})
    /\ Return(s, "err")
    /\ UNCHANGED <<cbsVars, diskVars, execVars, loopVars, procVars>>

\* A request nobody waits for any more arrives, or is lost.
DeliverLate(m) ==
    /\ m \in Late
    /\ Apply(m)
    /\ net' = net \ {m}
    /\ UNCHANGED <<reply, diskVars, execVars, loopVars, procVars>>

LoseLate(m) ==
    /\ m \in Late
    /\ net' = net \ {m}
    /\ UNCHANGED <<reply, cbsVars, diskVars, execVars, loopVars, procVars>>

\* Every HTTP call returns: the client has a timeout.
Settle(s) == \E m \in net : Deliver(s, m) \/ DeliverReplyLost(s, m)
                            \/ Refuse(s, m) \/ GiveUp(s, m)

-----------------------------------------------------------------------------
(* pollLoop: poll, execute, report.                                         *)

\* poll(): CBS marks the oldest queued command dispatched; the response that
\* carries it may be lost or undecodable, and then the edge never sees it.
Poll(c) ==
    /\ proc = "up" /\ epc = "poll"
    /\ cbs[c] = "queued" /\ run < MaxRuns
    /\ cbs' = [cbs EXCEPT ![c] = "dispatched"]
    /\ \/ epc' = "job" /\ ecmd' = c
       \/ UNCHANGED <<epc, ecmd>>
    /\ UNCHANGED <<recorded, run, diskVars, loopVars, netVars, procVars>>

\* Mutation: report() sends before it persists.
SendsFirst ==
    /\ Running /\ epc = "job"
    /\ run' = run + 1
    /\ epc' = "send"
    /\ UNCHANGED <<ecmd, cbsVars, diskVars, loopVars, netVars, procVars>>

\* execute() has an outcome, also when a shutdown interrupted the job.
JobDone ==
    /\ Running /\ epc = "job"
    /\ run' = run + 1
    /\ epc' = "write"
    /\ UNCHANGED <<ecmd, cbsVars, diskVars, loopVars, netVars, procVars>>

DiskFault == faults < MaxDiskFaults /\ faults' = faults + 1

\* Mutation: enqueue() renames a file whose write was not awaited.
WriteUnawaited ==
    /\ Running /\ epc = "write"
    /\ tmp' = [tmp EXCEPT ![ecmd] = Torn]
    /\ epc' = "rename"
    /\ UNCHANGED <<run, ecmd, file, faults, unsafe,
                   cbsVars, loopVars, netVars, procVars>>

\* enqueue(): os.WriteFile truncates the temporary file ...
WriteTmp ==
    /\ Running /\ epc = "write"
    /\ tmp' = [tmp EXCEPT ![ecmd] = Torn]
    /\ epc' = "fill"
    /\ UNCHANGED <<run, ecmd, file, faults, unsafe,
                   cbsVars, loopVars, netVars, procVars>>

\* ... and writes the result into it ...
FillTmp ==
    /\ Running /\ epc = "fill"
    /\ tmp' = [tmp EXCEPT ![ecmd] = run]
    /\ epc' = "rename"
    /\ UNCHANGED <<run, ecmd, file, faults, unsafe,
                   cbsVars, loopVars, netVars, procVars>>

\* ... which os.Rename publishes atomically over any earlier result.
Publish ==
    /\ Running /\ epc = "rename"
    /\ file' = [file EXCEPT ![ecmd] = tmp[ecmd]]
    /\ tmp' = [tmp EXCEPT ![ecmd] = 0]
    /\ epc' = "send"
    /\ UNCHANGED <<run, ecmd, faults, unsafe,
                   cbsVars, loopVars, netVars, procVars>>

\* Any of the three fails: report() logs it and still sends, best-effort.
EnqueueFails ==
    /\ Running /\ epc \in {"write", "fill", "rename"}
    /\ DiskFault
    /\ unsafe' = unsafe \cup {ecmd}
    /\ epc' = "send"
    /\ UNCHANGED <<run, ecmd, file, tmp, cbsVars, loopVars, netVars, procVars>>

\* sendReport() on the process context.  Once that is cancelled the HTTP
\* client fails without sending: the result is left to the next boot.
SendReport ==
    /\ epc = "send"
    /\ \/ /\ proc = "up"
          /\ net' = net \cup {[from |-> "exec", cmd |-> ecmd, run |-> run]}
          /\ epc' = "wait"
          /\ UNCHANGED ecmd
       \/ /\ proc = "stopping"
          /\ epc' = "poll" /\ ecmd' = NoCmd
          /\ UNCHANGED net
    /\ UNCHANGED <<run, reply, cbsVars, diskVars, loopVars, procVars>>

\* Mutation: report() acks without looking at the answer.
AcksAnyAnswer ==
    /\ Running /\ epc = "wait" /\ reply["exec"] # "none"
    /\ epc' = "ack"
    /\ Return("exec", "none")
    /\ UNCHANGED <<run, ecmd, net, cbsVars, diskVars, loopVars, procVars>>

ReportReturns ==
    /\ Running /\ epc = "wait" /\ reply["exec"] # "none"
    /\ \/ reply["exec"] = "ok" /\ epc' = "ack" /\ UNCHANGED ecmd
       \/ reply["exec"] = "err" /\ epc' = "poll" /\ ecmd' = NoCmd
    /\ Return("exec", "none")
    /\ UNCHANGED <<run, net, cbsVars, diskVars, loopVars, procVars>>

\* ack(): remove <id>.json, whatever it holds by now; an error is ignored.
Ack(c) ==
    \/ file' = [file EXCEPT ![c] = 0] /\ UNCHANGED faults
    \/ DiskFault /\ UNCHANGED file

AckReport ==
    /\ Running /\ epc = "ack"
    /\ Ack(ecmd)
    /\ epc' = "poll" /\ ecmd' = NoCmd
    /\ UNCHANGED <<run, tmp, unsafe, cbsVars, loopVars, netVars, procVars>>

ReportStep ==
    \/ WriteTmp \/ FillTmp \/ Publish \/ EnqueueFails
    \/ SendReport \/ ReportReturns \/ AckReport

-----------------------------------------------------------------------------
(* reportLoop: flush, back off, flush again.                                *)

\* Mutation: the listing also takes temporary files for results.
ScanTakesTmp ==
    /\ Running /\ lpc = "scan"
    /\ names' = {c \in Cmd : file[c] # 0 \/ tmp[c] # 0}
    /\ pend' = {}
    /\ lpc' = "read"
    /\ UNCHANGED <<lmsg, cbsVars, diskVars, execVars, netVars, procVars>>

\* pending(): list the directory; a listing that fails is an empty one.
\* Temporary files are not *.json.
Scan ==
    /\ Running /\ lpc = "scan"
    /\ \/ names' = {c \in Cmd : file[c] # 0} /\ UNCHANGED faults
       \/ names' = {} /\ DiskFault
    /\ pend' = {}
    /\ lpc' = "read"
    /\ UNCHANGED <<lmsg, cbsVars, file, tmp, unsafe, execVars, netVars, procVars>>

\* Read the files in name order; one that is gone or unreadable is skipped.
ReadFile(c) ==
    /\ Running /\ lpc = "read"
    /\ c \in names /\ \A d \in names : c <= d
    /\ names' = names \ {c}
    /\ \/ /\ file[c] # 0
          /\ pend' = pend \cup {[cmd |-> c, run |-> file[c]]}
          /\ UNCHANGED faults
       \/ file[c] = 0 /\ UNCHANGED <<pend, faults>>
       \/ file[c] # 0 /\ DiskFault /\ UNCHANGED pend
    /\ UNCHANGED <<lpc, lmsg, file, tmp, unsafe,
                   cbsVars, execVars, netVars, procVars>>

ReadDone ==
    /\ Running /\ lpc = "read" /\ names = {}
    /\ lpc' = "next"
    /\ UNCHANGED <<names, pend, lmsg,
                   cbsVars, diskVars, execVars, netVars, procVars>>

\* flush() sends what it read, in the order it read it.
SendPending(m) ==
    /\ proc = "up" /\ lpc = "next"
    /\ m \in pend /\ \A o \in pend : m.cmd <= o.cmd
    /\ pend' = pend \ {m} /\ lmsg' = m
    /\ net' = net \cup {[from |-> "loop", cmd |-> m.cmd, run |-> m.run]}
    /\ lpc' = "wait"
    /\ UNCHANGED <<names, reply, cbsVars, diskVars, execVars, procVars>>

SendReturns ==
    /\ Running /\ lpc = "wait" /\ reply["loop"] # "none"
    /\ \/ reply["loop"] = "ok" /\ lpc' = "ack" /\ UNCHANGED lmsg
       \/ reply["loop"] = "err" /\ lpc' = "next" /\ lmsg' = NoMsg
    /\ Return("loop", "none")
    /\ UNCHANGED <<names, pend, net, cbsVars, diskVars, execVars, procVars>>

\* Mutation: flush() forgets to ack what it has delivered.
NoAckAfterReplay ==
    /\ Running /\ lpc = "ack"
    /\ lpc' = "next" /\ lmsg' = NoMsg
    /\ UNCHANGED <<names, pend,
                   cbsVars, diskVars, execVars, netVars, procVars>>

AckPending ==
    /\ Running /\ lpc = "ack"
    /\ Ack(lmsg.cmd)
    /\ lpc' = "next" /\ lmsg' = NoMsg
    /\ UNCHANGED <<names, pend, tmp, unsafe,
                   cbsVars, execVars, netVars, procVars>>

\* The pass is over; the loop sleeps for the backoff and scans again.
Rescan ==
    /\ proc = "up" /\ lpc = "next" /\ pend = {}
    /\ lpc' = "scan"
    /\ UNCHANGED <<names, pend, lmsg,
                   cbsVars, diskVars, execVars, netVars, procVars>>

\* flush() sees the cancelled context between two results and reportLoop
\* returns; so does its wait for the next pass.
StopLoop ==
    /\ proc = "stopping" /\ lpc = "next"
    /\ lpc' = "stopped" /\ pend' = {}
    /\ UNCHANGED <<names, lmsg, cbsVars, diskVars, execVars, netVars, procVars>>

LoopStep ==
    \/ Scan \/ ReadDone \/ SendReturns \/ AckPending \/ Rescan \/ StopLoop
    \/ \E c \in Cmd : ReadFile(c)
    \/ \E m \in pend : SendPending(m)

-----------------------------------------------------------------------------
(* The process: SIGTERM, a kill at any point, a restart by the container.   *)

Shutdown ==
    /\ proc = "up" /\ stops < MaxStops
    /\ proc' = "stopping" /\ stops' = stops + 1
    /\ UNCHANGED <<cbsVars, diskVars, execVars, loopVars, netVars>>

\* The process is gone: memory is lost, requests in flight may survive it.
Die ==
    /\ proc' = "down"
    /\ epc' = "poll" /\ ecmd' = NoCmd
    /\ lpc' = "scan" /\ names' = {} /\ pend' = {} /\ lmsg' = NoMsg
    /\ reply' = [s \in Sender |-> "none"]
    /\ \E M \in SUBSET (net \ Late) :
         RoomForLate(M) /\ net' = Late \cup GivenUp(M)
    /\ UNCHANGED <<cbsVars, diskVars, run>>

\* Run() returns when pollLoop does; nothing waits for reportLoop.
Exit ==
    /\ proc = "stopping" /\ epc = "poll"
    /\ Die
    /\ UNCHANGED stops

\* A process that does not return in time is killed by its container.
GraceEnds ==
    /\ proc = "stopping"
    /\ Die
    /\ UNCHANGED stops

Crash ==
    /\ Running /\ stops < MaxStops
    /\ Die
    /\ stops' = stops + 1

\* Mutation: the loop that replays is not started again.
BootWithoutReplay ==
    /\ proc = "down"
    /\ proc' = "up" /\ lpc' = "stopped"
    /\ UNCHANGED <<stops, names, pend, lmsg,
                   cbsVars, diskVars, execVars, netVars>>

Boot ==
    /\ proc = "down"
    /\ proc' = "up"
    /\ UNCHANGED <<stops, cbsVars, diskVars, execVars, loopVars, netVars>>

-----------------------------------------------------------------------------
Next ==
    \/ \E c \in Cmd : Queue(c) \/ Reap(c) \/ Poll(c)
    \/ \E s \in Sender : Settle(s)
    \/ \E m \in net : DeliverLate(m) \/ LoseLate(m)
    \/ JobDone \/ ReportStep
    \/ LoopStep
    \/ Shutdown \/ Exit \/ GraceEnds \/ Crash \/ Boot

(* Fairness.  Go schedules both goroutines and every HTTP call returns      *)
(* (timeout); the container's runtime ends a process that does not stop and *)
(* starts it again.  Strong fairness on Deliver is the network: a result    *)
(* that is sent again and again gets through with its answer.  Nothing      *)
(* obliges the operator, the reaper, poll, a fault or a stop, nor a job to  *)
(* end: a backup may hang (BackupPipe).                                     *)
Fairness ==
    /\ WF_vars(ReportStep)
    /\ WF_vars(LoopStep)
    /\ WF_vars(Exit \/ GraceEnds) /\ WF_vars(Boot)
    /\ \A s \in Sender : WF_vars(Settle(s))
    /\ \A c \in Cmd :
         SF_vars(\E m \in net : m.cmd = c /\ Deliver("loop", m))

Spec == Init /\ [][Next]_vars
FairSpec == Spec /\ Fairness

-----------------------------------------------------------------------------
(* Properties.                                                              *)

TypeOK ==
    /\ cbs \in [Cmd -> {"new", "queued", "dispatched", "terminal"}]
    /\ recorded \in [Cmd -> 0..MaxRuns]
    /\ run \in 0..MaxRuns
    /\ file \in [Cmd -> 0..MaxRuns]
    /\ tmp \in [Cmd -> {Torn} \cup 0..MaxRuns]
    /\ epc \in {"poll", "job", "write", "fill", "rename", "send", "wait", "ack"}
    /\ ecmd \in Cmd \cup {NoCmd}
    /\ lpc \in {"scan", "read", "next", "wait", "ack", "stopped"}
    /\ names \subseteq Cmd
    /\ pend \subseteq Result
    /\ lmsg \in Result \cup {NoMsg}
    /\ net \subseteq Request
    /\ reply \in [Sender -> {"none", "ok", "err"}]
    /\ proc \in {"up", "stopping", "down"}
    /\ stops \in 0..MaxStops
    /\ faults \in 0..MaxDiskFaults
    /\ unsafe \subseteq Cmd

\* The outcome of c cannot be lost by stopping the process here: it is on
\* disk, whole, or CBS has it, or enqueue failed and said so.
Safe(c) == file[c] \in Run \/ recorded[c] # 0 \/ c \in unsafe

\* "The result is on disk before the first attempt, so a crash mid-send
\* loses nothing" (sdk.go, report): whenever a request for a command is in
\* the network, from whichever goroutine and however late, its outcome is
\* safe.
SentIsDurable == \A m \in net : Safe(m.cmd)

\* A file leaves the outbox only for a command CBS has recorded: not at a
\* shutdown, not on a refused or abandoned send, not by a re-execution.
NeverForgotten ==
    [][\A c \in Cmd : file[c] # 0 /\ file'[c] = 0 => recorded[c] # 0]_vars

\* The outbox drains for good, across refusals, lost requests and replies,
\* failed removals, shutdowns and kills (NeverForgotten: not by dropping).
EventuallyDrained == <>[](\A c \in Cmd : file[c] = 0)

\* The outbox implements the promise of Delivery.
outcome == [c \in Cmd |-> IF recorded[c] # 0 THEN "recorded"
                          ELSE IF file[c] # 0 THEN "held" ELSE "none"]

Promise == INSTANCE Delivery WITH phase <- outcome, unheld <- unsafe

KeepsPromise == Promise!Spec

-----------------------------------------------------------------------------
(* The inductive invariant behind SentIsDurable and NeverForgotten.         *)

\* pollLoop: between poll and the end of report it holds a command, and what
\* is about to be published is the result of this execution.
ExecInv ==
    /\ epc # "poll" => ecmd \in Cmd
    /\ epc = "job" => run < MaxRuns
    /\ epc \notin {"poll", "job"} => run \in Run
    /\ epc = "rename" => tmp[ecmd] = run
    /\ epc \in {"send", "wait"} => Safe(ecmd)

\* reportLoop: it replays only what it has found on disk.
LoopInv ==
    /\ \A c \in names : Safe(c)
    /\ \A m \in pend : Safe(m.cmd)
    /\ lpc \in {"wait", "ack"} => lmsg \in Result /\ Safe(lmsg.cmd)

\* A request in flight belongs to a goroutine that waits for its answer, and
\* an "ok" is never older than the request it answers.
ExecCallInv ==
    /\ \A m \in net : m.from = "exec" =>
         epc = "wait" /\ reply["exec"] = "none" /\ m.cmd = ecmd /\ m.run = run
    /\ epc # "wait" => reply["exec"] = "none"
    /\ reply["exec"] = "ok" \/ epc = "ack" => recorded[ecmd] # 0

LoopCallInv ==
    /\ \A m \in net : m.from = "loop" =>
         lpc = "wait" /\ reply["loop"] = "none"
         /\ m.cmd = lmsg.cmd /\ m.run = lmsg.run
    /\ lpc # "wait" => reply["loop"] = "none"
    /\ reply["loop"] = "ok" \/ lpc = "ack" => recorded[lmsg.cmd] # 0

\* The strengthening that the proofs use; also checked as it stands.
IInv ==
    /\ TypeOK
    /\ SentIsDurable
    /\ ExecInv /\ ExecCallInv
    /\ LoopInv /\ LoopCallInv
=============================================================================
