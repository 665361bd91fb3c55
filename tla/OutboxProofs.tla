---------------------------- MODULE OutboxProofs ----------------------------
(***************************************************************************)
(* Proofs about Outbox for every set of commands and every bound: the      *)
(* inductive invariant IInv, and from it the durability of results.        *)
(***************************************************************************)
EXTENDS Outbox, TLAPS

LEMMA InitIInv == Init => IInv
<1> SUFFICES ASSUME Init PROVE IInv
  OBVIOUS
<1> USE BoundsAssumption, CmdAssumption DEF Init
<1>1. TypeOK
  BY DEF TypeOK, Sender, Result, Request
<1>2. SentIsDurable /\ ExecInv /\ LoopInv
  BY DEF SentIsDurable, ExecInv, LoopInv
<1>3. ExecCallInv /\ LoopCallInv
  BY DEF ExecCallInv, LoopCallInv, Sender
<1> QED BY <1>1, <1>2, <1>3 DEF IInv

(***************************************************************************)
(* Two facts the cases share: CBS never forgets a recorded result, and a   *)
(* goroutine has at most one request in the network.                       *)
(***************************************************************************)
LEMMA ApplyRecords ==
  ASSUME TypeOK, NEW m \in net, Apply(m)
  PROVE  /\ recorded' \in [Cmd -> 0..MaxRuns]
         /\ cbs' \in [Cmd -> {"new", "queued", "dispatched", "terminal"}]
         /\ m.cmd \in Cmd /\ recorded'[m.cmd] # 0
         /\ \A c \in Cmd : recorded[c] # 0 => recorded'[c] # 0
  BY BoundsAssumption DEF TypeOK, Apply, Request, Run

LEMMA OneCall ==
  ASSUME IInv, NEW s \in Sender, NEW m \in net, NEW n \in net,
         m.from = s, n.from = s
  PROVE  m = n
<1>1. m \in Request /\ n \in Request
  BY DEF IInv, TypeOK
<1>2. m.cmd = n.cmd /\ m.run = n.run
  BY DEF IInv, ExecCallInv, LoopCallInv, Sender
<1> QED BY <1>1, <1>2 DEF Request

LEMMA CbsStep ==
  ASSUME IInv, NEW c \in Cmd, Queue(c) \/ Reap(c)
  PROVE  IInv'
<1> USE DEF IInv, Queue, Reap, diskVars, execVars, loopVars, netVars, procVars
<1>1. TypeOK'
  BY DEF TypeOK
<1>2. SentIsDurable' /\ ExecInv' /\ LoopInv'
  BY DEF SentIsDurable, ExecInv, LoopInv, Safe
<1>3. ExecCallInv' /\ LoopCallInv'
  BY DEF ExecCallInv, LoopCallInv
<1> QED BY <1>1, <1>2, <1>3

(***************************************************************************)
(* Every way a pending call ends takes its request out of the sender's     *)
(* hands and answers "ok" only for a recorded result.                      *)
(***************************************************************************)
LEMMA AnswerStep ==
  ASSUME IInv, NEW s \in Sender, NEW m \in net, InFlight(s, m),
         NEW answer \in {"ok", "err"}, Return(s, answer),
         answer = "ok" => recorded'[m.cmd] # 0,
         \A c \in Cmd : recorded[c] # 0 => recorded'[c] # 0,
         net' \subseteq (net \ {m}) \cup GivenUp({m}),
         UNCHANGED <<diskVars, execVars, loopVars>>
  PROVE  /\ SentIsDurable' /\ ExecInv' /\ LoopInv'
         /\ ExecCallInv' /\ LoopCallInv'
         /\ net' \subseteq Request /\ reply' \in [Sender -> {"none", "ok", "err"}]
<1> USE DEF diskVars, execVars, loopVars, InFlight, Return
<1>1. /\ m \in Request
      /\ reply' = [reply EXCEPT ![s] = answer]
      /\ reply \in [Sender -> {"none", "ok", "err"}]
      /\ ecmd \in Cmd \cup {NoCmd}
  BY DEF IInv, TypeOK
<1>2. \A n \in net' : \/ n \in net /\ n # m
                      \/ n = [m EXCEPT !.from = "late"]
  BY DEF GivenUp
<1>3. net' \subseteq Request
  BY <1>1, <1>2 DEF Request, IInv, TypeOK
<1>4. \A c \in Cmd : Safe(c) => Safe(c)'
  BY DEF Safe
<1>5. SentIsDurable'
  BY <1>1, <1>2, <1>4 DEF IInv, SentIsDurable, Request, TypeOK
<1>6. ExecInv' /\ LoopInv'
  BY <1>4 DEF IInv, ExecInv, LoopInv, TypeOK, Result
<1>7. \A n \in net' : n.from \in Sender => n \in net /\ n.from # s
  BY <1>1, <1>2, OneCall DEF Request, Sender
<1>8. ExecCallInv'
  <2>1. \A n \in net' : n.from = "exec" =>
          epc' = "wait" /\ reply'["exec"] = "none" /\ n.cmd = ecmd' /\ n.run = run'
    BY <1>1, <1>7 DEF IInv, ExecCallInv, Sender
  <2>2. CASE s = "exec"
    BY <2>1, <2>2, <1>1 DEF IInv, ExecCallInv, ExecInv, TypeOK, Sender
  <2>3. CASE s = "loop"
    BY <2>1, <2>3, <1>1 DEF IInv, ExecCallInv, ExecInv, TypeOK, Sender
  <2> QED BY <2>2, <2>3 DEF Sender
<1>9. LoopCallInv'
  <2>1. \A n \in net' : n.from = "loop" =>
          lpc' = "wait" /\ reply'["loop"] = "none"
          /\ n.cmd = lmsg'.cmd /\ n.run = lmsg'.run
    BY <1>1, <1>7 DEF IInv, LoopCallInv, Sender
  <2>2. CASE s = "loop"
    BY <2>1, <2>2, <1>1 DEF IInv, LoopCallInv, LoopInv, TypeOK, Sender, Result
  <2>3. CASE s = "exec"
    BY <2>1, <2>3, <1>1 DEF IInv, LoopCallInv, LoopInv, TypeOK, Sender, Result
  <2> QED BY <2>2, <2>3 DEF Sender
<1> QED BY <1>1, <1>3, <1>5, <1>6, <1>8, <1>9

LEMMA SettleStep ==
  ASSUME IInv, NEW s \in Sender, Settle(s)
  PROVE  IInv'
<1> USE DEF IInv
<1>1. PICK m \in net : \/ Deliver(s, m) \/ DeliverReplyLost(s, m)
                       \/ Refuse(s, m) \/ GiveUp(s, m)
  BY DEF Settle
<1>2. CASE Deliver(s, m) \/ DeliverReplyLost(s, m)
  BY <1>2, ApplyRecords, AnswerStep
  DEF Deliver, DeliverReplyLost, TypeOK, diskVars, execVars, loopVars, procVars
<1>3. CASE Refuse(s, m) \/ GiveUp(s, m)
  BY <1>3, AnswerStep
  DEF Refuse, GiveUp, TypeOK, cbsVars, diskVars, execVars, loopVars, procVars
<1> QED BY <1>1, <1>2, <1>3

LEMMA LateStep ==
  ASSUME IInv, NEW m \in net, DeliverLate(m) \/ LoseLate(m)
  PROVE  IInv'
<1> USE DEF IInv, DeliverLate, LoseLate, cbsVars, diskVars, execVars, loopVars, procVars
<1>1. /\ recorded' \in [Cmd -> 0..MaxRuns]
      /\ cbs' \in [Cmd -> {"new", "queued", "dispatched", "terminal"}]
      /\ \A c \in Cmd : recorded[c] # 0 => recorded'[c] # 0
  BY ApplyRecords DEF TypeOK
<1>2. TypeOK'
  BY <1>1 DEF TypeOK
<1>3. SentIsDurable' /\ ExecInv' /\ LoopInv'
  BY <1>1 DEF SentIsDurable, ExecInv, LoopInv, Safe, TypeOK, Request, Result
<1>4. ExecCallInv'
  BY <1>1 DEF ExecCallInv, ExecInv, TypeOK
<1>5. LoopCallInv'
  BY <1>1 DEF LoopCallInv, LoopInv, TypeOK, Result
<1> QED BY <1>2, <1>3, <1>4, <1>5

(***************************************************************************)
(* pollLoop.  Only Publish and AckReport touch a published file, and       *)
(* AckReport comes after an "ok".                                          *)
(***************************************************************************)
LEMMA PollStep ==
  ASSUME IInv, NEW c \in Cmd, Poll(c)
  PROVE  IInv'
<1> USE DEF IInv, Poll, diskVars, loopVars, netVars, procVars
<1>1. TypeOK'
  BY DEF TypeOK
<1>2. SentIsDurable' /\ ExecInv' /\ LoopInv'
  BY BoundsAssumption DEF SentIsDurable, ExecInv, LoopInv, Safe, TypeOK
<1>3. ExecCallInv' /\ LoopCallInv'
  BY DEF ExecCallInv, LoopCallInv
<1> QED BY <1>1, <1>2, <1>3

LEMMA EnqueueStep ==
  ASSUME IInv, JobDone \/ WriteTmp \/ FillTmp \/ Publish \/ EnqueueFails
  PROVE  IInv'
<1> USE BoundsAssumption
    DEF IInv, JobDone, WriteTmp, FillTmp, Publish, EnqueueFails, DiskFault,
        cbsVars, diskVars, loopVars, netVars, procVars, Run
<1>1. ecmd \in Cmd
  BY DEF ExecInv
<1>2. TypeOK'
  BY <1>1 DEF TypeOK, ExecInv
<1>3. \A c \in Cmd : Safe(c) => Safe(c)'
  BY <1>1 DEF Safe, TypeOK, ExecInv
<1>4. SentIsDurable' /\ LoopInv'
  BY <1>3 DEF SentIsDurable, LoopInv, TypeOK, Request, Result
<1>5. ExecInv'
  BY <1>1, <1>3 DEF ExecInv, Safe, TypeOK
<1>6. ExecCallInv' /\ LoopCallInv'
  BY DEF ExecCallInv, LoopCallInv
<1> QED BY <1>2, <1>4, <1>5, <1>6

LEMMA SendAckStep ==
  ASSUME IInv, SendReport \/ ReportReturns \/ AckReport
  PROVE  IInv'
<1> USE DEF IInv, Running, Return, cbsVars, diskVars, loopVars, netVars, procVars
<1>1. ecmd \in Cmd
  BY DEF ExecInv, SendReport, ReportReturns, AckReport
<1>2. CASE SendReport
  <2> USE <1>1, <1>2 DEF SendReport
  <2>1. TypeOK'
    BY DEF TypeOK, Request, Sender, ExecInv
  <2>2. SentIsDurable' /\ ExecInv' /\ LoopInv'
    BY DEF SentIsDurable, ExecInv, LoopInv, Safe
  <2>3. ExecCallInv' /\ LoopCallInv'
    BY DEF ExecCallInv, LoopCallInv
  <2> QED BY <2>1, <2>2, <2>3
<1>3. CASE ReportReturns
  <2> USE <1>1, <1>3 DEF ReportReturns
  <2>1. TypeOK'
    BY DEF TypeOK
  <2>2. SentIsDurable' /\ ExecInv' /\ LoopInv'
    BY DEF SentIsDurable, ExecInv, LoopInv, Safe
  <2>3. ExecCallInv' /\ LoopCallInv'
    BY DEF ExecCallInv, LoopCallInv, TypeOK, Sender
  <2> QED BY <2>1, <2>2, <2>3
<1>4. CASE AckReport
  <2> USE <1>1, <1>4 DEF AckReport, Ack, DiskFault
  <2>1. TypeOK'
    BY BoundsAssumption DEF TypeOK
  <2>2. \A c \in Cmd : Safe(c) => Safe(c)'
    BY DEF Safe, ExecCallInv, TypeOK
  <2>3. SentIsDurable' /\ LoopInv'
    BY <2>2 DEF SentIsDurable, LoopInv, TypeOK, Request, Result
  <2>4. ExecInv'
    BY DEF ExecInv, TypeOK
  <2>5. ExecCallInv' /\ LoopCallInv'
    BY DEF ExecCallInv, LoopCallInv
  <2> QED BY <2>1, <2>3, <2>4, <2>5
<1> QED BY <1>2, <1>3, <1>4

(***************************************************************************)
(* reportLoop.                                                             *)
(***************************************************************************)
LEMMA FlushStep ==
  ASSUME IInv, \/ Scan \/ ReadDone \/ Rescan \/ StopLoop
               \/ \E c \in Cmd : ReadFile(c)
  PROVE  IInv'
<1> USE BoundsAssumption
    DEF IInv, Running, Scan, ReadDone, Rescan, StopLoop, ReadFile, DiskFault,
        cbsVars, diskVars, execVars, netVars, procVars
<1>1. TypeOK'
  BY DEF TypeOK, Result, Run
<1>2. SentIsDurable' /\ ExecInv'
  BY DEF SentIsDurable, ExecInv, Safe, TypeOK
<1>3. LoopInv'
  BY DEF LoopInv, Safe, TypeOK, Run
<1>4. ExecCallInv' /\ LoopCallInv'
  BY DEF ExecCallInv, LoopCallInv
<1> QED BY <1>1, <1>2, <1>3, <1>4

LEMMA ReplayStep ==
  ASSUME IInv, SendReturns \/ AckPending \/ \E m \in pend : SendPending(m)
  PROVE  IInv'
<1> USE DEF IInv, Running, Return, cbsVars, diskVars, execVars, netVars, procVars
<1>1. CASE \E m \in pend : SendPending(m)
  <2> USE <1>1 DEF SendPending
  <2>1. TypeOK'
    BY DEF TypeOK, Request, Sender, Result
  <2>2. SentIsDurable' /\ ExecInv' /\ LoopInv'
    BY DEF SentIsDurable, ExecInv, LoopInv, Safe, TypeOK
  <2>3. ExecCallInv' /\ LoopCallInv'
    BY DEF ExecCallInv, LoopCallInv, TypeOK
  <2> QED BY <2>1, <2>2, <2>3
<1>2. CASE SendReturns
  <2> USE <1>2 DEF SendReturns
  <2>1. TypeOK'
    BY DEF TypeOK
  <2>2. SentIsDurable' /\ ExecInv' /\ LoopInv'
    BY DEF SentIsDurable, ExecInv, LoopInv, Safe
  <2>3. ExecCallInv' /\ LoopCallInv'
    BY DEF ExecCallInv, LoopCallInv, TypeOK, Sender
  <2> QED BY <2>1, <2>2, <2>3
<1>3. CASE AckPending
  <2> USE <1>3 DEF AckPending, Ack, DiskFault
  <2>0. lmsg.cmd \in Cmd /\ recorded[lmsg.cmd] # 0
    BY DEF LoopInv, LoopCallInv, Result
  <2>1. TypeOK'
    BY <2>0, BoundsAssumption DEF TypeOK
  <2>2. \A c \in Cmd : Safe(c) => Safe(c)'
    BY <2>0 DEF Safe, TypeOK
  <2>3. SentIsDurable' /\ LoopInv'
    BY <2>2 DEF SentIsDurable, LoopInv, TypeOK, Request, Result
  <2>4. ExecInv'
    BY <2>2 DEF ExecInv, TypeOK
  <2>5. ExecCallInv' /\ LoopCallInv'
    BY DEF ExecCallInv, LoopCallInv
  <2> QED BY <2>1, <2>3, <2>4, <2>5
<1> QED BY <1>1, <1>2, <1>3

(***************************************************************************)
(* The process.  A stop leaves the disk and CBS alone, and requests that   *)
(* outlive it belong to nobody.                                            *)
(***************************************************************************)
LEMMA ProcessStep ==
  ASSUME IInv, Shutdown \/ Exit \/ GraceEnds \/ Crash \/ Boot
  PROVE  IInv'
<1> USE BoundsAssumption
    DEF IInv, cbsVars, diskVars, execVars, loopVars, netVars
<1>1. CASE Shutdown \/ Boot
  <2> USE <1>1 DEF Shutdown, Boot
  <2>1. TypeOK'
    BY DEF TypeOK
  <2>2. SentIsDurable' /\ ExecInv' /\ LoopInv'
    BY DEF SentIsDurable, ExecInv, LoopInv, Safe
  <2>3. ExecCallInv' /\ LoopCallInv'
    BY DEF ExecCallInv, LoopCallInv
  <2> QED BY <2>1, <2>2, <2>3
<1>2. CASE Exit \/ GraceEnds \/ Crash
  <2> USE <1>2 DEF Exit, GraceEnds, Crash, Die
  <2>1. \A n \in net' : /\ n.from = "late"
                        /\ n \in Request
                        /\ \E m \in net : n.cmd = m.cmd
    BY DEF Late, GivenUp, TypeOK, Request
  <2>2. TypeOK'
    BY <2>1 DEF TypeOK
  <2>3. SentIsDurable' /\ ExecInv' /\ LoopInv'
    BY <2>1 DEF SentIsDurable, ExecInv, LoopInv, Safe
  <2>4. ExecCallInv' /\ LoopCallInv'
    BY <2>1 DEF ExecCallInv, LoopCallInv, Sender
  <2> QED BY <2>2, <2>3, <2>4
<1> QED BY <1>1, <1>2

LEMMA NextIInv == IInv /\ [Next]_vars => IInv'
<1> SUFFICES ASSUME IInv, [Next]_vars PROVE IInv'
  OBVIOUS
<1>1. CASE UNCHANGED vars
  BY <1>1 DEF vars, cbsVars, diskVars, execVars, loopVars, netVars, procVars,
     IInv, TypeOK, SentIsDurable, ExecInv, ExecCallInv, LoopInv, LoopCallInv, Safe
<1>2. CASE Next
  BY <1>2, CbsStep, PollStep, SettleStep, LateStep, EnqueueStep, SendAckStep,
     FlushStep, ReplayStep, ProcessStep
  DEF Next, ReportStep, LoopStep
<1> QED BY <1>1, <1>2

\* The types of all variables are kept, whatever the number of commands and
\* the bounds.
THEOREM TypeCorrect == Spec => []TypeOK
<1>1. IInv => TypeOK
  BY DEF IInv
<1> QED BY <1>1, InitIInv, NextIInv, PTL DEF Spec

\* Whenever the result of a command is in the network (sdk.go, report and
\* reportLoop), a crash there loses nothing: it is on disk, recorded, or its
\* enqueue has failed.
THEOREM Durability == Spec => []SentIsDurable
<1>1. IInv => SentIsDurable
  BY DEF IInv
<1> QED BY <1>1, InitIInv, NextIInv, PTL DEF Spec

(***************************************************************************)
(* Files are removed by AckReport and AckPending alone, each behind an     *)
(* "ok" that IInv ties to a recorded result.                               *)
(***************************************************************************)
LEMMA FileStep ==
  ASSUME IInv, [Next]_vars, NEW c \in Cmd
  PROVE  /\ file'[c] = 0 => file[c] = 0 \/ recorded[c] # 0
         /\ recorded[c] # 0 => recorded'[c] # 0
<1> USE DEF IInv
<1>1. CASE UNCHANGED vars
  BY <1>1 DEF vars, cbsVars, diskVars
<1>2. ASSUME NEW m \in net, Apply(m), file' = file
      PROVE  recorded[c] # 0 => recorded'[c] # 0
  BY <1>2, ApplyRecords
<1>3. CASE Publish
  BY <1>3 DEF Publish, ExecInv, TypeOK, Run, cbsVars
<1>4. CASE AckReport
  BY <1>4 DEF AckReport, Ack, ExecCallInv, TypeOK, cbsVars
<1>5. CASE AckPending
  BY <1>5 DEF AckPending, Ack, LoopCallInv, TypeOK, cbsVars
<1>6. CASE \/ \E s \in Sender : Settle(s)
           \/ \E m \in net : DeliverLate(m) \/ LoseLate(m)
  BY <1>6, <1>2 DEF Settle, Deliver, DeliverReplyLost, Refuse, GiveUp,
     DeliverLate, LoseLate, diskVars, cbsVars
<1>7. CASE \/ \E d \in Cmd : Queue(d) \/ Reap(d) \/ Poll(d)
           \/ JobDone \/ WriteTmp \/ FillTmp \/ EnqueueFails
           \/ SendReport \/ ReportReturns
  BY <1>7 DEF Queue, Reap, Poll, JobDone, WriteTmp, FillTmp, EnqueueFails,
     SendReport, ReportReturns, diskVars, cbsVars
<1>8. CASE \/ Scan \/ ReadDone \/ SendReturns \/ Rescan \/ StopLoop
           \/ \E d \in Cmd : ReadFile(d)
           \/ \E m \in pend : SendPending(m)
           \/ Shutdown \/ Exit \/ GraceEnds \/ Crash \/ Boot
  BY <1>8 DEF Scan, ReadDone, SendReturns, Rescan, StopLoop, ReadFile,
     SendPending, Shutdown, Exit, GraceEnds, Crash, Die, Boot, diskVars, cbsVars
<1> QED BY <1>1, <1>3, <1>4, <1>5, <1>6, <1>7, <1>8
        DEF Next, ReportStep, LoopStep

\* A published result leaves the outbox (outbox.go, ack) only once CBS has
\* recorded the command, in every interleaving and across every stop.
THEOREM NoResultForgotten == Spec => NeverForgotten
<1>1. IInv /\ [Next]_vars => [\A c \in Cmd : file[c] # 0 /\ file'[c] = 0
                                => recorded[c] # 0]_vars
  BY FileStep
<1> QED BY <1>1, InitIInv, NextIInv, PTL DEF Spec, NeverForgotten

(***************************************************************************)
(* The safety half of the refinement: every step of the outbox moves the   *)
(* outcome of at most one command, along an edge that Delivery allows.     *)
(***************************************************************************)
LEMMA InitRefines == Init => Promise!Init
  BY DEF Init, Promise!Init, outcome

\* CBS applies a result that is safe: a held one, or one whose enqueue failed.
LEMMA ApplyRefines ==
  ASSUME IInv, NEW m \in net, Apply(m), file' = file, unsafe' = unsafe
  PROVE  [Promise!Next]_<<outcome, unsafe>>
<1> DEFINE c == m.cmd
<1>1. c \in Cmd /\ Safe(c)
  BY DEF IInv, TypeOK, Request, SentIsDurable
<1>2. recorded' = [recorded EXCEPT ![c] = IF @ = 0 THEN m.run ELSE @]
      /\ m.run # 0 /\ recorded \in [Cmd -> 0..MaxRuns]
  BY DEF Apply, IInv, TypeOK, Request, Run
<1>3. CASE recorded[c] # 0
  <2>1. recorded' = recorded
    BY <1>1, <1>2, <1>3
  <2> QED BY <2>1 DEF outcome
<1>4. CASE recorded[c] = 0
  <2>1. outcome' = [outcome EXCEPT ![c] = "recorded"]
    BY <1>1, <1>2, <1>4 DEF outcome
  <2>2. CASE file[c] # 0
    <3>1. outcome[c] = "held"
      BY <1>1, <1>4, <2>2 DEF outcome
    <3>2. Promise!Record(c)
      BY <2>1, <3>1 DEF Promise!Record, Promise!Move
    <3> QED BY <1>1, <3>2 DEF Promise!Next
  <2>3. CASE file[c] = 0
    <3>1. outcome[c] = "none"
      BY <1>1, <1>4, <2>3 DEF outcome
    <3>2. c \in unsafe
      BY <1>1, <1>4, <2>3, BoundsAssumption DEF Safe, Run
    <3>3. Promise!RecordUnheld(c)
      BY <2>1, <3>1, <3>2 DEF Promise!RecordUnheld, Promise!Move
    <3> QED BY <1>1, <3>3 DEF Promise!Next
  <2> QED BY <2>2, <2>3
<1> QED BY <1>3, <1>4

\* Publishing a first result holds it; publishing a later one changes nothing.
LEMMA PublishRefines ==
  ASSUME IInv, Publish
  PROVE  [Promise!Next]_<<outcome, unsafe>>
<1>1. /\ ecmd \in Cmd
      /\ file' = [file EXCEPT ![ecmd] = run] /\ run # 0
      /\ file \in [Cmd -> 0..MaxRuns]
      /\ recorded' = recorded /\ unsafe' = unsafe
  BY DEF IInv, ExecInv, TypeOK, Publish, Run, cbsVars
<1>2. CASE file[ecmd] # 0 \/ recorded[ecmd] # 0
  <2>1. outcome' = outcome
    BY <1>1, <1>2 DEF outcome
  <2> QED BY <1>1, <2>1
<1>3. CASE file[ecmd] = 0 /\ recorded[ecmd] = 0
  <2>1. outcome[ecmd] = "none" /\ outcome' = [outcome EXCEPT ![ecmd] = "held"]
    BY <1>1, <1>3 DEF outcome
  <2>2. Promise!Hold(ecmd)
    BY <1>1, <2>1 DEF Promise!Hold, Promise!Move
  <2> QED BY <1>1, <2>2 DEF Promise!Next
<1> QED BY <1>2, <1>3

\* Removing the file of a recorded result changes nothing either.
LEMMA AckRefines ==
  ASSUME IInv, AckReport \/ AckPending
  PROVE  UNCHANGED <<outcome, unsafe>>
<1>1. CASE AckReport
  BY <1>1 DEF IInv, ExecCallInv, TypeOK, AckReport, Ack, outcome, cbsVars
<1>2. CASE AckPending
  BY <1>2 DEF IInv, LoopCallInv, TypeOK, AckPending, Ack, outcome, cbsVars
<1> QED BY <1>1, <1>2

\* A failed enqueue is what excuses a result from being held.
LEMMA FaultRefines ==
  ASSUME IInv, EnqueueFails
  PROVE  [Promise!Next]_<<outcome, unsafe>>
<1>1. ecmd \in Cmd
  BY DEF IInv, ExecInv, EnqueueFails
<1>2. outcome' = outcome /\ unsafe' = unsafe \cup {ecmd}
  BY DEF EnqueueFails, outcome, cbsVars
<1>3. Promise!CannotHold(ecmd)
  BY <1>2 DEF Promise!CannotHold
<1> QED BY <1>1, <1>3 DEF Promise!Next

LEMMA StepRefines ==
  ASSUME IInv, [Next]_vars
  PROVE  [Promise!Next]_<<outcome, unsafe>>
<1>1. CASE UNCHANGED <<file, recorded, unsafe>>
  BY <1>1 DEF outcome
<1>2. CASE \/ \E s \in Sender : Settle(s)
           \/ \E m \in net : DeliverLate(m) \/ LoseLate(m)
  BY <1>1, <1>2, ApplyRefines DEF Settle, Deliver, DeliverReplyLost, Refuse,
     GiveUp, DeliverLate, LoseLate, diskVars, cbsVars
<1>3. CASE Publish
  BY <1>3, PublishRefines
<1>4. CASE AckReport \/ AckPending
  BY <1>4, AckRefines
<1>5. CASE \/ \E d \in Cmd : Queue(d) \/ Reap(d) \/ Poll(d)
           \/ JobDone \/ WriteTmp \/ FillTmp
           \/ SendReport \/ ReportReturns
  BY <1>1, <1>5 DEF Queue, Reap, Poll, JobDone, WriteTmp, FillTmp,
     SendReport, ReportReturns, diskVars, cbsVars
<1>6. CASE \/ Scan \/ ReadDone \/ SendReturns \/ Rescan \/ StopLoop
           \/ \E d \in Cmd : ReadFile(d)
           \/ \E m \in pend : SendPending(m)
           \/ Shutdown \/ Exit \/ GraceEnds \/ Crash \/ Boot
  BY <1>1, <1>6 DEF Scan, ReadDone, SendReturns, Rescan, StopLoop, ReadFile,
     SendPending, Shutdown, Exit, GraceEnds, Crash, Die, Boot, diskVars, cbsVars
<1>7. CASE UNCHANGED vars
  BY <1>1, <1>7 DEF vars, diskVars, cbsVars
<1>8. CASE EnqueueFails
  BY <1>8, FaultRefines
<1> QED BY <1>2, <1>3, <1>4, <1>5, <1>6, <1>7, <1>8 DEF Next, ReportStep, LoopStep

\* The outbox never does what Delivery forbids: it forgets no held result,
\* un-records none, and skips holding only where an enqueue has failed.
THEOREM ImplementsDelivery == Spec => Promise!Safety
<1>1. IInv /\ [Next]_vars => [Promise!Next]_<<outcome, unsafe>>
  BY StepRefines
<1> QED BY <1>1, InitRefines, InitIInv, NextIInv, PTL DEF Spec, Promise!Safety

\* The inductive invariant holds: what is in a request, in an answer or in the
\* hands of a goroutine is on disk or with CBS.
THEOREM OutboxInvariant == Spec => []IInv
  BY InitIInv, NextIInv, PTL DEF Spec

(***************************************************************************)
(* What Delivery promises of one command carries over to the outbox: its   *)
(* outcome never goes back, whatever stops, re-executions and late         *)
(* requests do (sdk.go, report; outbox.go, ack).                           *)
(***************************************************************************)
Forward ==
    \A c \in Cmd : /\ outcome[c] = "recorded" => outcome'[c] = "recorded"
                   /\ outcome[c] = "held" => outcome'[c] # "none"
                   /\ outcome[c] = "none" /\ outcome'[c] = "recorded"
                        => c \in unsafe

OnlyForward == [][Forward]_<<outcome, unsafe>>

THEOREM OutcomeOnlyMovesForward == Spec => OnlyForward
<1>1. Promise!Next => Forward
  <2>1. SUFFICES ASSUME Promise!Next, NEW c \in Cmd
                 PROVE  /\ outcome[c] = "recorded" => outcome'[c] = "recorded"
                        /\ outcome[c] = "held" => outcome'[c] # "none"
                        /\ outcome[c] = "none" /\ outcome'[c] = "recorded"
                             => c \in unsafe
    BY DEF Forward
  <2>2. PICK d \in Cmd : \/ Promise!Hold(d) \/ Promise!CannotHold(d)
                         \/ Promise!Record(d) \/ Promise!RecordUnheld(d)
    BY <2>1 DEF Promise!Next
  <2>3. DOMAIN outcome = Cmd
    BY DEF outcome
  <2> HIDE DEF outcome
  <2>4. ASSUME NEW to, outcome' = [outcome EXCEPT ![d] = to]
        PROVE  outcome'[c] = IF c = d THEN to ELSE outcome[c]
    BY <2>3, <2>4
  <2> QED BY <2>2, <2>4 DEF Promise!Hold, Promise!CannotHold, Promise!Record,
             Promise!RecordUnheld, Promise!Move
<1> QED BY <1>1, ImplementsDelivery, PTL DEF OnlyForward, Promise!Safety
=============================================================================
