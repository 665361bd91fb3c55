----------------------------- MODULE JobProofs ------------------------------
(***************************************************************************)
(* Proofs about JobControl for any number of jobs: what a reported status  *)
(* says about the job is true.                                             *)
(***************************************************************************)
EXTENDS JobControl, TLAPS

LEMMA IdleShown == Idle \in Shown
  BY BoundsAssumption DEF Idle, Shown, Activity, NoJob

LEMMA InitJobInv == Init => JobInv
<1> SUFFICES ASSUME Init PROVE JobInv
  OBVIOUS
<1> USE BoundsAssumption DEF Init
<1>1. TypeOK
  BY IdleShown DEF TypeOK, Kind, Job, NoJob, Status
<1>2. HookInv /\ ResultInv
  BY DEF HookInv, ResultInv, Busy, Registered, Decided, NoJob
<1>3. OutcomeInv /\ CancelledWasHit /\ CutIsCancelled /\ CancelledWasAborted
  BY DEF OutcomeInv, CancelledWasHit, CutIsCancelled, CancelledWasAborted,
     Outcome, Busy, Status
<1> QED BY <1>1, <1>2, <1>3 DEF JobInv

(***************************************************************************)
(* Steps of execute that hand nothing to CBS: only HookInv and ResultInv   *)
(* are at stake.                                                           *)
(***************************************************************************)
LEMMA QuietOutcome ==
  ASSUME JobInv, UNCHANGED <<posted, reported, kind>>,
         hit \subseteq hit', aborted \subseteq aborted', job' = job,
         bpc = "cancel" =>
           grabbed \in aborted' \/ (bpc' = "cancel" /\ grabbed' = grabbed),
         Busy' /\ epc' # "end" => Busy /\ epc # "end",
         \A j \in cut' : j \in cut \/ \A s \in Status : ~ Outcome(j, s)
  PROVE  OutcomeInv' /\ CancelledWasHit' /\ CutIsCancelled' /\ CancelledWasAborted'
  BY DEF JobInv, OutcomeInv, CancelledWasHit, CutIsCancelled, CancelledWasAborted,
     Outcome, Busy, Status

LEMMA PollStep ==
  ASSUME JobInv, Poll
  PROVE  JobInv'
<1> USE BoundsAssumption
    DEF JobInv, Poll, Goto, jobVars, hookVars, beatVars, NoJob
<1>1. job \in 0..MaxJobs /\ job + 1 \in Job /\ kind' \in [Job -> Kind]
      /\ \A j \in Job : j <= job => kind'[j] = kind[j]
  BY DEF TypeOK, Job
<1>2. TypeOK'
  BY <1>1 DEF TypeOK
<1>3. HookInv' /\ ResultInv'
  BY <1>1 DEF HookInv, ResultInv, Busy, Registered, Decided, TypeOK, Job
<1>4. OutcomeInv'
  BY <1>1 DEF OutcomeInv, Outcome, Busy, Job
<1>5. CancelledWasHit' /\ CutIsCancelled' /\ CancelledWasAborted'
  BY <1>1 DEF OutcomeInv, CancelledWasHit, CutIsCancelled, CancelledWasAborted,
     Outcome, Status
<1> QED BY <1>2, <1>3, <1>4, <1>5

LEMMA BeforeReportStep ==
  ASSUME JobInv, \/ StartJob \/ SetActivity \/ UnknownType \/ NoBackupID
                 \/ BeginProgress \/ EndActivity \/ CheckCancelled \/ EndJob
                 \/ RunReturns
  PROVE  JobInv'
<1> USE BoundsAssumption
    DEF StartJob, SetActivity, UnknownType, NoBackupID, BeginProgress,
        EndActivity, CheckCancelled, EndJob, RunReturns, Goto,
        cbsVars, jobVars, hookVars, beatVars
<1>0. act' \in Shown
  <2>1. act \in Shown /\ (epc # "poll" => job \in Job \cup {NoJob})
    BY DEF JobInv, TypeOK
  <2>2. CASE SetActivity
    BY <2>1, <2>2 DEF Shown, Activity
  <2>3. CASE BeginProgress
    <3>1. act' = [activity |-> act.activity, started |-> job, bytes |-> 0]
      BY <2>1, <2>3 DEF Shown
    <3> QED BY <2>1, <2>3, <3>1 DEF Shown
  <2>4. CASE EndActivity
    BY <2>4, IdleShown
  <2> QED BY <2>1, <2>2, <2>3, <2>4
<1>1. TypeOK'
  BY <1>0 DEF JobInv, TypeOK, HookInv, Busy, Status
<1>2. HookInv'
  BY DEF JobInv, HookInv, Busy, Registered, TypeOK
<1>3. ResultInv'
  BY DEF JobInv, HookInv, ResultInv, Busy, Registered, Decided, TypeOK
<1>4. OutcomeInv' /\ CancelledWasHit' /\ CutIsCancelled' /\ CancelledWasAborted'
  BY QuietOutcome DEF Busy
<1> QED BY <1>1, <1>2, <1>3, <1>4 DEF JobInv

LEMMA StreamStepInv ==
  ASSUME JobInv, StreamStep \/ StreamAborted
  PROVE  JobInv'
<1> USE BoundsAssumption
    DEF StreamStep, AddBytes, Commit, StreamDone, StreamFails, StreamAborted,
        CtxDone, Goto, cbsVars, execVars, jobVars, hookVars, beatVars
<1>1. job \in Job /\ Registered /\ epc = "stream"
  BY DEF JobInv, HookInv, TypeOK, Busy, Registered
<1>2. TypeOK'
  BY <1>1 DEF JobInv, TypeOK, Shown, Status
<1>3. HookInv'
  BY <1>1 DEF JobInv, HookInv, Busy, Registered, TypeOK
<1>4. ResultInv'
  BY <1>1 DEF JobInv, ResultInv, Busy, Registered, Decided, TypeOK
<1>5. OutcomeInv' /\ CancelledWasHit' /\ CutIsCancelled' /\ CancelledWasAborted'
  <2>1. \A s \in Status : ~ Outcome(job, s)
    BY <1>1 DEF JobInv, OutcomeInv, Busy
  <2>2. \A j \in cut' : j \in cut \/ j = job
    OBVIOUS
  <2> QED BY <1>1, <2>1, <2>2, QuietOutcome DEF Busy
<1> QED BY <1>2, <1>3, <1>4, <1>5 DEF JobInv

(***************************************************************************)
(* Reporting, and the arrival of a report.                                 *)
(***************************************************************************)
LEMMA ReportStep ==
  ASSUME JobInv, Report
  PROVE  JobInv'
<1> USE DEF Report, Goto, cbsVars, hookVars, beatVars
<1>1. job \in Job /\ Decided /\ Busy
  BY DEF JobInv, HookInv, TypeOK, Busy, Decided
<1>2. \A j \in Job, s \in Status :
        Outcome(j, s)' <=> Outcome(j, s) \/ (j = job /\ s = res)
  BY <1>1 DEF Outcome
<1>3. TypeOK'
  BY <1>1 DEF JobInv, TypeOK, ResultInv
<1>4. HookInv' /\ ResultInv'
  BY DEF JobInv, HookInv, ResultInv, Busy, Registered, Decided
<1>5. OutcomeInv'
  BY <1>1, <1>2 DEF JobInv, OutcomeInv, TypeOK, Job, Busy
<1>6. CancelledWasHit' /\ CutIsCancelled' /\ CancelledWasAborted'
  <2>1. CancelledWasHit' /\ CutIsCancelled'
    BY <1>1, <1>2 DEF JobInv, CancelledWasHit, CutIsCancelled, ResultInv,
       OutcomeInv, Status, TypeOK
  <2>2. \A j \in Job : Outcome(j, "cancelled")' => j \in hit
    BY <1>1, <1>2 DEF JobInv, CancelledWasHit, ResultInv, Status
  <2>3. CancelledWasAborted'
    BY <2>2 DEF JobInv, HookInv, CancelledWasAborted
  <2> QED BY <2>1, <2>3
<1> QED BY <1>3, <1>4, <1>5, <1>6 DEF JobInv

LEMMA RecordedStep ==
  ASSUME JobInv, NEW p \in posted, Recorded(p)
  PROVE  JobInv'
<1> USE DEF Recorded, execVars, hookVars, beatVars
<1>1. p.job \in Job /\ p.status \in Status
      /\ p = [job |-> p.job, status |-> p.status]
  BY DEF JobInv, TypeOK
<1>2. TypeOK'
  BY <1>1 DEF JobInv, TypeOK, NoJob
<1>3. HookInv' /\ ResultInv'
  BY DEF JobInv, HookInv, ResultInv, Busy, Registered, Decided
<1>4. \A j \in Job, s \in Status : Outcome(j, s)' => Outcome(j, s)
  BY <1>1 DEF JobInv, TypeOK, Outcome
<1>5. OutcomeInv'
  BY <1>4 DEF JobInv, OutcomeInv, HookInv, TypeOK, Busy
<1>6. CancelledWasHit' /\ CutIsCancelled' /\ CancelledWasAborted'
  BY <1>4 DEF JobInv, CancelledWasHit, CutIsCancelled, CancelledWasAborted,
     Status, TypeOK
<1> QED BY <1>2, <1>3, <1>5, <1>6 DEF JobInv

(***************************************************************************)
(* The heartbeat marks the job in the same lock section in which it reads  *)
(* the hook, so the call of the copied cancel function that comes later,   *)
(* perhaps in another job, aborts a job that is marked or over.            *)
(***************************************************************************)
LEMMA BeatStepInv ==
  ASSUME JobInv, BeatStep
  PROVE  JobInv'
<1> USE DEF cbsVars, execVars, jobVars, hookVars, beatVars
<1>1. CASE GrabHook
  <2> USE <1>1 DEF GrabHook
  <2>1. TypeOK'
    <3>1. hook \in Job \cup {NoJob} /\ TypeOK
      BY DEF JobInv, TypeOK
    <3>2. CASE hook = NoJob
      BY <3>1, <3>2 DEF TypeOK
    <3>3. CASE hook # NoJob
      BY <3>1, <3>3 DEF TypeOK
    <3> QED BY <3>2, <3>3
  <2>2. hook # NoJob => Registered /\ hook = job
    BY DEF JobInv, HookInv
  <2>3. HookInv'
    <3>1. CASE hook = NoJob
      BY <3>1 DEF JobInv, HookInv, Busy, Registered
    <3>2. CASE hook # NoJob
      <4>1. asked' /\ hit' = hit \cup {job} /\ grabbed' = job /\ job \in Int
        BY <2>2, <3>2 DEF JobInv, TypeOK, Job, NoJob
      <4> QED BY <2>2, <3>2, <4>1 DEF JobInv, HookInv, Busy, Registered
    <3> QED BY <3>1, <3>2
  <2> QED BY <2>1, <2>3, QuietOutcome DEF JobInv, ResultInv, Busy, Decided
<1>2. CASE CallCancel
  <2> USE <1>2 DEF CallCancel
  <2>1. grabbed \in Job /\ grabbed \in hit
    BY DEF JobInv, HookInv, TypeOK
  <2>2. TypeOK'
    BY <2>1 DEF JobInv, TypeOK
  <2>3. HookInv'
    BY <2>1 DEF JobInv, HookInv, Busy, Registered
  <2> QED BY <2>2, <2>3, QuietOutcome DEF JobInv, ResultInv, Busy, Decided
<1>3. CASE Beat \/ Answer \/ BeatLost \/ BeatReturns
  <2> USE <1>3 DEF Beat, Answer, BeatLost, BeatReturns
  <2>1. flag' \in BOOLEAN
    BY DEF JobInv, TypeOK
  <2>2. bpc' \in {"idle", "sent", "answered", "request"}
    BY DEF JobInv, TypeOK
  <2>3. TypeOK'
    BY <2>1, <2>2 DEF JobInv, TypeOK
  <2>4. HookInv'
    BY <2>2 DEF JobInv, HookInv, Busy, Registered
  <2> QED BY <2>3, <2>4, QuietOutcome DEF JobInv, ResultInv, Busy, Decided
<1> QED BY <1>1, <1>2, <1>3 DEF BeatStep

LEMMA OutsideStep ==
  ASSUME JobInv, Want \/ Shutdown \/ UNCHANGED vars
  PROVE  JobInv'
<1> USE DEF Want, Shutdown, vars, cbsVars, execVars, jobVars, hookVars, beatVars
<1>1. TypeOK'
  <2>1. CASE Want
    BY <2>1 DEF JobInv, TypeOK, NoJob
  <2>2. CASE Shutdown
    BY <2>2 DEF JobInv, TypeOK
  <2>3. CASE UNCHANGED vars
    BY <2>3 DEF JobInv, TypeOK
  <2> QED BY <2>1, <2>2, <2>3
<1>2. HookInv' /\ ResultInv'
  BY DEF JobInv, HookInv, ResultInv, Busy, Registered, Decided
<1>3. OutcomeInv' /\ CancelledWasHit' /\ CutIsCancelled' /\ CancelledWasAborted'
  BY QuietOutcome DEF Busy
<1> QED BY <1>1, <1>2, <1>3 DEF JobInv

LEMMA NextJobInv == JobInv /\ [Next]_vars => JobInv'
<1> SUFFICES ASSUME JobInv, [Next]_vars PROVE JobInv'
  OBVIOUS
<1> QED BY PollStep, BeforeReportStep, StreamStepInv, ReportStep, RecordedStep,
           BeatStepInv, OutsideStep DEF Next, ExecStep

\* "cancelled" is reported only of a job that a cancel found registered
\* (sdk.go, startJob, requestCancel, wasCancelled).
THEOREM CancelReachedTheJob == Spec => []CancelledWasHit
<1>1. JobInv => CancelledWasHit
  BY DEF JobInv
<1> QED BY <1>1, InitJobInv, NextJobInv, PTL DEF Spec

\* A stream that an operator cancel cut is never reported as a failure
\* (sdk.go, execute), for every interleaving with requestCancel.
THEOREM AbortIsNoFailure == Spec => []CutIsCancelled
<1>1. JobInv => CutIsCancelled
  BY DEF JobInv
<1> QED BY <1>1, InitJobInv, NextJobInv, PTL DEF Spec

\* A job is reported cancelled only if its own context has been cancelled, or
\* is about to be by a requestCancel already past its lock (sdk.go,
\* requestCancel): never by a call that went to another job, or to none.
THEOREM CancelledJobIsAborted == Spec => []CancelledWasAborted
<1>1. JobInv => CancelledWasAborted
  BY DEF JobInv
<1> QED BY <1>1, InitJobInv, NextJobInv, PTL DEF Spec

(***************************************************************************)
(* The live map.  execute alone writes the activity, and it is Idle but    *)
(* between setActivity and endActivity.                                    *)
(***************************************************************************)
LEMMA InitExecInv == Init => ExecInv
  BY InitJobInv DEF Init, ExecInv, LiveInv

LEMMA NextExecInv == ExecInv /\ [Next]_vars => ExecInv'
<1> SUFFICES ASSUME ExecInv, [Next]_vars PROVE ExecInv'
  OBVIOUS
<1> USE DEF ExecInv
<1>1. JobInv'
  BY NextJobInv
<1>2. act \in Shown /\ kind \in [Job -> Kind] /\ (epc # "poll" => job \in Job \cup {NoJob})
  BY DEF JobInv, TypeOK
<1>3. LiveInv'
  <2> USE DEF LiveInv, Goto
  <2>1. CASE SetActivity
    <3>1. act'.activity # "idle" /\ act'.started = act.started
      BY <1>2, <2>1 DEF SetActivity, Shown
    <3>2. act.started = NoJob
      BY <2>1 DEF SetActivity, Idle
    <3> QED BY <2>1, <3>1, <3>2 DEF SetActivity
  <2>2. CASE BeginProgress
    BY <1>2, <2>2 DEF BeginProgress, Shown
  <2>3. CASE AddBytes
    BY <1>2, <2>3 DEF AddBytes, execVars, Shown
  <2>4. CASE EndActivity
    BY <2>4 DEF EndActivity
  <2>5. CASE \/ Poll \/ StartJob \/ UnknownType \/ CheckCancelled \/ Report
             \/ EndJob \/ RunReturns
    BY <2>5 DEF Poll, StartJob, UnknownType, CheckCancelled, Report, EndJob,
         RunReturns, Idle
  <2>6. CASE NoBackupID \/ StreamDone \/ StreamFails \/ StreamAborted
    BY <2>6 DEF NoBackupID, StreamDone, StreamFails, StreamAborted
  <2>7. CASE Commit \/ Want \/ Shutdown \/ BeatStep \/ UNCHANGED vars
             \/ \E p \in posted : Recorded(p)
    BY <2>7 DEF Commit, Want, Shutdown, BeatStep, Beat, Answer, BeatLost,
         BeatReturns, GrabHook, CallCancel, Recorded, vars, execVars
  <2> QED BY <2>1, <2>2, <2>3, <2>4, <2>5, <2>6, <2>7
             DEF Next, ExecStep, StreamStep
<1> QED BY <1>1, <1>3

\* The inductive invariant holds: types, hook, outcome and activity agree.
THEOREM JobInvariant == Spec => []ExecInv
  BY InitExecInv, NextExecInv, PTL DEF Spec

\* Every variable has its type (sdk.go, execute and sendHeartbeat).
THEOREM JobTypes == Spec => []TypeOK
<1>1. ExecInv => TypeOK
  BY DEF ExecInv, JobInv
<1> QED BY <1>1, JobInvariant, PTL

\* What the heartbeat can copy under amu (sdk.go, setActivity to endActivity):
\* a stream is never shown as idle, and the progress is that of the running job
\* or none.
THEOREM HeartbeatShowsTheJob == Spec => []LiveMap
<1>1. ExecInv => LiveMap
  BY DEF ExecInv, LiveInv, LiveMap, Idle
<1> QED BY <1>1, JobInvariant, PTL
=============================================================================
