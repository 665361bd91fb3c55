----------------------------- MODULE JobControl -----------------------------
(***************************************************************************)
(* The life of one command inside the agent (sdk.go, execute) and the      *)
(* operator cancel that reaches it through the heartbeat.                  *)
(*                                                                         *)
(* pollLoop runs commands one after the other.  The heartbeat goroutine    *)
(* sends the activity and learns from the answer whether the operator      *)
(* wants "the" job cancelled; it then aborts whatever job is registered at *)
(* that time.  They share two locked records: the cancel hook (jmu) and    *)
(* the activity with its progress (amu).                                   *)
(*                                                                         *)
(* Jobs are numbered in the order CBS dispatches them.  The data plane is  *)
(* one step per visible effect: bytes flow, the backup's manifest is       *)
(* committed, the call returns (BackupPipe and RestorePipe open it up).    *)
(* Delivery of the result is the outbox's (module Outbox); here a reported *)
(* result reaches CBS at some later time.                                  *)
(***************************************************************************)
EXTENDS Integers, FiniteSets

CONSTANTS
    MaxJobs,        \* bound: commands dispatched
    MaxBytes        \* bound: chunks a job may count

ASSUME BoundsAssumption == MaxJobs \in Nat /\ MaxBytes \in Nat

Job  == 1..MaxJobs
NoJob == 0
Kind == {"backup", "restore", "unknown"}
Activity == {"idle", "backing-up", "restoring"}
Status == {"done", "failed", "cancelled"}

VARIABLES
    open,       \* CBS: the job dispatched and not yet reported
    wanted,     \* CBS: jobs the operator has asked to cancel
    reported,   \* CBS: the recorded status of each job
    stopping,   \* the process context is cancelled
    epc,        \* pollLoop: where it is in execute
    job,        \* pollLoop: the job being executed, or the last one
    kind,       \* the type of each job
    res,        \* execute: the outcome so far
    posted,     \* results handed to the outbox, not yet at CBS
    committed,  \* jobs whose backup manifest is committed
    hook,       \* jmu: jobCancel, as the job it cancels
    asked,      \* jmu: cancelAsked
    aborted,    \* jobs whose context an operator cancel has cancelled
    act,        \* amu: activity, job of startedAt, bytesDone
    bpc,        \* heartbeat: where it is in sendHeartbeat
    flag,       \* heartbeat: the cancel flag of the answer
    grabbed,    \* heartbeat: the cancel function requestCancel copied
    hit,        \* history: jobs whose hook requestCancel has found
    cut         \* history: jobs that failed because an operator abort cut them

cbsVars   == <<open, wanted, reported>>
execVars  == <<epc, job, kind, res>>
jobVars   == <<posted, committed, cut>>
hookVars  == <<hook, asked, hit>>
beatVars  == <<bpc, flag, grabbed>>
vars == <<cbsVars, stopping, execVars, jobVars, hookVars, aborted, act, beatVars>>

Idle == [activity |-> "idle", started |-> NoJob, bytes |-> 0]

\* Mutation: startJob derives the context from nothing.
CtxDetached == job \in aborted

\* The context of the running job: derived from the process context.
CtxDone == stopping \/ job \in aborted

Init ==
    /\ open = NoJob /\ wanted = {} /\ reported = [j \in Job |-> "none"]
    /\ stopping = FALSE
    /\ epc = "poll" /\ job = NoJob /\ res = "none"
    /\ kind = [j \in Job |-> "unknown"]
    /\ posted = {} /\ committed = {} /\ cut = {}
    /\ hook = NoJob /\ asked = FALSE /\ hit = {}
    /\ aborted = {}
    /\ act = Idle
    /\ bpc = "idle" /\ flag = FALSE /\ grabbed = NoJob

-----------------------------------------------------------------------------
(* CBS and the operator: external.                                          *)

Want ==
    /\ open # NoJob
    /\ wanted' = wanted \cup {open}
    /\ UNCHANGED <<open, reported, stopping, execVars, jobVars, hookVars,
                   aborted, act, beatVars>>

\* The result arrives: the state lock is released.
Recorded(p) ==
    /\ p \in posted
    /\ posted' = posted \ {p}
    /\ reported' = [reported EXCEPT ![p.job] = p.status]
    /\ open' = NoJob
    /\ UNCHANGED <<wanted, stopping, execVars, committed, cut, hookVars,
                   aborted, act, beatVars>>

-----------------------------------------------------------------------------
(* pollLoop: execute.                                                       *)

Goto(from, to) == epc = from /\ epc' = to

\* poll() returns the next command, which CBS marks dispatched.
Poll ==
    /\ Goto("poll", "start") /\ ~stopping
    /\ open = NoJob /\ job < MaxJobs
    /\ job' = job + 1 /\ open' = job + 1
    /\ \E k \in Kind : kind' = [kind EXCEPT ![job + 1] = k]
    /\ res' = "none"
    /\ UNCHANGED <<wanted, reported, stopping, jobVars, hookVars, aborted,
                   act, beatVars>>

\* Mutation: startJob leaves the flag of the job before.
KeepsFlag ==
    /\ Goto("start", "switch")
    /\ hook' = job
    /\ UNCHANGED <<job, kind, res, asked, hit, cbsVars, stopping, jobVars,
                   aborted, act, beatVars>>

StartJob ==
    /\ Goto("start", "switch")
    /\ hook' = job /\ asked' = FALSE
    /\ UNCHANGED <<job, kind, res, hit, cbsVars, stopping, jobVars, aborted,
                   act, beatVars>>

SetActivity ==
    /\ Goto("switch", "begin")
    /\ kind[job] # "unknown"
    /\ act' = [act EXCEPT !.activity =
                 IF kind[job] = "backup" THEN "backing-up" ELSE "restoring"]
    /\ UNCHANGED <<job, kind, res, cbsVars, stopping, jobVars, hookVars,
                   aborted, beatVars>>

UnknownType ==
    /\ Goto("switch", "ended")
    /\ kind[job] = "unknown"
    /\ res' = "failed"
    /\ UNCHANGED <<job, kind, cbsVars, stopping, jobVars, hookVars, aborted,
                   act, beatVars>>

\* A restore without a backup id is refused before it shows any progress.
NoBackupID ==
    /\ Goto("begin", "ended")
    /\ kind[job] = "restore"
    /\ res' = "failed"
    /\ UNCHANGED <<job, kind, cbsVars, stopping, jobVars, hookVars, aborted,
                   act, beatVars>>

BeginProgress ==
    /\ Goto("begin", "stream")
    /\ act' = [act EXCEPT !.started = job, !.bytes = 0]
    /\ UNCHANGED <<job, kind, res, cbsVars, stopping, jobVars, hookVars,
                   aborted, beatVars>>

AddBytes ==
    /\ epc = "stream" /\ act.bytes < MaxBytes
    /\ act' = [act EXCEPT !.bytes = @ + 1]
    /\ UNCHANGED <<execVars, cbsVars, stopping, jobVars, hookVars, aborted,
                   beatVars>>

\* The CLI commits the manifest.  It is killed asynchronously, so the context
\* may be done already.
Commit ==
    /\ epc = "stream" /\ kind[job] = "backup"
    /\ committed' = committed \cup {job}
    /\ UNCHANGED <<execVars, posted, cut, cbsVars, stopping, hookVars,
                   aborted, act, beatVars>>

\* The data plane returned no error: all that execute looks at.
StreamDone ==
    /\ Goto("stream", "ended")
    /\ res' = "done"
    /\ UNCHANGED <<job, kind, cbsVars, stopping, jobVars, hookVars, aborted,
                   act, beatVars>>

\* The source, the CLI or the store fails by itself, after a commit too.
StreamFails ==
    /\ Goto("stream", "ended")
    /\ res' = "failed"
    /\ UNCHANGED <<job, kind, cbsVars, stopping, jobVars, hookVars, aborted,
                   act, beatVars>>

\* The context kills the CLI, and the data plane returns its error, even when
\* the kill came after the commit.
StreamAborted ==
    /\ Goto("stream", "ended")
    /\ CtxDone
    /\ res' = "failed"
    /\ cut' = IF stopping THEN cut ELSE cut \cup {job}
    /\ UNCHANGED <<job, kind, posted, committed, cbsVars, stopping, hookVars,
                   aborted, act, beatVars>>

\* Mutation: only the activity is reset, the progress is left.
KeepsProgress ==
    /\ Goto("ended", "check")
    /\ act' = [act EXCEPT !.activity = "idle"]
    /\ UNCHANGED <<job, kind, res, cbsVars, stopping, jobVars, hookVars,
                   aborted, beatVars>>

EndActivity ==
    /\ Goto("ended", "check")
    /\ act' = Idle
    /\ UNCHANGED <<job, kind, res, cbsVars, stopping, jobVars, hookVars,
                   aborted, beatVars>>

\* Mutation: a failure keeps its status whoever caused it.
FailureFirst ==
    /\ Goto("check", "report")
    /\ res' = IF asked /\ res = "done" THEN "cancelled" ELSE res
    /\ UNCHANGED <<job, kind, cbsVars, stopping, jobVars, hookVars, aborted,
                   act, beatVars>>

\* Mutation: a status CBS does not know.
Misspelled ==
    /\ Goto("check", "report")
    /\ res' = IF asked THEN "canceled" ELSE res
    /\ UNCHANGED <<job, kind, cbsVars, stopping, jobVars, hookVars, aborted,
                   act, beatVars>>

CheckCancelled ==
    /\ Goto("check", "report")
    /\ res' = IF asked THEN "cancelled" ELSE res
    /\ UNCHANGED <<job, kind, cbsVars, stopping, jobVars, hookVars, aborted,
                   act, beatVars>>

Report ==
    /\ Goto("report", "end")
    /\ posted' = posted \cup {[job |-> job, status |-> res]}
    /\ UNCHANGED <<job, kind, res, committed, cut, cbsVars, stopping, hookVars,
                   aborted, act, beatVars>>

EndJob ==
    /\ Goto("end", "poll")
    /\ hook' = NoJob
    /\ UNCHANGED <<job, kind, res, asked, hit, cbsVars, stopping, jobVars,
                   aborted, act, beatVars>>

\* pollLoop sees the cancelled context and Run returns.
RunReturns ==
    /\ Goto("poll", "returned") /\ stopping
    /\ UNCHANGED <<job, kind, res, cbsVars, stopping, jobVars, hookVars,
                   aborted, act, beatVars>>

\* What the goroutine does without waiting for a data source.
ExecStep ==
    \/ StartJob \/ SetActivity \/ UnknownType \/ NoBackupID \/ BeginProgress
    \/ StreamAborted \/ EndActivity \/ CheckCancelled \/ Report \/ EndJob
    \/ RunReturns

StreamStep == AddBytes \/ Commit \/ StreamDone \/ StreamFails

-----------------------------------------------------------------------------
(* The heartbeat goroutine: sendHeartbeat and requestCancel.                *)

\* Mutation: no heartbeat while a job runs.
BeatWhenIdle ==
    /\ bpc = "idle" /\ ~stopping /\ act.activity = "idle"
    /\ bpc' = "sent"
    /\ UNCHANGED <<flag, grabbed, cbsVars, stopping, execVars, jobVars,
                   hookVars, aborted, act>>

\* snapshot() copies act under amu (LiveMap is about what it can copy), then the
\* request leaves.
Beat ==
    /\ bpc = "idle" /\ ~stopping
    /\ bpc' = "sent"
    /\ UNCHANGED <<flag, grabbed, cbsVars, stopping, execVars, jobVars,
                   hookVars, aborted, act>>

\* CBS answers for the job that is open when the request arrives.
Answer ==
    /\ bpc = "sent"
    /\ bpc' = "answered" /\ flag' = (open # NoJob /\ open \in wanted)
    /\ UNCHANGED <<grabbed, cbsVars, stopping, execVars, jobVars,
                   hookVars, aborted, act>>

\* The request or its answer is lost, late beyond the timeout or undecodable.
BeatLost ==
    /\ bpc \in {"sent", "answered"}
    /\ bpc' = "idle" /\ flag' = FALSE
    /\ UNCHANGED <<grabbed, cbsVars, stopping, execVars, jobVars,
                   hookVars, aborted, act>>

BeatReturns ==
    /\ bpc = "answered"
    /\ bpc' = IF flag THEN "request" ELSE "idle"
    /\ flag' = FALSE
    /\ UNCHANGED <<grabbed, cbsVars, stopping, execVars, jobVars,
                   hookVars, aborted, act>>

\* requestCancel, inside the lock: copy the hook and mark it asked ...
GrabHook ==
    /\ bpc = "request"
    /\ IF hook # NoJob
         THEN /\ grabbed' = hook /\ asked' = TRUE /\ hit' = hit \cup {hook}
              /\ bpc' = "cancel"
         ELSE /\ bpc' = "idle" /\ UNCHANGED <<grabbed, asked, hit>>
    /\ UNCHANGED <<hook, flag, cbsVars, stopping, execVars, jobVars,
                   aborted, act>>

\* Mutation: requestCancel calls the hook it finds once it is outside the lock.
CallsHookOfNow ==
    /\ bpc = "cancel"
    /\ aborted' = IF hook = NoJob THEN aborted ELSE aborted \cup {hook}
    /\ bpc' = "idle" /\ grabbed' = NoJob
    /\ UNCHANGED <<flag, cbsVars, stopping, execVars, jobVars, hookVars,
                   act>>

\* ... and outside it: call the copy, which may be of a finished job by now.
CallCancel ==
    /\ bpc = "cancel"
    /\ aborted' = aborted \cup {grabbed}
    /\ bpc' = "idle" /\ grabbed' = NoJob
    /\ UNCHANGED <<flag, cbsVars, stopping, execVars, jobVars, hookVars,
                   act>>

BeatStep == Beat \/ Answer \/ BeatLost \/ BeatReturns \/ GrabHook \/ CallCancel

\* SIGTERM cancels the process context.
Shutdown ==
    /\ ~stopping
    /\ stopping' = TRUE
    /\ UNCHANGED <<cbsVars, execVars, jobVars, hookVars, aborted, act, beatVars>>

Next ==
    \/ Want
    \/ \E p \in posted : Recorded(p)
    \/ Poll \/ ExecStep \/ StreamStep
    \/ BeatStep
    \/ Shutdown

(* Fairness.  Both goroutines run; the ticker makes the heartbeat go on, and *)
(* a heartbeat repeated for ever is answered at last; the outbox delivers    *)
(* (Outbox, EventuallyDrained).  A data stream may take for ever.  A restore *)
(* that is aborted returns (RestorePipe, RestoreReturns), but an aborted     *)
(* backup need not (BackupPipe, FailureReturns).  Nothing obliges the       *)
(* operator or a shutdown.                                                   *)
InBackup == epc = "stream" /\ kind[job] = "backup"

Fairness ==
    /\ WF_vars(ExecStep /\ ~InBackup)
    /\ WF_vars(BeatStep)
    /\ SF_vars(Answer) /\ SF_vars(BeatReturns)
    /\ WF_vars(\E p \in posted : Recorded(p))

Spec == Init /\ [][Next]_vars
FairSpec == Spec /\ Fairness

-----------------------------------------------------------------------------
(* Properties.                                                              *)

Shown == [activity : Activity, started : Job \cup {NoJob}, bytes : 0..MaxBytes]

TypeOK ==
    /\ open \in Job \cup {NoJob}
    /\ wanted \subseteq Job
    /\ reported \in [Job -> Status \cup {"none"}]
    /\ stopping \in BOOLEAN
    /\ epc \in {"poll", "start", "switch", "begin", "stream", "ended",
                "check", "report", "end", "returned"}
    /\ job \in Job \cup {NoJob}
    /\ kind \in [Job -> Kind]
    /\ res \in Status \cup {"none"}
    /\ posted \subseteq [job : Job, status : Status]
    /\ committed \subseteq Job
    /\ hook \in Job \cup {NoJob}
    /\ asked \in BOOLEAN
    /\ aborted \subseteq Job
    /\ act \in Shown
    /\ bpc \in {"idle", "sent", "answered", "request", "cancel"}
    /\ flag \in BOOLEAN
    /\ grabbed \in Job \cup {NoJob}
    /\ hit \subseteq Job
    /\ cut \subseteq Job

Outcome(j, s) == reported[j] = s \/ [job |-> j, status |-> s] \in posted

\* A job is reported cancelled only if a cancel found it registered: the flag
\* of an earlier job, or a cancel function called late, does not leak into it.
CancelledWasHit == \A j \in Job : Outcome(j, "cancelled") => j \in hit

\* "report cancelled (not failed)" (sdk.go:594): a stream that an operator
\* cancel cut is never reported as a failure, however the steps of
\* requestCancel and of execute interleave.
CutIsCancelled == \A j \in cut : ~ Outcome(j, "failed")

\* requestCancel aborts the job it marked (sdk.go:234-245): of a job reported
\* cancelled the context has been cancelled, or the call is still on its way, in
\* whatever job execute is by then.
CancelledWasAborted ==
    \A j \in Job : Outcome(j, "cancelled") =>
        j \in aborted \/ (bpc = "cancel" /\ grabbed = j)

\* The live map (sdk.go, setActivity to endActivity): a stream is never shown
\* as idle, and the progress is that of the running job or none.
LiveMap ==
    /\ epc = "stream" => act.activity # "idle" /\ act.started = job
    /\ act.activity = "idle" => act = Idle
    /\ act.started \in {NoJob, job}

\* A cancel the operator asks for ends the job, though its source may stream
\* for ever and heartbeats get lost; all that can keep it running is a backup
\* that does not return although its context is cancelled.
CancelEndsJob ==
    \A j \in Job :
        j \in wanted ~> \/ reported[j] # "none" \/ stopping
                        \/ [](InBackup /\ j \in aborted)

\* A shutdown ends: Run returns whatever execute was doing, with the same
\* exception.
ShutdownReturns == stopping ~> epc = "returned" \/ []InBackup

-----------------------------------------------------------------------------
(* The inductive invariant behind the first three.                          *)

Busy == epc \notin {"poll", "returned"}
Registered == epc \notin {"poll", "start", "returned"}
Decided == epc \in {"report", "end"}

\* The hook names the running job, from startJob to endJob, and the flag is
\* raised exactly for a running job that a cancel has found.
HookInv ==
    /\ Busy => job # NoJob
    /\ hook = IF Registered THEN job ELSE NoJob
    /\ \A j \in hit : j <= job
    /\ epc = "start" => job \notin hit
    /\ Registered => (asked <=> job \in hit)
    /\ grabbed # NoJob => grabbed \in hit
    /\ bpc = "cancel" => grabbed # NoJob
    /\ aborted \subseteq hit /\ cut \subseteq aborted
    /\ \A j \in hit : j \in aborted \/ (bpc = "cancel" /\ grabbed = j)

\* The outcome of the running job, before it is reported.
ResultInv ==
    /\ Busy /\ ~ Decided => res # "cancelled"
    /\ epc \in {"ended", "check", "report", "end"} => res # "none"
    /\ Decided /\ res = "cancelled" => job \in hit
    /\ Decided /\ job \in cut => res = "cancelled"
    /\ epc \in {"start", "switch", "begin", "stream"} => job \notin cut

\* Only the jobs that are over have one.
OutcomeInv ==
    /\ \A j \in Job, s \in Status : Outcome(j, s) => j <= job
    /\ Busy /\ epc # "end" => \A s \in Status : ~ Outcome(job, s)

JobInv ==
    /\ TypeOK /\ HookInv /\ ResultInv /\ OutcomeInv
    /\ CancelledWasHit /\ CutIsCancelled /\ CancelledWasAborted

\* Where execute is and what snapshot can copy there.
LiveInv ==
    /\ epc \in {"begin", "stream"} => act.activity # "idle"
    /\ epc = "begin" => act.started = NoJob
    /\ epc = "stream" => act.started = job
    /\ epc = "ended" => act.started \in {NoJob, job}
    /\ epc = "ended" /\ act.activity = "idle" => act = Idle
    /\ epc \notin {"begin", "stream", "ended"} => act = Idle

ExecInv == JobInv /\ LiveInv

-----------------------------------------------------------------------------
(* Two claims of the comments that the code does not keep.                  *)

\* sdk.go:594-596 and wire.go:113-115: a cancelled backup "never committed its
\* manifest".
CancelledNeverCommitted ==
    \A j \in Job : Outcome(j, "cancelled") => j \notin committed

\* sdk.go:202-203: cancelAsked marks an operator cancel of the in-flight job;
\* a job nobody asked to cancel is not reported cancelled.
CancelledWasWanted == \A j \in Job : Outcome(j, "cancelled") => j \in wanted
=============================================================================
