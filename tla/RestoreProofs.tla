---------------------------- MODULE RestoreProofs ---------------------------
(***************************************************************************)
(* Proofs about RestorePipe for every length of the backup, every size of  *)
(* the pipe and every consumer.                                            *)
(***************************************************************************)
EXTENDS RestorePipe, TLAPS

LEMMA InitRestoreInv == Init => RestoreInv
<1> SUFFICES ASSUME Init PROVE RestoreInv
  OBVIOUS
<1> USE ChunksAssumption DEF Init
<1>1. 0 \in 0..Chunks /\ 0 \in 0..BufCap
  OBVIOUS
<1>2. TypeOK
  BY <1>1 DEF TypeOK
<1> QED BY <1>2 DEF RestoreInv, StreamInv, WaitInv, CleanEnd, Exited

\* The caller reads nothing itself; what it returns as "ok" needs a waiting
\* goroutine that has closed the pipe with a clean end.
LEMMA CallerKeeps ==
  ASSUME RestoreInv, Start \/ StartFails \/ CallerStep \/ ConsumeFails \/ ConsumeStops
  PROVE  RestoreInv'
<1> USE ChunksAssumption
    DEF copyVars, cliVars, waitVars, ctxVars, RestoreInv, TypeOK, StreamInv,
        WaitInv, CleanEnd, Exited
<1>1. CASE Start
  BY <1>1 DEF Start
<1>2. CASE StartFails
  BY <1>2 DEF StartFails
<1>3. CASE SeeEof
  BY <1>3 DEF SeeEof
<1>4. CASE ConsumeFails
  BY <1>4 DEF ConsumeFails
<1>5. CASE ConsumeStops
  BY <1>5 DEF ConsumeStops
<1>6. CASE Return
  BY <1>6 DEF Return
<1> QED BY <1>1, <1>2, <1>3, <1>4, <1>5, <1>6 DEF CallerStep

\* The CLI writes and the copier moves: what is sent is got, or on its way.
LEMMA StreamKeeps ==
  ASSUME RestoreInv, CliStep \/ ExitFail \/ CopyStep
  PROVE  RestoreInv'
<1> USE ChunksAssumption
    DEF callVars, copyVars, cliVars, waitVars, ctxVars, RestoreInv, TypeOK,
        StreamInv, WaitInv, CleanEnd, Exited, Started
<1>1. CASE Emit
  BY <1>1 DEF Emit
<1>2. CASE ExitOk
  BY <1>2 DEF ExitOk
<1>3. CASE ExitFail \/ EmitBroken
  BY <1>3 DEF ExitFail, EmitBroken
<1>4. CASE ReadChunk
  BY <1>4 DEF ReadChunk
<1>5. CASE ReadEnd
  BY <1>5 DEF ReadEnd
<1>6. CASE WriteChunk
  <2>1. got + 1 \in 0..Chunks
    BY <1>6 DEF WriteChunk
  <2> QED BY <1>6, <2>1 DEF WriteChunk
<1>7. CASE WriteFails
  BY <1>7 DEF WriteFails
<1> QED BY <1>1, <1>2, <1>3, <1>4, <1>5, <1>6, <1>7 DEF CliStep, CopyStep

\* Wait sees every way the stream can have been cut short.
LEMMA WaitKeeps ==
  ASSUME RestoreInv, WaitStep \/ Cancel \/ Kill \/ UNCHANGED vars
  PROVE  RestoreInv'
<1> USE ChunksAssumption
    DEF callVars, copyVars, cliVars, waitVars, ctxVars, RestoreInv, TypeOK,
        StreamInv, WaitInv, CleanEnd, Exited, Started
<1>1. CASE Reap
  BY <1>1 DEF Reap
<1>2. CASE Join
  BY <1>2 DEF Join
<1>3. CASE ClosePipe
  BY <1>3 DEF ClosePipe
<1>4. CASE Cancel
  BY <1>4 DEF Cancel
<1>5. CASE Kill
  BY <1>5 DEF Kill
<1>6. CASE UNCHANGED vars
  BY <1>6 DEF vars
<1> QED BY <1>1, <1>2, <1>3, <1>4, <1>5, <1>6 DEF WaitStep

LEMMA NextRestoreInv == RestoreInv /\ [Next]_vars => RestoreInv'
  BY CallerKeeps, StreamKeeps, WaitKeeps DEF Next

\* The consumer of a restore never takes a torn stream for a whole one.
THEOREM NoTornStream == Spec => []EofMeansWhole
<1>1. RestoreInv => EofMeansWhole
  BY DEF RestoreInv, TypeOK, StreamInv, WaitInv, CleanEnd, EofMeansWhole
<1> QED BY <1>1, InitRestoreInv, NextRestoreInv, PTL DEF Spec

\* A restore without an error has delivered the whole backup.
THEOREM RestoredIsWhole == Spec => []OkMeansWhole
<1>1. RestoreInv => OkMeansWhole
  BY DEF RestoreInv, TypeOK, StreamInv, WaitInv, CleanEnd, OkMeansWhole
<1> QED BY <1>1, InitRestoreInv, NextRestoreInv, PTL DEF Spec

\* The inductive invariant holds: where the chunks of the backup are, and what
\* Wait has seen of the stream's end.
THEOREM RestoreInvariant == Spec => []RestoreInv
  BY InitRestoreInv, NextRestoreInv, PTL DEF Spec

\* Every variable has its type (dataplane.go, Restore).
THEOREM RestoreTypes == Spec => []TypeOK
<1>1. RestoreInv => TypeOK
  BY DEF RestoreInv
<1> QED BY <1>1, RestoreInvariant, PTL

(***************************************************************************)
(* The safety half of RestoreReturns, for every backup and every pipe.  A  *)
(* call takes only so many steps: each chunk is emitted, read and written  *)
(* once, and everything else happens once.                                 *)
(***************************************************************************)
CallerSteps == CASE cpc = "start" -> 3 [] cpc = "consume" -> 2
                 [] cpc = "await" -> 1 [] OTHER -> 0
CopierSteps == CASE kpc = "write" -> 2 [] kpc = "read" -> 1 [] OTHER -> 0
WaiterSteps == CASE wpc = "reap" -> 3 [] wpc = "join" -> 2
                 [] wpc = "close" -> 1 [] OTHER -> 0
OtherSteps  == (IF Exited THEN 0 ELSE 1) + (IF ctxDone THEN 0 ELSE 1)
               + (IF watchErr THEN 0 ELSE 1)

StepsLeft == 3 * (Chunks - sent) + 2 * buf
             + CallerSteps + CopierSteps + WaiterSteps + OtherSteps

LEMMA CountsAreNatural ==
  ASSUME RestoreInv
  PROVE  /\ CallerSteps \in Nat /\ CopierSteps \in Nat /\ WaiterSteps \in Nat
         /\ OtherSteps \in Nat /\ sent \in 0..Chunks /\ buf \in Nat
         /\ StepsLeft \in Nat
<1>1. CallerSteps \in Nat /\ CopierSteps \in Nat /\ WaiterSteps \in Nat
  BY DEF CallerSteps, CopierSteps, WaiterSteps
<1>2. OtherSteps \in Nat
  BY DEF OtherSteps
<1>3. sent \in 0..Chunks /\ buf \in Nat
  BY ChunksAssumption DEF RestoreInv, TypeOK
<1> HIDE DEF CallerSteps, CopierSteps, WaiterSteps, OtherSteps
<1> QED BY <1>1, <1>2, <1>3, ChunksAssumption DEF StepsLeft

LEMMA StepIsSpent ==
  ASSUME RestoreInv, Next
  PROVE  StepsLeft' < StepsLeft
<1> USE ChunksAssumption, CountsAreNatural
    DEF callVars, copyVars, cliVars, waitVars, ctxVars
<1>1. CASE StartFails
  <2>1. CallerSteps' < CallerSteps /\ CallerSteps' \in Nat
    BY <1>1 DEF StartFails, CallerSteps
  <2>2. /\ CopierSteps' <= CopierSteps /\ CopierSteps' \in Nat
        /\ WaiterSteps' <= WaiterSteps /\ WaiterSteps' \in Nat
    BY <1>1 DEF StartFails, CopierSteps, WaiterSteps
  <2>3. OtherSteps' <= OtherSteps /\ OtherSteps' \in Nat
    BY <1>1 DEF StartFails, OtherSteps, Exited
  <2>4. sent' = sent /\ buf' = buf
    BY <1>1 DEF StartFails
  <2> QED BY <2>1, <2>2, <2>3, <2>4 DEF StepsLeft
<1>2. CASE Start \/ SeeEof \/ ConsumeFails \/ ConsumeStops \/ Return
  <2>1. CallerSteps' < CallerSteps /\ CallerSteps' \in Nat
    BY <1>2 DEF Start, SeeEof, ConsumeFails, ConsumeStops, Return, CallerSteps
  <2>2. /\ CopierSteps' = CopierSteps /\ WaiterSteps' = WaiterSteps
        /\ OtherSteps' = OtherSteps /\ sent' = sent /\ buf' = buf
    BY <1>2 DEF Start, SeeEof, ConsumeFails, ConsumeStops, Return, CopierSteps,
         WaiterSteps, OtherSteps, Exited
  <2> QED BY <2>1, <2>2 DEF StepsLeft
<1>3. CASE Emit
  <2>1. /\ CallerSteps' = CallerSteps /\ CopierSteps' = CopierSteps
        /\ WaiterSteps' = WaiterSteps /\ OtherSteps' = OtherSteps
        /\ sent' = sent + 1 /\ buf' = buf + 1
    BY <1>3 DEF Emit, CallerSteps, CopierSteps, WaiterSteps, OtherSteps, Exited
  <2> QED BY <2>1 DEF StepsLeft
<1>4. CASE ReadChunk
  <2>1. CopierSteps' = CopierSteps + 1 /\ buf' = buf - 1
    BY <1>4 DEF ReadChunk, CopierSteps
  <2>2. /\ CallerSteps' = CallerSteps /\ WaiterSteps' = WaiterSteps
        /\ OtherSteps' = OtherSteps /\ sent' = sent
    BY <1>4 DEF ReadChunk, CallerSteps, WaiterSteps, OtherSteps, Exited
  <2> QED BY <2>1, <2>2 DEF StepsLeft
<1>5. CASE ReadEnd \/ WriteChunk \/ WriteFails
  <2>1. CopierSteps' < CopierSteps /\ CopierSteps' \in Nat
    BY <1>5 DEF ReadEnd, WriteChunk, WriteFails, CopierSteps
  <2>2. /\ CallerSteps' = CallerSteps /\ WaiterSteps' = WaiterSteps
        /\ OtherSteps' = OtherSteps /\ sent' = sent /\ buf' = buf
    BY <1>5 DEF ReadEnd, WriteChunk, WriteFails, CallerSteps, WaiterSteps,
         OtherSteps, Exited
  <2> QED BY <2>1, <2>2 DEF StepsLeft
<1>6. CASE ExitOk \/ ExitFail \/ EmitBroken \/ Cancel \/ Kill
  <2>1. OtherSteps' < OtherSteps /\ OtherSteps' \in Nat
    BY <1>6 DEF ExitOk, ExitFail, EmitBroken, Cancel, Kill, OtherSteps, Exited
  <2>2. /\ CallerSteps' = CallerSteps /\ CopierSteps' = CopierSteps
        /\ WaiterSteps' = WaiterSteps /\ sent' = sent /\ buf' = buf
    BY <1>6 DEF ExitOk, ExitFail, EmitBroken, Cancel, Kill, CallerSteps,
         CopierSteps, WaiterSteps
  <2> QED BY <2>1, <2>2 DEF StepsLeft
<1>7. CASE Reap \/ Join \/ ClosePipe
  <2>1. WaiterSteps' < WaiterSteps /\ WaiterSteps' \in Nat
    BY <1>7 DEF Reap, Join, ClosePipe, WaiterSteps
  <2>2. /\ CallerSteps' = CallerSteps /\ CopierSteps' = CopierSteps
        /\ OtherSteps' = OtherSteps /\ sent' = sent /\ buf' = buf
    BY <1>7 DEF Reap, Join, ClosePipe, CallerSteps, CopierSteps, OtherSteps, Exited
  <2> QED BY <2>1, <2>2 DEF StepsLeft
<1> QED BY <1>1, <1>2, <1>3, <1>4, <1>5, <1>6, <1>7
        DEF Next, CallerStep, CliStep, CopyStep, WaitStep

\* No call of Restore (dataplane.go) goes on for ever: every step uses up one
\* of finitely many, however large the backup and however the actors interleave.
THEOREM RestoreRunsOut == Spec => [][StepsLeft' < StepsLeft /\ StepsLeft \in Nat]_vars
<1>1. RestoreInv /\ [Next]_vars => [StepsLeft' < StepsLeft /\ StepsLeft \in Nat]_vars
  BY StepIsSpent, CountsAreNatural
<1> QED BY <1>1, InitRestoreInv, NextRestoreInv, PTL DEF Spec

(***************************************************************************)
(* And as long as the call has not returned somebody can go on, by a step  *)
(* that fairness obliges him to: the guards of the caller, the CLI, the    *)
(* copier and the waiting goroutine.  The one exception is Abandoned.      *)
(***************************************************************************)
CallerCan == \/ cpc = "start"
             \/ cpc = "consume" /\ pw # "open"
             \/ cpc = "await" /\ wpc = "done"
CliCan    == /\ Started /\ cli = "run"
             /\ sent = Chunks \/ kpc = "done" \/ buf < BufCap
CopierCan == \/ kpc = "read" /\ (buf > 0 \/ Exited)
             \/ kpc = "write" /\ (cpc = "consume" \/ prClosed)
WaiterCan == \/ wpc = "reap" /\ Started /\ Exited
             \/ wpc = "join" /\ kpc = "done"
             \/ wpc = "close"

NeverStuck ==
    ret = "none" => CallerCan \/ CliCan \/ CopierCan \/ WaiterCan \/ Abandoned

ClosedInv == /\ cerr => prClosed
             /\ cpc = "returned" => ret # "none"

LEMMA NextClosedInv == RestoreInv /\ ClosedInv /\ [Next]_vars => ClosedInv'
<1> SUFFICES ASSUME RestoreInv, ClosedInv, [Next]_vars PROVE ClosedInv'
  OBVIOUS
<1> USE DEF ClosedInv, callVars, copyVars, cliVars, waitVars, ctxVars
<1>1. CASE Start \/ StartFails \/ CallerStep \/ ConsumeFails \/ ConsumeStops
  BY <1>1 DEF Start, StartFails, CallerStep, SeeEof, ConsumeFails, ConsumeStops,
              Return, RestoreInv, TypeOK
<1>2. CASE CliStep \/ ExitFail \/ CopyStep
  BY <1>2 DEF CliStep, Emit, ExitOk, EmitBroken, ExitFail, CopyStep, ReadChunk,
              ReadEnd, WriteChunk, WriteFails
<1>3. CASE WaitStep \/ Cancel \/ Kill \/ UNCHANGED vars
  BY <1>3 DEF WaitStep, Reap, Join, ClosePipe, Cancel, Kill, vars
<1> QED BY <1>1, <1>2, <1>3 DEF Next

\* Restore (dataplane.go) can be stuck in one place only: the copier in a write
\* to a consumer that has returned nil before the end of the stream.
THEOREM RestoreIsStuckOnlyWhenAbandoned == Spec => []NeverStuck
<1>1. Init => ClosedInv
  BY DEF Init, ClosedInv
<1>2. RestoreInv /\ ClosedInv => NeverStuck
  <2> SUFFICES ASSUME RestoreInv, ClosedInv, ret = "none"
               PROVE  CallerCan \/ CliCan \/ CopierCan \/ WaiterCan \/ Abandoned
    BY DEF NeverStuck
  <2> USE ChunksAssumption DEF RestoreInv, TypeOK, Exited
  <2>1. CASE cpc \in {"start", "returned"}
    BY <2>1 DEF CallerCan, ClosedInv
  <2>2. CASE cpc \in {"consume", "await"}
    <3>1. CASE kpc = "write"
      BY <2>2, <3>1 DEF CopierCan, Abandoned, ClosedInv
    <3>2. CASE kpc = "read"
      BY <2>2, <3>2 DEF CopierCan, CliCan, Started
    <3>3. CASE kpc = "done" /\ cli = "run"
      BY <2>2, <3>3 DEF CliCan, Started
    <3>4. CASE kpc = "done" /\ cli # "run"
      BY <2>2, <3>4 DEF CallerCan, WaiterCan, Started, WaitInv
    <3> QED BY <3>1, <3>2, <3>3, <3>4
  <2> QED BY <2>1, <2>2
<1> QED BY <1>1, <1>2, InitRestoreInv, NextRestoreInv, NextClosedInv, PTL DEF Spec
=============================================================================
