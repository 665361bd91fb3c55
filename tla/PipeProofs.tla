----------------------------- MODULE PipeProofs -----------------------------
(***************************************************************************)
(* Proofs about BackupPipe for every length of the source, every size of   *)
(* the pipe and every way the CLI may end.                                 *)
(***************************************************************************)
EXTENDS BackupPipe, TLAPS

LEMMA InitPipeInv == Init => PipeInv
<1> SUFFICES ASSUME Init PROVE PipeInv
  OBVIOUS
<1> USE ChunksAssumption DEF Init
<1>1. 0 \in 0..Chunks /\ 0 \in 0..BufCap
  OBVIOUS
<1>2. TypeOK
  BY <1>1 DEF TypeOK
<1> QED BY <1>2 DEF PipeInv, Exited, InCopier

LEMMA CallerInv ==
  ASSUME PipeInv, StartFails \/ CallerStep
  PROVE  PipeInv'
<1> USE ChunksAssumption
    DEF copyVars, cliVars, ctxVars, PipeInv, TypeOK, Exited, InCopier, NoManifest
<1>1. CASE StartFails
  BY <1>1 DEF StartFails
<1>2. CASE Start \/ Write
  BY <1>2 DEF Start, Write
<1>3. CASE ProduceEnds \/ ProduceFails
  BY <1>3 DEF ProduceEnds, ProduceFails
<1>4. CASE Reap
  BY <1>4 DEF Reap
<1>5. CASE Return
  BY <1>5 DEF Return, produceErr
<1> QED BY <1>1, <1>2, <1>3, <1>4, <1>5 DEF CallerStep

LEMMA CopyInv ==
  ASSUME PipeInv, CopyStep
  PROVE  PipeInv'
<1> USE ChunksAssumption
    DEF prodVars, cliVars, ctxVars, PipeInv, TypeOK, Exited, InCopier, NoManifest
<1>1. CASE Take
  <2>1. pw = "open" /\ produced < Chunks
    BY <1>1 DEF Take
  <2> QED BY <1>1, <2>1 DEF Take
<1>2. CASE TakeEnd
  <2>1. kerr' \in BOOLEAN
    BY <1>2 DEF TakeEnd, produceErr
  <2> QED BY <1>2, <2>1 DEF TakeEnd
<1>3. CASE Put
  BY <1>3 DEF Put
<1>4. CASE PutBroken
  BY <1>4 DEF PutBroken
<1> QED BY <1>1, <1>2, <1>3, <1>4 DEF CopyStep

LEMMA EnvInv ==
  ASSUME PipeInv, CliStep \/ ExitFail \/ Cancel \/ Kill \/ UNCHANGED vars
  PROVE  PipeInv'
<1> USE ChunksAssumption
    DEF prodVars, copyVars, cliVars, ctxVars, PipeInv, TypeOK, Exited, InCopier,
        NoManifest, Started
<1>1. CASE Consume
  BY <1>1 DEF Consume
<1>2. CASE CommitManifest
  BY <1>2 DEF CommitManifest
<1>3. CASE ExitOk \/ ExitFail
  BY <1>3 DEF ExitOk, ExitFail
<1>4. CASE Cancel
  BY <1>4 DEF Cancel
<1>5. CASE Kill
  BY <1>5 DEF Kill
<1>6. CASE UNCHANGED vars
  BY <1>6 DEF vars
<1> QED BY <1>1, <1>2, <1>3, <1>4, <1>5, <1>6 DEF CliStep

LEMMA NextPipeInv == PipeInv /\ [Next]_vars => PipeInv'
  BY CallerInv, CopyInv, EnvInv DEF Next

\* A backup that returns without an error has stored the whole source
\* (dataplane.go, Backup; DEVELOPMENT.md, "no silent truncation").
THEOREM NoSilentTruncation == Spec => []OkIsComplete
<1>1. PipeInv => OkIsComplete
  BY DEF PipeInv, OkIsComplete, TypeOK, produceErr
<1> QED BY <1>1, InitPipeInv, NextPipeInv, PTL DEF Spec

\* The producer is never more than the pipe and one chunk ahead of the CLI
\* (dataplane.go:66, "constant memory, any size").
THEOREM MemoryIsConstant == Spec => []ConstantMemory
<1>1. PipeInv => ConstantMemory
  BY ChunksAssumption DEF PipeInv, ConstantMemory, TypeOK
<1> QED BY <1>1, InitPipeInv, NextPipeInv, PTL DEF Spec

(***************************************************************************)
(* The refinement: the only steps the abstract data plane sees are the     *)
(* commit of the manifest and the return of the call.                      *)
(***************************************************************************)
LEMMA PipeStepRefines ==
  ASSUME PipeInv, [Next]_vars
  PROVE  [Promise!Commit \/ Promise!ReturnOk \/ Promise!ReturnError]_<<manifest, ret>>
<1>1. CASE UNCHANGED <<stored, ret>>
  BY <1>1 DEF manifest
<1>2. CASE CommitManifest
  <2>1. stored = NoManifest /\ stored' # NoManifest /\ ret' = ret
    BY <1>2, ChunksAssumption DEF CommitManifest, PipeInv, TypeOK, NoManifest
  <2>2. ret = "none"
    BY <1>2 DEF CommitManifest, PipeInv, Exited, TypeOK
  <2> QED BY <2>1, <2>2 DEF manifest, Promise!Commit
<1>3. CASE StartFails \/ Return
  <2>1. ret = "none" /\ stored' = stored /\ ret' \in {"ok", "error"}
    BY <1>3 DEF StartFails, Return, PipeInv, cliVars, TypeOK
  <2>2. CASE ret' = "error"
    BY <2>1, <2>2 DEF manifest, Promise!ReturnError
  <2>3. CASE ret' = "ok"
    <3>1. Return /\ cli = "ok" /\ pw # "err"
      BY <1>3, <2>3 DEF StartFails, Return, produceErr
    <3>2. stored = Chunks /\ stored # NoManifest
      BY <3>1, ChunksAssumption DEF PipeInv, TypeOK, NoManifest
    <3> QED BY <2>1, <2>3, <3>2 DEF manifest, Promise!ReturnOk
  <2> QED BY <2>1, <2>2, <2>3
<1>4. CASE \/ Start \/ Write \/ ProduceEnds \/ ProduceFails \/ Reap
           \/ CopyStep \/ Consume \/ ExitOk \/ ExitFail \/ Cancel \/ Kill
           \/ UNCHANGED vars
  BY <1>1, <1>4 DEF Start, Write, ProduceEnds, ProduceFails, Reap, CopyStep,
     Take, TakeEnd, Put, PutBroken, Consume, ExitOk, ExitFail, Cancel, Kill,
     vars, prodVars, copyVars, cliVars, ctxVars
<1> QED BY <1>2, <1>3, <1>4 DEF Next, CallerStep, CliStep

\* The pipe with its four actors implements the data plane's promise to
\* execute: success only over a whole manifest, and nothing after the return.
THEOREM ImplementsDataPlane == Spec => KeepsPromise
<1>1. Init => Promise!Init
  BY DEF Init, Promise!Init, manifest, NoManifest
<1>2. PipeInv /\ [Next]_vars
        => [Promise!Commit \/ Promise!ReturnOk \/ Promise!ReturnError]_<<manifest, ret>>
  BY PipeStepRefines
<1> QED BY <1>1, <1>2, InitPipeInv, NextPipeInv, PTL
        DEF Spec, KeepsPromise, Promise!Spec

\* The inductive invariant holds: where the chunks of the source are, between
\* the producer, the two pipes and the store.
THEOREM PipeInvariant == Spec => []PipeInv
  BY InitPipeInv, NextPipeInv, PTL DEF Spec

\* Every variable has its type (dataplane.go, Backup).
THEOREM PipeTypes == Spec => []TypeOK
<1>1. PipeInv => TypeOK
  BY DEF PipeInv
<1> QED BY <1>1, PipeInvariant, PTL

(***************************************************************************)
(* The safety half of BackupReturns, for every source and every pipe.  A   *)
(* call takes only so many steps: each chunk is written, taken, put and    *)
(* consumed once, and everything else happens once.                        *)
(***************************************************************************)
CallerSteps == CASE ppc = "start" -> 5 [] ppc = "produce" -> 3 [] ppc = "write" -> 2
                 [] ppc = "wait" -> 2 [] ppc = "join" -> 1 [] OTHER -> 0
CopierSteps == CASE kpc = "write" -> 3 [] kpc = "read" -> 1 [] OTHER -> 0
CliSteps    == CASE cli = "run" -> 2 [] cli = "committed" -> 1 [] OTHER -> 0
CtxSteps    == (IF ctxDone THEN 0 ELSE 1) + (IF watchErr THEN 0 ELSE 1)

StepsLeft == 4 * (Chunks - produced) + buf
             + CallerSteps + CopierSteps + CliSteps + CtxSteps

LEMMA CountsAreNatural ==
  ASSUME PipeInv
  PROVE  /\ CallerSteps \in Nat /\ CopierSteps \in Nat /\ CliSteps \in Nat
         /\ CtxSteps \in Nat /\ produced \in 0..Chunks /\ buf \in Nat
         /\ StepsLeft \in Nat
<1>1. CallerSteps \in Nat
  BY DEF PipeInv, TypeOK, CallerSteps
<1>2. CopierSteps \in Nat /\ CliSteps \in Nat
  BY DEF PipeInv, TypeOK, CopierSteps, CliSteps
<1>3. CtxSteps \in Nat
  BY DEF CtxSteps
<1>4. produced \in 0..Chunks /\ buf \in Nat
  BY ChunksAssumption DEF PipeInv, TypeOK
<1> HIDE DEF CallerSteps, CopierSteps, CliSteps, CtxSteps
<1> QED BY <1>1, <1>2, <1>3, <1>4, ChunksAssumption DEF StepsLeft

LEMMA StepIsSpent ==
  ASSUME PipeInv, Next
  PROVE  StepsLeft' < StepsLeft
<1> USE ChunksAssumption, CountsAreNatural
    DEF prodVars, copyVars, cliVars, ctxVars
<1>1. CASE StartFails
  <2>1. CallerSteps' < CallerSteps
    BY <1>1 DEF StartFails, CallerSteps
  <2>2. CopierSteps' <= CopierSteps /\ CliSteps' <= CliSteps
    BY <1>1 DEF StartFails, CopierSteps, CliSteps, PipeInv, TypeOK
  <2>3. CopierSteps' \in Nat /\ CliSteps' \in Nat /\ CallerSteps' \in Nat
    BY <1>1 DEF StartFails, CallerSteps, CopierSteps, CliSteps
  <2>4. CtxSteps' = CtxSteps /\ produced' = produced /\ buf' = buf
    BY <1>1 DEF StartFails, CtxSteps
  <2> QED BY <2>1, <2>2, <2>3, <2>4 DEF StepsLeft
<1>2. CASE Start \/ Write \/ ProduceEnds \/ ProduceFails \/ Reap \/ Return
  <2>1. CallerSteps' < CallerSteps /\ CallerSteps' \in Nat
    BY <1>2 DEF Start, Write, ProduceEnds, ProduceFails, Reap, Return, CallerSteps
  <2>2. /\ CopierSteps' = CopierSteps /\ CliSteps' = CliSteps
        /\ CtxSteps' = CtxSteps /\ produced' = produced /\ buf' = buf
    BY <1>2 DEF Start, Write, ProduceEnds, ProduceFails, Reap, Return,
         CopierSteps, CliSteps, CtxSteps
  <2> QED BY <2>1, <2>2 DEF StepsLeft
<1>3. CASE Take
  <2>1. CallerSteps' = CallerSteps + 1 /\ CopierSteps' = CopierSteps + 2
    BY <1>3 DEF Take, CallerSteps, CopierSteps
  <2>2. /\ CliSteps' = CliSteps /\ CtxSteps' = CtxSteps
        /\ produced' = produced + 1 /\ buf' = buf
    BY <1>3 DEF Take, CliSteps, CtxSteps
  <2> QED BY <2>1, <2>2 DEF StepsLeft
<1>4. CASE Put
  <2>1. CopierSteps' = CopierSteps - 2 /\ buf' = buf + 1
    BY <1>4 DEF Put, CopierSteps
  <2>2. /\ CallerSteps' = CallerSteps /\ CliSteps' = CliSteps
        /\ CtxSteps' = CtxSteps /\ produced' = produced
    BY <1>4 DEF Put, CallerSteps, CliSteps, CtxSteps
  <2> QED BY <2>1, <2>2 DEF StepsLeft
<1>5. CASE TakeEnd \/ PutBroken
  <2>1. CopierSteps' < CopierSteps /\ CopierSteps' \in Nat
    BY <1>5 DEF TakeEnd, PutBroken, CopierSteps
  <2>2. /\ CallerSteps' = CallerSteps /\ CliSteps' = CliSteps
        /\ CtxSteps' = CtxSteps /\ produced' = produced /\ buf' = buf
    BY <1>5 DEF TakeEnd, PutBroken, CallerSteps, CliSteps, CtxSteps
  <2> QED BY <2>1, <2>2 DEF StepsLeft
<1>6. CASE Consume
  <2>1. /\ CallerSteps' = CallerSteps /\ CopierSteps' = CopierSteps
        /\ CliSteps' = CliSteps /\ CtxSteps' = CtxSteps
        /\ produced' = produced /\ buf' = buf - 1
    BY <1>6 DEF Consume, CallerSteps, CopierSteps, CliSteps, CtxSteps
  <2> QED BY <2>1 DEF StepsLeft
<1>7. CASE CommitManifest \/ ExitOk \/ ExitFail
  <2>1. CliSteps' < CliSteps /\ CliSteps' \in Nat
    BY <1>7 DEF CommitManifest, ExitOk, ExitFail, CliSteps
  <2>2. /\ CallerSteps' = CallerSteps /\ CopierSteps' = CopierSteps
        /\ CtxSteps' = CtxSteps /\ produced' = produced /\ buf' = buf
    BY <1>7 DEF CommitManifest, ExitOk, ExitFail, CallerSteps, CopierSteps, CtxSteps
  <2> QED BY <2>1, <2>2 DEF StepsLeft
<1>8. CASE Cancel \/ Kill
  <2>1. CtxSteps' < CtxSteps /\ CtxSteps' \in Nat
    BY <1>8 DEF Cancel, Kill, CtxSteps
  <2>2. CliSteps' <= CliSteps /\ CliSteps' \in Nat
    BY <1>8 DEF Cancel, Kill, CliSteps, Exited, PipeInv, TypeOK
  <2>3. /\ CallerSteps' = CallerSteps /\ CopierSteps' = CopierSteps
        /\ produced' = produced /\ buf' = buf
    BY <1>8 DEF Cancel, Kill, CallerSteps, CopierSteps
  <2> QED BY <2>1, <2>2, <2>3 DEF StepsLeft
<1> QED BY <1>1, <1>2, <1>3, <1>4, <1>5, <1>6, <1>7, <1>8
        DEF Next, CallerStep, CopyStep, CliStep

\* No call of Backup (dataplane.go) goes on for ever: every step uses up one of
\* finitely many, however long the source and however the actors interleave.
THEOREM BackupRunsOut == Spec => [][StepsLeft' < StepsLeft /\ StepsLeft \in Nat]_vars
<1>1. PipeInv /\ [Next]_vars => [StepsLeft' < StepsLeft /\ StepsLeft \in Nat]_vars
  BY StepIsSpent, CountsAreNatural
<1> QED BY <1>1, InitPipeInv, NextPipeInv, PTL DEF Spec

(***************************************************************************)
(* And as long as the call has not returned somebody can go on, by a step  *)
(* that fairness obliges him to: the guards of the caller, the copier and  *)
(* the CLI.  The one exception is Blocked.                                 *)
(***************************************************************************)
CallerCan == \/ ppc \in {"start", "produce"}
             \/ ppc = "wait" /\ Exited
             \/ ppc = "join" /\ kpc = "done"
CopierCan == \/ kpc = "read" /\ (ppc = "write" \/ pw # "open")
             \/ kpc = "write" /\ (Exited \/ buf < BufCap)
CliCan    == \/ Started /\ cli = "run" /\ (buf > 0 \/ kpc = "done")
             \/ cli = "committed"

NeverStuck == ret = "none" => CallerCan \/ CopierCan \/ CliCan \/ Blocked

ClosedInv == /\ ppc \in {"wait", "join"} => pw # "open"
             /\ ppc = "returned" => ret # "none"

LEMMA NextClosedInv == PipeInv /\ ClosedInv /\ [Next]_vars => ClosedInv'
<1> SUFFICES ASSUME PipeInv, ClosedInv, [Next]_vars PROVE ClosedInv'
  OBVIOUS
<1> USE DEF ClosedInv, prodVars, copyVars, cliVars, ctxVars
<1>1. CASE StartFails \/ CallerStep
  BY <1>1 DEF StartFails, CallerStep, Start, Write, ProduceEnds, ProduceFails,
              Reap, Return
<1>2. CASE CopyStep
  BY <1>2 DEF CopyStep, Take, TakeEnd, Put, PutBroken
<1>3. CASE CliStep \/ ExitFail \/ Cancel \/ Kill \/ UNCHANGED vars
  BY <1>3 DEF CliStep, Consume, CommitManifest, ExitOk, ExitFail, Cancel, Kill, vars
<1> QED BY <1>1, <1>2, <1>3 DEF Next

\* Backup (dataplane.go) can be stuck in one place only: produce in a write to
\* the io.Pipe that nobody reads any more, because the CLI is gone.
THEOREM BackupIsStuckOnlyWhenBlocked == Spec => []NeverStuck
<1>1. Init => ClosedInv
  BY DEF Init, ClosedInv
<1>2. PipeInv /\ ClosedInv => NeverStuck
  <2> SUFFICES ASSUME PipeInv, ClosedInv, ret = "none"
               PROVE  CallerCan \/ CopierCan \/ CliCan \/ Blocked
    BY DEF NeverStuck
  <2> USE ChunksAssumption DEF PipeInv, TypeOK, Exited
  <2>1. CASE ppc \in {"start", "produce", "returned"}
    BY <2>1 DEF CallerCan, ClosedInv
  <2>2. CASE ppc = "write"
    BY <2>2 DEF CopierCan, CliCan, Blocked, Started
  <2>3. CASE ppc = "wait"
    BY <2>3 DEF CallerCan, CopierCan, CliCan, ClosedInv, Started
  <2>4. CASE ppc = "join"
    BY <2>4 DEF CallerCan, CopierCan, ClosedInv
  <2> QED BY <2>1, <2>2, <2>3, <2>4
<1> QED BY <1>1, <1>2, InitPipeInv, NextPipeInv, NextClosedInv, PTL DEF Spec
=============================================================================
