----------------------------- MODULE BackupPipe -----------------------------
(***************************************************************************)
(* One call of CLIDataPlane.Backup (dataplane.go): the source is piped     *)
(* into `binfinity backup --in -`.                                         *)
(*                                                                         *)
(* Four actors.  The calling goroutine runs produce, which writes to an    *)
(* io.Pipe, and then waits for the command.  os/exec's copier moves what   *)
(* it reads from that pipe into the pipe of the child's stdin.  The CLI    *)
(* reads its stdin to the end, commits a manifest and exits.  os/exec's    *)
(* watcher kills the CLI when the context is done.                         *)
(*                                                                         *)
(* The stream is a number of chunks.  io.Pipe has no buffer: a write       *)
(* returns when the copier has taken it.  The stdin pipe holds BufCap      *)
(* chunks.  The CLI and os/exec are external to the repository: they are   *)
(* modelled from the way Backup uses them.                                 *)
(***************************************************************************)
EXTENDS Integers

CONSTANTS
    Chunks,         \* chunks the source has
    BufCap          \* chunks the pipe of stdin holds

ASSUME ChunksAssumption == Chunks \in Nat /\ BufCap \in Nat \ {0}

VARIABLES
    ppc,        \* the caller: start, produce, write, wait, join, returned
    produced,   \* chunks the copier has taken from the producer
    pw,         \* the pipe's writer: open, eof (Close), err (CloseWithError)
    kpc,        \* the copier: read, write, done
    kerr,       \* did the copier end with the producer's error?
    buf,        \* chunks in the pipe of stdin
    cli,        \* the CLI: run, committed, ok, fail, killed
    got,        \* chunks the CLI has read
    stored,     \* chunks in the committed manifest, -1 for no manifest
    ctxDone,    \* the job context is cancelled
    watchErr,   \* did the watcher's kill reach a process?
    ret         \* what Backup returned

prodVars == <<ppc, produced, pw>>
copyVars == <<kpc, kerr, buf>>
cliVars  == <<cli, got, stored>>
ctxVars  == <<ctxDone, watchErr>>
vars == <<prodVars, copyVars, cliVars, ctxVars, ret>>

NoManifest == -1
Exited == cli \in {"ok", "fail", "killed"}
produceErr == pw = "err"

Init ==
    /\ ppc = "start" /\ produced = 0 /\ pw = "open"
    /\ kpc = "read" /\ kerr = FALSE /\ buf = 0
    /\ cli = "run" /\ got = 0 /\ stored = NoManifest
    /\ ctxDone = FALSE /\ watchErr = FALSE
    /\ ret = "none"

-----------------------------------------------------------------------------
(* The caller.                                                              *)

\* cmd.Start: no binary, or the context is done already.
StartFails ==
    /\ ppc = "start"
    /\ ppc' = "returned" /\ ret' = "error" /\ cli' = "fail" /\ kpc' = "done"
    /\ UNCHANGED <<produced, pw, kerr, buf, got, stored, ctxVars>>

Start ==
    /\ ppc = "start" /\ ~ctxDone
    /\ ppc' = "produce"
    /\ UNCHANGED <<produced, pw, copyVars, cliVars, ctxVars, ret>>

\* Mutation: one chunk too many.
WriteOneMore ==
    /\ ppc = "produce" /\ produced <= Chunks
    /\ ppc' = "write"
    /\ UNCHANGED <<produced, pw, copyVars, cliVars, ctxVars, ret>>

\* Mutation: the source is staged in memory instead of a pipe.
WriteStaged ==
    /\ ppc = "produce" /\ produced < Chunks
    /\ produced' = produced + 1
    /\ UNCHANGED <<ppc, pw, copyVars, cliVars, ctxVars, ret>>

\* produce() has a chunk and calls pw.Write, which blocks.
Write ==
    /\ ppc = "produce" /\ produced < Chunks
    /\ ppc' = "write"
    /\ UNCHANGED <<produced, pw, copyVars, cliVars, ctxVars, ret>>

\* Mutation: the writer is not closed at the end of the source.
EndsWithoutClose ==
    /\ ppc = "produce" /\ produced = Chunks
    /\ ppc' = "wait"
    /\ UNCHANGED <<produced, pw, copyVars, cliVars, ctxVars, ret>>

ProduceEnds ==
    /\ ppc = "produce" /\ produced = Chunks
    /\ pw' = "eof" /\ ppc' = "wait"
    /\ UNCHANGED <<produced, copyVars, cliVars, ctxVars, ret>>

\* Mutation: a failed source is closed like a finished one.
FailsWithPlainClose ==
    /\ ppc = "produce"
    /\ pw' = "eof" /\ ppc' = "wait"
    /\ UNCHANGED <<produced, copyVars, cliVars, ctxVars, ret>>

\* The source fails, after its last byte at the latest (a bad exit status).
ProduceFails ==
    /\ ppc = "produce"
    /\ pw' = "err" /\ ppc' = "wait"
    /\ UNCHANGED <<produced, copyVars, cliVars, ctxVars, ret>>

\* cmd.Wait: the process first; a kill comes too late from here on ...
Reap ==
    /\ ppc = "wait" /\ Exited
    /\ ppc' = "join"
    /\ UNCHANGED <<produced, pw, copyVars, cliVars, ctxVars, ret>>

\* Mutation: a producer error is returned without waiting for the CLI.
ReturnsUnwaited ==
    /\ \/ ppc = "join" /\ kpc = "done"
       \/ ppc = "wait" /\ produceErr
    /\ ppc' = "returned"
    /\ ret' = IF produceErr \/ cli # "ok" \/ watchErr \/ kerr
                THEN "error" ELSE "ok"
    /\ UNCHANGED <<produced, pw, copyVars, cliVars, ctxVars>>

\* ... then the copier.  A producer error has precedence over the CLI's.
Return ==
    /\ ppc = "join" /\ kpc = "done"
    /\ ppc' = "returned"
    /\ ret' = IF produceErr \/ cli # "ok" \/ watchErr \/ kerr
                THEN "error" ELSE "ok"
    /\ UNCHANGED <<produced, pw, copyVars, cliVars, ctxVars>>

CallerStep == Start \/ Write \/ ProduceEnds \/ ProduceFails \/ Reap \/ Return

-----------------------------------------------------------------------------
(* os/exec's copier from the io.Pipe to the child's stdin: external.        *)

Take ==
    /\ kpc = "read" /\ ppc = "write"
    /\ kpc' = "write" /\ ppc' = "produce"
    /\ produced' = produced + 1
    /\ UNCHANGED <<pw, kerr, buf, cliVars, ctxVars, ret>>

\* The end of the stream, clean or not, closes the child's stdin: an error
\* does not travel through an OS pipe.
TakeEnd ==
    /\ kpc = "read" /\ pw # "open"
    /\ kpc' = "done" /\ kerr' = produceErr
    /\ UNCHANGED <<buf, prodVars, cliVars, ctxVars, ret>>

Put ==
    /\ kpc = "write" /\ ~Exited /\ buf < BufCap
    /\ kpc' = "read" /\ buf' = buf + 1
    /\ UNCHANGED <<kerr, prodVars, cliVars, ctxVars, ret>>

\* Nobody reads stdin any more: EPIPE ends the copier without an error, and
\* without closing the io.Pipe's reader.
PutBroken ==
    /\ kpc = "write" /\ Exited
    /\ kpc' = "done"
    /\ UNCHANGED <<kerr, buf, prodVars, cliVars, ctxVars, ret>>

CopyStep == Take \/ TakeEnd \/ Put \/ PutBroken

-----------------------------------------------------------------------------
(* The CLI: external.                                                       *)

Started == ppc # "start"

Consume ==
    /\ Started /\ cli = "run" /\ buf > 0
    /\ buf' = buf - 1 /\ got' = got + 1
    /\ UNCHANGED <<kpc, kerr, cli, stored, prodVars, ctxVars, ret>>

\* End of file on stdin: what was read is the backup.
CommitManifest ==
    /\ Started /\ cli = "run" /\ buf = 0 /\ kpc = "done"
    /\ cli' = "committed" /\ stored' = got
    /\ UNCHANGED <<got, prodVars, copyVars, ctxVars, ret>>

ExitOk ==
    /\ cli = "committed"
    /\ cli' = "ok"
    /\ UNCHANGED <<got, stored, prodVars, copyVars, ctxVars, ret>>

ExitFail ==
    /\ Started /\ cli \in {"run", "committed"}
    /\ cli' = "fail"
    /\ UNCHANGED <<got, stored, prodVars, copyVars, ctxVars, ret>>

CliStep == Consume \/ CommitManifest \/ ExitOk

-----------------------------------------------------------------------------
(* The context and os/exec's watcher.                                       *)

Cancel ==
    /\ ~ctxDone
    /\ ctxDone' = TRUE
    /\ UNCHANGED <<watchErr, prodVars, copyVars, cliVars, ret>>

\* The kill also reaches a process that has exited and is not yet reaped.
Kill ==
    /\ ctxDone /\ ~watchErr
    /\ ppc \in {"produce", "write", "wait"}
    /\ watchErr' = TRUE
    /\ cli' = IF Exited THEN cli ELSE "killed"
    /\ UNCHANGED <<ctxDone, got, stored, prodVars, copyVars, ret>>

Next ==
    \/ StartFails \/ CallerStep \/ CopyStep \/ CliStep \/ ExitFail
    \/ Cancel \/ Kill

(* Fairness.  Every actor goes on while it can; the source has an end.      *)
(* Nothing obliges the operator to cancel or the CLI to fail.               *)
FairSpec ==
    /\ Init /\ [][Next]_vars
    /\ WF_vars(StartFails \/ CallerStep) /\ WF_vars(CopyStep)
    /\ WF_vars(CliStep) /\ WF_vars(Kill)

Spec == Init /\ [][Next]_vars

-----------------------------------------------------------------------------
(* Properties.                                                              *)

TypeOK ==
    /\ ppc \in {"start", "produce", "write", "wait", "join", "returned"}
    /\ produced \in 0..Chunks
    /\ pw \in {"open", "eof", "err"}
    /\ kpc \in {"read", "write", "done"}
    /\ kerr \in BOOLEAN
    /\ buf \in 0..BufCap
    /\ cli \in {"run", "committed", "ok", "fail", "killed"}
    /\ got \in 0..Chunks
    /\ stored \in {NoManifest} \cup 0..Chunks
    /\ ctxDone \in BOOLEAN /\ watchErr \in BOOLEAN
    /\ ret \in {"none", "ok", "error"}

\* "no silent truncation" (DEVELOPMENT.md): a backup that returns without an
\* error has stored every chunk of a source that ended well, however the
\* producer, the copier, the CLI and a kill interleave.
OkIsComplete == ret = "ok" => stored = Chunks /\ ~produceErr

\* "constant memory, any size" (dataplane.go:66): the source is never more
\* than the pipe and one copied chunk ahead of the CLI.
ConstantMemory == produced - got <= BufCap + 1

\* The pipe implements the data plane that JobControl takes for granted.
manifest == IF stored = NoManifest THEN "none"
            ELSE IF stored = Chunks THEN "whole" ELSE "partial"
Promise == INSTANCE DataPlane
KeepsPromise == Promise!Spec

\* Backup returns, also when the source fails, with one exception: produce is
\* in a write to the io.Pipe when the CLI is gone.
Blocked == ppc = "write" /\ kpc = "done" /\ Exited
BackupReturns == <>(ret # "none") \/ <>[]Blocked

(* The inductive invariant behind OkIsComplete and ConstantMemory: no chunk  *)
(* is lost between the producer and a CLI that lives.                       *)
InCopier == IF kpc = "write" THEN 1 ELSE 0

PipeInv ==
    /\ TypeOK
    /\ produced - got <= buf + 1
    /\ kpc # "done" => produced = got + buf + InCopier
    /\ kpc = "done" /\ ~Exited => pw # "open" /\ produced = got + buf
    /\ pw = "eof" => produced = Chunks
    /\ ppc = "write" => produced < Chunks
    /\ pw # "open" => ppc \in {"wait", "join", "returned"}
    /\ ppc \in {"join", "returned"} => Exited
    /\ ppc = "start" => cli = "run"
    /\ cli \in {"committed", "ok"} =>
         kpc = "done" /\ pw # "open" /\ got = produced /\ stored = got
    /\ cli = "run" => stored = NoManifest
    /\ ret # "none" => ppc = "returned"
    /\ ret = "ok" => cli = "ok" /\ pw # "err"

-----------------------------------------------------------------------------
(* What the comments say and the code does not do.                          *)

\* dataplane.go:84: "Propagating a producer error makes the CLI fail fast
\* rather than store a truncated stream."
FailedSourceStoresNothing == produceErr => stored = NoManifest

\* sdk.go:574: execute "always reports, even on failure", and sdk.go:578: "an
\* operator cancel ... can abort the data-plane stream mid-flight".  Both need
\* Backup to return when the CLI has failed or been killed.
FailureReturns == <>(ret # "none")
=============================================================================
