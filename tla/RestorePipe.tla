----------------------------- MODULE RestorePipe ----------------------------
(***************************************************************************)
(* One call of CLIDataPlane.Restore (dataplane.go): the output of          *)
(* `binfinity restore --out -` is streamed into consume.                   *)
(*                                                                         *)
(* Five actors.  The CLI writes the recovered chunks to its stdout and     *)
(* exits; os/exec's copier moves them from that pipe into an io.Pipe; the  *)
(* calling goroutine runs consume on the other end; the goroutine that     *)
(* Restore starts waits for the command and closes the io.Pipe with its    *)
(* error; os/exec's watcher kills the CLI when the context is done.        *)
(***************************************************************************)
EXTENDS Integers

CONSTANTS
    Chunks,         \* chunks the backup has
    BufCap          \* chunks the pipe of stdout holds

ASSUME ChunksAssumption == Chunks \in Nat /\ BufCap \in Nat \ {0}

VARIABLES
    cpc,        \* the caller: start, consume, await, returned
    cerr,       \* did consume return an error?
    got,        \* chunks consume has read
    seen,       \* the end consume has seen: none, eof, err
    prClosed,   \* the io.Pipe's reader is closed
    pw,         \* the io.Pipe's writer: open, eof, err
    kpc,        \* the copier: read, write, done
    kerr,       \* did the copier's write fail?
    buf,        \* chunks in the pipe of stdout
    cli,        \* the CLI: run, ok, fail
    sent,       \* chunks the CLI has written
    wpc,        \* the waiting goroutine: reap, join, close, done
    werr,       \* did cmd.Wait return an error?
    ctxDone,    \* the job context is cancelled
    watchErr,   \* did the watcher's kill reach a process?
    ret         \* what Restore returned

callVars == <<cpc, cerr, got, seen, prClosed, ret>>
copyVars == <<kpc, kerr, buf>>
cliVars  == <<cli, sent>>
waitVars == <<wpc, werr, pw>>
ctxVars  == <<ctxDone, watchErr>>
vars == <<callVars, copyVars, cliVars, waitVars, ctxVars>>

Started == cpc # "start"
Exited == cli # "run"

Init ==
    /\ cpc = "start" /\ cerr = FALSE /\ got = 0 /\ seen = "none"
    /\ prClosed = FALSE /\ ret = "none"
    /\ kpc = "read" /\ kerr = FALSE /\ buf = 0
    /\ cli = "run" /\ sent = 0
    /\ wpc = "reap" /\ werr = FALSE /\ pw = "open"
    /\ ctxDone = FALSE /\ watchErr = FALSE

-----------------------------------------------------------------------------
(* The caller.                                                              *)

Start ==
    /\ cpc = "start" /\ ~ctxDone
    /\ cpc' = "consume"
    /\ UNCHANGED <<cerr, got, seen, prClosed, ret, copyVars, cliVars, waitVars,
                   ctxVars>>

\* cmd.Start: no binary, or the context is done already.  No process, no
\* copier and no waiting goroutine come to exist.
StartFails ==
    /\ cpc = "start"
    /\ cpc' = "returned" /\ ret' = "error" /\ prClosed' = TRUE
    /\ cli' = "fail" /\ kpc' = "done" /\ wpc' = "done"
    /\ UNCHANGED <<cerr, got, seen, kerr, buf, sent, werr, pw, ctxVars>>

\* consume reads to the end of the stream.
SeeEof ==
    /\ cpc = "consume" /\ pw = "eof"
    /\ seen' = "eof" /\ cpc' = "await"
    /\ UNCHANGED <<cerr, got, prClosed, ret, copyVars, cliVars, waitVars, ctxVars>>

\* Mutation: the reader stays open behind a consumer that has failed.
FailsWithoutClose ==
    /\ cpc = "consume"
    /\ seen' = IF pw = "err" THEN "err" ELSE seen
    /\ cerr' = TRUE /\ cpc' = "await"
    /\ UNCHANGED <<got, prClosed, ret, copyVars, cliVars, waitVars, ctxVars>>

\* A read fails, or the import itself does: the reader is closed behind it.
ConsumeFails ==
    /\ cpc = "consume"
    /\ seen' = IF pw = "err" THEN "err" ELSE seen
    /\ cerr' = TRUE /\ prClosed' = TRUE /\ cpc' = "await"
    /\ UNCHANGED <<got, ret, copyVars, cliVars, waitVars, ctxVars>>

\* consume is content with less than the whole stream.
ConsumeStops ==
    /\ cpc = "consume"
    /\ cpc' = "await"
    /\ UNCHANGED <<cerr, got, seen, prClosed, ret, copyVars, cliVars, waitVars,
                   ctxVars>>

\* Mutation: the end of the command is not awaited.
ReturnsUnwaited ==
    /\ cpc = "await"
    /\ cpc' = "returned"
    /\ ret' = IF werr \/ cerr THEN "error" ELSE "ok"
    /\ UNCHANGED <<cerr, got, seen, prClosed, copyVars, cliVars, waitVars, ctxVars>>

\* <-waitCh, then the CLI's error before the consumer's.
Return ==
    /\ cpc = "await" /\ wpc = "done"
    /\ cpc' = "returned"
    /\ ret' = IF werr \/ cerr THEN "error" ELSE "ok"
    /\ UNCHANGED <<cerr, got, seen, prClosed, copyVars, cliVars, waitVars, ctxVars>>

-----------------------------------------------------------------------------
(* The CLI: external.  It verifies what it recovers and exits with an error *)
(* when a chunk is missing or corrupt, when its stdout is broken, or when   *)
(* it is killed.                                                            *)

Emit ==
    /\ Started /\ cli = "run" /\ kpc # "done"
    /\ sent < Chunks /\ buf < BufCap
    /\ sent' = sent + 1 /\ buf' = buf + 1
    /\ UNCHANGED <<cli, kpc, kerr, callVars, waitVars, ctxVars>>

ExitOk ==
    /\ Started /\ cli = "run" /\ sent = Chunks
    /\ cli' = "ok"
    /\ UNCHANGED <<sent, callVars, copyVars, waitVars, ctxVars>>

ExitFail ==
    /\ Started /\ cli = "run"
    /\ cli' = "fail"
    /\ UNCHANGED <<sent, callVars, copyVars, waitVars, ctxVars>>

\* The copier has given up and closed its end: the next write is SIGPIPE.
EmitBroken ==
    /\ Started /\ cli = "run" /\ kpc = "done" /\ sent < Chunks
    /\ cli' = "fail"
    /\ UNCHANGED <<sent, callVars, copyVars, waitVars, ctxVars>>

-----------------------------------------------------------------------------
(* os/exec's copier from the child's stdout to the io.Pipe: external.       *)

ReadChunk ==
    /\ kpc = "read" /\ buf > 0
    /\ kpc' = "write" /\ buf' = buf - 1
    /\ UNCHANGED <<kerr, callVars, cliVars, waitVars, ctxVars>>

ReadEnd ==
    /\ kpc = "read" /\ buf = 0 /\ Exited
    /\ kpc' = "done"
    /\ UNCHANGED <<kerr, buf, callVars, cliVars, waitVars, ctxVars>>

\* Mutation: a chunk is delivered and kept for a second delivery.
WriteTwice ==
    /\ kpc = "write" /\ cpc = "consume"
    /\ kpc' \in {"read", "write"} /\ got' = got + 1
    /\ UNCHANGED <<kerr, buf, cpc, cerr, seen, prClosed, ret, cliVars, waitVars,
                   ctxVars>>

\* io.Pipe has no buffer: the write meets a read of consume ...
WriteChunk ==
    /\ kpc = "write" /\ cpc = "consume"
    /\ kpc' = "read" /\ got' = got + 1
    /\ UNCHANGED <<kerr, buf, cpc, cerr, seen, prClosed, ret, cliVars, waitVars,
                   ctxVars>>

\* ... or a closed reader.
WriteFails ==
    /\ kpc = "write" /\ prClosed
    /\ kpc' = "done" /\ kerr' = TRUE
    /\ UNCHANGED <<buf, callVars, cliVars, waitVars, ctxVars>>

-----------------------------------------------------------------------------
(* The goroutine of Restore: Wait, CloseWithError, waitCh.                  *)

Reap ==
    /\ Started /\ wpc = "reap" /\ Exited
    /\ wpc' = "join"
    /\ UNCHANGED <<werr, pw, callVars, copyVars, cliVars, ctxVars>>

\* cmd.Wait returns after the copier: exit status, kill or copy error.
Join ==
    /\ wpc = "join" /\ kpc = "done"
    /\ werr' = (cli # "ok" \/ watchErr \/ kerr)
    /\ wpc' = "close"
    /\ UNCHANGED <<pw, callVars, copyVars, cliVars, ctxVars>>

\* Mutation: the writer is closed as if the CLI had succeeded.
PlainClose ==
    /\ wpc = "close"
    /\ pw' = "eof"
    /\ wpc' = "done"
    /\ UNCHANGED <<werr, callVars, copyVars, cliVars, ctxVars>>

\* A nil error closes the writer with io.EOF; then the caller is told.
ClosePipe ==
    /\ wpc = "close"
    /\ pw' = IF werr THEN "err" ELSE "eof"
    /\ wpc' = "done"
    /\ UNCHANGED <<werr, callVars, copyVars, cliVars, ctxVars>>

-----------------------------------------------------------------------------
(* The context and os/exec's watcher.                                       *)

Cancel ==
    /\ ~ctxDone
    /\ ctxDone' = TRUE
    /\ UNCHANGED <<watchErr, callVars, copyVars, cliVars, waitVars>>

Kill ==
    /\ ctxDone /\ ~watchErr /\ Started /\ wpc = "reap"
    /\ watchErr' = TRUE
    /\ cli' = IF Exited THEN cli ELSE "fail"
    /\ UNCHANGED <<ctxDone, sent, callVars, copyVars, waitVars>>

CallerStep == SeeEof \/ Return \/ (pw = "err" /\ ConsumeFails)
CliStep  == Emit \/ ExitOk \/ EmitBroken
CopyStep == ReadChunk \/ ReadEnd \/ WriteChunk \/ WriteFails
WaitStep == Reap \/ Join \/ ClosePipe

Next ==
    \/ Start \/ StartFails \/ CallerStep \/ ConsumeFails \/ ConsumeStops
    \/ CliStep \/ ExitFail \/ CopyStep \/ WaitStep
    \/ Cancel \/ Kill

Spec == Init /\ [][Next]_vars

(* Fairness.  Every goroutine and the CLI go on while they can; a failure   *)
(* is an obligation for nobody.                                             *)
FairSpec ==
    /\ Spec
    /\ WF_vars(Start \/ StartFails) /\ WF_vars(CallerStep)
    /\ WF_vars(CliStep) /\ WF_vars(CopyStep) /\ WF_vars(WaitStep)
    /\ WF_vars(Kill)

-----------------------------------------------------------------------------
(* Properties.                                                              *)

TypeOK ==
    /\ cpc \in {"start", "consume", "await", "returned"}
    /\ got \in 0..Chunks /\ sent \in 0..Chunks /\ buf \in 0..BufCap
    /\ seen \in {"none", "eof", "err"} /\ pw \in {"open", "eof", "err"}
    /\ kpc \in {"read", "write", "done"}
    /\ cli \in {"run", "ok", "fail"}
    /\ wpc \in {"reap", "join", "close", "done"}
    /\ {cerr, prClosed, kerr, werr, ctxDone, watchErr} \subseteq BOOLEAN
    /\ ret \in {"none", "ok", "error"}

\* "the consumer sees a torn stream as an error, never a silent truncation"
\* (dataplane.go:110-112): consume meets a clean end of file only after the
\* whole backup, from a CLI that has exited with success.
EofMeansWhole == seen = "eof" => got = Chunks /\ cli = "ok" /\ ~watchErr

\* A restore that returns no error has delivered the whole backup, even to a
\* consumer that would have been content with less.
OkMeansWhole == ret = "ok" => got = Chunks

\* Restore returns, whether consume reads to the end or fails on the way, and
\* whether the CLI ends well, fails or is killed under it, with one exception:
\* a consume that returns nil early leaves the copier in its write.
Abandoned == cpc = "await" /\ ~cerr /\ kpc = "write"
RestoreReturns == <>(ret # "none") \/ <>[]Abandoned

-----------------------------------------------------------------------------
(* The inductive invariant behind the two: no chunk is lost before a clean  *)
(* end, and the end is clean only if Wait saw no error of any kind.         *)

CleanEnd == kpc = "done" /\ ~kerr /\ cli = "ok" /\ ~watchErr

StreamInv ==
    /\ kpc = "read" => sent = got + buf
    /\ kpc = "write" => sent = got + buf + 1
    /\ kpc = "done" /\ ~kerr => sent = got /\ Exited
    /\ kerr => kpc = "done"
    /\ cli = "ok" => sent = Chunks

WaitInv ==
    /\ cpc = "start" => cli = "run" /\ kpc = "read" /\ buf = 0 /\ wpc = "reap"
    /\ wpc # "reap" => Exited
    /\ wpc = "close" /\ ~werr => CleanEnd
    /\ wpc = "done" => pw = (IF werr THEN "err" ELSE "eof") \/ cpc = "returned"
    /\ pw # "open" => wpc = "done"
    /\ pw = "eof" => ~werr /\ CleanEnd
    /\ seen = "eof" => pw = "eof"
    /\ ret = "ok" => wpc = "done" /\ CleanEnd

RestoreInv == TypeOK /\ StreamInv /\ WaitInv
=============================================================================
