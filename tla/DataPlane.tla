------------------------------ MODULE DataPlane ------------------------------
(***************************************************************************)
(* What DataPlane.Backup promises to execute, without the pipe: a call     *)
(* that returns no error has left one whole manifest, a call that returns  *)
(* an error promises nothing about it, and no manifest appears once the    *)
(* call is over.  These are the stream steps of JobControl for one job.    *)
(***************************************************************************)
VARIABLES manifest,     \* what is committed in the store
          ret           \* what the call has returned

Init == manifest = "none" /\ ret = "none"

Commit ==
    /\ ret = "none" /\ manifest = "none"
    /\ manifest' \in {"whole", "partial"}
    /\ UNCHANGED ret

ReturnOk ==
    /\ ret = "none" /\ manifest = "whole"
    /\ ret' = "ok"
    /\ UNCHANGED manifest

ReturnError ==
    /\ ret = "none"
    /\ ret' = "error"
    /\ UNCHANGED manifest

Spec == Init /\ [][Commit \/ ReturnOk \/ ReturnError]_<<manifest, ret>>
=============================================================================
