------------------------------ MODULE Delivery ------------------------------
(***************************************************************************)
(* What the edge promises about the outcome of a command, without saying   *)
(* how: once a result is held it is eventually recorded by the control     *)
(* plane, and a held result is never let go before it is recorded.  Only a *)
(* command whose result could not be held may be recorded without, or be   *)
(* lost.                                                                   *)
(***************************************************************************)
CONSTANT Cmd            \* command ids

VARIABLES phase,        \* phase[c]: what became of the result of command c
          unheld        \* commands of which a result could not be held

Phase == {"none", "held", "recorded"}

Init == phase = [c \in Cmd |-> "none"] /\ unheld = {}

Move(c, from, to) ==
    /\ phase[c] = from
    /\ phase' = [phase EXCEPT ![c] = to]
    /\ UNCHANGED unheld

\* A result becomes durable on the edge, or cannot be made so.
Hold(c) == Move(c, "none", "held")

CannotHold(c) ==
    /\ unheld' = unheld \cup {c}
    /\ UNCHANGED phase

\* The control plane records a result the edge holds.
Record(c) == Move(c, "held", "recorded")

\* The control plane records a result the edge could not hold.
RecordUnheld(c) == c \in unheld /\ Move(c, "none", "recorded")

Next == \E c \in Cmd : Hold(c) \/ CannotHold(c) \/ Record(c) \/ RecordUnheld(c)

Safety == Init /\ [][Next]_<<phase, unheld>>

Spec ==
    /\ Safety
    /\ \A c \in Cmd : WF_<<phase, unheld>>(Record(c))
=============================================================================
