-------------------------------- MODULE Agent --------------------------------
(***************************************************************************)
(* The life of an agent over restarts (sdk.go: Run, ensureEnrolled,        *)
(* persist, reportLoop): it reads its credentials or redeems the setup key *)
(* for new ones, saves them in place, and then works and reports under     *)
(* that identity.  Results that are not acknowledged stay in the outbox,   *)
(* beside the credentials.                                                 *)
(*                                                                         *)
(* Abstractions.  Identities are numbered as AMS issues them.  A result    *)
(* file is known by the identity its command was given to (Outbox has the  *)
(* files themselves).  The runtime starts the process again whenever it    *)
(* has ended.  A fault is what costs an identity: the answer of AMS is     *)
(* lost, the process is killed before it has saved what it was given, the  *)
(* save fails, or the volume is lost.                                      *)
(***************************************************************************)
EXTENDS Limits

CONSTANTS
    Uses,           \* uses of the setup key
    MaxFaults,      \* bound: faults
    MaxAttempts,    \* bound: attempts of reportLoop that are counted
    ReportBase,     \* REPORT_RETRY_BASE
    ReportMax       \* the 2 minutes of reportLoop

ASSUME BudgetAssumption ==
    Uses \in Nat /\ MaxFaults \in Nat /\ MaxAttempts \in Nat
ASSUME PaceAssumption ==
    /\ ReportBase \in Nat \ {0} /\ ReportMax \in Nat \ {0}
    /\ Mask \in Nat \ {0} /\ Multiplier \in Nat /\ Increment \in Nat

None == 0           \* no identity, no file
Torn == -1          \* a credentials file that does not parse
Id   == 1..Uses

VARIABLES
    pc,         \* Run: where it is
    id,         \* r.systemID; the identity in the answer before that
    disk,       \* the credentials file
    uses,       \* AMS: uses left of the setup key
    issued,     \* AMS: identities issued
    pending,    \* the outbox: whose results are in it
    sent,       \* history: whose result was sent under which identity
    unsaved,    \* history: identities that went to work without being saved
    attempt,    \* reportLoop
    wait,       \* reportLoop: the delay it is in, 0 before the first
    faults      \* faults so far

loopVars == <<attempt, wait>>
amsVars  == <<uses, issued>>
vars == <<pc, id, disk, amsVars, pending, sent, unsaved, loopVars, faults>>

Init ==
    /\ pc = "down" /\ id = None /\ disk = None
    /\ uses = Uses /\ issued = 0
    /\ pending = {} /\ sent = {} /\ unsaved = {}
    /\ attempt = 0 /\ wait = 0 /\ faults = 0

Goto(from, to) == pc = from /\ pc' = to
Fault == faults < MaxFaults /\ faults' = faults + 1

\* The process has ended, for whatever reason.
Ended == pc' = "down" /\ id' = None /\ attempt' = 0 /\ wait' = 0

-----------------------------------------------------------------------------
(* Start and enrollment.                                                    *)

Start ==
    /\ Goto("down", "read")
    /\ UNCHANGED <<id, disk, amsVars, pending, sent, unsaved, loopVars, faults>>

\* Mutation: saved credentials are not reused.
ReadIgnoresFile ==
    /\ Goto("read", "enroll")
    /\ UNCHANGED <<id, disk, amsVars, pending, sent, unsaved, loopVars, faults>>

\* Mutation: a file that is there is taken for credentials.
ReadUnparsed ==
    /\ pc = "read"
    /\ \/ disk # None /\ pc' = "up" /\ id' = disk
       \/ disk = None /\ pc' = "enroll" /\ id' = id
    /\ UNCHANGED <<disk, amsVars, pending, sent, unsaved, loopVars, faults>>

\* A file that does not parse is treated like none.
ReadCredentials ==
    /\ pc = "read"
    /\ \/ disk \in Id /\ pc' = "up" /\ id' = disk
       \/ disk \notin Id /\ pc' = "enroll" /\ id' = id
    /\ UNCHANGED <<disk, amsVars, pending, sent, unsaved, loopVars, faults>>

Issue == uses > 0 /\ uses' = uses - 1 /\ issued' = issued + 1

Redeem ==
    /\ Goto("enroll", "answered")
    /\ Issue /\ id' = issued'
    /\ UNCHANGED <<disk, pending, sent, unsaved, loopVars, faults>>

\* The key is redeemed and the answer does not arrive: enrollment is fatal.
RedeemUnheard ==
    /\ pc = "enroll" /\ Issue /\ Fault /\ Ended
    /\ UNCHANGED <<disk, pending, sent, unsaved>>

\* AMS is not reached, or it rejects the key: enrollment is fatal.
EnrollFails ==
    /\ pc = "enroll" /\ Ended
    /\ UNCHANGED <<disk, amsVars, pending, sent, unsaved, faults>>

\* persist: os.WriteFile truncates the file, then fills it.
Truncate ==
    /\ Goto("answered", "write")
    /\ disk' = Torn
    /\ UNCHANGED <<id, amsVars, pending, sent, unsaved, loopVars, faults>>

\* Mutation: the agent works on before the file is written.
WriteUnchecked ==
    /\ Goto("write", "up")
    /\ UNCHANGED <<id, disk, amsVars, pending, sent, unsaved, loopVars, faults>>

Write ==
    /\ Goto("write", "up")
    /\ disk' = id
    /\ UNCHANGED <<id, amsVars, pending, sent, unsaved, loopVars, faults>>

\* An error of persist is logged, and the agent goes to work all the same.
PersistFails ==
    /\ pc \in {"answered", "write"} /\ pc' = "up"
    /\ Fault
    /\ unsaved' = unsaved \cup {id}
    /\ UNCHANGED <<id, disk, amsVars, pending, sent, loopVars>>

-----------------------------------------------------------------------------
(* Work.                                                                    *)

\* execute leaves a result in the outbox.
Report ==
    /\ pc = "up"
    /\ pending' = pending \cup {id}
    /\ UNCHANGED <<pc, id, disk, amsVars, sent, unsaved, loopVars, faults>>

NextAttempt(left) ==
    IF left = {} THEN 0 ELSE Least(attempt + 1, MaxAttempts)

\* A round of reportLoop: flush sends every result there is, whoever's command
\* it answers, as the system the agent is now; some are acknowledged.
Flush ==
    /\ pc = "up"
    /\ sent' = sent \cup {<<o, id>> : o \in pending}
    /\ \E left \in SUBSET pending :
         /\ pending' = left
         /\ attempt' = NextAttempt(left)
    /\ wait' = Backoff(attempt', ReportBase, Greatest(ReportBase, ReportMax), id)
    /\ UNCHANGED <<pc, id, disk, amsVars, unsaved, faults>>

\* A signal, or a kill where nothing is lost.
Stop ==
    /\ pc \in {"read", "up"} /\ Ended
    /\ UNCHANGED <<disk, amsVars, pending, sent, unsaved, faults>>

Kill ==
    /\ pc \in {"answered", "write"} /\ Fault /\ Ended
    /\ UNCHANGED <<disk, amsVars, pending, sent, unsaved>>

\* The container gets a new volume: credentials and outbox are gone.
LoseVolume ==
    /\ pc = "down" /\ Fault
    /\ disk' = None /\ pending' = {}
    /\ UNCHANGED <<pc, id, amsVars, sent, unsaved, loopVars>>

Next == \/ Start \/ ReadCredentials \/ Redeem \/ RedeemUnheard \/ EnrollFails
        \/ Truncate \/ Write \/ PersistFails \/ Report \/ Flush
        \/ Stop \/ Kill \/ LoseVolume

\* The runtime restarts the process, the process goes on, and it is not for
\* ever stopped before it has read its file or AMS out of its reach.
Fairness == /\ WF_vars(Start) /\ SF_vars(ReadCredentials) /\ SF_vars(Redeem)
            /\ WF_vars(Truncate) /\ WF_vars(Write)

Spec == Init /\ [][Next]_vars /\ Fairness

-----------------------------------------------------------------------------
(* Properties.                                                              *)

Types ==
    /\ pc \in {"down", "read", "enroll", "answered", "write", "up"}
    /\ id \in Id \cup {None} /\ disk \in Id \cup {None, Torn}
    /\ uses \in 0..Uses /\ issued \in 0..Uses
    /\ pending \subseteq Id /\ sent \subseteq Id \X Id /\ unsaved \subseteq Id
    /\ attempt \in 0..MaxAttempts /\ faults \in 0..MaxFaults

\* Every variable has its type.
TypeOK == Types /\ wait \in Nat

\* README.md:90, "Enroll once, persist credentials, reuse them forever": beyond
\* the first, the setup key is redeemed only to make up for a fault, however
\* often the agent stops, fails to enroll and starts again.  A key with one use
\* more than there are faults never locks the agent out.
KeyBudget == issued <= faults + 1

\* A result goes to CBS under the identity its command was given to, across
\* restarts and new enrollments, unless that identity was never saved.
OwnResults == \A p \in sent : p[1] = p[2] \/ p[1] \in unsaved

Pow2[n \in Nat] == IF n = 0 THEN 1 ELSE 2 * Pow2[n - 1]

\* reportLoop waits as long as base * 2^attempt capped at max says, plus a jitter
\* of less than a quarter, but never of Mask (2.1 s of the 30 s a quarter of two
\* minutes would allow), however long the results have been refused.
RetryPaced ==
    wait # 0 =>
      LET max == Greatest(ReportBase, ReportMax)
          due == Least(ReportBase * Pow2[attempt], max) IN
        due <= wait /\ 4 * wait < 5 * due + 4 /\ wait < due + Mask

\* An agent whose key has a use left for every fault always gets to work.
EventuallyUp == pc # "up" ~> pc = "up"

\* The invariant the proof needs: each identity that was issued is the one the
\* agent holds or was paid for with a fault.
Held == IF disk \in Id \/ pc \in {"answered", "write"} THEN 1 ELSE 0

AgentInv ==
    /\ issued + uses = Uses
    /\ issued <= faults + Held
    /\ pc \in {"enroll", "answered", "write"} => disk \notin Id
    /\ disk <= issued
    /\ pc \in {"answered", "write", "up"} => id \in 1..issued
    /\ pc = "up" => id = disk \/ (disk \notin Id /\ id \in unsaved)
    /\ \A o \in pending : o = disk \/ o \in unsaved
    /\ OwnResults
=============================================================================
