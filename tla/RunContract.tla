----------------------------- MODULE RunContract -----------------------------
(***************************************************************************)
(* What the run engine promises to those who watch a run from outside: the *)
(* row they read, the work done for it, and the one notification they get. *)
(*                                                                         *)
(*   - work comes in batches: a batch starts only when nothing is being    *)
(*     worked on, and only for a run nobody was told the end of;           *)
(*   - the engine concludes a run only when nothing is being worked on;    *)
(*   - subscribers are told once; from then on the only thing that can     *)
(*     still happen to the run is that it is marked aborted.               *)
(*                                                                         *)
(* LoadRun and RetryRun implement this specification.                      *)
(***************************************************************************)
CONSTANT Jobs       \* the units of work a run may consist of

VARIABLES
    status,   \* the run's status
    active,   \* the jobs being worked on
    told      \* what the subscribers were told, or "none"

contractVars == <<status, active, told>>

Terminal == {"completed", "completed_with_errors", "failed", "aborted"}
Open     == told = "none" /\ active = {}

Init == status = "pending" /\ active = {} /\ told = "none"

\* The engine picks the run up, aborted or not.
Begin ==
    /\ Open /\ status \in {"pending", "aborted"}
    /\ status' = "running"
    /\ UNCHANGED <<active, told>>

StartBatch ==
    /\ Open /\ status \in {"running", "aborted"}
    /\ active' \in (SUBSET Jobs) \ {{}}
    /\ UNCHANGED <<status, told>>

FinishJob ==
    /\ \E j \in active : active' = active \ {j}
    /\ UNCHANGED <<status, told>>

\* The engine records the end of the run, and may announce it at once.
Conclude ==
    /\ Open /\ status \in {"pending", "running", "aborted"}
    /\ status' \in Terminal
    /\ told' \in {"none", status'}
    /\ UNCHANGED active

\* What is told is the status; an abort may overtake the announcement.
Tell ==
    /\ Open /\ status \in Terminal
    /\ told' \in Terminal
    /\ status # "aborted" => told' = status
    /\ UNCHANGED <<status, active>>

\* A user aborts a run, be it too late; or the engine's task is cancelled,
\* and the cancellation may be the first thing the subscribers hear.
Abort ==
    /\ status' = "aborted"
    /\ told' = told \/ (told = "none" /\ told' = "aborted")
    /\ UNCHANGED active

\* The engine's task or its process dies.
Die ==
    /\ active' = {}
    /\ UNCHANGED <<status, told>>

Next == Begin \/ StartBatch \/ FinishJob \/ Conclude \/ Tell \/ Abort \/ Die

Spec == Init /\ [][Next]_contractVars
=============================================================================
