--------------------------- MODULE MCNotification ---------------------------
(* Small instances of NotificationDispatch for TLC. *)
EXTENDS NotificationDispatch

CONSTANTS s1, s2

\* An email for every end and a webhook for failures only.
Channels == [s \in Subs |-> IF s = s1 THEN "email" ELSE "webhook"]
Triggers == [s \in Subs |-> IF s = s2 THEN "terminal_fail_only" ELSE "terminal_any"]

\* One that every subscriber asks for and one that only some do.
BothOutcomes == {"completed", "failed"}

NoFaults  == {}
AllFaults == {"raise", "crash", "remove"}
=============================================================================
