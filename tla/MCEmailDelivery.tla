-------------------------- MODULE MCEmailDelivery --------------------------
(* Small instances of EmailDelivery for TLC. *)
EXTENDS EmailDelivery

CONSTANTS r1, r2, r3, k1

\* Two requests for the same logical email and one without a key.
TwinKeys == [r \in Requests |-> IF r = r3 THEN NoKey ELSE k1]

NoFaults  == {}
AllFaults == {"raise", "crash"}
=============================================================================
