----------------------------- MODULE MCAccounts -----------------------------
(* The user directory on a small instance.                                  *)
EXTENDS Accounts, TLC

Interchangeable == Permutations(Requests)
=============================================================================
