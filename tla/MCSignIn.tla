------------------------------ MODULE MCSignIn ------------------------------
(* Sign-in on a small instance.                                             *)
EXTENDS SignIn, TLC

Interchangeable == Permutations(Requests)
=============================================================================
