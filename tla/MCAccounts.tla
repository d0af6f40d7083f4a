------------------------------ MODULE MCAccounts ------------------------------
(***************************************************************************)
(* Accounts on small instances.                                            *)
(***************************************************************************)
EXTENDS Accounts, TLC

ThreadSymmetry == Permutations(Thread)

\* config.pson names one user, an admin.
AdminSeed == "admin" :> [role |-> "admin", pass |-> "old"]
=============================================================================
