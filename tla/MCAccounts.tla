----------------------------- MODULE MCAccounts -----------------------------
(***************************************************************************)
(* Instance of Accounts: two devices whose requests overlap.               *)
(***************************************************************************)
EXTENDS Accounts, TLC

CONSTANTS d1, d2, r1, r2

Symmetry == Permutations({d1, d2}) \cup Permutations({r1, r2})
=============================================================================
