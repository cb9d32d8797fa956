--------------------------- MODULE MCTransactions ---------------------------
(***************************************************************************)
(* The properties of the transaction manager and what TLC needs.           *)
(***************************************************************************)
EXTENDS TransactionProperties, TLC

\* Safety runs only: no property or fairness condition names an attempt.
Symmetry == Permutations(Txn)
=============================================================================
