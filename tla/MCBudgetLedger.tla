---------------------------- MODULE MCBudgetLedger ----------------------------
(* Instances of BudgetLedger for TLC.  Transactions are interchangeable.    *)
EXTENDS BudgetLedger, TLC

Symmetry == Permutations(Txs)
=============================================================================
