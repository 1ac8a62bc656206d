---------------------------- MODULE MCIssueRuns ----------------------------
(* Which of the events of IssueRuns happen, and how often.                  *)
EXTENDS IssueRuns

NoEvents     == [e \in Events |-> 0]
CrashOnly    == [NoEvents EXCEPT !["crash"] = 1]
BudgetOnly   == [NoEvents EXCEPT !["budget"] = 1]
AllButCrash  == [e \in Events |-> IF e = "crash" THEN 0 ELSE 1]
=============================================================================
