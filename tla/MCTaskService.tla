--------------------------- MODULE MCTaskService ---------------------------
(* Instance of TaskService for TLC. *)
EXTENDS TaskService, TLC
CONSTANTS t1, t2, a1, a2, r1, r2, r3
MCOneTask == {t1}
MCTaskIds == {t1, t2}
MCAccounts == {a1, a2}
MCOneAccount == {a1}
MCTwoRuns == {r1, r2}
MCThreeRuns == {r1, r2, r3}
Symm == Permutations(TaskIds) \cup Permutations(Accounts) \cup Permutations(Runs)
=============================================================================
