-------------------------- MODULE MCTaskScheduler --------------------------
(* Instance of TaskScheduler for TLC. *)
EXTENDS TaskScheduler
CONSTANTS t1, t2, f1, f2, r1, r2, r3
MCOneTask == {t1}
MCTwoTasks == {t1, t2}
MCFires == {f1, f2}
MCTwoRefreshers == {r1, r2}
=============================================================================
