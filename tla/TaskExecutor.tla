---------------------------- MODULE TaskExecutor ----------------------------
(***************************************************************************)
(* ExecuteTask (internal/service/task/executor.go) as one process per      *)
(* execution, together with what runs beside it: the HTTP handlers that    *)
(* start, cancel, edit and delete tasks, the account rename cascade, and   *)
(* shutdown, crash and restart of the service.                             *)
(*                                                                         *)
(* An execution takes the account lock, registers itself, works through    *)
(* its stages, and leaves by its deferred calls in reverse order: history  *)
(* row, Unregister, Exit.                                                  *)
(***************************************************************************)
EXTENDS TaskRegistry

CONSTANT EditRunning   \* may a task be edited while an execution of it runs?

ASSUME EditAssumption == EditRunning \in BOOLEAN

VARIABLES store,    \* tasks.json: task ID -> account, None when absent
          pc,       \* where each execution stands
          job,      \* its own copy of the task definition
          hist,     \* its outcome so far (histSuccess, histCancelled)
          history,  \* task_executions: the status of each execution's row
          refused,  \* executions whose row the database refused to close
          del,      \* HandleDeleteTask with cleanStrm
          drain     \* shutdown of the service

vars == <<accountLock, tasks, rt, store, pc, job, hist, history, refused,
          del, drain>>
serviceVars == <<store, refused, del, drain>>

-----------------------------------------------------------------------------
(* The stages of an execution *)

\* Between TryEnter and the deferred Exit.
Held == {"register", "create", "prepare", "scan", "reconcile", "generate",
         "finalize", "commit", "history", "unregister", "exit"}

\* Between Register and the deferred Unregister.
Live == Held \ {"register", "exit"}

\* Before the last look at the context (step 12 of ExecuteTask).
BeforeCommit == {"create", "prepare", "scan", "reconcile", "generate", "finalize"}

\* Its goroutine runs.
Active == Held \cup {"read", "enter"}

Stages == Active \cup {"idle", "gone", "dead"}

NoJob == [id |-> None, account |-> None]
Job == [id : TaskIds \cup {None}, account : Accounts \cup {None}]

TypeOK ==
    /\ RegistryTypeOK
    /\ store \in [TaskIds -> Accounts \cup {None}]
    /\ pc \in [Runs -> Stages]
    /\ job \in [Runs -> Job]
    /\ hist \in [Runs -> {"completed", "failed", "cancelled"}]
    /\ history \in [Runs -> Status]
    /\ refused \in SUBSET Runs
    /\ del \in [at : {"idle", "cancel", "snapshot", "wait", "clean", "last", "remove"},
                id : TaskIds \cup {None}, waits : Runs \cup {None}]
    /\ drain \in [phase : {"up", "cancelled", "waiting", "down"}, over : BOOLEAN,
                  set : SUBSET Runs]

NoDelete == [at |-> "idle", id |-> None, waits |-> None]
Serving == [phase |-> "up", over |-> FALSE, set |-> {}]

Init ==
    /\ RegistryInit
    /\ store \in [TaskIds -> Accounts \cup {None}]
    /\ pc = [r \in Runs |-> "idle"]
    /\ job = [r \in Runs |-> NoJob]
    /\ hist = [r \in Runs |-> "completed"]
    /\ history = [r \in Runs |-> "none"]
    /\ refused = {}
    /\ del = NoDelete
    /\ drain = Serving

Up == drain.phase # "down"
Goto(r, stage) == pc' = [pc EXCEPT ![r] = stage]
Cancelled(r) == rt[r].cancelled

\* r leaves with outcome o; status s is written to whatever its task ID names.
Leave(r, o, s) ==
    /\ hist' = [hist EXCEPT ![r] = o]
    /\ SetStatus(job[r].id, s)
    /\ Goto(r, "history")
    /\ UNCHANGED <<accountLock, tasks, job, history>>

Fail(r) == Leave(r, "failed", "failed")
FinishCancelled(r) == Leave(r, "cancelled", "cancelled")

\* ExecuteTask returned: its local variables are no more.
Return(r) ==
    /\ Goto(r, "gone")
    /\ job' = [job EXCEPT ![r] = NoJob]
    /\ hist' = [hist EXCEPT ![r] = "completed"]

Proceed(r, stage) ==
    /\ Goto(r, stage)
    /\ UNCHANGED <<registryVars, job, hist, history>>

-----------------------------------------------------------------------------
(* ExecuteTask *)

\* HTTP start, the scheduler and the Telegram menu all call ExecuteTask(id).
Start(r, t) ==
    /\ Up /\ pc[r] = "idle"
    /\ job' = [job EXCEPT ![r] = [id |-> t, account |-> None]]
    /\ Goto(r, "read")
    /\ UNCHANGED <<registryVars, serviceVars, hist, history>>

\* Finds the task and keeps a copy of it; not_found ends the call.
ReadTask(r) ==
    /\ pc[r] = "read"
    /\ \/ store[job[r].id] = None /\ Return(r)
       \/ /\ store[job[r].id] # None
          /\ job' = [job EXCEPT ![r] = [id |-> job[r].id, account |-> store[job[r].id]]]
          /\ Goto(r, "enter")
          /\ UNCHANGED hist
    /\ UNCHANGED <<registryVars, serviceVars, history>>

Enter(r) ==
    /\ pc[r] = "enter"
    /\ TryEnter(job[r].account, job[r].id)
    /\ Goto(r, "register")
    /\ UNCHANGED <<tasks, rt, serviceVars, job, hist, history>>

\* account_running: another execution has the account.
Blocked(r) ==
    /\ pc[r] = "enter"
    /\ accountLock[job[r].account] # None
    /\ Return(r)
    /\ UNCHANGED <<registryVars, serviceVars, history>>

RegisterRun(r) ==
    /\ pc[r] = "register"
    /\ Register(job[r].id, r)
    /\ Goto(r, "create")
    /\ UNCHANGED <<accountLock, serviceVars, job, hist, history>>

\* The row is inserted as running; when the insert fails there is no row.
CreateExecution(r) ==
    /\ pc[r] = "create"
    /\ \E row \in {"running", "none"} : history' = [history EXCEPT ![r] = row]
    /\ Goto(r, "prepare")
    /\ UNCHANGED <<registryVars, serviceVars, job, hist>>

\* Account, cookie probe, prefix and cid: each failure is a failed task, a
\* request cut short by cancellation too.
Prepare(r) ==
    /\ pc[r] = "prepare"
    /\ Fail(r) \/ Proceed(r, "scan")
    /\ UNCHANGED serviceVars

Scan(r) ==
    /\ pc[r] = "scan"
    /\ \/ Cancelled(r) /\ FinishCancelled(r)
       \/ ~Cancelled(r) /\ (Fail(r) \/ Proceed(r, "reconcile"))
    /\ UNCHANGED serviceVars

\* Path collisions, orphan cleanup, the file index and MkdirAll: no look at
\* the context decides whether the task goes on.
Reconcile(r) ==
    /\ pc[r] = "reconcile"
    /\ Fail(r) \/ Proceed(r, "generate")
    /\ UNCHANGED serviceVars

\* Workers write STRM files and download; failures are only remembered.
Generate(r) ==
    /\ pc[r] = "generate"
    /\ \E o \in {"completed", "failed"} : hist' = [hist EXCEPT ![r] = o]
    /\ Goto(r, "finalize")
    /\ UNCHANGED <<registryVars, serviceVars, job, history>>

\* Mutant: step 12 without its look at the context.
FinalizeUnchecked(r) ==
    /\ pc[r] = "finalize"
    /\ Proceed(r, "commit")
    /\ UNCHANGED serviceVars

\* Ghost purge, STRM cache, then step 12: cancellation has priority.
Finalize(r) ==
    /\ pc[r] = "finalize"
    /\ IF Cancelled(r) THEN FinishCancelled(r) ELSE Proceed(r, "commit")
    /\ UNCHANGED serviceVars

\* The final SetState, a step of its own after the look at the context.
Commit(r) ==
    /\ pc[r] = "commit"
    /\ Leave(r, hist[r], hist[r])
    /\ UNCHANGED serviceVars

\* First deferred call: CompleteExecution on the row, if there is one.  When
\* both attempts fail the row goes on reading "running".
SaveHistory(r) ==
    /\ pc[r] = "history"
    /\ \/ history[r] = "none" /\ UNCHANGED <<history, refused>>
       \/ /\ history[r] # "none"
          /\ history' = [history EXCEPT ![r] = hist[r]]
          /\ UNCHANGED refused
       \/ /\ history[r] # "none"
          /\ refused' = refused \cup {r}
          /\ UNCHANGED history
    /\ Goto(r, "unregister")
    /\ UNCHANGED <<registryVars, store, del, drain, job, hist>>

\* Mutant: the account lock is given back before Unregister.
UnregisterAfterExit(r) ==
    /\ pc[r] = "unregister"
    /\ Exit(job[r].account)
    /\ Goto(r, "exit")
    /\ UNCHANGED <<tasks, rt, serviceVars, job, hist, history>>

UnregisterRun(r) ==
    /\ pc[r] = "unregister"
    /\ Unregister(job[r].id)
    /\ Goto(r, "exit")
    /\ UNCHANGED <<accountLock, serviceVars, job, hist, history>>

\* The deferred cancel() of its own context, then Exit.
ExitRun(r) ==
    /\ pc[r] = "exit"
    /\ Exit(job[r].account)
    /\ rt' = [rt EXCEPT ![r] = Stopped(rt[r], rt[r].status)]
    /\ Return(r)
    /\ UNCHANGED <<tasks, serviceVars, history>>

Step(r) ==
    /\ Up
    /\ \/ ReadTask(r) \/ Enter(r) \/ Blocked(r) \/ RegisterRun(r)
       \/ CreateExecution(r) \/ Prepare(r) \/ Scan(r) \/ Reconcile(r)
       \/ Generate(r) \/ Finalize(r) \/ Commit(r)
       \/ SaveHistory(r) \/ UnregisterRun(r) \/ ExitRun(r)
=============================================================================
