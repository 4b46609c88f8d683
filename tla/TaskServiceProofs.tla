-------------------------- MODULE TaskServiceProofs --------------------------
(***************************************************************************)
(* What TLAPS proves of TaskService, for any tasks, accounts and           *)
(* executions: the account lock admits one execution per account, and,     *)
(* while running tasks are not edited, a closed done channel means its     *)
(* execution is over.  The second half is about the end of an execution:   *)
(* its history row is closed in time, and, while running tasks are not     *)
(* edited, Unregister reaches its own registry entry, so that a closed     *)
(* done channel means what those who wait for it take it to mean.          *)
(***************************************************************************)
EXTENDS TaskService, TLAPS

\* An execution under way knows its task, and its account once it read them.
JobKnown ==
    \A r \in Runs :
        /\ pc[r] \in Active => job[r].id \in TaskIds
        /\ pc[r] \in Held \cup {"enter"} => job[r].account \in Accounts

DelKnown == del.at # "idle" => del.id \in TaskIds

\* No goroutine survives its process.
DownIsQuiet == ~Up => \A r \in Runs : pc[r] \notin Active

TypeInv == TypeOK /\ JobKnown /\ DelKnown /\ DownIsQuiet

LockInv == AccountExclusive /\ LockTellsHolder

-----------------------------------------------------------------------------
(* Type correctness *)

LEMMA TypeInit == Init => TypeInv
<1> SUFFICES ASSUME Init PROVE TypeInv
  OBVIOUS
<1>1. RegistryTypeOK
  BY DEF Init, RegistryInit, RegistryTypeOK, Object, NoObject, Status
<1>2. pc \in [Runs -> Stages] /\ job \in [Runs -> Job]
  BY DEF Init, Stages, Job, NoJob
<1>3. hist \in [Runs -> {"completed", "failed", "cancelled"}] /\ history \in [Runs -> Status]
  BY DEF Init, Status
<1>4. TypeOK
  BY <1>1, <1>2, <1>3 DEF Init, TypeOK, NoDelete, Serving
<1>5. \A r \in Runs : pc[r] \notin Active
  BY DEF Init, Active, Held
<1>6. Held \cup {"enter"} \subseteq Active
  BY DEF Active
<1> QED BY <1>4, <1>5, <1>6 DEF Init, TypeInv, JobKnown, DelKnown, DownIsQuiet, NoDelete

\* The registry operations keep the types of the registry.
LEMMA RegistryOps ==
    ASSUME RegistryTypeOK, NEW t \in TaskIds, NEW r \in Runs, NEW a \in Accounts
    PROVE  /\ TryEnter(a, t) => accountLock' \in [Accounts -> TaskIds \cup {None}]
           /\ Exit(a) => accountLock' \in [Accounts -> TaskIds \cup {None}]
           /\ Register(t, r) => tasks' \in [TaskIds -> Runs \cup {None}]
                                /\ rt' \in [Runs -> Object]
           /\ Unregister(t) => tasks' \in [TaskIds -> Runs \cup {None}]
                               /\ rt' \in [Runs -> Object]
           /\ \A s \in Status : SetStatus(t, s) => rt' \in [Runs -> Object]
<1> USE NoneAssumption
<1>1. TryEnter(a, t) => accountLock' \in [Accounts -> TaskIds \cup {None}]
  BY DEF RegistryTypeOK, TryEnter
<1>2. Exit(a) => accountLock' \in [Accounts -> TaskIds \cup {None}]
  BY DEF RegistryTypeOK, Exit
<1>3. Register(t, r) => tasks' \in [TaskIds -> Runs \cup {None}] /\ rt' \in [Runs -> Object]
  BY DEF RegistryTypeOK, Register, Object, FreshObject, Status
<1>4. Unregister(t) => tasks' \in [TaskIds -> Runs \cup {None}] /\ rt' \in [Runs -> Object]
  BY DEF RegistryTypeOK, Unregister, AtObject, Released, Object
<1>5. \A s \in Status : SetStatus(t, s) => rt' \in [Runs -> Object]
  BY DEF RegistryTypeOK, SetStatus, AtObject, WithStatus, Object
<1> QED BY <1>1, <1>2, <1>3, <1>4, <1>5

LEMMA CancelOps ==
    ASSUME RegistryTypeOK
    PROVE  /\ \A t \in TaskIds : Cancel(t) => rt' \in [Runs -> Object]
           /\ CancelAll => rt' \in [Runs -> Object]
<1>1. ASSUME NEW t \in TaskIds, Cancel(t) PROVE rt' \in [Runs -> Object]
  BY <1>1, NoneAssumption DEF RegistryTypeOK, Cancel, AtObject, Stopped, Object, Status
<1>2. CancelAll => rt' \in [Runs -> Object]
  BY DEF RegistryTypeOK, CancelAll, Stopped, Object, Status
<1> QED BY <1>1, <1>2

LEMMA TypeStep == TypeInv /\ [Next]_vars => TypeInv'
<1> SUFFICES ASSUME TypeInv, [Next]_vars PROVE TypeInv'
  OBVIOUS
<1> USE NoneAssumption DEF TypeInv, TypeOK, JobKnown, DelKnown, DownIsQuiet
<1>r. RegistryTypeOK /\ Held \cup {"enter", "read"} = Active /\ Active \subseteq Stages
  BY DEF Active, Stages
<1>1. ASSUME NEW r \in Runs, NEW t \in TaskIds, Start(r, t) PROVE TypeInv'
  BY <1>1, <1>r DEF Start, Up, Goto, registryVars, serviceVars, RegistryTypeOK, Job, Active, Held, Stages
<1>2. ASSUME NEW r \in Runs, Up, ReadTask(r) PROVE TypeInv'
  <2>0. pc[r] = "read" /\ job[r].id \in TaskIds /\ store[job[r].id] \in Accounts \cup {None}
    BY <1>2, <1>r DEF ReadTask
  <2>1. /\ UNCHANGED <<accountLock, tasks, rt, store, history, refused, del, drain>>
        /\ hist' = hist \/ hist' = [hist EXCEPT ![r] = "completed"]
    BY <1>2 DEF ReadTask, Return, registryVars, serviceVars
  <2>2. CASE store[job[r].id] = None
    <3>1. pc' = [pc EXCEPT ![r] = "gone"] /\ job' = [job EXCEPT ![r] = NoJob]
      BY <2>0, <2>2, <1>2 DEF ReadTask, Return, Goto
    <3>2. NoJob \in Job /\ "gone" \in Stages \ Active
      BY DEF NoJob, Job, Stages, Active, Held
    <3>3. TypeOK'
      BY <2>1, <3>1, <3>2 DEF RegistryTypeOK
    <3>4. JobKnown' /\ DelKnown' /\ DownIsQuiet'
      BY <2>1, <3>1, <3>2, <1>r, <1>2 DEF Up
    <3> QED BY <3>3, <3>4
  <2>3. CASE store[job[r].id] # None
    <3> DEFINE found == [id |-> job[r].id, account |-> store[job[r].id]]
    <3>1. pc' = [pc EXCEPT ![r] = "enter"] /\ job' = [job EXCEPT ![r] = found]
      BY <2>0, <2>3, <1>2 DEF ReadTask, Goto
    <3>2. found \in Job /\ "enter" \in Stages /\ found.id \in TaskIds /\ found.account \in Accounts
      BY <2>0, <2>3, <1>r DEF Job
    <3> HIDE DEF found
    <3>3. TypeOK'
      BY <2>1, <3>1, <3>2 DEF RegistryTypeOK
    <3>4. JobKnown' /\ DelKnown' /\ DownIsQuiet'
      BY <2>1, <3>1, <3>2, <1>r, <1>2 DEF Up
    <3> QED BY <3>3, <3>4
  <2> QED BY <2>2, <2>3
<1>3. ASSUME NEW r \in Runs, Up, Enter(r) PROVE TypeInv'
  BY <1>3, <1>r DEF Enter, TryEnter, Up, Goto, serviceVars, RegistryTypeOK, Job, Active, Held, Stages
<1>4. ASSUME NEW r \in Runs, Up, Blocked(r) PROVE TypeInv'
  BY <1>4, <1>r DEF Blocked, Return, NoJob, Up, Goto, registryVars, serviceVars, RegistryTypeOK, Job, Active, Held, Stages
<1>5. ASSUME NEW r \in Runs, Up, RegisterRun(r) PROVE TypeInv'
  BY <1>5, <1>r, RegistryOps DEF RegisterRun, Up, Goto, serviceVars, RegistryTypeOK, Job, Active, Held, Stages
<1>6. ASSUME NEW r \in Runs, Up, CreateExecution(r) PROVE TypeInv'
  BY <1>6, <1>r
     DEF CreateExecution, Status, Up, Goto, registryVars, serviceVars, RegistryTypeOK, Job, Active, Held, Stages
<1>7. ASSUME NEW r \in Runs, Up, pc[r] \in Live, UNCHANGED serviceVars,
            NEW o \in {"completed", "failed", "cancelled"}, Leave(r, o, o)
     PROVE TypeInv'
  BY <1>7, <1>r, RegistryOps
     DEF Leave, Live, Status, Up, Goto, registryVars, serviceVars, RegistryTypeOK, Job, Active, Held, Stages
<1>8. ASSUME NEW r \in Runs, Up, NEW stage \in Live, Proceed(r, stage), UNCHANGED serviceVars, pc[r] \in Live PROVE TypeInv'
  BY <1>8, <1>r
     DEF Proceed, Live, Up, Goto, registryVars, serviceVars, RegistryTypeOK, Job, Active, Held, Stages
<1>9. ASSUME NEW r \in Runs, Up, Prepare(r) \/ Scan(r) \/ Reconcile(r) \/ Finalize(r) \/ Commit(r) PROVE TypeInv'
  BY <1>9, <1>r, <1>7, <1>8
     DEF Prepare, Scan, Reconcile, Finalize, Commit, Fail, FinishCancelled, Live, Held
<1>10. ASSUME NEW r \in Runs, Up, Generate(r) PROVE TypeInv'
  BY <1>10, <1>r
     DEF Generate, Up, Goto, registryVars, serviceVars, RegistryTypeOK, Job, Active, Held, Stages
<1>11. ASSUME NEW r \in Runs, Up, SaveHistory(r) PROVE TypeInv'
  BY <1>11, <1>r
     DEF SaveHistory, Status, Up, Goto, registryVars, serviceVars, RegistryTypeOK, Job, Active, Held, Stages
<1>12. ASSUME NEW r \in Runs, Up, UnregisterRun(r) PROVE TypeInv'
  BY <1>12, <1>r, RegistryOps
     DEF UnregisterRun, Up, Goto, registryVars, serviceVars, RegistryTypeOK, Job, Active, Held, Stages
<1>13. ASSUME NEW r \in Runs, Up, ExitRun(r) PROVE TypeInv'
  BY <1>13, <1>r, RegistryOps
     DEF ExitRun, Stopped, Object, Return, NoJob, Up, Goto, registryVars, serviceVars, RegistryTypeOK, Job, Active, Held, Stages
<1>14. ASSUME NEW t \in TaskIds, HandleCancelTask(t) PROVE TypeInv'
  BY <1>14, <1>r, CancelOps
     DEF HandleCancelTask, runVars, registryVars, Up, RegistryTypeOK
<1>15. ASSUME NEW t \in TaskIds, NEW a \in Accounts, HandleUpsertTask(t, a) PROVE TypeInv'
  BY <1>15, <1>r
     DEF HandleUpsertTask, runVars, registryVars, Up, RegistryTypeOK
<1>16. ASSUME NEW old \in Accounts, NEW new \in Accounts, CascadeAccountRename(old, new) PROVE TypeInv'
  BY <1>16, <1>r
     DEF CascadeAccountRename, runVars, registryVars, Up, RegistryTypeOK
<1>17. ASSUME NEW t \in TaskIds, HandleDeleteTask(t) PROVE TypeInv'
  BY <1>17, <1>r
     DEF HandleDeleteTask, DeleteAt, NoDelete, runVars, registryVars, Up, RegistryTypeOK
<1>18. ASSUME DeleteFirstCancel \/ DeleteLastCancel PROVE TypeInv'
  BY <1>18, <1>r, CancelOps
     DEF DeleteFirstCancel, DeleteLastCancel, DeleteCancels, DeleteAt, runVars, registryVars, Up, RegistryTypeOK
<1>19. ASSUME DeleteSnapshot \/ DeleteWait \/ DeleteFiles \/ DeleteRemove PROVE TypeInv'
  BY <1>19, <1>r
     DEF DeleteSnapshot, DeleteWait, DeleteFiles, DeleteRemove, DeleteAt, NoDelete, WaitFor, runVars, registryVars, Up, RegistryTypeOK
<1>20. ASSUME NEW over \in BOOLEAN, Die(over) PROVE TypeInv'
  BY <1>20, <1>r
     DEF Die, Drain, NoDelete, NoJob, Job, Active, Held, Stages, runVars, registryVars, Up, RegistryTypeOK
<1>21. ASSUME ShutdownCancel PROVE TypeInv'
  <2>1. CASE Registered = {}
    BY <2>1, <1>20, <1>21 DEF ShutdownCancel
  <2>2. CASE Registered # {}
    <3>1. rt' \in [Runs -> Object]
      BY <2>2, <1>21, <1>r, CancelOps DEF ShutdownCancel
    <3>2. /\ drain.phase = "up"
          /\ drain' = [phase |-> "cancelled", over |-> FALSE, set |-> {}]
          /\ UNCHANGED <<accountLock, tasks, pc, job, hist, history, refused, store, del>>
      BY <2>2, <1>21 DEF ShutdownCancel, Drain, runVars
    <3> QED BY <3>1, <3>2, <1>r DEF Up, RegistryTypeOK
  <2> QED BY <2>1, <2>2
<1>25. ASSUME ShutdownWait PROVE TypeInv'
  BY <1>25, <1>r DEF ShutdownWait, Drain, Registered, runVars, registryVars, Up, RegistryTypeOK
<1>22. ASSUME ShutdownExit \/ Crash PROVE TypeInv'
  BY <1>22, <1>r, <1>20
     DEF ShutdownExit, Crash, WaitAllOver
<1>23. ASSUME Restart PROVE TypeInv'
  <2>1. Boot
    BY <1>23 DEF Restart, RestartMarks, RestartRefused
  <2>2. history' \in [Runs -> Status] /\ refused' \in SUBSET Runs
    BY <1>23 DEF Restart, RestartMarks, RestartRefused, MarkRows, OpenRows, Status
  <2> QED BY <2>1, <2>2, <1>r DEF Boot, NoObject, Object, Status, Serving, Up, RegistryTypeOK
<1>24. ASSUME UNCHANGED vars PROVE TypeInv'
  BY <1>24, <1>r
     DEF vars, Up, RegistryTypeOK
<1> QED
  BY <1>1, <1>2, <1>3, <1>4, <1>5, <1>6, <1>9, <1>10, <1>11, <1>12, <1>13, <1>14, <1>15, <1>16, <1>17, <1>18, <1>19, <1>21, <1>22, <1>23, <1>24, <1>25 DEF Next, Step
-----------------------------------------------------------------------------
(* The account lock *)

\* A step that moves no execution across TryEnter or Exit keeps the lock right.
LEMMA LockKept ==
    ASSUME LockInv, Up' => Up, UNCHANGED accountLock,
           \A r \in Runs : pc'[r] \in Held => pc[r] \in Held /\ job'[r] = job[r],
           \A r \in Runs : Up' /\ pc[r] \in Held => pc'[r] \in Held
    PROVE  LockInv'
<1>1. AccountExclusive'
  BY DEF LockInv, AccountExclusive
<1>2. LockTellsHolder'
  BY DEF LockInv, LockTellsHolder
<1> QED BY <1>1, <1>2 DEF LockInv

LEMMA LockEnter ==
    ASSUME TypeInv, LockInv, Up, NEW r \in Runs, Enter(r)
    PROVE  LockInv'
<1> DEFINE a == job[r].account
<1> USE NoneAssumption
<1>1. /\ pc[r] = "enter" /\ a \in Accounts /\ job[r].id \in TaskIds
      /\ accountLock[a] = None
      /\ accountLock' = [accountLock EXCEPT ![a] = job[r].id]
      /\ pc' = [pc EXCEPT ![r] = "register"] /\ job' = job
  BY DEF Enter, TryEnter, Goto, TypeInv, JobKnown, Active
<1>2. pc \in [Runs -> Stages] /\ accountLock \in [Accounts -> TaskIds \cup {None}]
  BY DEF TypeInv, TypeOK, RegistryTypeOK
<1>3. "register" \in Held /\ "enter" \notin Held
  BY DEF Held
<1>4. \A s \in Runs : pc[s] \in Held =>
           /\ job[s].id \in TaskIds /\ job[s].account \in Accounts
           /\ accountLock[job[s].account] = job[s].id
  BY DEF TypeInv, JobKnown, LockInv, LockTellsHolder, Active
<1>5. \A s \in Runs : pc[s] \in Held => job[s].account # a
  BY <1>1, <1>4
<1> HIDE DEF a
<1>6. AccountExclusive'
  BY <1>1, <1>2, <1>3, <1>5 DEF LockInv, AccountExclusive, a
<1>7. \A s \in Runs : pc'[s] \in Held => accountLock'[job'[s].account] = job'[s].id
  BY <1>1, <1>2, <1>3, <1>4, <1>5 DEF a
<1>8. ASSUME NEW b \in Accounts, accountLock'[b] # None
      PROVE  \E s \in Runs : pc'[s] \in Held /\ job'[s].account = b
  <2>1. CASE b = a
    BY <2>1, <1>1, <1>2, <1>3 DEF a
  <2>2. CASE b # a
    BY <2>2, <1>8, <1>1, <1>2, <1>3 DEF LockInv, LockTellsHolder
  <2> QED BY <2>1, <2>2
<1> QED BY <1>6, <1>7, <1>8 DEF LockInv, LockTellsHolder

LEMMA LockExit ==
    ASSUME TypeInv, LockInv, Up, NEW r \in Runs, ExitRun(r)
    PROVE  LockInv'
<1> DEFINE a == job[r].account
<1> USE NoneAssumption
<1>1. "exit" \in Held /\ "gone" \notin Held
  BY DEF Held
<1>2. /\ pc[r] = "exit" /\ a \in Accounts
      /\ accountLock' = [accountLock EXCEPT ![a] = None]
      /\ pc' = [pc EXCEPT ![r] = "gone"]
      /\ job' = [job EXCEPT ![r] = NoJob]
  BY <1>1 DEF ExitRun, Exit, Return, Goto, TypeInv, JobKnown, Active
<1>3. /\ pc \in [Runs -> Stages] /\ job \in [Runs -> Job]
      /\ accountLock \in [Accounts -> TaskIds \cup {None}]
  BY DEF TypeInv, TypeOK, RegistryTypeOK
<1> HIDE DEF a
<1>4. \A s \in Runs : pc'[s] \in Held =>
           /\ s # r /\ pc[s] \in Held /\ job'[s] = job[s]
           /\ job[s].account # a /\ job[s].account \in Accounts
  BY <1>1, <1>2, <1>3 DEF LockInv, AccountExclusive, TypeInv, JobKnown, Active, a
<1>5. AccountExclusive'
  BY <1>4 DEF LockInv, AccountExclusive
<1>6. \A s \in Runs : pc'[s] \in Held => accountLock'[job'[s].account] = job'[s].id
  BY <1>2, <1>3, <1>4 DEF LockInv, LockTellsHolder
<1>7. ASSUME NEW b \in Accounts, accountLock'[b] # None
      PROVE  \E s \in Runs : pc'[s] \in Held /\ job'[s].account = b
  <2>1. b # a /\ accountLock[b] # None
    BY <1>2, <1>3, <1>7
  <2>2. PICK s \in Runs : pc[s] \in Held /\ job[s].account = b
    BY <2>1 DEF LockInv, LockTellsHolder
  <2>3. s # r
    BY <2>1, <2>2 DEF a
  <2> QED BY <2>2, <2>3, <1>2, <1>3
<1> QED BY <1>5, <1>6, <1>7 DEF LockInv, LockTellsHolder

LEMMA LockStep == TypeInv /\ LockInv /\ [Next]_vars => LockInv'
<1> SUFFICES ASSUME TypeInv, LockInv, [Next]_vars PROVE LockInv'
  OBVIOUS
<1>t. pc \in [Runs -> Stages] /\ job \in [Runs -> Job]
  BY DEF TypeInv, TypeOK
<1>h. Live \subseteq Held /\ {"idle", "read", "enter", "gone", "dead"} \cap Held = {}
  BY DEF Held, Live
<1>1. ASSUME NEW r \in Runs, NEW stage \in Held, pc[r] \in Held, Goto(r, stage),
             UNCHANGED <<accountLock, job, drain>>
      PROVE  LockInv'
  BY <1>1, <1>t, LockKept DEF Goto, Up
<1>2. ASSUME NEW r \in Runs, NEW stage \in {"read", "enter", "gone"}, pc[r] \notin Held,
             Goto(r, stage), NEW j, job' = [job EXCEPT ![r] = j],
             UNCHANGED <<accountLock, drain>>
      PROVE  LockInv'
  BY <1>2, <1>t, <1>h, LockKept DEF Goto, Up
<1>3. ASSUME NEW over, Die(over) PROVE LockInv'
  <2>1. accountLock' = accountLock /\ pc' = [r \in Runs |-> IF pc[r] \in Active THEN "dead" ELSE pc[r]]
    BY <1>3 DEF Die, registryVars
  <2>2. \A r \in Runs : pc'[r] \notin Held
    BY <2>1, <1>h DEF Active
  <2>3. ~Up'
    BY <1>3 DEF Die, Drain, Up
  <2> QED BY <2>2, <2>3 DEF LockInv, AccountExclusive, LockTellsHolder
<1>4. ASSUME Restart PROVE LockInv'
  <2>1. ~Up /\ pc' = pc /\ job' = job /\ accountLock' = [a \in Accounts |-> None]
    BY <1>4 DEF Restart, RestartMarks, RestartRefused, Boot
  <2>2. \A r \in Runs : pc[r] \notin Held
    BY <2>1 DEF TypeInv, DownIsQuiet, Active
  <2> QED BY <2>1, <2>2 DEF LockInv, AccountExclusive, LockTellsHolder
<1>5. ASSUME UNCHANGED <<accountLock, pc, job>>, Up' => Up PROVE LockInv'
  BY <1>5, LockKept
<1>6. ASSUME NEW r \in Runs, NEW t \in TaskIds, Start(r, t) PROVE LockInv'
  BY <1>6, <1>2, <1>h DEF Start, registryVars, serviceVars
<1>7. ASSUME NEW r \in Runs, Up, Step(r) PROVE LockInv'
  <2>1. CASE ReadTask(r) \/ Blocked(r)
    BY <2>1, <1>2, <1>h DEF ReadTask, Blocked, Return, registryVars, serviceVars
  <2>2. CASE Enter(r)
    BY <2>2, <1>7, LockEnter
  <2>3. CASE RegisterRun(r) \/ CreateExecution(r)
    BY <2>3, <1>1 DEF RegisterRun, CreateExecution, registryVars, serviceVars, Held
  <2>4. CASE Prepare(r) \/ Scan(r) \/ Reconcile(r) \/ Finalize(r) \/ Commit(r)
    BY <2>4, <1>1 DEF Prepare, Scan, Reconcile, Finalize, Commit, Fail, FinishCancelled,
                      Leave, Proceed, registryVars, serviceVars, Held
  <2>5. CASE Generate(r) \/ SaveHistory(r) \/ UnregisterRun(r)
    BY <2>5, <1>1 DEF Generate, SaveHistory, UnregisterRun, registryVars, serviceVars, Held
  <2>6. CASE ExitRun(r)
    BY <2>6, <1>7, LockExit
  <2> QED BY <1>7, <2>1, <2>2, <2>3, <2>4, <2>5, <2>6 DEF Step
<1>8. ASSUME NEW t \in TaskIds, HandleCancelTask(t) \/ HandleDeleteTask(t) PROVE LockInv'
  BY <1>8, <1>5 DEF HandleCancelTask, HandleDeleteTask, registryVars, runVars, Up
<1>9. ASSUME NEW t \in TaskIds, NEW a \in Accounts, HandleUpsertTask(t, a) PROVE LockInv'
  BY <1>9, <1>5 DEF HandleUpsertTask, registryVars, runVars, Up
<1>10. ASSUME NEW old \in Accounts, NEW new \in Accounts, CascadeAccountRename(old, new) PROVE LockInv'
  BY <1>10, <1>5 DEF CascadeAccountRename, registryVars, runVars, Up
<1>11. ASSUME \/ DeleteFirstCancel \/ DeleteSnapshot \/ DeleteWait
              \/ DeleteFiles \/ DeleteLastCancel \/ DeleteRemove
       PROVE  LockInv'
  BY <1>11, <1>5
     DEF DeleteFirstCancel, DeleteSnapshot, DeleteWait, DeleteFiles, DeleteLastCancel, DeleteRemove,
         DeleteCancels, registryVars, runVars, Up
<1>12. ASSUME ShutdownCancel \/ ShutdownWait PROVE LockInv'
  BY <1>12, <1>3, <1>5 DEF ShutdownCancel, ShutdownWait, Drain, registryVars, runVars, Up
<1>13. ASSUME ShutdownExit \/ Crash PROVE LockInv'
  BY <1>13, <1>3 DEF ShutdownExit, Crash
<1>14. ASSUME UNCHANGED vars PROVE LockInv'
  BY <1>14, <1>5 DEF vars, Up
<1> QED
  BY <1>4, <1>6, <1>7, <1>8, <1>9, <1>10, <1>11, <1>12, <1>13, <1>14 DEF Next, Step

LEMMA LockInit == Init => LockInv
<1>1. Init => \A r \in Runs : pc[r] \notin Held
  BY DEF Init, Held
<1>2. Init => \A a \in Accounts : accountLock[a] = None
  BY DEF Init, RegistryInit
<1> QED BY <1>1, <1>2 DEF LockInv, AccountExclusive, LockTellsHolder

-----------------------------------------------------------------------------
(* Theorems *)

LEMMA TypeAlways == Spec => []TypeInv
<1> QED BY TypeInit, TypeStep, PTL DEF Spec

\* Type correctness of the task service, whatever the number of tasks,
\* accounts and executions.
THEOREM TypeCorrect == Spec => []TypeOK
<1>1. TypeInv => TypeOK
  BY DEF TypeInv
<1> QED BY <1>1, TypeAlways, PTL

LEMMA LockAlways == Spec => []LockInv
<1> QED BY TypeAlways, LockInit, LockStep, PTL DEF Spec

\* TryEnter and the deferred Exit admit one execution per account, through
\* edits of running tasks, renames, cancellations, shutdowns and crashes.
THEOREM OneRunPerAccount == Spec => []AccountExclusive
<1>1. LockInv => AccountExclusive
  BY DEF LockInv
<1> QED BY <1>1, LockAlways, PTL

\* The lock of an account is held by exactly the execution that works on it.
THEOREM LockIsHeldByItsRun == Spec => []LockTellsHolder
<1>1. LockInv => LockTellsHolder
  BY DEF LockInv
<1> QED BY <1>1, LockAlways, PTL

-----------------------------------------------------------------------------
(* The end of an execution: its row, its registry entry, its done channel *)

\* Between the insertion of the history row and its completion.
Open == {"prepare", "scan", "reconcile", "generate", "finalize", "commit", "history"}

RowInv ==
    \A r \in Runs : history[r] = "running" =>
        pc[r] \in Open \/ r \in refused \/ (~Up /\ pc[r] = "dead")

\* Past ReadTask and not yet returned: the copy of the task is complete.
Entering == Held \cup {"enter"}

\* Executions of one task that run together have one account, the stored one.
OneAccount ==
    /\ \A r \in Runs : pc[r] \in Entering => store[job[r].id] \in {job[r].account, None}
    /\ \A r, s \in Runs :
         pc[r] \in Entering /\ pc[s] \in Entering /\ job[r].id = job[s].id
         => job[r].account = job[s].account

\* The registry names exactly the executions between Register and Unregister.
OwnEntry ==
    /\ \A r \in Runs : pc[r] \in Live => tasks[job[r].id] = r
    /\ Up => \A t \in TaskIds : tasks[t] # None =>
                pc[tasks[t]] \in Live /\ job[tasks[t]].id = t

DoneInv ==
    \A r \in Runs : rt[r].done =>
        pc[r] \in {"exit", "gone", "dead"} /\ (history[r] = "running" => r \in refused)

DrainInv ==
    /\ drain.phase = "up" => drain.set = {}
    /\ ~Up /\ drain.over => \A r \in drain.set : history[r] = "running" => r \in refused

-----------------------------------------------------------------------------
(* The kinds of step of an execution *)

\* The cases of the next-state relation that the proofs below distinguish:
\* inner steps (an execution stays between Register and Unregister), and the rest.
Inner(r) ==
    \/ Prepare(r) \/ Scan(r) \/ Reconcile(r) \/ Generate(r) \/ Finalize(r) \/ Commit(r)

\* No object is closed, and none forgets that it was cancelled.
KeepsDone ==
    \A r \in Runs :
        rt'[r].done = rt[r].done /\ (rt[r].cancelled => rt'[r].cancelled)

\* A step that only cancels, or that touches neither executions nor registry.
Bystander ==
    /\ KeepsDone
    /\ UNCHANGED <<pc, job, hist, history, refused, accountLock, tasks, store>>
    /\ drain'.phase = "up" => drain.phase = "up" /\ drain'.set = drain.set
    /\ Up <=> Up'
    /\ Up \/ drain' = drain

\* The process ends; over only when WaitAll saw every object it waits for done.
Dies ==
    \E over \in BOOLEAN :
        /\ Die(over)
        /\ over => drain.phase = "up" \/ WaitAllOver(drain.set)

LEMMA Keeps ==
    ASSUME TypeInv, NEW t \in TaskIds,
           Cancel(t) \/ CancelAll \/ (\E s : SetStatus(t, s)) \/ UNCHANGED rt
    PROVE  KeepsDone
<1> USE NoneAssumption DEF TypeInv, TypeOK, RegistryTypeOK, KeepsDone
<1>1. CASE Cancel(t)
  BY <1>1 DEF Cancel, AtObject, Stopped
<1>2. CASE CancelAll
  BY <1>2 DEF CancelAll, Stopped
<1>3. ASSUME NEW s, SetStatus(t, s) PROVE KeepsDone
  BY <1>3 DEF SetStatus, AtObject, WithStatus
<1>4. CASE UNCHANGED rt
  BY <1>4
<1> QED BY <1>1, <1>2, <1>3, <1>4

\* An inner step moves one execution within its open row and touches no lock,
\* registry entry, job or row.
LEMMA InnerFrame ==
    ASSUME TypeInv, NEW r \in Runs, Inner(r)
    PROVE  /\ pc[r] \in Open \ {"history"}
           /\ \E stage \in Open : pc' = [pc EXCEPT ![r] = stage]
           /\ UNCHANGED <<accountLock, tasks, job, history, store, refused, del, drain>>
           /\ KeepsDone
<1>0. pc[r] \in Open \ {"history"} /\ UNCHANGED <<store, refused, del, drain>>
  BY DEF Inner, Prepare, Scan, Reconcile, Generate, Finalize, Commit, serviceVars, Open
<1>i. job[r].id \in TaskIds
  BY <1>0 DEF TypeInv, JobKnown, Active, Held, Open
<1>1. ASSUME NEW o, Leave(r, o, o)
      PROVE  /\ pc' = [pc EXCEPT ![r] = "history"]
             /\ UNCHANGED <<accountLock, tasks, job, history>>
             /\ KeepsDone
  BY <1>1, <1>i, Keeps DEF Leave, Goto
<1>2. ASSUME NEW stage, Proceed(r, stage)
      PROVE  /\ pc' = [pc EXCEPT ![r] = stage]
             /\ UNCHANGED <<accountLock, tasks, job, history>>
             /\ KeepsDone
  BY <1>2, <1>i, Keeps DEF Proceed, Goto, registryVars
<1>3. CASE Prepare(r)
  BY <1>0, <1>1, <1>2, <1>3 DEF Prepare, Fail, Open
<1>4. CASE Scan(r)
  BY <1>0, <1>1, <1>2, <1>4 DEF Scan, Fail, FinishCancelled, Open
<1>5. CASE Reconcile(r)
  BY <1>0, <1>1, <1>2, <1>5 DEF Reconcile, Fail, Open
<1>6. CASE Generate(r)
  BY <1>0, <1>6, <1>i, Keeps DEF Generate, Goto, registryVars, Open
<1>7. CASE Finalize(r)
  BY <1>0, <1>1, <1>2, <1>7 DEF Finalize, FinishCancelled, Open
<1>8. CASE Commit(r)
  BY <1>0, <1>1, <1>8 DEF Commit, Open
<1> QED BY <1>3, <1>4, <1>5, <1>6, <1>7, <1>8 DEF Inner

\* Every step of the service is of one of these kinds.
LEMMA Steps ==
    ASSUME TypeInv, [Next]_vars
    PROVE  \/ \E r \in Runs, t \in TaskIds : Start(r, t)
           \/ Up /\ \E r \in Runs :
                \/ ReadTask(r) \/ Blocked(r) \/ Enter(r) \/ RegisterRun(r)
                \/ CreateExecution(r) \/ Inner(r) \/ SaveHistory(r)
                \/ UnregisterRun(r) \/ ExitRun(r)
           \/ \E t \in TaskIds, a \in Accounts : HandleUpsertTask(t, a)
           \/ \E old, new \in Accounts : CascadeAccountRename(old, new)
           \/ DeleteRemove \/ ShutdownWait \/ Dies \/ Restart \/ Bystander
<1>1. CASE \E r \in Runs : Step(r)
  BY <1>1 DEF Step, Inner
<1>2. ASSUME NEW t \in TaskIds, HandleCancelTask(t) \/ HandleDeleteTask(t) PROVE Bystander
  BY <1>2, Keeps DEF HandleCancelTask, HandleDeleteTask, runVars, registryVars, Bystander, Up
<1>3. ASSUME DeleteSnapshot \/ DeleteWait \/ DeleteFiles PROVE Bystander
  <2>1. UNCHANGED rt /\ KeepsDone
    BY <1>3 DEF DeleteSnapshot, DeleteWait, DeleteFiles, registryVars, KeepsDone
  <2> QED BY <1>3, <2>1 DEF DeleteSnapshot, DeleteWait, DeleteFiles, runVars, registryVars, Bystander, Up
<1>4. ASSUME DeleteFirstCancel \/ DeleteLastCancel PROVE Bystander
  <2>1. del.id \in TaskIds
    BY <1>4 DEF DeleteFirstCancel, DeleteLastCancel, TypeInv, DelKnown
  <2> QED BY <1>4, <2>1, Keeps
          DEF DeleteFirstCancel, DeleteLastCancel, DeleteCancels, runVars, registryVars, Bystander, Up
<1>5. ASSUME ShutdownCancel PROVE Dies \/ Bystander
  <2>1. CASE Registered = {}
    BY <1>5, <2>1 DEF ShutdownCancel, Dies
  <2>2. CASE Registered # {}
    <3>1. PICK t \in TaskIds : TRUE
      BY <2>2 DEF Registered
    <3>2. KeepsDone
      BY <3>1, <2>2, <1>5, Keeps DEF ShutdownCancel
    <3>3. drain.phase = "up" /\ drain' = [phase |-> "cancelled", over |-> FALSE, set |-> {}]
          /\ UNCHANGED <<accountLock, tasks, pc, job, hist, history, refused, store, del>>
      BY <1>5, <2>2 DEF ShutdownCancel, Drain, runVars
    <3> QED BY <3>2, <3>3 DEF Bystander, Up
  <2> QED BY <2>1, <2>2
<1>6. ASSUME ShutdownExit PROVE Dies
  BY <1>6 DEF ShutdownExit, Dies, WaitAllOver
<1>8. ASSUME Crash PROVE Dies
  BY <1>8 DEF Crash, Dies
<1>7. ASSUME UNCHANGED vars PROVE Bystander
  BY <1>7 DEF vars, Bystander, KeepsDone, Up
<1> QED BY <1>1, <1>2, <1>3, <1>4, <1>5, <1>6, <1>7, <1>8 DEF Next

-----------------------------------------------------------------------------
(* History rows *)

\* A step that neither opens rows nor moves an execution with an open row.
LEMMA RowKept ==
    ASSUME RowInv, Up, UNCHANGED <<history, refused>>,
           \A r \in Runs : pc[r] \in Open => pc'[r] \in Open
    PROVE  RowInv'
BY DEF RowInv

LEMMA RowStep == TypeInv /\ RowInv /\ [Next]_vars => RowInv'
<1> SUFFICES ASSUME TypeInv, RowInv, [Next]_vars PROVE RowInv'
  OBVIOUS
<1>t. pc \in [Runs -> Stages] /\ history \in [Runs -> Status]
  BY DEF TypeInv, TypeOK
<1>h. Open \subseteq Active /\ "dead" \notin Active
  BY DEF Open, Active, Held
<1>d. ~Up => \A r \in Runs : pc[r] \notin Active
  BY DEF TypeInv, DownIsQuiet
<1>1. ASSUME NEW r \in Runs, NEW t \in TaskIds, Start(r, t) PROVE RowInv'
  <2>1. Up /\ UNCHANGED <<history, refused>> /\ pc[r] = "idle" /\ pc' = [pc EXCEPT ![r] = "read"]
    BY <1>1 DEF Start, Goto, serviceVars
  <2> QED BY <2>1, <1>t, RowKept DEF Open
<1>2. ASSUME NEW r \in Runs, Up, ReadTask(r) \/ Blocked(r) \/ Enter(r) \/ RegisterRun(r)
      PROVE  RowInv'
  <2>1. UNCHANGED <<history, refused>> /\ pc[r] \in {"read", "enter", "register"} /\ \E s : Goto(r, s)
    BY <1>2 DEF ReadTask, Blocked, Enter, RegisterRun, Return, serviceVars
  <2> QED BY <2>1, <1>2, <1>t, RowKept DEF Open, Goto
<1>3. ASSUME NEW r \in Runs, Up, CreateExecution(r) PROVE RowInv'
  <2>1. /\ pc' = [pc EXCEPT ![r] = "prepare"] /\ refused' = refused
        /\ \E row : history' = [history EXCEPT ![r] = row]
    BY <1>3 DEF CreateExecution, Goto, serviceVars
  <2> QED BY <2>1, <1>3, <1>t DEF RowInv, Open
<1>4. ASSUME NEW r \in Runs, Up, Inner(r) PROVE RowInv'
  BY <1>4, <1>t, InnerFrame, RowKept
<1>5. ASSUME NEW r \in Runs, Up, SaveHistory(r) PROVE RowInv'
  <2>1. /\ \/ history' = history /\ (history[r] = "none" \/ r \in refused')
           \/ history' = [history EXCEPT ![r] = hist[r]]
        /\ refused \subseteq refused'
    BY <1>5 DEF SaveHistory
  <2>2. hist[r] # "running" /\ pc' = [pc EXCEPT ![r] = "unregister"]
    BY <1>5 DEF SaveHistory, Goto, TypeInv, TypeOK
  <2> QED BY <2>1, <2>2, <1>5, <1>t DEF RowInv
<1>6. ASSUME NEW r \in Runs, Up, UnregisterRun(r) \/ ExitRun(r) PROVE RowInv'
  <2>1. UNCHANGED <<history, refused>> /\ pc[r] \in {"unregister", "exit"} /\ \E s : Goto(r, s)
    BY <1>6 DEF UnregisterRun, ExitRun, Return, serviceVars
  <2> QED BY <2>1, <1>6, <1>t, RowKept DEF Open, Goto
<1>7. ASSUME UNCHANGED <<pc, history, refused>>, Up <=> Up' PROVE RowInv'
  BY <1>7 DEF RowInv
<1>8. ASSUME NEW t \in TaskIds, NEW a \in Accounts, HandleUpsertTask(t, a) PROVE RowInv'
  BY <1>8, <1>7 DEF HandleUpsertTask, runVars, Up
<1>9. ASSUME NEW old \in Accounts, NEW new \in Accounts, CascadeAccountRename(old, new) PROVE RowInv'
  BY <1>9, <1>7 DEF CascadeAccountRename, runVars, Up
<1>10. ASSUME DeleteRemove \/ ShutdownWait \/ Bystander PROVE RowInv'
  BY <1>10, <1>7 DEF DeleteRemove, ShutdownWait, Bystander, Drain, runVars, Up
<1>11. ASSUME Dies PROVE RowInv'
  <2>1. /\ pc' = [r \in Runs |-> IF pc[r] \in Active THEN "dead" ELSE pc[r]]
        /\ UNCHANGED <<history, refused>> /\ ~Up'
    BY <1>11 DEF Dies, Die, Drain, Up
  <2> QED BY <2>1, <1>h DEF RowInv
<1>12. ASSUME Restart PROVE RowInv'
  <2>1. \A r \in Runs : history'[r] = "running" => r \in refused'
    BY <1>12 DEF Restart, RestartMarks, RestartRefused, Boot, MarkRows, OpenRows
  <2> QED BY <2>1 DEF RowInv
<1> QED
  BY <1>1, <1>2, <1>3, <1>4, <1>5, <1>6, <1>8, <1>9, <1>10, <1>11, <1>12, Steps

LEMMA RowAlways == Spec => []RowInv
<1>1. Init => RowInv
  BY DEF Init, RowInv
<1> QED BY <1>1, RowStep, TypeAlways, PTL DEF Spec

\* While the service is up, a history row reads "running" only while its
\* execution runs, or because the database refused to close it, after crashes
\* and restarts too.
THEOREM RowsOfLiveRuns == Spec => []RowsAreLive
<1>1. RowInv => RowsAreLive
  BY DEF RowInv, RowsAreLive, OpenRows, Open, Active, Held
<1> QED BY <1>1, RowAlways, PTL

-----------------------------------------------------------------------------
(* One task, one account, while running tasks are not edited *)

\* No execution enters, and no stored account that an execution uses changes
\* to another account.
LEMMA AccountKept ==
    ASSUME OneAccount,
           \A r \in Runs : pc'[r] \in Entering => pc[r] \in Entering /\ job'[r] = job[r],
           \A r \in Runs : pc[r] \in Entering =>
               store'[job[r].id] \in {store[job[r].id], None}
    PROVE  OneAccount'
BY DEF OneAccount

LEMMA AccountStep == ~EditRunning /\ TypeInv /\ OneAccount /\ [Next]_vars => OneAccount'
<1> SUFFICES ASSUME ~EditRunning, TypeInv, OneAccount, [Next]_vars PROVE OneAccount'
  OBVIOUS
<1>t. pc \in [Runs -> Stages] /\ job \in [Runs -> Job] /\ store \in [TaskIds -> Accounts \cup {None}]
  BY DEF TypeInv, TypeOK
<1>h. Entering \subseteq Active /\ {"idle", "read", "gone", "dead"} \cap Entering = {}
  BY DEF Entering, Active, Held
<1>1. ASSUME NEW r \in Runs, NEW stage \in Entering, pc[r] \in Entering,
             pc' = [pc EXCEPT ![r] = stage], UNCHANGED <<job, store>>
      PROVE  OneAccount'
  BY <1>1, <1>t, AccountKept
<1>2. ASSUME NEW r \in Runs, NEW stage \in {"read", "gone"}, NEW j,
             pc' = [pc EXCEPT ![r] = stage], job' = [job EXCEPT ![r] = j], UNCHANGED store
      PROVE  OneAccount'
  BY <1>2, <1>t, <1>h, AccountKept
<1>3. ASSUME NEW r \in Runs, NEW t \in TaskIds, Start(r, t) PROVE OneAccount'
  BY <1>3, <1>2 DEF Start, Goto, serviceVars
<1>4. ASSUME NEW r \in Runs, Up, ReadTask(r) PROVE OneAccount'
  <2>1. CASE store[job[r].id] = None
    BY <2>1, <1>4, <1>2 DEF ReadTask, Return, Goto, serviceVars
  <2>2. CASE store[job[r].id] # None
    <3> DEFINE found == [id |-> job[r].id, account |-> store[job[r].id]]
    <3>1. /\ pc[r] = "read" /\ pc' = [pc EXCEPT ![r] = "enter"]
          /\ job' = [job EXCEPT ![r] = found] /\ store' = store
      BY <2>2, <1>4 DEF ReadTask, Goto, serviceVars
    <3>2. \A s \in Runs : pc'[s] \in Entering /\ s # r => pc[s] \in Entering /\ job'[s] = job[s]
      BY <3>1, <1>t
    <3>3. job'[r].id = job[r].id /\ job'[r].account = store[job[r].id]
      BY <3>1, <1>t
    <3>4. \A s \in Runs : pc'[s] \in Entering => store'[job'[s].id] \in {job'[s].account, None}
      BY <3>1, <3>2, <3>3 DEF OneAccount
    <3>5. \A s, u \in Runs : pc'[s] \in Entering /\ pc'[u] \in Entering /\ job'[s].id = job'[u].id
                              => job'[s].account = job'[u].account
      BY <3>2, <3>3, <2>2 DEF OneAccount
    <3> QED BY <3>4, <3>5 DEF OneAccount
  <2> QED BY <2>1, <2>2
<1>5. ASSUME NEW r \in Runs, Up, Blocked(r) \/ ExitRun(r) PROVE OneAccount'
  BY <1>5, <1>2 DEF Blocked, ExitRun, Return, Goto, serviceVars
<1>6. ASSUME NEW r \in Runs, Up,
             Enter(r) \/ RegisterRun(r) \/ CreateExecution(r) \/ SaveHistory(r) \/ UnregisterRun(r)
      PROVE  OneAccount'
  BY <1>6, <1>1
     DEF Enter, RegisterRun, CreateExecution, SaveHistory, UnregisterRun, Goto, serviceVars,
         Entering, Held
<1>7. ASSUME NEW r \in Runs, Up, Inner(r) PROVE OneAccount'
  BY <1>7, <1>1, InnerFrame DEF Open, Entering, Held
<1>8. ASSUME NEW t \in TaskIds, NEW a \in Accounts, HandleUpsertTask(t, a) PROVE OneAccount'
  <2>1. /\ store' = [store EXCEPT ![t] = a] /\ UNCHANGED <<pc, job>>
        /\ \A r \in Runs : pc[r] \in Active => job[r].id # t
    BY <1>8 DEF HandleUpsertTask, MayEdit, InUse, runVars
  <2>2. \A r \in Runs : pc[r] \in Entering => store'[job[r].id] = store[job[r].id]
    BY <2>1, <1>t, <1>h DEF TypeInv, JobKnown
  <2> QED BY <2>1, <2>2, AccountKept
<1>9. ASSUME NEW old \in Accounts, NEW new \in Accounts, CascadeAccountRename(old, new) PROVE OneAccount'
  <2>1. /\ store' = [t \in TaskIds |-> IF store[t] = old THEN new ELSE store[t]]
        /\ \A t \in TaskIds : store[t] = old => ~InUse(t)
        /\ UNCHANGED <<pc, job>>
    BY <1>9 DEF CascadeAccountRename, MayEdit, runVars
  <2>2. \A r \in Runs : pc[r] \in Entering => store'[job[r].id] = store[job[r].id]
    BY <2>1, <1>t, <1>h DEF TypeInv, JobKnown, InUse
  <2> QED BY <2>1, <2>2, AccountKept
<1>10. ASSUME DeleteRemove PROVE OneAccount'
  <2>1. store' = [store EXCEPT ![del.id] = None] /\ UNCHANGED <<pc, job>>
    BY <1>10 DEF DeleteRemove, runVars
  <2>2. \A r \in Runs : pc[r] \in Entering => store'[job[r].id] \in {store[job[r].id], None}
    BY <2>1, <1>t, <1>h DEF TypeInv, JobKnown
  <2> QED BY <2>1, <2>2, AccountKept
<1>11. ASSUME ShutdownWait \/ Bystander \/ Restart PROVE OneAccount'
  BY <1>11, AccountKept DEF ShutdownWait, Bystander, Restart, RestartMarks, RestartRefused, Boot, runVars
<1>12. ASSUME Dies PROVE OneAccount'
  <2>1. \A r \in Runs : pc'[r] \notin Entering
    BY <1>12, <1>h DEF Dies, Die
  <2> QED BY <2>1 DEF OneAccount
<1> QED
  BY <1>3, <1>4, <1>5, <1>6, <1>7, <1>8, <1>9, <1>10, <1>11, <1>12, Steps

\* With the account lock: two executions of one task never run together.
LEMMA OneRunPerTask ==
    ASSUME LockInv, OneAccount, NEW r \in Runs, NEW s \in Runs,
           pc[r] \in Held, pc[s] \in Held, job[r].id = job[s].id
    PROVE  r = s
BY DEF LockInv, AccountExclusive, OneAccount, Entering

-----------------------------------------------------------------------------
(* The registry names its own *)

LEMMA EntryKept ==
    ASSUME OwnEntry, UNCHANGED tasks, Up' => Up,
           \A r \in Runs : pc'[r] \in Live <=> pc[r] \in Live,
           \A r \in Runs : pc[r] \in Live => job'[r] = job[r],
           TypeOK
    PROVE  OwnEntry'
BY NoneAssumption DEF OwnEntry, TypeOK, RegistryTypeOK

\* When an execution comes to Register, its task has no entry.
LEMMA EntryFree ==
    ASSUME TypeInv, LockInv, OneAccount, OwnEntry, Up, NEW r \in Runs, pc[r] = "register"
    PROVE  tasks[job[r].id] = None
<1> SUFFICES ASSUME tasks[job[r].id] # None PROVE FALSE
  OBVIOUS
<1> DEFINE s == tasks[job[r].id]
<1>1. pc[r] \in Held \ Live /\ Live \subseteq Held
  BY DEF Held, Live
<1>2. job[r].id \in TaskIds
  BY <1>1 DEF TypeInv, JobKnown, Active
<1>3. s \in Runs /\ pc[s] \in Live /\ job[s].id = job[r].id
  BY <1>2 DEF OwnEntry, TypeInv, TypeOK, RegistryTypeOK
<1> HIDE DEF s
<1>4. s = r
  BY <1>1, <1>3, OneRunPerTask
<1> QED BY <1>1, <1>3, <1>4

Locked == TypeInv /\ LockInv /\ OneAccount

LEMMA EntryStep == Locked /\ OwnEntry /\ [Next]_vars => OwnEntry'
<1> SUFFICES ASSUME Locked, OwnEntry, [Next]_vars PROVE OwnEntry'
  OBVIOUS
<1>l. TypeInv /\ LockInv /\ OneAccount /\ TypeOK
  BY DEF Locked, TypeInv
<1>t. pc \in [Runs -> Stages] /\ job \in [Runs -> Job] /\ tasks \in [TaskIds -> Runs \cup {None}]
  BY <1>l DEF TypeOK, RegistryTypeOK
<1>h. /\ {"idle", "read", "enter", "register", "exit", "gone", "dead"} \cap Live = {}
      /\ Live \subseteq Held /\ Open \cup {"create", "unregister"} = Live
  BY DEF Live, Held, Open
<1>i. \A r \in Runs : pc[r] \in Held => job[r].id \in TaskIds
  BY <1>l DEF TypeInv, JobKnown, Active
<1>1. ASSUME NEW r \in Runs, NEW stage, pc' = [pc EXCEPT ![r] = stage],
             pc[r] \in Live <=> stage \in Live, UNCHANGED <<job, tasks, drain>>
      PROVE  OwnEntry'
  BY <1>1, <1>t, <1>l, EntryKept DEF Up
<1>2. ASSUME NEW r \in Runs, NEW stage \in {"read", "enter", "gone"}, NEW j, pc[r] \notin Live,
             pc' = [pc EXCEPT ![r] = stage], job' = [job EXCEPT ![r] = j], UNCHANGED <<tasks, drain>>
      PROVE  OwnEntry'
  BY <1>2, <1>t, <1>h, <1>l, EntryKept DEF Up
<1>3. ASSUME NEW r \in Runs, NEW t \in TaskIds, Start(r, t) PROVE OwnEntry'
  BY <1>3, <1>2, <1>h DEF Start, Goto, registryVars, serviceVars
<1>4. ASSUME NEW r \in Runs, Up, ReadTask(r) \/ Blocked(r) \/ ExitRun(r) PROVE OwnEntry'
  BY <1>4, <1>2, <1>h DEF ReadTask, Blocked, ExitRun, Return, Goto, registryVars, serviceVars
<1>5. ASSUME NEW r \in Runs, Up, Enter(r) \/ CreateExecution(r) \/ SaveHistory(r) PROVE OwnEntry'
  BY <1>5, <1>1, <1>h DEF Enter, CreateExecution, SaveHistory, Goto, registryVars, serviceVars, Open
<1>6. ASSUME NEW r \in Runs, Up, Inner(r) PROVE OwnEntry'
  BY <1>6, <1>1, <1>h, <1>l, InnerFrame
<1>7. ASSUME NEW r \in Runs, Up, RegisterRun(r) PROVE OwnEntry'
  <2> DEFINE t == job[r].id
  <2>1. /\ tasks' = [tasks EXCEPT ![t] = r] /\ UNCHANGED <<job, drain>>
        /\ pc[r] = "register" /\ pc' = [pc EXCEPT ![r] = "create"]
    BY <1>7 DEF RegisterRun, Register, Goto, serviceVars
  <2>2. t \in TaskIds /\ tasks[t] = None
    BY <2>1, <1>7, <1>i, <1>l, EntryFree DEF Held
  <2>3. \A s \in Runs : s # r => pc'[s] = pc[s]
    BY <2>1, <1>t
  <2>4. \A s \in Runs : s # r /\ pc[s] \in Live => job[s].id # t
    BY <2>2, NoneAssumption DEF OwnEntry
  <2> HIDE DEF t
  <2>5. \A s \in Runs : pc'[s] \in Live => tasks'[job'[s].id] = s
    BY <2>1, <2>2, <2>3, <2>4, <1>t, <1>h, <1>i DEF OwnEntry, t
  <2>6. ASSUME NEW u \in TaskIds, tasks'[u] # None
        PROVE  pc'[tasks'[u]] \in Live /\ job'[tasks'[u]].id = u
    <3>1. CASE u = t
      BY <3>1, <2>1, <2>2, <1>t, <1>h DEF t
    <3>2. CASE u # t
      <4>1. tasks'[u] = tasks[u] /\ tasks[u] \in Runs /\ pc[tasks[u]] \in Live /\ job[tasks[u]].id = u
        BY <3>2, <2>6, <2>1, <2>2, <1>t, <1>7 DEF OwnEntry
      <4>2. tasks[u] # r
        BY <4>1, <2>1, <1>h
      <4> QED BY <4>1, <4>2, <2>1, <2>3
    <3> QED BY <3>1, <3>2
  <2> QED BY <2>5, <2>6 DEF OwnEntry
<1>8. ASSUME NEW r \in Runs, Up, UnregisterRun(r) PROVE OwnEntry'
  <2> DEFINE t == job[r].id
  <2>1. /\ tasks' = [tasks EXCEPT ![t] = None] /\ UNCHANGED <<job, drain>>
        /\ pc[r] = "unregister" /\ pc' = [pc EXCEPT ![r] = "exit"]
    BY <1>8 DEF UnregisterRun, Unregister, Goto, serviceVars
  <2>2. pc[r] \in Held /\ t \in TaskIds
    BY <2>1, <1>h, <1>i
  <2>3. \A s \in Runs : pc'[s] \in Live => s # r /\ pc[s] \in Live /\ job[s].id # t
    BY <2>1, <2>2, <1>h, <1>t, <1>l, OneRunPerTask
  <2>4. \A s \in Runs : s # r => pc'[s] = pc[s]
    BY <2>1, <1>t
  <2> HIDE DEF t
  <2>5. \A s \in Runs : pc'[s] \in Live => tasks'[job'[s].id] = s
    BY <2>1, <2>3, <1>t, <1>h, <1>i DEF OwnEntry
  <2>6. ASSUME NEW u \in TaskIds, tasks'[u] # None
        PROVE  pc'[tasks'[u]] \in Live /\ job'[tasks'[u]].id = u
    <3>1. u # t /\ tasks'[u] = tasks[u] /\ tasks[u] \in Runs
      BY <2>6, <2>1, <1>t
    <3>2. pc[tasks[u]] \in Live /\ job[tasks[u]].id = u
      BY <3>1, <2>6, <1>8 DEF OwnEntry
    <3>3. tasks[u] # r
      BY <3>1, <3>2 DEF t
    <3> QED BY <3>1, <3>2, <3>3, <2>1, <2>4
  <2> QED BY <2>5, <2>6 DEF OwnEntry
<1>9. ASSUME \/ \E t \in TaskIds, a \in Accounts : HandleUpsertTask(t, a)
             \/ \E old, new \in Accounts : CascadeAccountRename(old, new)
             \/ DeleteRemove \/ ShutdownWait \/ Bystander
      PROVE  OwnEntry'
  <2>1. UNCHANGED <<pc, job, tasks>> /\ (Up' => Up)
    BY <1>9 DEF HandleUpsertTask, CascadeAccountRename, DeleteRemove, ShutdownWait, Bystander, Drain,
                registryVars, runVars, Up
  <2> QED BY <2>1, <1>l, EntryKept
<1>10. ASSUME Dies PROVE OwnEntry'
  <2>1. ~Up' /\ \A r \in Runs : pc'[r] \notin Live
    BY <1>10, <1>h DEF Dies, Die, Drain, Up, Active
  <2> QED BY <2>1 DEF OwnEntry
<1>11. ASSUME Restart PROVE OwnEntry'
  <2>1. ~Up /\ pc' = pc /\ tasks' = [t \in TaskIds |-> None]
    BY <1>11 DEF Restart, RestartMarks, RestartRefused, Boot, MarkRows
  <2>2. \A r \in Runs : pc[r] \notin Live
    BY <2>1, <1>h, <1>l DEF TypeInv, DownIsQuiet, Active
  <2> QED BY <2>1, <2>2 DEF OwnEntry
<1> QED
  BY <1>3, <1>4, <1>5, <1>6, <1>7, <1>8, <1>9, <1>10, <1>11, <1>l, Steps

-----------------------------------------------------------------------------
(* A closed done channel *)

\* No object is closed, no row opened, and nobody comes back from its exit.
LEMMA DoneKept ==
    ASSUME DoneInv, \A r \in Runs : rt'[r].done => rt[r].done,
           \A r \in Runs : history'[r] = "running" => history[r] = "running",
           refused \subseteq refused',
           \A r \in Runs : pc[r] \in {"exit", "gone", "dead"} => pc'[r] \in {"exit", "gone", "dead"}
    PROVE  DoneInv'
BY DEF DoneInv

LEMMA DoneStep == Locked /\ OwnEntry /\ RowInv /\ DoneInv /\ [Next]_vars => DoneInv'
<1> SUFFICES ASSUME Locked, OwnEntry, RowInv, DoneInv, [Next]_vars PROVE DoneInv'
  OBVIOUS
<1> DEFINE Over == {"exit", "gone", "dead"}
<1>l. TypeInv /\ LockInv /\ OneAccount /\ TypeOK
  BY DEF Locked, TypeInv
<1>t. /\ pc \in [Runs -> Stages] /\ rt \in [Runs -> Object]
      /\ history \in [Runs -> Status] /\ tasks \in [TaskIds -> Runs \cup {None}]
  BY <1>l DEF TypeOK, RegistryTypeOK
<1>i. \A r \in Runs : pc[r] \in Held => job[r].id \in TaskIds
  BY <1>l DEF TypeInv, JobKnown, Active
<1>1. ASSUME NEW r \in Runs, NEW stage, Goto(r, stage), pc[r] \notin Over \/ stage \in Over,
             UNCHANGED <<rt, history, refused>>
      PROVE  DoneInv'
  BY <1>1, <1>t, DoneKept DEF Goto
<1>2. ASSUME NEW r \in Runs, NEW t \in TaskIds, Start(r, t) PROVE DoneInv'
  BY <1>2, <1>1 DEF Start, registryVars, serviceVars
<1>3. ASSUME NEW r \in Runs, Up, ReadTask(r) \/ Blocked(r) \/ Enter(r) PROVE DoneInv'
  BY <1>3, <1>1 DEF ReadTask, Blocked, Enter, Return, registryVars, serviceVars
<1>4. ASSUME NEW r \in Runs, Up, RegisterRun(r) PROVE DoneInv'
  <2>1. /\ rt' = [rt EXCEPT ![r] = FreshObject] /\ pc' = [pc EXCEPT ![r] = "create"]
        /\ pc[r] = "register" /\ UNCHANGED <<history, refused>>
    BY <1>4 DEF RegisterRun, Register, Goto, serviceVars
  <2>2. \A s \in Runs : rt'[s].done => rt[s].done
    BY <2>1, <1>t DEF FreshObject
  <2> QED BY <2>1, <2>2, <1>t, DoneKept
<1>5. ASSUME NEW r \in Runs, Up, CreateExecution(r) \/ SaveHistory(r) PROVE DoneInv'
  <2>1. UNCHANGED rt /\ pc[r] \in {"create", "history"}
    BY <1>5 DEF CreateExecution, SaveHistory, registryVars
  <2>2. /\ \E s : Goto(r, s)
        /\ history' = history \/ \E row : history' = [history EXCEPT ![r] = row]
        /\ refused \subseteq refused'
    BY <1>5 DEF CreateExecution, SaveHistory, serviceVars
  <2> QED BY <2>1, <2>2, <1>t DEF DoneInv, Goto
<1>6. ASSUME NEW r \in Runs, Up, Inner(r) PROVE DoneInv'
  BY <1>6, <1>l, <1>t, InnerFrame, DoneKept DEF KeepsDone, Open
<1>7. ASSUME NEW r \in Runs, Up, UnregisterRun(r) PROVE DoneInv'
  <2>1. /\ pc[r] = "unregister" /\ pc' = [pc EXCEPT ![r] = "exit"]
        /\ UNCHANGED <<history, refused>>
    BY <1>7 DEF UnregisterRun, Goto, serviceVars
  <2>2. tasks[job[r].id] = r /\ r # None
    BY <2>1, NoneAssumption DEF OwnEntry, Live, Held
  <2>3. rt' = [rt EXCEPT ![r] = Released(rt[r])]
    BY <2>2, <1>7 DEF UnregisterRun, Unregister, AtObject
  <2>4. history[r] = "running" => r \in refused
    BY <2>1, <1>7 DEF RowInv, Open
  <2> QED BY <2>1, <2>3, <2>4, <1>t DEF DoneInv
<1>8. ASSUME NEW r \in Runs, Up, ExitRun(r) PROVE DoneInv'
  <2>1. /\ pc[r] = "exit" /\ pc' = [pc EXCEPT ![r] = "gone"] /\ UNCHANGED <<history, refused>>
        /\ rt' = [rt EXCEPT ![r] = Stopped(rt[r], rt[r].status)]
    BY <1>8 DEF ExitRun, Return, Goto, serviceVars
  <2>2. \A s \in Runs : rt'[s].done => rt[s].done
    BY <2>1, <1>t DEF Stopped
  <2> QED BY <2>1, <2>2, <1>t, DoneKept
<1>9. ASSUME \/ \E t \in TaskIds, a \in Accounts : HandleUpsertTask(t, a)
             \/ \E old, new \in Accounts : CascadeAccountRename(old, new)
             \/ DeleteRemove \/ ShutdownWait \/ Bystander
      PROVE  DoneInv'
  <2>1. UNCHANGED <<pc, history, refused>> /\ \A r \in Runs : rt'[r].done => rt[r].done
    BY <1>9 DEF HandleUpsertTask, CascadeAccountRename, DeleteRemove, ShutdownWait, Bystander,
                KeepsDone, registryVars, runVars
  <2> QED BY <2>1, DoneKept
<1>10. ASSUME Dies PROVE DoneInv'
  <2>1. /\ pc' = [r \in Runs |-> IF pc[r] \in Active THEN "dead" ELSE pc[r]]
        /\ UNCHANGED <<rt, history, refused>>
    BY <1>10 DEF Dies, Die, registryVars
  <2> QED BY <2>1, DoneKept
<1>11. ASSUME Restart PROVE DoneInv'
  BY <1>11 DEF Restart, RestartMarks, RestartRefused, Boot, NoObject, DoneInv
<1> QED
  BY <1>2, <1>3, <1>4, <1>5, <1>6, <1>7, <1>8, <1>9, <1>10, <1>11, <1>l, Steps

LEMMA DrainStep == DoneInv /\ DrainInv /\ [Next]_vars /\ TypeInv => DrainInv'
<1> SUFFICES ASSUME DoneInv, DrainInv, [Next]_vars, TypeInv PROVE DrainInv'
  OBVIOUS
<1>1. ASSUME drain' = drain, Up PROVE DrainInv'
  BY <1>1 DEF DrainInv, Up
<1>2. ASSUME \/ \E r \in Runs, t \in TaskIds : Start(r, t)
             \/ \E t \in TaskIds, a \in Accounts : HandleUpsertTask(t, a)
             \/ \E old, new \in Accounts : CascadeAccountRename(old, new)
             \/ DeleteRemove
      PROVE  DrainInv'
  BY <1>2, <1>1 DEF Start, HandleUpsertTask, CascadeAccountRename, DeleteRemove, serviceVars
<1>3. ASSUME NEW r \in Runs, Up,
             \/ ReadTask(r) \/ Blocked(r) \/ Enter(r) \/ RegisterRun(r)
             \/ CreateExecution(r) \/ SaveHistory(r) \/ UnregisterRun(r) \/ ExitRun(r)
      PROVE  DrainInv'
  BY <1>3, <1>1 DEF ReadTask, Blocked, Enter, RegisterRun, CreateExecution, SaveHistory,
                    UnregisterRun, ExitRun, serviceVars
<1>4. ASSUME NEW r \in Runs, Up, Inner(r) PROVE DrainInv'
  BY <1>4, <1>1, InnerFrame
<1>5. ASSUME ShutdownWait PROVE DrainInv'
  BY <1>5 DEF ShutdownWait, Drain, DrainInv, Up
<1>6. ASSUME Dies PROVE DrainInv'
  <2>1. PICK over \in BOOLEAN :
          /\ drain' = [phase |-> "down", over |-> over, set |-> drain.set]
          /\ UNCHANGED <<history, refused>>
          /\ over => drain.phase = "up" \/ WaitAllOver(drain.set)
    BY <1>6 DEF Dies, Die, Drain
  <2>2. drain.set \subseteq Runs
    BY DEF TypeInv, TypeOK
  <2> QED BY <2>1, <2>2 DEF DrainInv, DoneInv, WaitAllOver, Up
<1>7. ASSUME Restart PROVE DrainInv'
  BY <1>7 DEF Restart, RestartMarks, RestartRefused, Boot, Serving, DrainInv, Up
<1>8. ASSUME Bystander PROVE DrainInv'
  BY <1>8 DEF Bystander, DrainInv, Up
<1> QED BY <1>2, <1>3, <1>4, <1>5, <1>6, <1>7, <1>8, Steps

\* The inductive invariant of the end of an execution.
ExitInv == OneAccount /\ OwnEntry /\ DoneInv /\ DrainInv

LEMMA ExitInit == Init => ExitInv
<1>1. Init => \A r \in Runs : pc[r] \notin Entering /\ pc[r] \notin Live /\ ~rt[r].done
  BY DEF Init, RegistryInit, NoObject, Entering, Live, Held
<1>2. Init => \A t \in TaskIds : tasks[t] = None
  BY DEF Init, RegistryInit
<1> QED BY <1>1, <1>2 DEF Init, Serving, Up, ExitInv, OneAccount, OwnEntry, DoneInv, DrainInv

LEMMA ExitAlways == ASSUME ~EditRunning PROVE Spec => []ExitInv
<1>1. TypeInv /\ LockInv /\ RowInv /\ ExitInv /\ [Next]_vars => ExitInv'
  BY AccountStep, EntryStep, DoneStep, DrainStep DEF ExitInv, Locked
<1> QED BY <1>1, ExitInit, TypeAlways, LockAlways, RowAlways, PTL DEF Spec

\* What Wait and WaitAll promise: while running tasks are not edited, a closed
\* done channel means that the execution is past saving its row and has left the registry.
THEOREM WaitIsSound == ASSUME ~EditRunning PROVE Spec => []DoneMeansExited
<1>1. ExitInv => DoneMeansExited
  BY DEF ExitInv, DoneInv, DoneMeansExited
<1> QED BY <1>1, ExitAlways, PTL

\* After a shutdown that WaitAll saw through, every execution it waited for has
\* closed its row, or tried to twice and was refused by the database.
THEOREM GracefulShutdown == ASSUME ~EditRunning PROVE Spec => []GracefulRows
<1>1. ExitInv => GracefulRows
  BY DEF ExitInv, DrainInv, GracefulRows, OpenRows
<1> QED BY <1>1, ExitAlways, PTL

\* No execution replaces the registry entry of another one that still runs.
THEOREM NoEntryTakenOver == ASSUME ~EditRunning PROVE Spec => NoTakeover
<1> DEFINE Kept == \A t \in TaskIds : tasks[t] # None => tasks'[t] \in {tasks[t], None}
<1>1. TypeInv /\ LockInv /\ ExitInv /\ [Next]_vars => [Kept]_vars
  <2> SUFFICES ASSUME TypeInv, LockInv, ExitInv, [Next]_vars PROVE Kept
    OBVIOUS
  <2>t. tasks \in [TaskIds -> Runs \cup {None}]
    BY DEF TypeInv, TypeOK, RegistryTypeOK
  <2>1. CASE UNCHANGED tasks
    BY <2>1
  <2>2. ASSUME NEW r \in Runs, Up, RegisterRun(r) PROVE Kept
    <3>1. tasks' = [tasks EXCEPT ![job[r].id] = r] /\ tasks[job[r].id] = None
      BY <2>2, EntryFree DEF RegisterRun, Register, ExitInv
    <3> QED BY <3>1, <2>t
  <2>3. ASSUME NEW r \in Runs, UnregisterRun(r) PROVE Kept
    BY <2>3, <2>t DEF UnregisterRun, Unregister
  <2>4. CASE Restart
    BY <2>4 DEF Restart, RestartMarks, RestartRefused, Boot
  <2>5. ASSUME NEW r \in Runs, Up, Inner(r) PROVE UNCHANGED tasks
    BY <2>5, InnerFrame
  <2>6. ASSUME NEW r \in Runs,
               \/ \E t \in TaskIds : Start(r, t)
               \/ ReadTask(r) \/ Blocked(r) \/ Enter(r) \/ CreateExecution(r)
               \/ SaveHistory(r) \/ ExitRun(r)
        PROVE  UNCHANGED tasks
    BY <2>6 DEF Start, ReadTask, Blocked, Enter, CreateExecution, SaveHistory, ExitRun, registryVars
  <2>7. ASSUME \/ \E t \in TaskIds, a \in Accounts : HandleUpsertTask(t, a)
               \/ \E old, new \in Accounts : CascadeAccountRename(old, new)
               \/ DeleteRemove \/ ShutdownWait \/ Dies \/ Bystander
        PROVE  UNCHANGED tasks
    BY <2>7 DEF HandleUpsertTask, CascadeAccountRename, DeleteRemove, ShutdownWait, Dies, Die,
                Bystander, registryVars
  <2> QED BY <2>1, <2>2, <2>3, <2>4, <2>5, <2>6, <2>7, Steps
<1>2. [][Kept]_vars <=> NoTakeover
  BY DEF NoTakeover
<1> QED BY <1>1, <1>2, TypeAlways, LockAlways, ExitAlways, PTL DEF Spec

-----------------------------------------------------------------------------
(* Cancellation *)

\* r will not be recorded as completed: it is cancelled before its last look,
\* or it has left with another outcome.
Doomed(r) ==
    \/ pc[r] \in BeforeCommit /\ Cancelled(r) /\ history[r] # "completed"
    \/ pc[r] = "history" /\ hist[r] # "completed" /\ history[r] # "completed"
    \/ pc[r] \in {"unregister", "exit", "gone", "dead"} /\ history[r] # "completed"

LEMMA DoomKept ==
    ASSUME NEW r \in Runs, Doomed(r), pc'[r] = pc[r], hist'[r] = hist[r],
           history'[r] = history[r], rt[r].cancelled => rt'[r].cancelled
    PROVE  Doomed(r)'
BY DEF Doomed, Cancelled

\* The own step of a doomed execution keeps it doomed.
LEMMA DoomOwnStep ==
    ASSUME TypeInv, NEW r \in Runs, Up, Doomed(r), Step(r)
    PROVE  Doomed(r)'
<1>t. /\ pc \in [Runs -> Stages] /\ rt \in [Runs -> Object] /\ history \in [Runs -> Status]
      /\ hist \in [Runs -> {"completed", "failed", "cancelled"}]
  BY DEF TypeInv, TypeOK, RegistryTypeOK
<1>b. BeforeCommit = {"create", "prepare", "scan", "reconcile", "generate", "finalize"}
  BY DEF BeforeCommit
<1>p. pc[r] \notin {"idle", "read", "enter", "register", "commit"}
  BY <1>b DEF Doomed
<1>1. ASSUME NEW o \in {"failed", "cancelled"}, Leave(r, o, o), pc[r] \in BeforeCommit
      PROVE  Doomed(r)'
  <2>1. history[r] # "completed"
    BY <1>1, <1>b DEF Doomed
  <2> QED BY <1>1, <2>1, <1>t DEF Leave, Goto, Doomed
<1>2. ASSUME NEW stage \in BeforeCommit, Goto(r, stage), pc[r] \in BeforeCommit, UNCHANGED rt,
             history'[r] # "completed"
      PROVE  Doomed(r)'
  BY <1>2, <1>b, <1>t DEF Goto, Doomed, Cancelled
<1>3. CASE CreateExecution(r)
  <2>1. history'[r] \in {"running", "none"} /\ pc[r] = "create" /\ UNCHANGED rt /\ Goto(r, "prepare")
    BY <1>3, <1>t DEF CreateExecution, registryVars
  <2> QED BY <2>1, <1>2, <1>b
<1>4. ASSUME NEW stage \in BeforeCommit, Proceed(r, stage), pc[r] \in BeforeCommit PROVE Doomed(r)'
  BY <1>4, <1>2, <1>b DEF Proceed, registryVars, Doomed
<1>5. CASE Prepare(r) \/ Scan(r) \/ Reconcile(r)
  BY <1>5, <1>1, <1>4, <1>b DEF Prepare, Scan, Reconcile, Fail, FinishCancelled
<1>6. CASE Generate(r)
  <2>1. pc[r] = "generate" /\ UNCHANGED <<rt, history>> /\ Goto(r, "finalize")
    BY <1>6 DEF Generate, registryVars
  <2> QED BY <2>1, <1>2, <1>b DEF Doomed
<1>7. CASE Finalize(r)
  <2>1. pc[r] = "finalize" /\ Cancelled(r)
    BY <1>7 DEF Finalize, Doomed
  <2> QED BY <2>1, <1>7, <1>1, <1>b DEF Finalize, FinishCancelled
<1>8. CASE SaveHistory(r)
  <2>1. pc[r] = "history" /\ hist[r] # "completed" /\ Goto(r, "unregister")
    BY <1>8, <1>b DEF SaveHistory, Doomed
  <2>2. history' = history \/ history' = [history EXCEPT ![r] = hist[r]]
    BY <1>8 DEF SaveHistory
  <2> QED BY <2>1, <2>2, <1>t DEF Goto, Doomed
<1>9. CASE UnregisterRun(r) \/ ExitRun(r)
  <2>1. pc[r] \in {"unregister", "exit"} /\ UNCHANGED history /\ \E s \in {"exit", "gone"} : Goto(r, s)
    BY <1>9 DEF UnregisterRun, ExitRun, Return
  <2> QED BY <2>1, <1>b, <1>t DEF Goto, Doomed
<1> QED
  BY <1>p, <1>3, <1>5, <1>6, <1>7, <1>8, <1>9
     DEF Step, ReadTask, Enter, Blocked, RegisterRun, Commit

\* The step of another execution leaves r alone, its cancellation included.
LEMMA OtherStep ==
    ASSUME TypeInv, NEW r \in Runs, NEW s \in Runs, s # r, Up,
           Step(s) \/ \E t \in TaskIds : Start(s, t)
    PROVE  /\ pc'[r] = pc[r] /\ hist'[r] = hist[r] /\ history'[r] = history[r]
           /\ rt[r].cancelled => rt'[r].cancelled
<1>t. /\ pc \in [Runs -> Stages] /\ rt \in [Runs -> Object] /\ history \in [Runs -> Status]
      /\ hist \in [Runs -> {"completed", "failed", "cancelled"}]
      /\ tasks \in [TaskIds -> Runs \cup {None}]
  BY DEF TypeInv, TypeOK, RegistryTypeOK
<1>i. pc[s] \in Active => job[s].id \in TaskIds
  BY DEF TypeInv, JobKnown
<1>1. ASSUME NEW stage, Goto(s, stage), UNCHANGED <<hist, history>>, KeepsDone
      PROVE  /\ pc'[r] = pc[r] /\ hist'[r] = hist[r] /\ history'[r] = history[r]
             /\ rt[r].cancelled => rt'[r].cancelled
  BY <1>1, <1>t DEF Goto, KeepsDone
<1>2. CASE \E t \in TaskIds : Start(s, t)
  BY <1>2, <1>1 DEF Start, registryVars, KeepsDone
<1>3. CASE ReadTask(s) \/ Enter(s) \/ Blocked(s)
  <2>1. UNCHANGED <<rt, history>> /\ \E stage : Goto(s, stage)
    BY <1>3 DEF ReadTask, Enter, Blocked, Return, registryVars
  <2>2. hist' = hist \/ hist' = [hist EXCEPT ![s] = "completed"]
    BY <1>3 DEF ReadTask, Enter, Blocked, Return
  <2> QED BY <2>1, <2>2, <1>t DEF Goto
<1>4. CASE RegisterRun(s)
  BY <1>4, <1>t DEF RegisterRun, Register, Goto
<1>5. CASE CreateExecution(s) \/ SaveHistory(s)
  <2>1. /\ UNCHANGED <<rt, hist>>
        /\ \E stage : Goto(s, stage)
        /\ history' = history \/ \E row : history' = [history EXCEPT ![s] = row]
    BY <1>5 DEF CreateExecution, SaveHistory, registryVars
  <2> QED BY <2>1, <1>t DEF Goto
<1>6. CASE Inner(s)
  <2>1. /\ UNCHANGED history /\ KeepsDone
        /\ \E stage : pc' = [pc EXCEPT ![s] = stage]
    BY <1>6, InnerFrame
  <2>2. hist' = hist \/ \E o : hist' = [hist EXCEPT ![s] = o]
    BY <1>6 DEF Inner, Prepare, Scan, Reconcile, Generate, Finalize, Commit, Fail, FinishCancelled,
                Leave, Proceed
  <2> QED BY <2>1, <2>2, <1>t DEF KeepsDone
<1>7. CASE UnregisterRun(s)
  <2>1. /\ UNCHANGED <<hist, history>> /\ Goto(s, "exit") /\ job[s].id \in TaskIds
        /\ Unregister(job[s].id)
    BY <1>7, <1>i DEF UnregisterRun, Active, Held
  <2>2. rt[r].cancelled => rt'[r].cancelled
    BY <2>1, <1>t, NoneAssumption DEF Unregister, AtObject, Released
  <2> QED BY <2>1, <2>2, <1>t DEF Goto
<1>8. CASE ExitRun(s)
  BY <1>8, <1>t DEF ExitRun, Return, Goto
<1> QED BY <1>2, <1>3, <1>4, <1>5, <1>6, <1>7, <1>8 DEF Step, Inner

LEMMA DoomStep ==
    ASSUME NEW r \in Runs
    PROVE  TypeInv /\ Doomed(r) /\ [Next]_vars => Doomed(r)'
<1> SUFFICES ASSUME TypeInv, Doomed(r), [Next]_vars PROVE Doomed(r)'
  OBVIOUS
<1>1. ASSUME NEW s \in Runs, NEW t \in TaskIds, Start(s, t) PROVE Doomed(r)'
  <2>1. Up /\ pc[s] = "idle" /\ pc[r] # "idle"
    BY <1>1 DEF Start, Doomed, BeforeCommit
  <2> QED BY <1>1, <2>1, OtherStep, DoomKept
<1>2. ASSUME NEW s \in Runs, Up, Step(s) PROVE Doomed(r)'
  <2>1. CASE s = r
    BY <1>2, <2>1, DoomOwnStep
  <2>2. CASE s # r
    BY <1>2, <2>2, OtherStep, DoomKept
  <2> QED BY <2>1, <2>2
<1>3. ASSUME \/ \E t \in TaskIds, a \in Accounts : HandleUpsertTask(t, a)
             \/ \E old, new \in Accounts : CascadeAccountRename(old, new)
             \/ DeleteRemove \/ ShutdownWait \/ Bystander
      PROVE  Doomed(r)'
  BY <1>3, DoomKept DEF HandleUpsertTask, CascadeAccountRename, DeleteRemove, ShutdownWait, Bystander,
              KeepsDone, registryVars, runVars
<1>4. ASSUME Dies PROVE Doomed(r)'
  <2>1. /\ pc'[r] = IF pc[r] \in Active THEN "dead" ELSE pc[r]
        /\ history' = history
    BY <1>4 DEF Dies, Die
  <2> QED BY <2>1 DEF Doomed, BeforeCommit, Active, Held
<1>5. ASSUME Restart PROVE Doomed(r)'
  <2>1. pc' = pc /\ history'[r] \in {"failed", history[r]} /\ ~Up
    BY <1>5 DEF Restart, RestartMarks, RestartRefused, Boot, MarkRows
  <2>2. pc[r] \notin BeforeCommit \cup {"history"}
    BY <2>1 DEF TypeInv, DownIsQuiet, Active, Held, BeforeCommit
  <2> QED BY <2>1, <2>2 DEF Doomed
<1> QED BY <1>1, <1>2, <1>3, <1>4, <1>5, Steps DEF Step, Inner

\* No row is completed before its execution left.
Early == {"idle", "read", "enter", "register"} \cup BeforeCommit
FreshRow == \A r \in Runs : pc[r] \in Early => history[r] # "completed"

LEMMA FreshStep == TypeInv /\ FreshRow /\ [Next]_vars => FreshRow'
<1> SUFFICES ASSUME TypeInv, FreshRow, [Next]_vars PROVE FreshRow'
  OBVIOUS
<1>t. pc \in [Runs -> Stages] /\ history \in [Runs -> Status]
  BY DEF TypeInv, TypeOK
<1>0. ASSUME \A r \in Runs : pc'[r] \in Early => pc[r] \in Early,
             \A r \in Runs : history'[r] = "completed" /\ pc'[r] \in Early => history[r] = "completed"
      PROVE  FreshRow'
  BY <1>0 DEF FreshRow
<1>1. ASSUME NEW r \in Runs, NEW stage, Goto(r, stage), pc[r] \in Early \/ stage \notin Early,
             UNCHANGED history
      PROVE  FreshRow'
  BY <1>1, <1>0, <1>t DEF Goto
<1>2. ASSUME NEW r \in Runs, NEW t \in TaskIds, Start(r, t) PROVE FreshRow'
  BY <1>2, <1>1 DEF Start, Early
<1>3. ASSUME NEW r \in Runs, ReadTask(r) \/ Blocked(r) \/ Enter(r) \/ RegisterRun(r) PROVE FreshRow'
  BY <1>3, <1>1 DEF ReadTask, Blocked, Enter, RegisterRun, Return, Early
<1>4. ASSUME NEW r \in Runs, CreateExecution(r) PROVE FreshRow'
  <2>1. Goto(r, "prepare") /\ pc[r] = "create"
        /\ \E row \in {"running", "none"} : history' = [history EXCEPT ![r] = row]
    BY <1>4 DEF CreateExecution
  <2> QED BY <2>1, <1>0, <1>t DEF Goto, Early, BeforeCommit
<1>5. ASSUME NEW r \in Runs, Inner(r) PROVE FreshRow'
  <2>1. UNCHANGED history /\ \E stage : pc' = [pc EXCEPT ![r] = stage]
    BY <1>5, InnerFrame
  <2>2. CASE pc[r] \in Early
    BY <2>1, <2>2, <1>1 DEF Goto
  <2>3. CASE Commit(r)
    BY <2>3, <1>1 DEF Commit, Leave, Early, BeforeCommit
  <2> QED BY <2>2, <2>3, <1>5 DEF Inner, Prepare, Scan, Reconcile, Generate, Finalize, Early, BeforeCommit
<1>6. ASSUME NEW r \in Runs, SaveHistory(r) PROVE FreshRow'
  <2>1. /\ Goto(r, "unregister")
        /\ history' = history \/ \E row : history' = [history EXCEPT ![r] = row]
    BY <1>6 DEF SaveHistory
  <2> QED BY <2>1, <1>0, <1>t DEF Goto, Early, BeforeCommit
<1>7. ASSUME NEW r \in Runs, UnregisterRun(r) \/ ExitRun(r) PROVE FreshRow'
  BY <1>7, <1>1 DEF UnregisterRun, ExitRun, Return, Early, BeforeCommit
<1>8. ASSUME \/ \E t \in TaskIds, a \in Accounts : HandleUpsertTask(t, a)
             \/ \E old, new \in Accounts : CascadeAccountRename(old, new)
             \/ DeleteRemove \/ ShutdownWait \/ Bystander
      PROVE  FreshRow'
  BY <1>8, <1>0 DEF HandleUpsertTask, CascadeAccountRename, DeleteRemove, ShutdownWait, Bystander, runVars
<1>9. ASSUME Dies PROVE FreshRow'
  BY <1>9, <1>0 DEF Dies, Die, Early, BeforeCommit
<1>10. ASSUME Restart PROVE FreshRow'
  BY <1>10, <1>0 DEF Restart, RestartMarks, RestartRefused, Boot, MarkRows
<1> QED BY <1>2, <1>3, <1>4, <1>5, <1>6, <1>7, <1>8, <1>9, <1>10, Steps

LEMMA FreshAlways == Spec => []FreshRow
<1>1. Init => FreshRow
  BY DEF Init, FreshRow
<1> QED BY <1>1, FreshStep, TypeAlways, PTL DEF Spec

\* A task cancelled before the last look at its context (step 12) is never
\* recorded as completed, whichever stage the cancellation met.
THEOREM CancelledNeverCompleted == Spec => CancelStopsCompletion
<1>1. ASSUME NEW r \in Runs
      PROVE  Spec => [](pc[r] \in BeforeCommit /\ Cancelled(r) => [](history[r] # "completed"))
  <2>1. FreshRow /\ pc[r] \in BeforeCommit /\ Cancelled(r) => Doomed(r)
    BY DEF FreshRow, Early, Doomed
  <2>2. Doomed(r) => history[r] # "completed"
    BY DEF Doomed
  <2>3. TypeInv /\ Doomed(r) /\ [Next]_vars => Doomed(r)'
    BY DoomStep
  <2> QED BY <2>1, <2>2, <2>3, TypeAlways, FreshAlways, PTL DEF Spec
<1>2. Spec => \A r \in Runs : [](pc[r] \in BeforeCommit /\ Cancelled(r) => [](history[r] # "completed"))
  BY <1>1
<1> QED BY <1>2 DEF CancelStopsCompletion
=============================================================================
