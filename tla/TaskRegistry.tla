---------------------------- MODULE TaskRegistry ----------------------------
(***************************************************************************)
(* The task Runtime of internal/service/task/types.go: the registry of     *)
(* running tasks and the per-account lock, all under one mutex, so each    *)
(* operation below is one atomic step.  A runningTask object is identified *)
(* with the execution (goroutine) that registered it: Register creates     *)
(* exactly one object per execution.                                       *)
(***************************************************************************)
EXTENDS Naturals, FiniteSets

CONSTANTS TaskIds,   \* task identifiers of tasks.json
          Accounts,  \* account names
          Runs,      \* executions (one goroutine each), and their objects
          None       \* no entry in a map

ASSUME NoneAssumption == None \notin TaskIds \cup Accounts \cup Runs

VARIABLES accountLock,  \* account -> task ID that holds it
          tasks,        \* task ID -> registered object
          rt            \* the runningTask objects

registryVars == <<accountLock, tasks, rt>>

Status == {"none", "running", "completed", "failed", "cancelled"}

Object == [status : Status, cancelled : BOOLEAN, done : BOOLEAN]

NoObject == [status |-> "none", cancelled |-> FALSE, done |-> FALSE]
FreshObject == [status |-> "running", cancelled |-> FALSE, done |-> FALSE]

RegistryTypeOK ==
    /\ accountLock \in [Accounts -> TaskIds \cup {None}]
    /\ tasks \in [TaskIds -> Runs \cup {None}]
    /\ rt \in [Runs -> Object]

RegistryInit ==
    /\ accountLock = [a \in Accounts |-> None]
    /\ tasks = [t \in TaskIds |-> None]
    /\ rt = [r \in Runs |-> NoObject]

Registered == {r \in Runs : \E t \in TaskIds : tasks[t] = r}

-----------------------------------------------------------------------------
(* Operations *)

\* Mutant: the lock is taken without looking whether somebody has it.
TryEnterUnchecked(a, t) ==
    accountLock' = [accountLock EXCEPT ![a] = t]

\* The account is free: it is now held in the name of task t.
TryEnter(a, t) ==
    /\ accountLock[a] = None
    /\ accountLock' = [accountLock EXCEPT ![a] = t]

Exit(a) == accountLock' = [accountLock EXCEPT ![a] = None]

\* Registers the object of r under t, over whatever was registered there.
Register(t, r) ==
    /\ tasks' = [tasks EXCEPT ![t] = r]
    /\ rt' = [rt EXCEPT ![r] = FreshObject]

\* What the operations below make of an object o.
Released(o) == [status |-> o.status, cancelled |-> TRUE, done |-> TRUE]
Stopped(o, s) == [status |-> s, cancelled |-> TRUE, done |-> o.done]
WithStatus(o, s) == [status |-> s, cancelled |-> o.cancelled, done |-> o.done]

\* o becomes the object task t names now, if it names one.
AtObject(t, o) == rt' = IF tasks[t] = None THEN rt ELSE [rt EXCEPT ![tasks[t]] = o]

\* Closes done and cancels the context.
Unregister(t) ==
    /\ tasks' = [tasks EXCEPT ![t] = None]
    /\ AtObject(t, Released(rt[tasks[t]]))

\* SetState: the callback only runs when the task is registered.
SetStatus(t, s) == AtObject(t, WithStatus(rt[tasks[t]], s))

\* Mutant: Cancel tells those who wait that the task is over.
CancelReleases(t) == AtObject(t, Released(WithStatus(rt[tasks[t]], "cancelled")))

\* Cancel of a registered task: whatever its status was, it is cancelled now.
Cancel(t) == AtObject(t, Stopped(rt[tasks[t]], "cancelled"))

\* Mutant: so does CancelAll.
CancelAllReleases ==
    rt' = [r \in Runs |-> IF r \in Registered THEN Released(rt[r]) ELSE rt[r]]

\* CancelAll cancels every context and restates only the running ones.
CancelAll ==
    rt' = [r \in Runs |->
             IF r \notin Registered THEN rt[r]
             ELSE Stopped(rt[r], IF rt[r].status = "running" THEN "cancelled"
                                 ELSE rt[r].status)]

\* What Wait takes under the mutex before it blocks: the object t names now.
WaitFor(t) == tasks[t]

\* Wait returns true: there was no object, or its done channel is closed.
WaitOver(r) == r # None => rt[r].done

\* WaitAll returns true once every object of its snapshot is done.
WaitAllOver(S) == \A r \in S : rt[r].done
=============================================================================
