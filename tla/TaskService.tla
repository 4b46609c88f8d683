----------------------------- MODULE TaskService -----------------------------
(***************************************************************************)
(* The executions of TaskExecutor beside the handlers that cancel, edit    *)
(* and delete tasks (internal/handler/task.go, account_cascade.go) and the *)
(* shutdown, crash and restart of the service (internal/server/server.go). *)
(***************************************************************************)
EXTENDS TaskExecutor

runVars == <<pc, job, hist, history, refused>>

\* An execution may be about to write, or is writing, under task t.
InUse(t) == \E r \in Runs : pc[r] \in Active /\ job[r].id = t

\* The bound EditRunning puts on the handlers that change a task's account.
MayEdit(t) == EditRunning \/ ~InUse(t)

-----------------------------------------------------------------------------
(* Handlers *)

\* The user is told "cancelled" once Cancel found the task.
HandleCancelTask(t) ==
    /\ Up /\ tasks[t] # None
    /\ Cancel(t)
    /\ UNCHANGED <<accountLock, tasks, runVars, store, del, drain>>

\* Create or update: the whole task is written, its account included.
HandleUpsertTask(t, a) ==
    /\ Up /\ MayEdit(t)
    /\ store[t] # a
    /\ store' = [store EXCEPT ![t] = a]
    /\ UNCHANGED <<registryVars, runVars, del, drain>>

\* Every task of the old name moves to a name no account has.
CascadeAccountRename(old, new) ==
    LET moved == {t \in TaskIds : store[t] = old}
    IN  /\ Up /\ moved # {}
        /\ \A t \in TaskIds : store[t] # new
        /\ \A t \in moved : MayEdit(t)
        /\ store' = [t \in TaskIds |-> IF t \in moved THEN new ELSE store[t]]
        /\ UNCHANGED <<registryVars, runVars, del, drain>>

DeleteAt(at, t, w) == del' = [at |-> at, id |-> t, waits |-> w]

\* Delete: with cleanStrm the task must exist, is cancelled and awaited first.
HandleDeleteTask(t) ==
    /\ Up /\ del.at = "idle"
    /\ \/ store[t] # None /\ DeleteAt("cancel", t, None)
       \/ DeleteAt("last", t, None)
    /\ UNCHANGED <<registryVars, runVars, store, drain>>

\* Either of the two Cancel calls of the handler.
DeleteCancels(next) ==
    /\ Cancel(del.id)
    /\ DeleteAt(next, del.id, del.waits)
    /\ UNCHANGED <<accountLock, tasks, runVars, store, drain>>

DeleteFirstCancel == Up /\ del.at = "cancel" /\ DeleteCancels("snapshot")

\* Wait looks the object up under the mutex, and then blocks outside it.
DeleteSnapshot ==
    /\ Up /\ del.at = "snapshot"
    /\ DeleteAt("wait", del.id, WaitFor(del.id))
    /\ UNCHANGED <<registryVars, runVars, store, drain>>

\* Wait returns: true goes on to the files, a timeout (409) gives up.
DeleteWait ==
    /\ Up /\ del.at = "wait"
    /\ \/ WaitOver(del.waits) /\ DeleteAt("clean", del.id, None)
       \/ ~WaitOver(del.waits) /\ del' = NoDelete
    /\ UNCHANGED <<registryVars, runVars, store, drain>>

\* cleanupTaskStrms ran; when it failed the task is kept (409).
DeleteFiles ==
    /\ Up /\ del.at = "clean"
    /\ DeleteAt("last", del.id, None) \/ del' = NoDelete
    /\ UNCHANGED <<registryVars, runVars, store, drain>>

DeleteLastCancel == Up /\ del.at = "last" /\ DeleteCancels("remove")

DeleteRemove ==
    /\ Up /\ del.at = "remove"
    /\ store' = [store EXCEPT ![del.id] = None]
    /\ del' = NoDelete
    /\ UNCHANGED <<registryVars, runVars, drain>>

-----------------------------------------------------------------------------
(* The life of the process *)

Drain(phase, over, set) == drain' = [phase |-> phase, over |-> over, set |-> set]

\* What is left of the executions when the process is gone.
Die(over) ==
    /\ Drain("down", over, drain.set)
    /\ pc' = [r \in Runs |-> IF pc[r] \in Active THEN "dead" ELSE pc[r]]
    /\ del' = NoDelete
    /\ job' = [r \in Runs |-> NoJob]
    /\ hist' = [r \in Runs |-> "completed"]
    /\ UNCHANGED <<registryVars, store, history, refused>>

\* Shutdown: CancelAll; with no task registered it does not wait.
ShutdownCancel ==
    /\ drain.phase = "up"
    /\ \/ Registered = {} /\ Die(TRUE)
       \/ /\ Registered # {}
          /\ CancelAll
          /\ Drain("cancelled", FALSE, {})
          /\ UNCHANGED <<accountLock, tasks, runVars, store, del>>

\* WaitAll takes the done channels of what is registered by then.
ShutdownWait ==
    /\ drain.phase = "cancelled"
    /\ Drain("waiting", FALSE, Registered)
    /\ UNCHANGED <<registryVars, runVars, store, del>>

\* WaitAll returned, or its context expired: the process ends.
ShutdownExit ==
    /\ drain.phase = "waiting"
    /\ Die(WaitAllOver(drain.set))

Crash == Up /\ Die(FALSE)

\* A new process: empty registry, nobody runs.
Boot ==
    /\ ~Up
    /\ accountLock' = [a \in Accounts |-> None]
    /\ tasks' = [t \in TaskIds |-> None]
    /\ rt' = [r \in Runs |-> NoObject]
    /\ drain' = Serving
    /\ UNCHANGED <<store, pc, job, hist, del>>

OpenRows == {r \in Runs : history[r] = "running"}

\* MarkInterrupted: every row left open becomes failed.
MarkRows ==
    /\ history' = [r \in Runs |-> IF r \in OpenRows THEN "failed" ELSE history[r]]
    /\ refused' = {}

\* The database refuses the update: a warning, and the service starts.
RestartRefused == Boot /\ refused' = refused \cup OpenRows /\ UNCHANGED history

RestartMarks == Boot /\ MarkRows

\* Mutant: the new process does not call MarkInterrupted.
RestartForgetful == Boot /\ UNCHANGED <<history, refused>>

Restart == RestartMarks \/ RestartRefused

Next ==
    \/ \E r \in Runs : Step(r) \/ \E t \in TaskIds : Start(r, t)
    \/ \E t \in TaskIds : HandleCancelTask(t) \/ HandleDeleteTask(t)
    \/ \E t \in TaskIds, a \in Accounts : HandleUpsertTask(t, a)
    \/ \E old, new \in Accounts : CascadeAccountRename(old, new)
    \/ DeleteFirstCancel \/ DeleteSnapshot \/ DeleteWait \/ DeleteFiles
    \/ DeleteLastCancel \/ DeleteRemove
    \/ ShutdownCancel \/ ShutdownWait \/ ShutdownExit \/ Crash \/ Restart

Spec == Init /\ [][Next]_vars

\* A goroutine that can run does, the service is started again, and of the
\* starts that come again and again the database does not refuse every one.
FairSpec ==
    /\ Spec
    /\ \A r \in Runs : WF_vars(Step(r))
    /\ WF_vars(Restart) /\ SF_vars(RestartMarks)

-----------------------------------------------------------------------------
(* Properties *)

\* One execution per account: two executions between TryEnter and Exit never
\* have the same account, through edits, renames, crashes and restarts.
AccountExclusive ==
    \A r, s \in Runs :
        /\ pc[r] \in Held /\ pc[s] \in Held
        /\ job[r].account = job[s].account
        => r = s

\* The lock of an account names the task of the execution that runs on it,
\* and an account nobody runs on is free: Exit is neither early nor forgotten.
LockTellsHolder ==
    Up => /\ \A r \in Runs : pc[r] \in Held => accountLock[job[r].account] = job[r].id
          /\ \A a \in Accounts : accountLock[a] # None =>
                \E r \in Runs : pc[r] \in Held /\ job[r].account = a

\* A closed done channel means the execution is past saving its history row and left
\* the registry: what Wait and WaitAll promise to those who delete and shut down.
DoneMeansExited ==
    \A r \in Runs : rt[r].done => pc[r] \in {"exit", "gone", "dead"}

\* Register never replaces the object of an execution that still runs: the
\* registry entry is gone before the account lock lets the next one in.
NoTakeover ==
    [][\A t \in TaskIds : tasks[t] # None => tasks'[t] \in {tasks[t], None}]_vars

\* While the service is up, a row that reads running is that of an execution
\* which runs, or the database itself refused to close it: both attempts of
\* the execution, or the update of the last start.
RowsAreLive ==
    Up => \A r \in OpenRows : pc[r] \in Active \/ r \in refused

\* After a shutdown that WaitAll saw through, of the executions it waited for
\* only those have an open row whose two attempts the database refused: none
\* was cut off before it had tried.
GracefulRows ==
    ~Up /\ drain.over => drain.set \cap OpenRows \subseteq refused

\* A task cancelled before the last look at the context is never recorded as
\* completed, whichever stage the cancellation met.
CancelStopsCompletion ==
    \A r \in Runs :
        [](pc[r] \in BeforeCommit /\ Cancelled(r) => [](history[r] # "completed"))

\* A row that reads running is closed at last, by its execution or by a later
\* start, unless the database refused it and the service then stays up for
\* ever: nothing but a start looks at such a row again.
RowsSettle ==
    \A r \in Runs :
        history[r] = "running" ~> (history[r] # "running" \/ [](Up /\ r \in refused))

\* What the comments on step 12 and finishCancelledTask say: a task the user
\* cancelled (and was told so) does not become completed afterwards.
CancelHasPriority ==
    [][\A r \in Runs : rt[r].status = "cancelled" => rt'[r].status # "completed"]_vars
=============================================================================
