--------------------------- MODULE TaskScheduler ---------------------------
(***************************************************************************)
(* The scheduler of internal/service/task/scheduler.go: jobs copied from   *)
(* tasks.json, a loop that looks at them once a minute, and one goroutine  *)
(* per task it starts; beside it whoever else writes tasks.json.  What     *)
(* ExecuteTask does is TaskExecutor's matter: here it is the time a        *)
(* goroutine spends before it stamps lastRunAt.                            *)
(***************************************************************************)
EXTENDS TasksStore

CONSTANTS Fires,            \* goroutines of the scheduler
          Refreshers,       \* goroutines that run RefreshAll
          Loop,             \* the one of them that goes on as the loop
          None,
          Hour, Day,        \* minutes of an hour and of a day
          IntervalMinutes,  \* of the tasks in interval mode
          MinInterval,      \* MIN_INTERVAL_MINUTES
          DailyAt,          \* minute of the day of the tasks in daily mode
          UserModes         \* the modes users choose

ASSUME TimeAssumption ==
    /\ Hour \in Nat \ {0} /\ Day \in Nat \ {0} /\ DailyAt \in 0..Day-1
    /\ MinInterval \in Nat \ {0} /\ IntervalMinutes \in Nat
    /\ IntervalMinutes <= Cap /\ MinInterval <= Cap
ASSUME LoopAssumption == Loop \in Refreshers /\ None \notin Ids
ASSUME UserAssumption == UserModes \subseteq Modes \ {"absent"}

VARIABLES phase,      \* of the process: "down", "up"
          minute,     \* of the day
          jobs,       \* Scheduler.jobs: copies of the schedules
          executing,  \* Scheduler.executing
          todo,       \* what the current tick has still to start
          fires,      \* the goroutines of tick
          refreshes,  \* the goroutines of RefreshAll
          writer      \* a request between its read of tasks.json and its write

vars == <<file, phase, minute, jobs, executing, todo, fires,
          refreshes, writer>>
schedVars == <<phase, minute, jobs, executing, todo, fires>>

Scheduled == {"interval", "daily"}
Job == [mode : Scheduled, age : Ages] \cup {Absent}
IdleFire == [at |-> "idle", id |-> None, snap |-> Empty]
IdleRefresh == [at |-> "idle", snap |-> Empty]
CalledRefresh == [at |-> "called", snap |-> Empty]
NoWriter == [at |-> "idle", id |-> None, snap |-> Empty]

\* A goroutine of a task, a RefreshAll, and a request that is under way.
Firing == [at : {"run", "save"}, id : Ids, snap : File]
Refreshing == [at : {"idle", "called", "apply"}, snap : File]
Writing == [at : {"upsert", "rename"}, id : Ids \cup {None}, snap : File]

TypeOK ==
    /\ file \in File
    /\ phase \in {"down", "up"}
    /\ minute \in 0..Day-1
    /\ jobs \in [Ids -> Job]
    /\ executing \in SUBSET Ids
    /\ todo \in SUBSET Ids
    /\ fires \in [Fires -> Firing \cup {IdleFire}]
    /\ refreshes \in [Refreshers -> Refreshing]
    /\ writer \in Writing \cup {NoWriter}

\* Init leaves the first RefreshAll to the goroutine of the loop.
Init ==
    /\ file \in [Ids -> [mode : UserModes \cup {"absent"}, age : {Cap}]]
    /\ phase = "up"
    /\ minute = 0
    /\ jobs = Empty
    /\ executing = {}
    /\ todo = {}
    /\ fires = [f \in Fires |-> IdleFire]
    /\ refreshes = [r \in Refreshers |-> IF r = Loop THEN CalledRefresh ELSE IdleRefresh]
    /\ writer = NoWriter

Up == phase # "down"
Running == {f \in Fires : fires[f].at # "idle"}
Looping == phase = "up" /\ refreshes[Loop].at = "idle"

-----------------------------------------------------------------------------
(* RefreshAll *)

\* go RefreshAll; that a goroutine is left bounds the model.
GoRefresh ==
    \E r \in Refreshers \ {Loop} :
        /\ refreshes[r].at = "idle"
        /\ refreshes' = [refreshes EXCEPT ![r] = CalledRefresh]

\* ReadTasks, before the scheduler's mutex is taken.
RefreshRead(r) ==
    /\ Up /\ refreshes[r].at = "called"
    /\ \E next \in {[at |-> "apply", snap |-> file], IdleRefresh} :
         refreshes' = [refreshes EXCEPT ![r] = next]
    /\ UNCHANGED <<file, schedVars, writer>>

\* The schedules of f: a task without an enabled one has no job.
Schedules(f) == [t \in Ids |-> IF f[t].mode \in Scheduled THEN f[t] ELSE Absent]

RefreshApply(r) ==
    /\ Up /\ refreshes[r].at = "apply"
    /\ jobs' = Schedules(refreshes[r].snap)
    /\ refreshes' = [refreshes EXCEPT ![r] = IdleRefresh]
    /\ UNCHANGED <<file, phase, minute, executing, todo, fires, writer>>

-----------------------------------------------------------------------------
(* The loop *)

Interval == IF IntervalMinutes < MinInterval THEN MinInterval ELSE IntervalMinutes

\* Mutant: the minute of the hour is compared with the interval itself.
ShouldFireAtInterval(j, m) ==
    \/ j.mode = "interval" /\ j.age >= Interval /\ m % Hour = Interval
    \/ j.mode = "daily" /\ m = DailyAt

ShouldFire(j, m) ==
    \/ j.mode = "interval" /\ j.age >= Interval /\ (m % Hour) % Interval = 0
    \/ j.mode = "daily" /\ m = DailyAt

\* A minute passes: every stamp is older, and the loop looks at its jobs.
\* One tick is over before the next one comes.
Tick ==
    /\ Looping /\ todo = {}
    /\ minute' = (minute + 1) % Day
    /\ jobs' = OlderFile(jobs)
    /\ todo' = {t \in Ids : ShouldFire(jobs'[t], minute')}
    /\ file' = OlderFile(file)
    /\ fires' = [f \in Fires |-> [at |-> fires[f].at, id |-> fires[f].id,
                                  snap |-> OlderFile(fires[f].snap)]]
    /\ refreshes' = [r \in Refreshers |-> [at |-> refreshes[r].at,
                                           snap |-> OlderFile(refreshes[r].snap)]]
    /\ writer' = [at |-> writer.at, id |-> writer.id, snap |-> OlderFile(writer.snap)]
    /\ UNCHANGED <<phase, executing>>

\* Starts t in the goroutine f.
Fire(t, f) ==
    /\ fires[f].at = "idle"
    /\ executing' = executing \cup {t}
    /\ fires' = [fires EXCEPT ![f] = [at |-> "run", id |-> t, snap |-> Empty]]

\* Mutant: executing is not looked at.
TickJobBlind(t) ==
    /\ Up /\ t \in todo
    /\ todo' = todo \ {t}
    /\ \E f \in Fires : Fire(t, f)
    /\ UNCHANGED <<file, phase, minute, jobs, refreshes, writer>>

\* One round of tick's loop: a task that still runs is passed over.
TickJob(t) ==
    /\ Up /\ t \in todo
    /\ todo' = todo \ {t}
    /\ IF t \in executing THEN UNCHANGED <<executing, fires>>
       ELSE \E f \in Fires : Fire(t, f)
    /\ UNCHANGED <<file, phase, minute, jobs, refreshes, writer>>

-----------------------------------------------------------------------------
(* The goroutine of a task *)

\* The tasks of f, with a stamp of age a on t.
Stamped(f, t, a) == [f EXCEPT ![t] = [mode |-> f[t].mode, age |-> a]]

\* ExecuteTask returned, whatever it says; updateLastRunAt reads the tasks,
\* and has something to save when the task is there with a schedule.
FireReturn(f) ==
    /\ Up /\ fires[f].at = "run"
    /\ file[fires[f].id].mode \in Scheduled
    /\ \E a \in {-1, 0} :
         fires' = [fires EXCEPT ![f] = [at |-> "save", id |-> fires[f].id,
                                        snap |-> Stamped(file, fires[f].id, a)]]
    /\ UNCHANGED <<file, phase, minute, jobs, executing, todo, refreshes, writer>>

\* The deferred call takes the mark off, and the goroutine is no more.
Finish(f) ==
    /\ fires' = [fires EXCEPT ![f] = IdleFire]
    /\ executing' = executing \ {fires[f].id}

\* The list read before is written back now, with its stamp.
FireSave(f) ==
    /\ Up /\ fires[f].at = "save"
    /\ SaveTasks(fires[f].snap)
    /\ Finish(f)
    /\ UNCHANGED <<phase, minute, jobs, todo, refreshes, writer>>

\* There is nothing to save: no such task, no schedule, or no readable file.
FireSkip(f) ==
    /\ Up /\ fires[f].at = "run"
    /\ Finish(f)
    /\ UNCHANGED <<file, phase, minute, jobs, todo, refreshes, writer>>

-----------------------------------------------------------------------------
(* The other writers of tasks.json *)

\* HandleUpsertTask reads the list: what it will write is a copy of the task,
\* with the schedule of the request or the one the copy has.  A task in
\* manual mode has no schedule and no lastRunAt.
EditRead(t) ==
    /\ Up /\ writer.at = "idle"
    /\ \E m \in UserModes : \E a \in {Cap} \cup (IF m = "manual" THEN {} ELSE {file[t].age}) :
         writer' = [at |-> "upsert", id |-> t,
                    snap |-> [Empty EXCEPT ![t] = [mode |-> m, age |-> a]]]
    /\ UNCHANGED <<file, schedVars, refreshes>>

EditWrite ==
    /\ Up /\ writer.at = "upsert"
    /\ UpsertTask(writer.id, writer.snap[writer.id])
    /\ writer' = NoWriter
    /\ GoRefresh
    /\ UNCHANGED schedVars

HandleDeleteTask(t) ==
    /\ Up /\ file[t].mode # "absent"
    /\ DeleteTask(t)
    /\ GoRefresh
    /\ UNCHANGED <<schedVars, writer>>

\* The task HandleStartTask started is over.
HandleStartTask ==
    /\ Up /\ GoRefresh
    /\ UNCHANGED <<file, schedVars, writer>>

\* CascadeAccountRename: the accounts it changes are not the schedules it
\* carries along.
CascadeRead ==
    /\ Up /\ writer.at = "idle"
    /\ writer' = [at |-> "rename", id |-> None, snap |-> file]
    /\ UNCHANGED <<file, schedVars, refreshes>>

CascadeSave ==
    /\ Up /\ writer.at = "rename"
    /\ SaveTasks(writer.snap)
    /\ writer' = NoWriter
    /\ UNCHANGED <<schedVars, refreshes>>

-----------------------------------------------------------------------------
(* The process *)

\* Stop ends the loop and the process ends, or it crashes: what it holds in
\* memory is gone, tasks.json stays.
Die ==
    /\ Up
    /\ phase' = "down"
    /\ jobs' = Empty
    /\ executing' = {}
    /\ todo' = {}
    /\ fires' = [f \in Fires |-> IdleFire]
    /\ refreshes' = [r \in Refreshers |-> IdleRefresh]
    /\ writer' = NoWriter
    /\ UNCHANGED <<file, minute>>

Boot ==
    /\ ~Up
    /\ phase' = "up"
    /\ refreshes' = [refreshes EXCEPT ![Loop] = CalledRefresh]
    /\ UNCHANGED <<file, minute, jobs, executing, todo, fires, writer>>

LoopStep == Tick \/ \E t \in Ids : TickJob(t)
RefreshStep(r) == RefreshRead(r) \/ RefreshApply(r)
GoroutineStep(f) == FireReturn(f) \/ FireSave(f) \/ FireSkip(f)

Next ==
    \/ LoopStep
    \/ \E r \in Refreshers : RefreshStep(r)
    \/ \E f \in Fires : GoroutineStep(f)
    \/ \E t \in Ids : EditRead(t) \/ HandleDeleteTask(t)
    \/ EditWrite \/ HandleStartTask \/ CascadeRead \/ CascadeSave
    \/ Die \/ Boot

Spec == Init /\ [][Next]_vars

\* Minutes pass and the goroutine of the loop runs; the others may hang.
FairSpec == Spec /\ WF_vars(LoopStep) /\ WF_vars(RefreshStep(Loop))

-----------------------------------------------------------------------------
(* Properties *)

\* executing names exactly the tasks that have a goroutine, and no task has
\* two: the scheduler starts no task beside itself and forgets none.
FiringIsExclusive ==
    /\ \A f, g \in Running : fires[f].id = fires[g].id => f = g
    /\ executing = {fires[f].id : f \in Running}

\* While the loop lives, a registered job is started in the end, unless the
\* job goes: no stamp, refresh or overlapping run keeps it waiting for ever.
Pending(t, m) == phase = "up" /\ jobs[t].mode = m
JobsFire ==
    \A t \in Ids : \A m \in Scheduled :
        Pending(t, m) ~> t \in executing \/ ~Pending(t, m)

\* What the comment on shouldFire says: the tick picks an interval task that
\* does not run only when its lastRunAt is at least the interval ago.
IntervalKept ==
    [][\A t \in Ids :
         /\ t \in todo' \ (todo \cup executing)
         /\ file[t].mode = "interval" /\ jobs[t].mode = "interval"
         => file'[t].age >= Interval]_vars

\* What the comments on UpsertTask and DeleteTask ask of whoever writes: only
\* a write of the user changes what the user wrote, no list read before does.
UserWritesLast ==
    [][\A t \in Ids : file'[t].mode # file[t].mode => EditWrite \/ HandleDeleteTask(t)]_vars
=============================================================================
