------------------------ MODULE TaskSchedulerProofs ------------------------
(***************************************************************************)
(* Proofs about TaskScheduler for any tasks, goroutines, hours and         *)
(* intervals: type correctness, and that executing is exact.               *)
(***************************************************************************)
EXTENDS TaskScheduler, TLAPS

-----------------------------------------------------------------------------
(* Operators *)

\* The entries of tasks.json that the model writes are entries.
LEMMA AbsentIsEntry == Absent \in Entry
  BY CapAssumption DEF Absent, Entry, Modes, Ages

LEMMA EmptyIsFile == Empty \in File
  BY AbsentIsEntry DEF Empty, File

\* A minute makes an entry older and leaves it an entry.
LEMMA OlderIsEntry == ASSUME NEW e \in Entry PROVE Older(e) \in Entry
  <1>1. e.mode \in Modes /\ e.age \in Ages
    BY DEF Entry
  <1>2. (IF e.age = Cap THEN Cap ELSE e.age + 1) \in Ages
    BY <1>1, CapAssumption DEF Ages
  <1> QED
    BY <1>1, <1>2 DEF Older, Entry

LEMMA OlderFileIsFile == ASSUME NEW f \in File PROVE OlderFile(f) \in File
  BY OlderIsEntry DEF OlderFile, File

\* An empty file stays empty.
LEMMA OlderEmpty == OlderFile(Empty) = Empty
  BY DEF OlderFile, Empty, Older, Absent

\* So does a minute for a job.
LEMMA OlderIsJob == ASSUME NEW j \in Job PROVE Older(j) \in Job
  <1>1. CASE j = Absent
    BY <1>1 DEF Older, Absent, Job
  <1>2. CASE j \in [mode : Scheduled, age : Ages]
    <2>1. (IF j.age = Cap THEN Cap ELSE j.age + 1) \in Ages
      BY <1>2, CapAssumption DEF Ages
    <2> QED
      BY <1>2, <2>1 DEF Older, Job
  <1> QED
    BY <1>1, <1>2 DEF Job

LEMMA StampedIsFile ==
  ASSUME NEW f \in File, NEW t \in Ids, NEW a \in Ages PROVE Stamped(f, t, a) \in File
  BY DEF Stamped, File, Entry

LEMMA SchedulesAreJobs == ASSUME NEW f \in File PROVE Schedules(f) \in [Ids -> Job]
  <1>1. \A t \in Ids : f[t].mode \in Scheduled => f[t] \in [mode : Scheduled, age : Ages]
    BY DEF File, Entry
  <1> QED
    BY <1>1 DEF Schedules, Job

LEMMA StampsAreAges == {-1, 0, Cap} \subseteq Ages
  BY CapAssumption DEF Ages

-----------------------------------------------------------------------------
(* Type correctness *)

\* The initial states are well typed.
LEMMA InitTyped == Init => TypeOK
  <1> SUFFICES ASSUME Init PROVE TypeOK
    OBVIOUS
  <1>1. file \in File
    BY UserAssumption, StampsAreAges DEF Init, File, Entry, Modes
  <1>2. minute \in 0..Day-1
    BY TimeAssumption DEF Init
  <1>3. jobs \in [Ids -> Job]
    BY DEF Init, Empty, Job
  <1>4. fires \in [Fires -> Firing \cup {IdleFire}]
    BY DEF Init
  <1>5. refreshes \in [Refreshers -> Refreshing]
    BY EmptyIsFile DEF Init, CalledRefresh, IdleRefresh, Refreshing
  <1>6. writer \in Writing \cup {NoWriter}
    BY DEF Init
  <1>7. phase \in {"down", "up"} /\ executing \in SUBSET Ids /\ todo \in SUBSET Ids
    BY DEF Init
  <1> QED
    BY <1>1, <1>2, <1>3, <1>4, <1>5, <1>6, <1>7 DEF TypeOK

\* RefreshAll keeps the types.
LEMMA RefreshTyped ==
  ASSUME TypeOK, NEW r \in Refreshers, RefreshStep(r) PROVE TypeOK'
  <1>1. CASE RefreshRead(r)
    BY <1>1, EmptyIsFile DEF TypeOK, RefreshRead, Refreshing, IdleRefresh, schedVars
  <1>2. CASE RefreshApply(r)
    <2>1. refreshes[r].snap \in File
      BY DEF TypeOK, Refreshing
    <2>2. jobs' \in [Ids -> Job]
      BY <1>2, <2>1, SchedulesAreJobs DEF RefreshApply
    <2> QED
      BY <1>2, <2>2, EmptyIsFile DEF TypeOK, RefreshApply, Refreshing, IdleRefresh
  <1> QED
    BY <1>1, <1>2 DEF RefreshStep

\* A tick keeps the types.
LEMMA TickTyped == ASSUME TypeOK, Tick PROVE TypeOK'
  <1>1. file' \in File
    BY OlderFileIsFile DEF TypeOK, Tick
  <1>2. minute' \in 0..Day-1
    BY TimeAssumption DEF TypeOK, Tick
  <1>3. jobs' \in [Ids -> Job]
    BY OlderIsJob DEF TypeOK, Tick, OlderFile
  <1>4. fires' \in [Fires -> Firing \cup {IdleFire}]
    <2> SUFFICES ASSUME NEW f \in Fires
                 PROVE [at |-> fires[f].at, id |-> fires[f].id,
                        snap |-> OlderFile(fires[f].snap)] \in Firing \cup {IdleFire}
      BY DEF Tick
    <2>1. CASE fires[f] = IdleFire
      BY <2>1, OlderEmpty DEF IdleFire
    <2>2. CASE fires[f] \in Firing
      BY <2>2, OlderFileIsFile DEF Firing
    <2> QED
      BY <2>1, <2>2 DEF TypeOK
  <1>5. refreshes' \in [Refreshers -> Refreshing]
    <2> SUFFICES ASSUME NEW r \in Refreshers
                 PROVE [at |-> refreshes[r].at,
                        snap |-> OlderFile(refreshes[r].snap)] \in Refreshing
      BY DEF Tick
    <2>1. refreshes[r] \in Refreshing
      BY DEF TypeOK
    <2> QED
      BY <2>1, OlderFileIsFile DEF Refreshing
  <1>6. writer' \in Writing \cup {NoWriter}
    <2>1. CASE writer = NoWriter
      BY <2>1, OlderEmpty DEF Tick, NoWriter
    <2>2. CASE writer \in Writing
      BY <2>2, OlderFileIsFile DEF Tick, Writing
    <2> QED
      BY <2>1, <2>2 DEF TypeOK
  <1>7. phase' \in {"down", "up"} /\ executing' \in SUBSET Ids /\ todo' \in SUBSET Ids
    BY DEF TypeOK, Tick
  <1> QED
    BY <1>1, <1>2, <1>3, <1>4, <1>5, <1>6, <1>7 DEF TypeOK

\* Starting a task keeps the types.
LEMMA TickJobTyped == ASSUME TypeOK, NEW t \in Ids, TickJob(t) PROVE TypeOK'
  <1>1. CASE t \in executing
    BY <1>1 DEF TypeOK, TickJob
  <1>2. CASE t \notin executing
    <2>1. PICK f \in Fires : Fire(t, f)
      BY <1>2 DEF TickJob
    <2>2. fires' \in [Fires -> Firing \cup {IdleFire}]
      BY <2>1, EmptyIsFile DEF TypeOK, Fire, Firing
    <2>3. executing' \in SUBSET Ids
      BY <2>1 DEF TypeOK, Fire
    <2> QED
      BY <2>2, <2>3 DEF TypeOK, TickJob
  <1> QED
    BY <1>1, <1>2

\* A goroutine that works or ends keeps the types.
LEMMA GoroutineTyped ==
  ASSUME TypeOK, NEW f \in Fires, GoroutineStep(f) PROVE TypeOK'
  <1>1. fires[f] = IdleFire \/ fires[f] \in Firing
    BY DEF TypeOK
  <1>2. CASE FireReturn(f)
    <2>1. fires[f] \in Firing
      BY <1>1, <1>2 DEF FireReturn, IdleFire
    <2>2. fires' \in [Fires -> Firing \cup {IdleFire}]
      BY <1>2, <2>1, StampedIsFile, StampsAreAges DEF TypeOK, FireReturn, Firing
    <2> QED
      BY <1>2, <2>2 DEF TypeOK, FireReturn
  <1>3. CASE FireSave(f)
    <2>1. fires[f] \in Firing
      BY <1>1, <1>3 DEF FireSave, IdleFire
    <2>2. file' \in File
      BY <1>3, <2>1 DEF FireSave, SaveTasks, TypeOK, Firing
    <2> QED
      BY <1>3, <2>2 DEF TypeOK, FireSave, Finish
  <1>4. CASE FireSkip(f)
    BY <1>4 DEF TypeOK, FireSkip, Finish
  <1> QED
    BY <1>2, <1>3, <1>4 DEF GoroutineStep

\* Starting a RefreshAll keeps the types.
LEMMA GoRefreshTyped ==
  ASSUME TypeOK, GoRefresh PROVE refreshes' \in [Refreshers -> Refreshing]
  BY EmptyIsFile DEF TypeOK, GoRefresh, CalledRefresh, Refreshing

\* The other writers keep the types.
LEMMA WritersTyped ==
  ASSUME TypeOK,
         \/ \E t \in Ids : EditRead(t) \/ HandleDeleteTask(t)
         \/ EditWrite \/ HandleStartTask \/ CascadeRead \/ CascadeSave
  PROVE  TypeOK'
  <1>1. ASSUME NEW t \in Ids, EditRead(t) PROVE TypeOK'
    <2>1. file[t].age \in Ages
      BY DEF TypeOK, File, Entry
    <2>2. PICK m \in UserModes, a \in Ages :
            writer' = [at |-> "upsert", id |-> t,
                       snap |-> [Empty EXCEPT ![t] = [mode |-> m, age |-> a]]]
      BY <1>1, <2>1, StampsAreAges DEF EditRead
    <2>3. [mode |-> m, age |-> a] \in Entry
      BY <2>2, UserAssumption DEF Entry
    <2>4. writer' \in Writing
      BY <2>2, <2>3, EmptyIsFile DEF Writing, File
    <2> QED
      BY <1>1, <2>4 DEF TypeOK, EditRead, schedVars
  <1>2. ASSUME NEW t \in Ids, HandleDeleteTask(t) PROVE TypeOK'
    <2>1. file' \in File
      BY <1>2, AbsentIsEntry DEF TypeOK, HandleDeleteTask, DeleteTask, File
    <2> QED
      BY <1>2, <2>1, GoRefreshTyped DEF TypeOK, HandleDeleteTask, schedVars
  <1>3. CASE EditWrite
    <2>1. writer \in Writing
      BY <1>3 DEF TypeOK, EditWrite, NoWriter
    <2>2. file' \in File
      BY <1>3, <2>1 DEF TypeOK, EditWrite, UpsertTask, Writing, File
    <2> QED
      BY <1>3, <2>2, GoRefreshTyped DEF TypeOK, EditWrite, schedVars
  <1>4. CASE HandleStartTask
    BY <1>4, GoRefreshTyped DEF TypeOK, HandleStartTask, schedVars
  <1>5. CASE CascadeRead
    BY <1>5 DEF TypeOK, CascadeRead, Writing, schedVars
  <1>6. CASE CascadeSave
    <2>1. writer \in Writing
      BY <1>6 DEF TypeOK, CascadeSave, NoWriter
    <2>2. file' \in File
      BY <1>6, <2>1 DEF TypeOK, CascadeSave, SaveTasks, Writing
    <2> QED
      BY <1>6, <2>2 DEF TypeOK, CascadeSave, schedVars
  <1> QED
    BY <1>1, <1>2, <1>3, <1>4, <1>5, <1>6

\* The end and the start of the process keep the types.
LEMMA ProcessTyped == ASSUME TypeOK, Die \/ Boot PROVE TypeOK'
  <1>1. Empty \in [Ids -> Job]
    BY DEF Empty, Job
  <1>2. IdleRefresh \in Refreshing /\ CalledRefresh \in Refreshing
    BY EmptyIsFile DEF IdleRefresh, CalledRefresh, Refreshing
  <1>3. CASE Die
    BY <1>1, <1>2, <1>3 DEF TypeOK, Die
  <1>4. CASE Boot
    BY <1>2, <1>4 DEF TypeOK, Boot
  <1> QED
    BY <1>3, <1>4

\* Every step keeps the types.
LEMMA NextTyped == ASSUME TypeOK, [Next]_vars PROVE TypeOK'
  <1>1. CASE LoopStep
    BY <1>1, TickTyped, TickJobTyped DEF LoopStep
  <1>2. CASE \E r \in Refreshers : RefreshStep(r)
    BY <1>2, RefreshTyped
  <1>3. CASE \E f \in Fires : GoroutineStep(f)
    BY <1>3, GoroutineTyped
  <1>4. CASE \/ \E t \in Ids : EditRead(t) \/ HandleDeleteTask(t)
             \/ EditWrite \/ HandleStartTask \/ CascadeRead \/ CascadeSave
    BY <1>4, WritersTyped
  <1>5. CASE Die \/ Boot
    BY <1>5, ProcessTyped
  <1>6. CASE UNCHANGED vars
    BY <1>6 DEF TypeOK, vars
  <1> QED
    BY <1>1, <1>2, <1>3, <1>4, <1>5, <1>6 DEF Next

\* The scheduler, the requests beside it and tasks.json keep their types.
THEOREM SchedulerTypeCorrect == Spec => []TypeOK
  BY InitTyped, NextTyped, PTL DEF Spec

-----------------------------------------------------------------------------
(* The scheduler starts no task beside itself *)

\* executing and the goroutines only change together.
LEMMA FiringUnchanged ==
  ASSUME FiringIsExclusive, UNCHANGED <<executing, fires>> PROVE FiringIsExclusive'
  BY DEF FiringIsExclusive, Running

\* The age of a snapshot says nothing of who runs.
LEMMA TickExclusive == ASSUME FiringIsExclusive, Tick PROVE FiringIsExclusive'
  <1>1. \A f \in Fires : fires'[f].at = fires[f].at /\ fires'[f].id = fires[f].id
    BY DEF Tick
  <1>2. Running' = Running
    BY <1>1 DEF Running
  <1>3. \A f \in Running : fires'[f].id = fires[f].id
    BY <1>1 DEF Running
  <1>4. executing' = executing
    BY DEF Tick
  <1> QED
    BY <1>2, <1>3, <1>4 DEF FiringIsExclusive

\* A task is started only when no goroutine has it: executing is exact.
LEMMA TickJobExclusive ==
  ASSUME TypeOK, FiringIsExclusive, NEW t \in Ids, TickJob(t) PROVE FiringIsExclusive'
  <1>1. CASE t \in executing
    BY <1>1, FiringUnchanged DEF TickJob
  <1>2. CASE t \notin executing
    <2>1. PICK f \in Fires : Fire(t, f)
      BY <1>2 DEF TickJob
    <2>2. \A g \in Running : fires[g].id # t
      BY <1>2 DEF FiringIsExclusive
    <2>3. \A g \in Fires : g # f => fires'[g] = fires[g]
      BY <2>1 DEF Fire, TypeOK
    <2>4. fires'[f].at = "run" /\ fires'[f].id = t /\ f \notin Running
      BY <2>1 DEF Fire, TypeOK, Running
    <2>5. Running' = Running \cup {f}
      BY <2>3, <2>4 DEF Running
    <2>6. \A g \in Running : fires'[g].id = fires[g].id
      BY <2>3, <2>4 DEF Running
    <2>7. executing' = executing \cup {t}
      BY <2>1 DEF Fire
    <2> QED
      BY <2>2, <2>4, <2>5, <2>6, <2>7 DEF FiringIsExclusive
  <1> QED
    BY <1>1, <1>2

\* The goroutine that ends takes its own mark off, and no other has it.
LEMMA FinishExclusive ==
  ASSUME TypeOK, FiringIsExclusive, NEW f \in Running, Finish(f) PROVE FiringIsExclusive'
  <1>1. f \in Fires /\ fires'[f].at = "idle"
    BY DEF Running, Finish, TypeOK, IdleFire
  <1>2. \A g \in Fires : g # f => fires'[g] = fires[g]
    BY DEF Finish, TypeOK
  <1>3. Running' = Running \ {f}
    BY <1>1, <1>2 DEF Running
  <1>4. \A g \in Running \ {f} : fires'[g].id = fires[g].id
    BY <1>2 DEF Running
  <1>5. executing' = executing \ {fires[f].id}
    BY DEF Finish
  <1> QED
    BY <1>3, <1>4, <1>5 DEF FiringIsExclusive

\* A goroutine at work keeps its task.
LEMMA GoroutineExclusive ==
  ASSUME TypeOK, FiringIsExclusive, NEW f \in Fires, GoroutineStep(f)
  PROVE  FiringIsExclusive'
  <1>1. CASE FireReturn(f)
    <2>1. \A g \in Fires : (fires'[g].at = "idle" <=> fires[g].at = "idle")
                            /\ fires'[g].id = fires[g].id
      BY <1>1 DEF FireReturn, TypeOK
    <2>2. Running' = Running
      BY <2>1 DEF Running
    <2>3. \A g \in Running : fires'[g].id = fires[g].id
      BY <2>1 DEF Running
    <2>4. executing' = executing
      BY <1>1 DEF FireReturn
    <2> QED
      BY <2>2, <2>3, <2>4 DEF FiringIsExclusive
  <1>2. CASE FireSave(f)
    BY <1>2, FinishExclusive DEF FireSave, Running
  <1>3. CASE FireSkip(f)
    BY <1>3, FinishExclusive DEF FireSkip, Running
  <1> QED
    BY <1>1, <1>2, <1>3 DEF GoroutineStep

\* No step makes executing inexact.
LEMMA NextExclusive ==
  ASSUME TypeOK, FiringIsExclusive, [Next]_vars PROVE FiringIsExclusive'
  <1>1. CASE LoopStep
    BY <1>1, TickExclusive, TickJobExclusive DEF LoopStep
  <1>2. CASE \E f \in Fires : GoroutineStep(f)
    BY <1>2, GoroutineExclusive
  <1>3. CASE Die
    <2>1. Running' = {}
      BY <1>3 DEF Die, Running, IdleFire
    <2>2. executing' = {}
      BY <1>3 DEF Die
    <2> QED
      BY <2>1, <2>2 DEF FiringIsExclusive
  <1>4. CASE \/ \E r \in Refreshers : RefreshStep(r)
             \/ \E t \in Ids : EditRead(t) \/ HandleDeleteTask(t)
             \/ EditWrite \/ HandleStartTask \/ CascadeRead \/ CascadeSave
             \/ Boot \/ UNCHANGED vars
    <2>1. UNCHANGED <<executing, fires>>
      BY <1>4 DEF RefreshStep, RefreshRead, RefreshApply, EditRead, HandleDeleteTask, EditWrite,
                  HandleStartTask, CascadeRead, CascadeSave, Boot, schedVars, vars
    <2> QED
      BY <2>1, FiringUnchanged
  <1> QED
    BY <1>1, <1>2, <1>3, <1>4 DEF Next

\* executing names exactly the tasks that have a goroutine, one each.
THEOREM SchedulerStartsOnce == Spec => []FiringIsExclusive
  <1>1. Init => FiringIsExclusive
    BY DEF Init, FiringIsExclusive, Running, IdleFire
  <1> QED
    BY <1>1, SchedulerTypeCorrect, NextExclusive, PTL DEF Spec
=============================================================================
