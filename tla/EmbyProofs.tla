---------------------------- MODULE EmbyProofs ----------------------------
(***************************************************************************)
(* What TLAPS proves of the service's dealings with Emby: of the refreshes *)
(* it asks for (EmbyRefresh), the reports it gets (EmbyEvents) and the     *)
(* playback it relays (EmbyProxy), each for any number of directories,     *)
(* episodes, clients, sources and requests.                                *)
(***************************************************************************)
EXTENDS EmbyRefresh, EmbyEvents, EmbyProxy, FiniteSetTheorems, SequenceTheorems, WellFoundedInduction, TLAPS

(***************************************************************************)
(* Refreshes: no change is forgotten by the debounce timers.  The invariant *)
(* says of the map what makes it so: its entry for a directory is a timer  *)
(* of that directory, so that stopping it stops no other one's.            *)
(***************************************************************************)

Timer == [dir : Folders \cup {Outside}, at : Stages]

RefreshTyped ==
  /\ calls \in [Folders -> Nat] /\ stale \subseteq Folders
  /\ timers \in [Slots -> Timer] /\ debounce \in [Folders -> {0} \cup Slots]

\* debounceMap names only timers of the directory it is asked for.
MapTells ==
  \A d \in Folders : debounce[d] # 0 => timers[debounce[d]].dir = d /\ At(debounce[d]) # "free"

RefreshInv == RefreshAssumption /\ RefreshTyped /\ MapTells /\ ChangesFollowed

-----------------------------------------------------------------------------
LEMMA RefreshStart == RefreshAssumption /\ RefreshInit => RefreshInv
BY DEF RefreshAssumption, RefreshInit, RefreshInv, RefreshTyped, MapTells, ChangesFollowed, Timer, Free, Stages, Slots

\* What the steps of one timer leave of the others, and of its directory.
LEMMA MoveTimer ==
  ASSUME RefreshTyped, NEW s \in Slots, NEW at \in Stages, Move(s, at)
  PROVE  /\ timers' \in [Slots -> Timer]
         /\ timers'[s].dir = timers[s].dir /\ timers'[s].at = at
         /\ \A t \in Slots \ {s} : timers'[t] = timers[t]
<1>1. timers' = [timers EXCEPT ![s] = [dir |-> timers[s].dir, at |-> at]]
  BY DEF Move
<1>2. timers[s].dir \in Folders \cup {Outside}
  BY DEF RefreshTyped, Timer
<1>3. [dir |-> timers[s].dir, at |-> at] \in Timer
  BY <1>2 DEF Timer
<1> QED BY <1>1, <1>3 DEF RefreshTyped

\* A timer that goes on, armed, queued or running, keeps its directory followed.
LEMMA TimerGoesOn ==
  ASSUME RefreshInv, NEW s \in Slots, NEW at \in {"queued", "running"}, Move(s, at),
         At(s) # "free", UNCHANGED <<calls, stale, debounce, missed>>
  PROVE  RefreshInv'
<1>1. at \in Stages
  BY DEF Stages
<1>2. RefreshTyped'
  BY <1>1, MoveTimer DEF RefreshInv, RefreshTyped
<1>3. MapTells'
  BY <1>1, MoveTimer DEF RefreshInv, MapTells, RefreshTyped, At
<1>4. ChangesFollowed'
  BY <1>1, MoveTimer DEF RefreshInv, ChangesFollowed, RefreshTyped, At
<1> QED BY <1>2, <1>3, <1>4 DEF RefreshInv, RefreshAssumption

\* A timer that comes to its end leaves its directory refreshed or given up.
LEMMA TimerEnds ==
  ASSUME RefreshInv, NEW s \in Slots, Move(s, "unmap"), At(s) # "free", UNCHANGED <<calls, debounce>>,
         stale' \subseteq stale, missed \subseteq missed', timers[s].dir \notin stale' \ missed'
  PROVE  RefreshInv'
<1>1. "unmap" \in Stages
  BY DEF Stages
<1>2. RefreshTyped'
  BY <1>1, MoveTimer DEF RefreshInv, RefreshTyped
<1>3. MapTells'
  BY <1>1, MoveTimer DEF RefreshInv, MapTells, RefreshTyped, At
<1>4. ChangesFollowed'
  BY <1>1, MoveTimer DEF RefreshInv, ChangesFollowed, RefreshTyped, At
<1> QED BY <1>2, <1>3, <1>4 DEF RefreshInv, RefreshAssumption

\* Stopping the timer of the map and arming a new one touches no other
\* directory's timer.
LEMMA ArmKeepsOthers ==
  ASSUME RefreshInv, NEW d \in Folders, Arm(d), \E s \in Slots : At(s) = "free"
  PROVE  /\ timers' \in [Slots -> Timer]
         /\ \E s \in Slots :
              /\ timers'[s] = [dir |-> d, at |-> "armed"]
              /\ debounce' = [debounce EXCEPT ![d] = s]
         /\ \A t \in Slots :
              timers[t].dir # d /\ At(t) # "free" => timers'[t] = timers[t]
<1> DEFINE stopped == Stopped(d)
           s == FreeOf(stopped)
<1>1. stopped \in [Slots -> Timer] /\ \A t \in Slots : At(t) = "free" => stopped[t].at = "free"
  BY DEF RefreshInv, RefreshTyped, Stopped, Free, Timer, Stages, At
<1>2. \A t \in Slots : timers[t].dir # d => stopped[t] = timers[t]
  BY DEF RefreshInv, MapTells, RefreshTyped, Stopped, Slots
<1> HIDE DEF stopped
<1>3. s \in Slots /\ stopped[s].at = "free"
  BY <1>1 DEF FreeOf
<1>4. timers' = [t \in Slots |-> IF t = s THEN [dir |-> d, at |-> "armed"] ELSE stopped[t]]
  BY DEF Arm, Armed, stopped
<1>5. debounce' = [debounce EXCEPT ![d] = s]
  BY DEF Arm, stopped
<1> HIDE DEF s
<1>6. [dir |-> d, at |-> "armed"] \in Timer
  BY DEF Timer, Stages
<1>7. timers' \in [Slots -> Timer] /\ timers'[s] = [dir |-> d, at |-> "armed"]
  BY <1>1, <1>3, <1>4, <1>6
<1>8. ASSUME NEW t \in Slots, timers[t].dir # d, At(t) # "free" PROVE timers'[t] = timers[t]
  BY <1>2, <1>3, <1>4, <1>8 DEF At
<1> QED BY <1>3, <1>5, <1>7, <1>8

LEMMA ArmStep ==
  ASSUME RefreshInv, NEW d \in Folders, RefreshByPath(d), on
  PROVE  RefreshInv'
<1>1. /\ calls' = [calls EXCEPT ![d] = @ - 1] /\ calls[d] > 0
      /\ stale' = stale /\ Arm(d) /\ \E s \in Slots : At(s) = "free"
  BY DEF RefreshByPath
<1>2. timers' \in [Slots -> Timer]
  BY <1>1, ArmKeepsOthers
<1>3. PICK s \in Slots : timers'[s] = [dir |-> d, at |-> "armed"] /\ debounce' = [debounce EXCEPT ![d] = s]
  BY <1>1, ArmKeepsOthers
<1>4. \A t \in Slots : timers[t].dir # d /\ At(t) # "free" => timers'[t] = timers[t]
  BY <1>1, ArmKeepsOthers
<1>5. RefreshTyped'
  BY <1>1, <1>2, <1>3 DEF RefreshInv, RefreshTyped
<1>6. MapTells'
  BY <1>3, <1>4 DEF RefreshInv, MapTells, RefreshTyped, At
<1>7. ChangesFollowed'
  <2>1. missed' = missed
    BY DEF RefreshByPath
  <2> SUFFICES ASSUME NEW e \in stale \ missed
               PROVE  calls'[e] > 0 \/ \E t \in Slots : timers'[t].dir = e /\ timers'[t].at \in {"armed", "queued", "running"}
    BY <1>1, <2>1 DEF ChangesFollowed, At
  <2>2. CASE e = d
    BY <1>3, <2>2
  <2>3. CASE e # d
    BY <1>1, <1>4, <2>3 DEF RefreshInv, RefreshTyped, ChangesFollowed, At
  <2> QED BY <2>2, <2>3
<1> QED BY <1>5, <1>6, <1>7 DEF RefreshInv, RefreshAssumption

LEMMA OffStep ==
  ASSUME RefreshInv, NEW d \in Folders, RefreshByPath(d), ~on
  PROVE  RefreshInv'
BY DEF RefreshByPath, RefreshInv, RefreshAssumption, RefreshTyped, MapTells, ChangesFollowed, At

LEMMA UnmapStep ==
  ASSUME RefreshInv, NEW s \in Slots, Unmap(s)
  PROVE  RefreshInv'
<1>1. Free \in Timer
  BY DEF Free, Timer, Stages
<1>2. RefreshTyped'
  BY <1>1 DEF RefreshInv, Unmap, RefreshTyped
<1>3. MapTells'
  BY DEF RefreshInv, Unmap, RefreshTyped, MapTells, At, Slots
<1>4. ChangesFollowed'
  BY DEF RefreshInv, Unmap, RefreshTyped, ChangesFollowed, At
<1> QED BY <1>2, <1>3, <1>4 DEF RefreshInv, RefreshAssumption

LEMMA RefreshEnds ==
  ASSUME RefreshInv, NEW s \in Slots, DoRefresh(s)
  PROVE  RefreshInv'
<1>1. At(s) = "running" /\ Move(s, "unmap") /\ UNCHANGED <<calls, debounce>>
  BY DEF DoRefresh
<1>2. CASE missed' = missed \cup {timers[s].dir} /\ UNCHANGED stale
  BY <1>1, <1>2, TimerEnds
<1>3. CASE \E e \in FindItemByPath(timers[s].dir) : stale' = stale \ Under(e) /\ UNCHANGED missed
  <2>1. PICK e \in FindItemByPath(timers[s].dir) : stale' = stale \ Under(e) /\ UNCHANGED missed
    BY <1>3
  <2>2. timers[s].dir \notin stale'
    BY <2>1 DEF RefreshInv, RefreshTyped, FindItemByPath, Under
  <2> QED BY <1>1, <2>1, <2>2, TimerEnds
<1> QED BY <1>2, <1>3 DEF DoRefresh

-----------------------------------------------------------------------------
LEMMA RefreshKeeps == RefreshInv /\ [RefreshNext]_refreshVars => RefreshInv'
<1> SUFFICES ASSUME RefreshInv, [RefreshNext]_refreshVars PROVE RefreshInv'
  OBVIOUS
<1>1. ASSUME NEW d \in Folders, Write(d) PROVE RefreshInv'
  BY <1>1 DEF Write, RefreshInv, RefreshAssumption, RefreshTyped, MapTells, ChangesFollowed, At
<1>2. ASSUME NEW d \in Folders, RefreshByPath(d) PROVE RefreshInv'
  BY <1>2, ArmStep, OffStep DEF RefreshByPath
<1>3. ASSUME NEW s \in Slots, Fire(s) PROVE RefreshInv'
  BY <1>3, TimerGoesOn DEF Fire
<1>4. ASSUME NEW s \in Slots, Admit(s) PROVE RefreshInv'
  BY <1>4, TimerGoesOn DEF Admit
<1>5. ASSUME NEW s \in Slots, QueueTimeout(s) PROVE RefreshInv'
  BY <1>5, TimerEnds DEF QueueTimeout
<1>6. ASSUME NEW s \in Slots, DoRefresh(s) PROVE RefreshInv'
  BY <1>6, RefreshEnds
<1>7. ASSUME NEW s \in Slots, Unmap(s) PROVE RefreshInv'
  BY <1>7, UnmapStep
<1>8. CASE Toggle \/ UNCHANGED refreshVars
  BY <1>8 DEF Toggle, refreshVars, RefreshInv, RefreshAssumption, RefreshTyped, MapTells, ChangesFollowed, At
<1> QED BY <1>1, <1>2, <1>3, <1>4, <1>5, <1>6, <1>7, <1>8 DEF RefreshNext

\* A change that Emby was not asked to look at is asked for, or has a timer
\* that will ask, whatever timers are stopped, fire late or give up
\* (service/emby/refresh.go, RefreshByPath).
THEOREM NoChangeForgotten == RefreshAssumption /\ RefreshSpec => []ChangesFollowed
<1>1. RefreshInv => ChangesFollowed
  BY DEF RefreshInv
<1> QED BY RefreshStart, RefreshKeeps, <1>1, PTL DEF RefreshSpec
\* The refreshes at work, of which there are no more than the semaphore has slots.
Running == {s \in Slots : At(s) = "running"}
RefreshTypeInv ==
  /\ RefreshInv /\ RefreshTypeOK
  /\ \A d \in Folders : calls[d] <= writes
  /\ \A s \in Slots : At(s) # "free" => timers[s].dir \in Folders

LEMMA SlotsFinite ==
  ASSUME RefreshAssumption
  PROVE  IsFiniteSet(Slots) /\ Cardinality({}) = 0
<1>1. 1 \in Int /\ Timers \in Int
  BY DEF RefreshAssumption
<1> QED BY <1>1, FS_Interval, FS_EmptySet DEF Slots

\* Timers that do not start to run take no slot.
LEMMA FewerRun ==
  ASSUME RefreshAssumption, Running' \subseteq Running, Cardinality(Running) <= Concurrency
  PROVE  Cardinality(Running') <= Concurrency
<1>1. Running \subseteq Slots
  BY DEF Running
<1>2. IsFiniteSet(Running)
  BY <1>1, SlotsFinite, FS_Subset
<1>3. Cardinality(Running) \in Nat /\ Cardinality(Running') \in Nat /\ Cardinality(Running') <= Cardinality(Running)
  BY <1>2, FS_Subset, FS_CardinalityType
<1> QED BY <1>3 DEF RefreshAssumption

LEMMA OneMoreRuns ==
  ASSUME RefreshInv, NEW s \in Slots, Admit(s)
  PROVE  Cardinality(Running') <= Concurrency
<1>1. At(s) = "queued" /\ Move(s, "running") /\ Cardinality(Running) < Concurrency
  BY DEF Admit, Running
<1>2. Running' = Running \cup {s}
  <2>1. timers'[s].at = "running" /\ \A t \in Slots \ {s} : timers'[t] = timers[t]
    BY <1>1, MoveTimer DEF RefreshInv, Stages
  <2> QED BY <2>1 DEF Running, At
<1>3. IsFiniteSet(Running) /\ s \notin Running
  <2>1. Running \subseteq Slots
    BY DEF Running
  <2> QED BY <1>1, <2>1, SlotsFinite, FS_Subset DEF RefreshInv, Running
<1>4. Cardinality(Running \cup {s}) = Cardinality(Running) + 1 /\ Cardinality(Running) \in Nat
  BY <1>3, FS_AddElement, FS_CardinalityType
<1> QED BY <1>1, <1>2, <1>4 DEF RefreshInv, RefreshAssumption

\* No step but that of a timer that is admitted makes one run.
LEMMA NoneStarts ==
  ASSUME RefreshInv, [RefreshNext]_refreshVars, \A s \in Slots : ~Admit(s)
  PROVE  Running' \subseteq Running
<1>1. ASSUME NEW d \in Folders, Write(d) PROVE Running' \subseteq Running
  BY <1>1 DEF Write, Running, At
<1>2. ASSUME NEW d \in Folders, RefreshByPath(d) PROVE Running' \subseteq Running
  <2>1. CASE ~on
    BY <1>2, <2>1 DEF RefreshByPath, Running, At
  <2>2. CASE on
    <3>1. Arm(d)
      BY <1>2, <2>2 DEF RefreshByPath
    <3>2. \A t \in Slots : Stopped(d)[t].at = "running" => At(t) = "running"
      BY DEF Stopped, At, Free
    <3>3. ASSUME NEW t \in Slots, timers'[t].at = "running" PROVE Stopped(d)[t].at = "running"
      BY <3>1, <3>3 DEF Arm, Armed
    <3> QED BY <3>2, <3>3 DEF Running, At
  <2> QED BY <2>1, <2>2
<1>3. ASSUME NEW s \in Slots, NEW at \in {"queued", "unmap"}, Move(s, at) PROVE Running' \subseteq Running
  <2>1. timers'[s].at = at /\ \A t \in Slots \ {s} : timers'[t] = timers[t]
    BY <1>3, MoveTimer DEF RefreshInv, Stages
  <2> QED BY <2>1 DEF Running, At
<1>4. ASSUME NEW s \in Slots, Fire(s) \/ QueueTimeout(s) \/ DoRefresh(s) PROVE Running' \subseteq Running
  BY <1>3, <1>4 DEF Fire, QueueTimeout, DoRefresh
<1>5. ASSUME NEW s \in Slots, Unmap(s) PROVE Running' \subseteq Running
  BY <1>5 DEF Unmap, Free, RefreshInv, RefreshTyped, Running, At
<1>6. CASE Toggle \/ UNCHANGED refreshVars
  BY <1>6 DEF Toggle, refreshVars, Running, At
<1> QED BY <1>1, <1>2, <1>4, <1>5, <1>6 DEF RefreshNext

LEMMA RefreshTypeStart == RefreshAssumption /\ RefreshInit => RefreshTypeInv
<1> SUFFICES ASSUME RefreshAssumption, RefreshInit PROVE RefreshTypeInv
  OBVIOUS
<1>1. Running = {}
  BY DEF RefreshInit, Running, At, Free
<1>2. Cardinality({s \in Slots : At(s) = "running"}) <= Concurrency
  BY <1>1, SlotsFinite DEF Running, RefreshAssumption
<1>3. Timers \in Nat /\ MaxWrites \in Nat
  BY DEF RefreshAssumption
<1>4. \A s \in Slots : At(s) = "free"
  BY DEF RefreshInit, At, Free
<1> QED BY <1>2, <1>3, <1>4, RefreshStart DEF RefreshInit, RefreshTypeOK, RefreshTypeInv, Free, Stages

\* Only a request for a refresh gives a timer its directory.
LEMMA TimersHaveDirs ==
  ASSUME RefreshTypeInv, [RefreshNext]_refreshVars
  PROVE  (\A s \in Slots : At(s) # "free" => timers[s].dir \in Folders)'
<1>1. RefreshInv /\ \A s \in Slots : At(s) # "free" => timers[s].dir \in Folders
  BY DEF RefreshTypeInv
<1>2. ASSUME NEW d \in Folders, RefreshByPath(d), on
      PROVE  \A s \in Slots : timers'[s].at # "free" => timers'[s].dir \in Folders
  <2>1. Arm(d)
    BY <1>2 DEF RefreshByPath
  <2>2. \A t \in Slots : Stopped(d)[t].at # "free" => Stopped(d)[t].dir \in Folders
    BY <1>1 DEF Stopped, At, Free
  <2> QED BY <2>1, <2>2 DEF Arm, Armed
<1>3. ASSUME NEW s \in Slots, NEW at \in Stages, Move(s, at), At(s) # "free"
      PROVE  \A t \in Slots : timers'[t].at # "free" => timers'[t].dir \in Folders
  BY <1>1, <1>3, MoveTimer DEF RefreshInv, At
<1>4. ASSUME NEW s \in Slots, Fire(s) \/ Admit(s) \/ QueueTimeout(s) \/ DoRefresh(s)
      PROVE  \A t \in Slots : timers'[t].at # "free" => timers'[t].dir \in Folders
  <2>1. PICK at \in {"queued", "running", "unmap"} : Move(s, at) /\ At(s) # "free"
    BY <1>4 DEF Fire, Admit, QueueTimeout, DoRefresh
  <2> QED BY <1>3, <2>1 DEF Stages
<1>5. ASSUME NEW s \in Slots, Unmap(s)
      PROVE  \A t \in Slots : timers'[t].at # "free" => timers'[t].dir \in Folders
  BY <1>1, <1>5 DEF Unmap, Free, RefreshInv, RefreshTyped, At
<1>6. CASE UNCHANGED timers
  BY <1>1, <1>6 DEF At
<1> QED BY <1>2, <1>4, <1>5, <1>6 DEF RefreshNext, RefreshByPath, Write, Toggle, refreshVars, At

\* A request is still to come only for a change that was made.
LEMMA CallsBounded ==
  ASSUME RefreshTypeInv, [RefreshNext]_refreshVars
  PROVE  /\ (\A d \in Folders : calls[d] <= writes)' /\ calls' \in [Folders -> 0 .. MaxWrites]
         /\ writes' \in 0 .. MaxWrites
<1>1. /\ calls \in [Folders -> Nat] /\ writes \in 0 .. MaxWrites /\ MaxWrites \in Nat
      /\ \A d \in Folders : calls[d] <= writes
  BY DEF RefreshTypeInv, RefreshInv, RefreshTyped, RefreshTypeOK, RefreshAssumption
<1>2. ASSUME NEW d \in Folders, Write(d)
      PROVE  /\ calls' \in [Folders -> Nat] /\ writes' \in 0 .. MaxWrites
             /\ \A e \in Folders : calls'[e] <= writes'
  BY <1>1, <1>2 DEF Write
<1>3. ASSUME NEW d \in Folders, RefreshByPath(d)
      PROVE  /\ calls' \in [Folders -> Nat] /\ writes' \in 0 .. MaxWrites
             /\ \A e \in Folders : calls'[e] <= writes'
  BY <1>1, <1>3 DEF RefreshByPath
<1>4. CASE UNCHANGED <<calls, writes>>
  BY <1>1, <1>4
<1>5. /\ calls' \in [Folders -> Nat] /\ writes' \in 0 .. MaxWrites
      /\ \A e \in Folders : calls'[e] <= writes'
  BY <1>1, <1>2, <1>3, <1>4
  DEF RefreshNext, Fire, Admit, QueueTimeout, DoRefresh, Unmap, Toggle, refreshVars
<1>6. \A e \in Folders : calls'[e] \in 0 .. MaxWrites
  BY <1>1, <1>5
<1> QED BY <1>5, <1>6

\* Directories are all that changes, is known or is given up.
LEMMA DirsOnly ==
  ASSUME RefreshTypeInv, [RefreshNext]_refreshVars
  PROVE  on' \in BOOLEAN /\ missed' \subseteq Folders /\ known' \subseteq Folders
<1>1. /\ on \in BOOLEAN /\ missed \subseteq Folders /\ known \subseteq Folders
      /\ \A s \in Slots : At(s) # "free" => timers[s].dir \in Folders
  BY DEF RefreshTypeInv, RefreshTypeOK
<1>2. ASSUME NEW d \in Folders, Write(d) \/ RefreshByPath(d)
      PROVE  on' \in BOOLEAN /\ missed' \subseteq Folders /\ known' \subseteq Folders
  BY <1>1, <1>2 DEF Write, RefreshByPath
<1>3. ASSUME NEW s \in Slots, QueueTimeout(s)
      PROVE  on' \in BOOLEAN /\ missed' \subseteq Folders /\ known' \subseteq Folders
  BY <1>1, <1>3 DEF QueueTimeout
<1>4. ASSUME NEW s \in Slots, DoRefresh(s)
      PROVE  on' \in BOOLEAN /\ missed' \subseteq Folders /\ known' \subseteq Folders
  <2>1. timers[s].dir \in Folders /\ on' = on
    BY <1>1, <1>4 DEF DoRefresh
  <2>2. \A e : Under(e) \subseteq Folders
    BY DEF Under
  <2>3. \/ missed' = missed /\ \E e : known' = known \cup Under(e)
        \/ missed' = missed \cup {timers[s].dir} /\ known' = known
    BY <1>4 DEF DoRefresh
  <2> QED BY <1>1, <2>1, <2>2, <2>3
<1>5. ASSUME NEW s \in Slots, Fire(s) \/ Admit(s) \/ Unmap(s)
      PROVE  on' \in BOOLEAN /\ missed' \subseteq Folders /\ known' \subseteq Folders
  BY <1>1, <1>5 DEF Fire, Admit, Unmap
<1>6. CASE Toggle \/ UNCHANGED refreshVars
  BY <1>1, <1>6 DEF Toggle, refreshVars
<1> QED BY <1>2, <1>3, <1>4, <1>5, <1>6 DEF RefreshNext

LEMMA RefreshTypeKept == RefreshTypeInv /\ [RefreshNext]_refreshVars => RefreshTypeInv'
<1> SUFFICES ASSUME RefreshTypeInv, [RefreshNext]_refreshVars PROVE RefreshTypeInv'
  OBVIOUS
<1>1. RefreshInv /\ RefreshInv'
  BY RefreshKeeps DEF RefreshTypeInv
<1>2. Cardinality(Running') <= Concurrency
  BY <1>1, FewerRun, OneMoreRuns, NoneStarts DEF RefreshTypeInv, RefreshTypeOK, RefreshInv, Running
<1>3. Cardinality({s \in Slots : At(s) = "running"})' <= Concurrency
  BY <1>2 DEF Running
<1>4. /\ timers' \in [Slots -> [dir : Folders \cup {Outside}, at : Stages]]
      /\ debounce' \in [Folders -> 0 .. Timers] /\ stale' \subseteq Folders
  BY <1>1 DEF RefreshInv, RefreshTyped, Timer, Slots, RefreshAssumption
<1> QED BY <1>1, <1>3, <1>4, TimersHaveDirs, CallsBounded, DirsOnly DEF RefreshTypeInv, RefreshTypeOK

\* However many timers fire at once, no more refreshes run than the semaphore of
\* refresh.go has slots, and a request is still to come only for a change made:
\* for any directories, timers and slots.
THEOREM RefreshesBounded == RefreshAssumption /\ RefreshSpec => []RefreshTypeOK
<1>1. RefreshTypeInv => RefreshTypeOK
  BY DEF RefreshTypeInv
<1> QED BY <1>1, RefreshTypeStart, RefreshTypeKept, PTL DEF RefreshSpec

-----------------------------------------------------------------------------
(***************************************************************************)
(* Reports: collected episodes always have a timer or a started function   *)
(* to take them.  Of a type's fields only the number of started functions  *)
(* needs a reason: each was once a report, which is still handled, or has   *)
(* set the timer, or was taken.                                            *)
(***************************************************************************)
Active == {h \in Reports : hooks[h].at # "idle"}
Owed(b) == buffer[b].fired + IF buffer[b].armed THEN 1 ELSE 0

\* A report under way says what was deleted.
HooksKnow == \A h \in Active : hooks[h].of \in Things
FiredForReports == \A b \in Kinds \X Series : Owed(b) + Cardinality(Active) <= reports
EventsInv == EventsAssumption /\ EventsTypeOK /\ HooksKnow /\ FiredForReports /\ CollectedTold

LEMMA ActiveCounted ==
  ASSUME EventsAssumption
  PROVE  IsFiniteSet(Active) /\ Cardinality(Active) \in Nat
BY FS_Subset, FS_CardinalityType DEF EventsAssumption, Active

LEMMA EventsStart == EventsAssumption /\ EventsInit => EventsInv
<1> SUFFICES ASSUME EventsAssumption, EventsInit PROVE EventsInv
  OBVIOUS
<1>1. EventsTypeOK
  <2>1. 0 \in 0 .. MaxReports /\ 0 \in 0 .. MaxRewrites
    BY DEF EventsAssumption
  <2>2. strm \cup index \subseteq Episodes /\ recent \subseteq Things /\ hand = {}
    BY DEF EventsInit
  <2>3. hooks \in [Reports -> [at : {"idle", "check", "delete", "rows", "mark", "tell"}, of : Things \cup {NoThing}]]
    BY DEF EventsInit, NoReport
  <2>4. buffer \in [Kinds \X Series -> [eps : SUBSET Things, fresh : BOOLEAN, armed : BOOLEAN, fired : 0 .. MaxReports]]
    BY <2>1 DEF EventsInit, Empty
  <2>5. settings \in EmbySettings /\ played \in BOOLEAN
    BY DEF EventsInit, EventsAssumption
  <2> QED BY <2>1, <2>2, <2>3, <2>4, <2>5 DEF EventsInit, EventsTypeOK
<1>2. Active = {}
  BY DEF Active, EventsInit, NoReport
<1>3. HooksKnow /\ FiredForReports /\ CollectedTold
  BY <1>2, FS_EmptySet DEF HooksKnow, FiredForReports, Owed, CollectedTold, EventsInit, Empty
<1> QED BY <1>1, <1>3 DEF EventsInv

\* One more episode or season: its buffer owes at most one function more, the others none.
LEMMA CollectStep ==
  ASSUME EventsInv, NEW k \in Kinds, NEW e \in Things, Collect(k, e)
  PROVE  /\ buffer' \in [Kinds \X Series -> [eps : SUBSET Things, fresh : BOOLEAN, armed : BOOLEAN, fired : 0 .. MaxReports]]
         /\ \A b \in Kinds \X Series : Owed(b)' <= Owed(b) + 1
         /\ CollectedTold'
<1> DEFINE c == <<k, Collected(e)>>
<1>1. c \in Kinds \X Series
  BY DEF EventsInv, EventsAssumption, Collected, Things
<1>2. buffer' = [buffer EXCEPT ![c] = [eps |-> buffer[c].eps \cup {e}, fresh |-> TRUE, armed |-> TRUE, fired |-> buffer[c].fired]]
  BY DEF Collect
<1> HIDE DEF c
<1>3. \A b \in Kinds \X Series : buffer[b].fired \in 0 .. MaxReports /\ buffer[b].armed \in BOOLEAN /\ buffer[b].eps \subseteq Things
  BY DEF EventsInv, EventsTypeOK
<1>4. MaxReports \in Nat
  BY DEF EventsInv, EventsAssumption
<1>5. buffer' \in [Kinds \X Series -> [eps : SUBSET Things, fresh : BOOLEAN, armed : BOOLEAN, fired : 0 .. MaxReports]]
  BY <1>1, <1>2, <1>3 DEF EventsInv, EventsTypeOK
<1>6. ASSUME NEW b \in Kinds \X Series PROVE Owed(b)' <= Owed(b) + 1
  BY <1>1, <1>2, <1>3, <1>4 DEF EventsInv, EventsTypeOK, Owed
<1>7. CollectedTold'
  BY <1>1, <1>2 DEF EventsInv, EventsTypeOK, CollectedTold
<1> QED BY <1>5, <1>6, <1>7

LEMMA FireStep ==
  ASSUME EventsInv, NEW b \in Kinds \X Series, TimerStarts(b)
  PROVE  EventsInv'
<1>1. Cardinality(Active) \in Nat /\ Active' = Active
  BY ActiveCounted DEF EventsInv, TimerStarts, Active
<1>2. /\ MaxReports \in Nat /\ reports \in 0 .. MaxReports
      /\ \A d \in Kinds \X Series : buffer[d].fired \in 0 .. MaxReports /\ buffer[d].armed \in BOOLEAN
  BY DEF EventsInv, EventsAssumption, EventsTypeOK
<1>3. buffer[b].fired + 1 <= reports
  BY <1>1, <1>2 DEF EventsInv, FiredForReports, Owed, TimerStarts
<1>4. EventsTypeOK'
  BY <1>2, <1>3 DEF EventsInv, EventsTypeOK, TimerStarts
<1>5. \A d \in Kinds \X Series : Owed(d)' = Owed(d)
  BY <1>2 DEF EventsInv, EventsTypeOK, TimerStarts, Owed
<1>6. FiredForReports'
  BY <1>1, <1>5 DEF EventsInv, FiredForReports, TimerStarts
<1>7. CollectedTold' /\ HooksKnow'
  BY <1>1, <1>2 DEF EventsInv, EventsTypeOK, TimerStarts, CollectedTold, HooksKnow
<1> QED BY <1>4, <1>6, <1>7 DEF EventsInv, EventsAssumption

\* A function that takes a buffer leaves it empty, and is owed no more.
LEMMA TakeStep ==
  ASSUME EventsInv, NEW b \in Kinds \X Series, Take(b), UNCHANGED <<strm, index, hooks, recent, played, settings, reports, rewrites>>,
         \A m \in hand' : m.eps \subseteq Things
  PROVE  EventsInv'
<1>1. Active' = Active
  BY DEF Active
<1>2. /\ MaxReports \in Nat /\ reports \in 0 .. MaxReports /\ Cardinality(Active) \in Nat
      /\ \A d \in Kinds \X Series : buffer[d].fired \in 0 .. MaxReports /\ buffer[d].armed \in BOOLEAN
  BY ActiveCounted DEF EventsInv, EventsAssumption, EventsTypeOK
<1>3. /\ buffer[b].fired > 0
      /\ buffer' = [buffer EXCEPT ![b] = [eps |-> {}, fresh |-> FALSE, armed |-> FALSE, fired |-> buffer[b].fired - 1]]
  BY DEF Take, Left
<1>4. EventsTypeOK'
  BY <1>2, <1>3 DEF EventsInv, EventsTypeOK
<1>5. \A d \in Kinds \X Series : Owed(d)' <= Owed(d) /\ Owed(d) \in Int /\ Owed(d)' \in Int
  BY <1>2, <1>3 DEF EventsInv, EventsTypeOK, Owed
<1>6. FiredForReports'
  BY <1>1, <1>2, <1>5 DEF EventsInv, FiredForReports
<1>7. CollectedTold' /\ HooksKnow'
  BY <1>1, <1>3 DEF EventsInv, EventsTypeOK, CollectedTold, HooksKnow
<1> QED BY <1>4, <1>6, <1>7 DEF EventsInv, EventsAssumption

\* A report that goes on, under way before and after.
LEMMA HookGoesOn ==
  ASSUME EventsInv, NEW h \in Reports, hooks[h].at # "idle", NEW at \in {"delete", "rows", "mark", "tell"}, Proceed(h, at),
         strm' \cup index' \subseteq Episodes, recent' \subseteq Things,
         UNCHANGED <<buffer, hand, played, settings, reports, rewrites>>
  PROVE  EventsInv'
<1>1. hooks' = [hooks EXCEPT ![h] = [at |-> at, of |-> hooks[h].of]]
  BY DEF Proceed
<1>2. hooks[h].of \in Things
  BY DEF EventsInv, HooksKnow, Active
<1>3. EventsTypeOK'
  BY <1>1, <1>2 DEF EventsInv, EventsTypeOK
<1>4. Active' = Active
  BY <1>1 DEF EventsInv, EventsTypeOK, Active
<1>5. HooksKnow'
  BY <1>1, <1>2, <1>4 DEF EventsInv, EventsTypeOK, HooksKnow, Active
<1>6. FiredForReports' /\ CollectedTold'
  BY <1>4 DEF EventsInv, FiredForReports, Owed, CollectedTold
<1> QED BY <1>3, <1>5, <1>6 DEF EventsInv, EventsAssumption

LEMMA HookBegins ==
  ASSUME EventsInv, NEW h \in Reports, NEW x \in Things, MediaDeleted(h, x)
  PROVE  EventsInv'
<1>1. /\ hooks[h].at = "idle" /\ hooks' = [hooks EXCEPT ![h] = [at |-> "check", of |-> x]]
      /\ reports < MaxReports /\ reports' = reports + 1
      /\ UNCHANGED <<strm, index, recent, buffer, hand, played, settings, rewrites>>
  BY DEF MediaDeleted, Report, NoReport
<1>2. EventsTypeOK'
  BY <1>1 DEF EventsInv, EventsAssumption, EventsTypeOK
<1>3. Active' = Active \cup {h} /\ h \notin Active
  BY <1>1 DEF EventsInv, EventsTypeOK, Active
<1>4. Cardinality(Active') = Cardinality(Active) + 1 /\ Cardinality(Active) \in Nat
  BY <1>3, ActiveCounted, FS_AddElement DEF EventsInv
<1>5. HooksKnow'
  BY <1>1, <1>3 DEF EventsInv, EventsTypeOK, HooksKnow, Active
<1>6. \A b \in Kinds \X Series : Owed(b)' = Owed(b) /\ Owed(b) \in Int
  BY <1>1 DEF Owed, EventsInv, EventsTypeOK
<1>7. FiredForReports'
  <2>1. reports \in Int
    BY DEF EventsInv, EventsTypeOK
  <2> QED BY <1>1, <1>4, <1>6, <2>1 DEF EventsInv, FiredForReports
<1>8. CollectedTold'
  BY <1>1 DEF EventsInv, CollectedTold
<1> QED BY <1>2, <1>5, <1>7, <1>8 DEF EventsInv, EventsAssumption

\* A report that ends may set the timer in its own stead.
LEMMA HookEnds ==
  ASSUME EventsInv, NEW h \in Reports, TellDeleted(h)
  PROVE  EventsInv'
<1>1. /\ hooks[h].at = "tell" /\ hooks' = [hooks EXCEPT ![h] = [at |-> "idle", of |-> NoThing]]
      /\ UNCHANGED <<strm, index, recent, hand, played, settings, reports, rewrites>>
  BY DEF TellDeleted, Proceed
<1>2. Active' = Active \ {h} /\ h \in Active
  BY <1>1 DEF EventsInv, EventsTypeOK, Active
<1>3. Cardinality(Active') = Cardinality(Active) - 1 /\ Cardinality(Active) \in Nat
  BY <1>2, ActiveCounted, FS_RemoveElement DEF EventsInv
<1>4. HooksKnow'
  BY <1>1, <1>2 DEF EventsInv, EventsTypeOK, HooksKnow, Active
<1>5. /\ buffer' \in [Kinds \X Series -> [eps : SUBSET Things, fresh : BOOLEAN, armed : BOOLEAN, fired : 0 .. MaxReports]]
      /\ \A b \in Kinds \X Series : Owed(b)' <= Owed(b) + 1
      /\ CollectedTold'
  <2>1. CASE SeriesEpisodeDeleted(hooks[h].of)
    <3>1. hooks[h].of \in Things
      BY <1>2 DEF EventsInv, HooksKnow
    <3> QED BY <2>1, <3>1, CollectStep DEF SeriesEpisodeDeleted, Kinds
  <2>2. CASE UNCHANGED buffer
    BY <2>2 DEF EventsInv, EventsTypeOK, Owed, CollectedTold
  <2> QED BY <2>1, <2>2 DEF TellDeleted
<1>6. EventsTypeOK'
  BY <1>1, <1>5 DEF EventsInv, EventsTypeOK
<1>7. \A b \in Kinds \X Series : Owed(b) \in Int /\ Owed(b)' \in Int
  BY <1>5 DEF Owed, EventsInv, EventsTypeOK
<1>8. FiredForReports'
  <2>1. reports \in Int
    BY DEF EventsInv, EventsTypeOK
  <2> QED BY <1>1, <1>3, <1>5, <1>7, <2>1 DEF EventsInv, FiredForReports
<1> QED BY <1>4, <1>5, <1>6, <1>8 DEF EventsInv, EventsAssumption

LEMMA AddedStep ==
  ASSUME EventsInv, NEW e \in Episodes, MediaAdded(e)
  PROVE  EventsInv'
<1>1. /\ reports < MaxReports /\ reports' = reports + 1
      /\ UNCHANGED <<strm, index, hooks, recent, hand, played, settings, rewrites>>
  BY DEF MediaAdded, Report
<1>2. Active' = Active /\ Cardinality(Active) \in Nat
  BY <1>1, ActiveCounted DEF Active, EventsInv
<1>3. /\ buffer' \in [Kinds \X Series -> [eps : SUBSET Things, fresh : BOOLEAN, armed : BOOLEAN, fired : 0 .. MaxReports]]
      /\ \A b \in Kinds \X Series : Owed(b)' <= Owed(b) + 1
      /\ CollectedTold'
  <2>1. CASE SeriesEpisodeAdded(e)
    BY <2>1, CollectStep DEF SeriesEpisodeAdded, Kinds, Things
  <2>2. CASE UNCHANGED buffer
    BY <2>2 DEF EventsInv, EventsTypeOK, Owed, CollectedTold
  <2> QED BY <2>1, <2>2 DEF MediaAdded
<1>4. EventsTypeOK'
  BY <1>1, <1>3 DEF EventsInv, EventsAssumption, EventsTypeOK
<1>5. \A b \in Kinds \X Series : Owed(b) \in Int /\ Owed(b)' \in Int
  BY <1>3 DEF Owed, EventsInv, EventsTypeOK
<1>6. FiredForReports'
  <2>1. reports \in Int
    BY DEF EventsInv, EventsTypeOK
  <2> QED BY <1>1, <1>2, <1>3, <1>5, <2>1 DEF EventsInv, FiredForReports
<1>7. HooksKnow'
  BY <1>1, <1>2 DEF EventsInv, HooksKnow
<1> QED BY <1>3, <1>4, <1>6, <1>7 DEF EventsInv, EventsAssumption

\* Steps that touch neither a report under way nor a buffer.
LEMMA EventsAside ==
  ASSUME EventsInv, EventsTypeOK', UNCHANGED <<hooks, buffer>>, reports' >= reports
  PROVE  EventsInv'
<1>1. Active' = Active /\ Cardinality(Active) \in Nat
  BY ActiveCounted DEF Active, EventsInv
<1>2. \A b \in Kinds \X Series : Owed(b)' = Owed(b) /\ Owed(b) \in Int
  BY DEF Owed, EventsInv, EventsTypeOK
<1>3. FiredForReports'
  <2>1. reports \in Int /\ reports' \in Int
    BY DEF EventsInv, EventsTypeOK
  <2> QED BY <1>1, <1>2, <2>1 DEF EventsInv, FiredForReports
<1> QED BY <1>1, <1>3 DEF EventsInv, EventsAssumption, HooksKnow, CollectedTold

-----------------------------------------------------------------------------
LEMMA EventsKeep == EventsInv /\ [EventsNext]_eventVars => EventsInv'
<1> SUFFICES ASSUME EventsInv, [EventsNext]_eventVars PROVE EventsInv'
  OBVIOUS
<1>1. ASSUME NEW b \in Kinds \X Series, TimerStarts(b) PROVE EventsInv'
  BY <1>1, FireStep
<1>2. ASSUME NEW s \in Series, FlushAdded(s) \/ FlushDeleted(s) PROVE EventsInv'
  <2>1. CASE FlushAdded(s)
    <3>1. <<"added", s>> \in Kinds \X Series
      BY DEF Kinds
    <3>2. \A m \in hand' : m.eps \subseteq Things
      BY <2>1, <3>1 DEF FlushAdded, EventsInv, EventsTypeOK
    <3> QED BY <2>1, <3>1, <3>2, TakeStep DEF FlushAdded
  <2>2. CASE FlushDeleted(s)
    BY <2>2, TakeStep DEF FlushDeleted, Kinds, EventsInv, EventsTypeOK
  <2> QED BY <1>2, <2>1, <2>2
<1>3. ASSUME NEW m \in hand, GetItemDetailWithRetry(m) \/ SendAdded(m) PROVE EventsInv'
  <2>1. \A n \in hand' : n.eps \subseteq Things
    BY <1>3 DEF GetItemDetailWithRetry, SendAdded, EventsInv, EventsTypeOK
  <2>2. UNCHANGED <<strm, index, hooks, recent, buffer, played, settings, reports, rewrites>>
    BY <1>3 DEF GetItemDetailWithRetry, SendAdded
  <2>3. EventsTypeOK'
    BY <2>1, <2>2 DEF EventsInv, EventsTypeOK
  <2> QED BY <2>2, <2>3, EventsAside DEF EventsInv, EventsTypeOK
<1>4. ASSUME NEW e \in Episodes, MediaAdded(e) PROVE EventsInv'
  BY <1>4, AddedStep
<1>5. ASSUME NEW e \in Episodes, WriteAgain(e) PROVE EventsInv'
  <2>1. EventsTypeOK' /\ UNCHANGED <<hooks, buffer, reports>>
    BY <1>5 DEF WriteAgain, EventsInv, EventsAssumption, EventsTypeOK
  <2> QED BY <2>1, EventsAside DEF EventsInv, EventsTypeOK
<1>6. ASSUME NEW h \in Reports, NEW x \in Things, MediaDeleted(h, x) PROVE EventsInv'
  BY <1>6, HookBegins
<1>7. ASSUME NEW h \in Reports, HandleSyncDelete(h) PROVE EventsInv'
  <2>1. hooks[h].at = "check" /\ hooks[h].of \in Things
    BY <1>7 DEF HandleSyncDelete, EventsInv, HooksKnow, Active
  <2>2. recent' \subseteq Things /\ strm' \cup index' \subseteq Episodes
    BY <1>7, <2>1 DEF HandleSyncDelete, EventsInv, EventsTypeOK
  <2> QED BY <1>7, <2>1, <2>2, HookGoesOn DEF HandleSyncDelete
<1>8. ASSUME NEW h \in Reports, DeleteByItemType(h) \/ CleanupDbRecords(h) PROVE EventsInv'
  <2>1. strm' \cup index' \subseteq Episodes /\ recent' \subseteq Things
    BY <1>8 DEF DeleteByItemType, CleanupDbRecords, EventsInv, EventsTypeOK
  <2> QED BY <1>8, <2>1, HookGoesOn DEF DeleteByItemType, CleanupDbRecords
<1>9. ASSUME NEW h \in Reports, MarkRecentlyDeleted(h) PROVE EventsInv'
  <2>1. strm' \cup index' \subseteq Episodes /\ recent' \subseteq Things
    BY <1>9 DEF MarkRecentlyDeleted, EventsInv, EventsTypeOK, HooksKnow, Active
  <2> QED BY <1>9, <2>1, HookGoesOn DEF MarkRecentlyDeleted
<1>10. ASSUME NEW h \in Reports, TellDeleted(h) PROVE EventsInv'
  BY <1>10, HookEnds
<1>11. CASE Playback \/ AMinutePasses \/ SaveSettings \/ UNCHANGED eventVars
  <2>1. reports \in 0 .. MaxReports /\ MaxReports \in Nat
    BY DEF EventsInv, EventsAssumption, EventsTypeOK
  <2>2. /\ UNCHANGED <<strm, index, hooks, buffer, hand, rewrites>>
        /\ reports' \in {reports, reports + 1} /\ reports' \in 0 .. MaxReports
    BY <1>11, <2>1 DEF Playback, AMinutePasses, SaveSettings, Report, eventVars
  <2>3. recent' \subseteq recent /\ played' \in {TRUE, FALSE, played}
    BY <1>11 DEF Playback, AMinutePasses, SaveSettings, eventVars
  <2>4. settings' \in EmbySettings
    BY <1>11 DEF Playback, AMinutePasses, SaveSettings, eventVars, EventsInv, EventsAssumption, EventsTypeOK
  <2>5. EventsTypeOK'
    BY <2>2, <2>3, <2>4 DEF EventsInv, EventsTypeOK
  <2> QED BY <2>1, <2>2, <2>5, EventsAside
<1> QED BY <1>1, <1>2, <1>3, <1>4, <1>5, <1>6, <1>7, <1>8, <1>9, <1>10, <1>11 DEF EventsNext

\* Episodes of a series that were collected, added or deleted, always have a
\* timer that runs or a function that was started and will take them, however
\* reports, timers and flushes interleave (service/emby/notifier.go,
\* handleSeriesEpisodeAdded, flushAddedEpisodeBuffer).
THEOREM CollectedAreTold == EventsAssumption /\ EventsSpec => []CollectedTold
<1>1. EventsInv => CollectedTold
  BY DEF EventsInv
<1> QED BY EventsStart, EventsKeep, <1>1, PTL DEF EventsSpec

\* The collected episodes, the reports under way and the functions that were
\* started keep their types; no buffer is owed more functions than reports came
\* (service/emby/notifier.go).
THEOREM EventsTyped == EventsAssumption /\ EventsSpec => []EventsTypeOK
<1>1. EventsInv => EventsTypeOK
  BY DEF EventsInv
<1> QED BY EventsStart, EventsKeep, <1>1, PTL DEF EventsSpec

-----------------------------------------------------------------------------
(***************************************************************************)
(* Playback: whatever is given fits the client.  What is remembered under  *)
(* a key fits the source and the identity in that key, and is forgotten no *)
(* later than its signature ends or the floor is over; a request that missed carries a source   *)
(* that matches the one it named.                                          *)
(***************************************************************************)
Fits(source, headers, a) ==
  /\ source \in HttpSources => a.src = source
  /\ a.by = headers[1] /\ a.agent = headers[2]
  /\ Kind[a.src] = "self" => a.to = "link"
\* A link is dated, and may be given at a tick.
Dated(a) == a.until \in Int /\ a.made \in Nat
InTime(a, tick) == tick <= a.until \/ tick <= a.made + Floor

LinksFit ==
  /\ DOMAIN expiry = DOMAIN links
  /\ \A key \in DOMAIN links :
       /\ Fits(key[1], key[2], links[key])
       /\ Dated(links[key]) /\ expiry[key] \in Int /\ InTime(links[key], expiry[key])
MissFits ==
  \A r \in Plays : play[r].at = "miss" =>
    /\ play[r].client \in Clients /\ play[r].source \in Asked
    /\ play[r].meta # Unknown => play[r].meta \in Matches(play[r].source, HttpSources)
ProxyTyped ==
  /\ now \in Nat /\ DOMAIN play = Plays
  /\ \A h \in DOMAIN strmSources : strmSources[h] \subseteq HttpSources
ProxyInv == EmbyProxyAssumption /\ ProxyTyped /\ LinksFit /\ MissFits /\ RedirectFits

LEMMA ProxyStart == EmbyProxyAssumption /\ ProxyInit => ProxyInv
<1> SUFFICES ASSUME EmbyProxyAssumption, ProxyInit PROVE ProxyInv
  OBVIOUS
<1>1. ProxyTyped /\ LinksFit
  BY DEF ProxyInit, ProxyTyped, LinksFit
<1>2. MissFits
  BY DEF ProxyInit, MissFits, NotPlayed
<1>3. RedirectFits
  BY DEF ProxyInit, RedirectFits
<1> QED BY <1>1, <1>2, <1>3 DEF ProxyInv

\* The caches lose entries, or get one that fits.
LEMMA LinksLess ==
  ASSUME LinksFit, NEW S \in SUBSET DOMAIN links, links' = Restrict(links, S), expiry' = Restrict(expiry, S)
  PROVE  LinksFit'
BY DEF LinksFit, Restrict, Fits, HttpSources

\* A link is remembered until its signature ends, or for the floor, or for less.
LEMMA TTLShort ==
  ASSUME EmbyProxyAssumption, now \in Nat, NEW answer, Dated(answer), answer.made = now
  PROVE  TTL(answer) \in Int /\ InTime(answer, now + TTL(answer))
BY DEF EmbyProxyAssumption, TTL, Dated, InTime

LEMMA LinkCached ==
  ASSUME EmbyProxyAssumption, now \in Nat, LinksFit, NEW source, NEW headers, NEW answer, Fits(source, headers, answer),
         Dated(answer), answer.made = now, CachePlaybackURL(<<source, headers>>, answer)
  PROVE  LinksFit'
<1> DEFINE key == <<source, headers>>
<1>1. PICK keys : /\ keys \subseteq DOMAIN links \cup {key}
                  /\ links' = [k \in keys |-> IF k = key THEN answer ELSE links[k]]
                  /\ expiry' = [k \in keys |-> IF k = key THEN now + TTL(answer) ELSE expiry[k]]
  BY DEF CachePlaybackURL, Expired
<1>2. key[1] = source /\ key[2] = headers
  OBVIOUS
<1> HIDE DEF key
<1>3. \A k \in DOMAIN links' : k # key => k \in DOMAIN links /\ links'[k] = links[k] /\ expiry'[k] = expiry[k]
  BY <1>1
<1>4. key \in DOMAIN links' => links'[key] = answer /\ expiry'[key] = now + TTL(answer)
  BY <1>1
<1>5. DOMAIN expiry' = DOMAIN links'
  BY <1>1
<1>6. ASSUME NEW k \in DOMAIN links'
      PROVE  /\ Fits(k[1], k[2], links'[k])
             /\ Dated(links'[k]) /\ expiry'[k] \in Int /\ InTime(links'[k], expiry'[k])
  <2>1. CASE k = key
    BY <1>2, <1>4, <2>1, TTLShort
  <2>2. CASE k # key
    BY <1>3, <1>6, <2>2 DEF LinksFit
  <2> QED BY <2>1, <2>2
<1> QED BY <1>5, <1>6 DEF LinksFit, Fits, HttpSources

\* What a source resolves to fits the client who asked.
LEMMA ResolvedFits ==
  ASSUME EmbyProxyAssumption, now \in Nat, NEW c \in Clients, NEW source \in Asked, NEW s \in Matches(source, HttpSources) \cup HttpSources,
         s \in HttpSources, source \in HttpSources => s = source, NEW answer \in Resolved(s, c), ~Streamed(s, answer)
  PROVE  /\ Fits(source, Headers(c), answer)
         /\ Dated(answer) /\ answer.made = now
<1>1. \E life \in Lives : answer \in {Link(s, c, life), [Link(s, c, life) EXCEPT !.to = "address"]}
  <2>1. CASE answer = Address(s, c)
    <3> DEFINE longest == CHOOSE n \in Lives : \A m \in Lives : m <= n
    <3>1. longest \in Lives
      BY DEF EmbyProxyAssumption
    <3> QED BY <2>1, <3>1 DEF Address
  <2> QED BY <2>1 DEF Resolved
<1>2. PICK life \in Lives : answer \in {Link(s, c, life), [Link(s, c, life) EXCEPT !.to = "address"]}
  BY <1>1
<1>3. /\ answer.src = s /\ answer.agent = Agent[c] /\ answer.by = Auth[c]
      /\ answer.until = now + life /\ answer.made = now
      /\ answer.to \in {"link", "address"}
  BY <1>2 DEF Link
<1>4. life \in Int
  BY DEF EmbyProxyAssumption
<1>5. Kind[s] = "self" => answer.to = "link"
  BY <1>3 DEF Streamed
<1> QED BY <1>3, <1>4, <1>5 DEF Fits, Headers, Dated

LEMMA ResolveStep ==
  ASSUME ProxyInv, NEW r \in Plays, Resolve(r)
  PROVE  ProxyInv'
<1> DEFINE q == play[r]
<1>1. /\ q.at = "miss" /\ q.client \in Clients /\ q.source \in Asked
      /\ q.meta # Unknown => q.meta \in Matches(q.source, HttpSources)
  BY DEF Resolve, ProxyInv, MissFits
<1>2. now' = now /\ strmSources' = strmSources /\ now \in Nat
  BY DEF Resolve, ProxyInv, ProxyTyped
<1>3. ASSUME play' = [play EXCEPT ![r] = [at |-> "done"]] PROVE ProxyTyped' /\ MissFits'
  BY <1>2, <1>3 DEF ProxyInv, ProxyTyped, MissFits, Asked, Matches, HttpSources
<1>4. CASE GiveNothing(r, q)
  <2>1. LinksFit' /\ RedirectFits'
    BY <1>4 DEF GiveNothing, FinishPlay, linkVars, ProxyInv, LinksFit, Fits, HttpSources, RedirectFits
  <2>2. ProxyTyped' /\ MissFits'
    BY <1>3, <1>4 DEF GiveNothing, FinishPlay
  <2> QED BY <2>1, <2>2 DEF ProxyInv, EmbyProxyAssumption
<1>5. ASSUME NEW s \in IF q.meta = Unknown THEN FromEmby(q.source) ELSE {q.meta},
             NEW answer \in Resolved(s, q.client), ~Streamed(s, answer), Give(r, q, answer)
      PROVE  ProxyInv'
  <2>1. s \in HttpSources /\ (q.source \in HttpSources => s = q.source)
    BY <1>1, <1>5 DEF FromEmby, Matches, HttpSources, ProxyInv, EmbyProxyAssumption
  <2>2. /\ Fits(q.source, Headers(q.client), answer)
        /\ Dated(answer) /\ answer.made = now
    BY <1>1, <1>2, <1>5, <2>1, ResolvedFits DEF ProxyInv
  <2>3. LinksFit'
    <3>1. CASE CachePlaybackURL(Key(q.source, q.client), answer)
      BY <1>2, <2>2, <3>1, LinkCached DEF Key, ProxyInv
    <3>2. CASE UNCHANGED linkVars
      BY <3>2 DEF linkVars, ProxyInv, LinksFit, Fits, HttpSources
    <3> QED BY <1>5, <3>1, <3>2 DEF Give
  <2>4. given' = Nothing \/ given' = [client |-> q.client, source |-> q.source, answer |-> answer]
    BY <1>5 DEF Give, FinishPlay
  <2>5. RedirectFits'
    <3>1. answer.made + Floor >= now
      BY <1>2, <2>2 DEF ProxyInv, EmbyProxyAssumption
    <3>2. CASE given' = Nothing
      BY <3>2 DEF RedirectFits, Nothing
    <3>3. CASE given' = [client |-> q.client, source |-> q.source, answer |-> answer]
      BY <1>2, <2>2, <3>1, <3>3 DEF RedirectFits, Fits, Headers, HttpSources
    <3> QED BY <2>4, <3>2, <3>3
  <2>6. ProxyTyped' /\ MissFits'
    BY <1>3, <1>5 DEF Give, FinishPlay
  <2> QED BY <2>3, <2>5, <2>6 DEF ProxyInv, EmbyProxyAssumption
<1> QED BY <1>4, <1>5 DEF Resolve

LEMMA ArriveStep ==
  ASSUME ProxyInv, NEW r \in Plays, ArrivePlay(r)
  PROVE  ProxyInv'
<1>1. PICK c \in Clients, source \in Asked : Hit(r, c, source) \/ NoHit(r, c, source)
  BY DEF ArrivePlay
<1>2. now' = now /\ strmSources' = strmSources /\ now \in Nat
  BY DEF ArrivePlay, ProxyInv, ProxyTyped
<1>3. CASE Hit(r, c, source)
  <2> DEFINE key == Key(source, c)
  <2>1. /\ key \in DOMAIN links /\ ~(now > expiry[key]) /\ UNCHANGED <<links, expiry>>
        /\ FinishPlay(r, c, source, links[key])
    BY <1>3 DEF Hit, Expired
  <2>2. ProxyTyped' /\ MissFits'
    BY <1>2, <2>1 DEF FinishPlay, ProxyInv, ProxyTyped, MissFits, Asked, Matches, HttpSources
  <2>3. LinksFit'
    BY <2>1 DEF ProxyInv, LinksFit, Fits, HttpSources
  <2>4. /\ Fits(source, Headers(c), links[key])
        /\ links[key].until >= now \/ links[key].made + Floor >= now
    <3>1. key[1] = source /\ key[2] = Headers(c)
      BY DEF Key
    <3>2. /\ Fits(key[1], key[2], links[key]) /\ Dated(links[key])
          /\ expiry[key] \in Int /\ InTime(links[key], expiry[key]) /\ Floor \in Nat
      BY <2>1 DEF ProxyInv, LinksFit, EmbyProxyAssumption
    <3> QED BY <1>2, <2>1, <3>1, <3>2 DEF Dated, InTime
  <2>5. given' = Nothing \/ given' = [client |-> c, source |-> source, answer |-> links[key]]
    BY <2>1 DEF FinishPlay
  <2>6. RedirectFits'
    <3> HIDE DEF key
    <3>1. CASE given' = Nothing
      BY <3>1 DEF RedirectFits, Nothing
    <3>2. CASE given' = [client |-> c, source |-> source, answer |-> links[key]]
      BY <1>2, <2>4, <3>2 DEF RedirectFits, Fits, Headers, HttpSources
    <3> QED BY <2>5, <3>1, <3>2
  <2> QED BY <2>2, <2>3, <2>6 DEF ProxyInv, EmbyProxyAssumption
<1>4. CASE NoHit(r, c, source)
  <2>1. PICK hits \in Known(source, c) : (hits = {} /\ Miss(r, c, source, Unknown))
                                          \/ \E s \in hits : Miss(r, c, source, s)
    BY <1>4 DEF NoHit, MissWithKnown
  <2>2. hits \subseteq Matches(source, HttpSources)
    BY <2>1 DEF Known, Matches, ProxyInv, ProxyTyped
  <2>3. PICK meta : Miss(r, c, source, meta) /\ (meta # Unknown => meta \in Matches(source, HttpSources))
    BY <2>1, <2>2
  <2>4. play' = [play EXCEPT ![r] = [at |-> "miss", client |-> c, source |-> source, meta |-> meta]] /\ given' = Nothing
    BY <2>3 DEF Miss
  <2>5. ProxyTyped' /\ RedirectFits'
    BY <1>2, <2>4 DEF ProxyInv, ProxyTyped, RedirectFits, HttpSources, Nothing
  <2>6. MissFits'
    BY <2>3, <2>4 DEF ProxyInv, ProxyTyped, MissFits, Asked, Matches, HttpSources
  <2>7. LinksFit'
    <3>1. CASE UNCHANGED linkVars
      BY <3>1 DEF linkVars, ProxyInv, LinksFit, Fits, HttpSources
    <3>2. CASE /\ links' = Restrict(links, DOMAIN links \ {Key(source, c)})
               /\ expiry' = Restrict(expiry, DOMAIN links \ {Key(source, c)})
      BY <3>2, LinksLess DEF ProxyInv
    <3> QED BY <1>4, <3>1, <3>2 DEF NoHit
  <2> QED BY <2>5, <2>6, <2>7 DEF ProxyInv, EmbyProxyAssumption
<1> QED BY <1>1, <1>3, <1>4

LEMMA ProxyKeeps == ProxyInv /\ [ProxyNext]_proxyVars => ProxyInv'
<1> SUFFICES ASSUME ProxyInv, [ProxyNext]_proxyVars PROVE ProxyInv'
  OBVIOUS
<1>1. ASSUME UNCHANGED <<play, linkVars>>, now' \in Nat, given' = Nothing \/ UNCHANGED <<given, now>>,
             \A h \in DOMAIN strmSources' : strmSources'[h] \subseteq HttpSources
      PROVE  ProxyInv'
  <2>1. ProxyTyped'
    BY <1>1 DEF ProxyInv, ProxyTyped, Plays, HttpSources
  <2>2. LinksFit' /\ MissFits'
    BY <1>1 DEF linkVars, ProxyInv, LinksFit, MissFits, Fits, Asked, Matches, HttpSources
  <2>3. RedirectFits'
    BY <1>1 DEF ProxyInv, RedirectFits, HttpSources, Nothing
  <2> QED BY <2>1, <2>2, <2>3 DEF ProxyInv, EmbyProxyAssumption
<1>2. CASE Tick
  BY <1>1, <1>2 DEF Tick, ProxyInv, ProxyTyped
<1>3. ASSUME NEW c \in Clients, PlaybackInfo(c) PROVE ProxyInv'
  <2>1. \A h \in DOMAIN strmSources' : strmSources'[h] \subseteq HttpSources
    BY <1>3 DEF PlaybackInfo, ProxyInv, ProxyTyped
  <2> QED BY <1>1, <1>3, <2>1 DEF PlaybackInfo, ProxyInv, ProxyTyped
<1>4. ASSUME NEW r \in Plays, ArrivePlay(r) PROVE ProxyInv'
  BY <1>4, ArriveStep
<1>5. ASSUME NEW r \in Plays, Resolve(r) PROVE ProxyInv'
  BY <1>5, ResolveStep
<1>6. CASE UNCHANGED proxyVars
  BY <1>1, <1>6 DEF proxyVars, ProxyInv, ProxyTyped
<1> QED BY <1>2, <1>3, <1>4, <1>5, <1>6 DEF ProxyNext

\* A player is sent to the source it named, for its own agent and identity, by a
\* link whose signature has not ended or that is no older than the floor, and never
\* to the service's own address, for any number of clients, sources and requests,
\* any lives of links, ended ones too, and whatever the cache forgets
\* (service/embyproxy/proxy.go, HandleMediaStream, cachePlaybackURL).
THEOREM RedirectsFit == EmbyProxyAssumption /\ ProxySpec => []RedirectFits
<1>1. ProxyInv => RedirectFits
  BY DEF ProxyInv
<1> QED BY ProxyStart, ProxyKeeps, <1>1, PTL DEF ProxySpec

-----------------------------------------------------------------------------
(***************************************************************************)
(* The links the proxy remembers are bounded.  Room is made by pushing out  *)
(* what is first in the order, so that every link must have a place there;  *)
(* what has expired leaves it by a fold, of which induction says that the   *)
(* other keys stay.                                                         *)
(***************************************************************************)
\* Every set of numbers has a least one.
LEMMA LeastOne ==
  ASSUME NEW T \in SUBSET Nat, T # {}
  PROVE  \E m \in T : \A k \in T : m <= k
<1> DEFINE Less == OpToRel(<, Nat)
<1>1. IsWellFoundedOn(Less, Nat)
  BY NatLessThanWellFounded
<1>2. \A x, y \in Nat : x < y => <<x, y>> \in Less
  BY DEF OpToRel
<1> HIDE DEF Less
<1>3. PICK m \in T : \A y \in T : ~(<<y, m>> \in Less)
  BY <1>1, WFMin
<1>4. \A k \in T : ~(k < m)
  BY <1>2, <1>3
<1>5. \A k \in T : m <= k
  BY <1>4
<1> QED BY <1>5

LEMMA EveryNumber ==
  ASSUME NEW T \in SUBSET Nat, 0 \in T, \A n \in T : n + 1 \in T
  PROVE  \A n \in Nat : n \in T
<1> DEFINE Rest == Nat \ T
<1> SUFFICES ASSUME Rest # {} PROVE FALSE
  OBVIOUS
<1>1. PICK k \in Rest : \A j \in Rest : k <= j
  BY LeastOne
<1>2. k # 0 /\ k - 1 \in Nat /\ k - 1 \in T
  BY <1>1
<1> QED BY <1>1, <1>2

\* The first one of a key goes, the other keys stay.
LEMMA FirstRemoved ==
  ASSUME NEW S, NEW q \in Seq(S), NEW key
  PROVE  RemoveFirst(q, key) \in Seq(S) /\ ToSet(q) \ {key} \subseteq ToSet(RemoveFirst(q, key))
<1>1. CASE \E i \in 1 .. Len(q) : q[i] = key
  <2> DEFINE I == {i \in 1 .. Len(q) : q[i] = key}
             m == Min(I)
             r == RemoveAt(q, m)
  <2>1. m \in 1 .. Len(q) /\ q[m] = key
    <3>1. I \in SUBSET Nat /\ I # {}
      BY <1>1
    <3> HIDE DEF I
    <3>2. \E k \in I : \A j \in I : k <= j
      BY <3>1, LeastOne
    <3>3. m \in I
      BY <3>2 DEF Min
    <3> QED BY <3>3 DEF I
  <2>2. RemoveFirst(q, key) = r
    BY <1>1 DEF RemoveFirst, SelectInSeq
  <2> HIDE DEF m
  <2> DEFINE front == SubSeq(q, 1, m - 1)
             back == SubSeq(q, m + 1, Len(q))
  <2>3. front \in Seq(S) /\ Len(front) = m - 1 /\ \A j \in 1 .. m - 1 : front[j] = q[j]
    BY <2>1
  <2>4. back \in Seq(S) /\ Len(back) = Len(q) - m /\ \A j \in 1 .. Len(q) - m : back[j] = q[m + j]
    BY <2>1
  <2>5. r = front \o back
    BY DEF RemoveAt
  <2> HIDE DEF front, back, r
  <2>6. r \in Seq(S) /\ Len(r) = Len(front) + Len(back)
    BY <2>3, <2>4, <2>5, ConcatProperties, ZenonT(60)
  <2>7. ASSUME NEW i \in 1 .. Len(q), q[i] # key PROVE \E j \in 1 .. Len(r) : r[j] = q[i]
    <3>1. CASE i < m
      <4>1. i \in 1 .. Len(front) + Len(back) /\ i <= Len(front)
        BY <2>1, <2>3, <2>4, <3>1
      <4>2. r[i] = front[i]
        BY <2>3, <2>4, <2>5, <4>1, ConcatProperties
      <4> QED BY <2>3, <2>6, <3>1, <4>1, <4>2
    <3>2. CASE i > m
      <4>1. i - 1 \in 1 .. Len(front) + Len(back) /\ ~(i - 1 <= Len(front)) /\ i - 1 - Len(front) = i - m
            /\ i - m \in 1 .. Len(q) - m
        BY <2>1, <2>3, <2>4, <3>2
      <4>2. r[i - 1] = back[i - 1 - Len(front)]
        BY <2>3, <2>4, <2>5, <4>1, ConcatProperties
      <4>3. m + (i - m) = i
        BY <2>1
      <4>4. r[i - 1] = q[i]
        BY <2>4, <4>1, <4>2, <4>3
      <4> QED BY <2>6, <4>1, <4>4
    <3> QED BY <2>1, <2>7, <3>1, <3>2
  <2>8. ToSet(q) \ {key} \subseteq ToSet(r)
    BY <2>6, <2>7 DEF ToSet
  <2> QED BY <2>2, <2>6, <2>8
<1>2. CASE ~\E i \in 1 .. Len(q) : q[i] = key
  BY <1>2 DEF RemoveFirst
<1> QED BY <1>1, <1>2

\* What folds from the left over n elements, and over the first m of them.
FoldsTo(m, X, base, step, f) ==
  /\ f \in [SUBSET (1 .. m) -> X]
  /\ \A s \in SUBSET (1 .. m) : f[s] = IF s = {} THEN base ELSE step[<<Max(s), f[s \ {Max(s)}]>>]

LEMMA GreatestOf ==
  ASSUME NEW m \in Nat, NEW s \in SUBSET (1 .. m), s # {}
  PROVE  Max(s) \in s /\ \A i \in s : i <= Max(s)
<1> DEFINE T == {m - i : i \in s}
<1>1. T \in SUBSET Nat /\ T # {}
  <2>1. \A i \in s : m - i \in Nat
    OBVIOUS
  <2>2. T # {}
    OBVIOUS
  <2> QED BY <2>1, <2>2
<1>2. PICK k \in T : \A j \in T : k <= j
  BY <1>1, LeastOne
<1>3. PICK i \in s : k = m - i
  BY <1>2
<1>4. ASSUME NEW j \in s PROVE i >= j
  <2>1. m - i <= m - j /\ i \in 1 .. m /\ j \in 1 .. m
    BY <1>2, <1>3
  <2> QED BY <2>1
<1> QED BY <1>4 DEF Max

LEMMA FoldExists ==
  ASSUME NEW n \in Nat, NEW X, NEW base \in X, NEW step \in [(1 .. n) \X X -> X]
  PROVE  \E f : FoldsTo(n, X, base, step, f)
<1> DEFINE T == {m \in Nat : m <= n => \E f : FoldsTo(m, X, base, step, f)}
<1>1. 0 \in T
  <2> DEFINE f == [s \in SUBSET (1 .. 0) |-> base]
  <2>1. \A s \in SUBSET (1 .. 0) : s = {}
    OBVIOUS
  <2>2. FoldsTo(0, X, base, step, f)
    BY <2>1 DEF FoldsTo
  <2> QED BY <2>2
<1>2. ASSUME NEW m \in T PROVE m + 1 \in T
  <2> SUFFICES ASSUME m + 1 <= n PROVE \E g : FoldsTo(m + 1, X, base, step, g)
    OBVIOUS
  <2>1. PICK f : FoldsTo(m, X, base, step, f)
    OBVIOUS
  <2> DEFINE g == [s \in SUBSET (1 .. m + 1) |->
                     IF m + 1 \in s THEN step[<<m + 1, f[s \ {m + 1}]>>] ELSE f[s]]
  <2>2. \A s \in SUBSET (1 .. m + 1) : s \ {m + 1} \in SUBSET (1 .. m)
    OBVIOUS
  <2>3. g \in [SUBSET (1 .. m + 1) -> X]
    <3>1. ASSUME NEW s \in SUBSET (1 .. m + 1)
          PROVE  (IF m + 1 \in s THEN step[<<m + 1, f[s \ {m + 1}]>>] ELSE f[s]) \in X
      <4>1. f[s \ {m + 1}] \in X /\ (m + 1 \notin s => f[s] \in X)
        BY <2>1, <2>2 DEF FoldsTo
      <4> QED BY <4>1
    <3> QED BY <3>1
  <2>4. ASSUME NEW s \in SUBSET (1 .. m + 1), m + 1 \in s
        PROVE  g[s] = step[<<Max(s), g[s \ {Max(s)}]>>] /\ s # {}
    <3>1. Max(s) = m + 1
      <4>1. \A x \in s : m + 1 >= x
        OBVIOUS
      <4>2. \A x \in s : (\A y \in s : x >= y) => x = m + 1
        BY <2>4
      <4> QED BY <2>4, <4>1, <4>2 DEF Max
    <3>2. g[s \ {m + 1}] = f[s \ {m + 1}]
      BY <2>2
    <3> QED BY <2>4, <3>1, <3>2
  <2>5. ASSUME NEW s \in SUBSET (1 .. m + 1), m + 1 \notin s
        PROVE  g[s] = IF s = {} THEN base ELSE step[<<Max(s), g[s \ {Max(s)}]>>]
    <3>1. s \in SUBSET (1 .. m) /\ \A x : s \ {x} \in SUBSET (1 .. m)
      BY <2>2, <2>5
    <3>2. g[s] = f[s] /\ \A x : g[s \ {x}] = f[s \ {x}]
      BY <2>5, <3>1
    <3> QED BY <2>1, <3>1, <3>2 DEF FoldsTo
  <2>6. FoldsTo(m + 1, X, base, step, g)
    BY <2>3, <2>4, <2>5 DEF FoldsTo
  <2> QED BY <2>6
<1> HIDE DEF T
<1>3. n \in T
  BY <1>1, <1>2, EveryNumber DEF T
<1> QED BY <1>3 DEF T

\* Of the order only what has expired goes.
LEMMA ExpiredRemoved ==
  ASSUME NEW S, NEW q \in Seq(S), IsFiniteSet(Expired)
  PROVE  RemoveExpired(q) \in Seq(S) /\ ToSet(q) \ Expired \subseteq ToSet(RemoveExpired(q))
<1> DEFINE n == Cardinality(Expired)
           keys == SetToSeq(Expired)
           X == {p \in Seq(S) : ToSet(q) \ Expired \subseteq ToSet(p)}
           step == [t \in (1 .. n) \X X |-> RemoveFirst(t[2], keys[t[1]])]
           Iter(f) == f = [s \in SUBSET (DOMAIN keys) |->
                             IF s = {} THEN q ELSE RemoveFirst(f[s \ {Max(s)}], keys[Max(s)])]
<1>1. n \in Nat /\ keys \in [1 .. n -> Expired]
  <2>1. n \in Nat /\ ExistsBijection(1 .. n, Expired)
    BY FS_CardinalityType
  <2>2. \E f \in [1 .. n -> Expired] : IsInjective(f)
    BY <2>1 DEF ExistsBijection, Bijection, Injection, IsInjective
  <2> QED BY <2>1, <2>2 DEF SetToSeq
<1> HIDE DEF n, keys
<1>2. q \in X
  OBVIOUS
<1>3. step \in [(1 .. n) \X X -> X]
  <2>1. ASSUME NEW t \in (1 .. n) \X X PROVE RemoveFirst(t[2], keys[t[1]]) \in X
    <3>1. t[2] \in Seq(S) /\ ToSet(q) \ Expired \subseteq ToSet(t[2]) /\ keys[t[1]] \in Expired
      BY <1>1
    <3> QED BY <3>1, FirstRemoved
  <2> QED BY <2>1
<1>4. \A i \in 1 .. n, p \in X : step[<<i, p>>] = RemoveFirst(p, keys[i])
  OBVIOUS
<1>5. RemoveExpired(q) = (CHOOSE f : Iter(f))[DOMAIN keys]
  BY DEF RemoveExpired, FoldLeft, MapThenFoldSet, keys
<1> HIDE DEF X, step
<1>6. PICK f : FoldsTo(n, X, q, step, f)
  BY <1>1, <1>2, <1>3, FoldExists
<1>7. ASSUME NEW s \in SUBSET (1 .. n), s # {} PROVE f[s] = RemoveFirst(f[s \ {Max(s)}], keys[Max(s)])
  <2>1. Max(s) \in 1 .. n /\ s \ {Max(s)} \in SUBSET (1 .. n)
    BY <1>1, <1>7, GreatestOf
  <2>2. f[s \ {Max(s)}] \in X
    BY <1>6, <2>1 DEF FoldsTo
  <2> QED BY <1>4, <1>6, <1>7, <2>1, <2>2 DEF FoldsTo
<1>8. Iter(f)
  BY <1>1, <1>6, <1>7 DEF FoldsTo
<1>9. ASSUME NEW g, Iter(g) PROVE g[1 .. n] \in X
  <2> DEFINE T == {m \in Nat : m <= n => \A s \in SUBSET (1 .. m) : g[s] \in X}
  <2>1. g[{}] \in X /\ SUBSET (1 .. 0) = {{}}
    BY <1>1, <1>2, <1>9
  <2>2. 0 \in T
    BY <2>1
  <2>3. ASSUME NEW m \in T PROVE m + 1 \in T
    <3> SUFFICES ASSUME m + 1 <= n, NEW s \in SUBSET (1 .. m + 1) PROVE g[s] \in X
      OBVIOUS
    <3>1. CASE s = {}
      BY <2>1, <3>1
    <3>2. CASE s # {}
      <4> DEFINE x == Max(s)
      <4>0. m \in Nat /\ m + 1 \in Nat
        OBVIOUS
      <4>1. x \in s /\ \A i \in s : i <= x
        BY <3>2, <4>0, GreatestOf
      <4> HIDE DEF x
      <4>2. s \ {x} \in SUBSET (1 .. m) /\ s \in SUBSET (1 .. n) /\ x \in 1 .. n
        <5>1. \A i \in s : i \in 1 .. m + 1 /\ i <= x
          BY <4>1
        <5>2. \A i \in s \ {x} : i \in 1 .. m
          BY <4>0, <4>1, <5>1
        <5>3. \A i \in s : i \in 1 .. n
          BY <1>1, <4>0, <5>1
        <5> QED BY <4>1, <5>2, <5>3
      <4>3. g[s \ {x}] \in X
        BY <1>1, <4>2
      <4>4. step[<<x, g[s \ {x}]>>] \in X
        BY <1>3, <4>2, <4>3
      <4>5. g[s] = RemoveFirst(g[s \ {x}], keys[x])
        BY <1>1, <1>9, <3>2, <4>2 DEF x
      <4> QED BY <1>4, <4>2, <4>3, <4>4, <4>5
    <3> QED BY <3>1, <3>2
  <2> HIDE DEF T
  <2>4. n \in T
    BY <1>1, <2>2, <2>3, EveryNumber DEF T
  <2> QED BY <1>1, <2>4 DEF T
<1>10. RemoveExpired(q) \in X
  <2>1. Iter(CHOOSE g : Iter(g))
    BY <1>8
  <2> HIDE DEF Iter
  <2>2. DOMAIN keys = 1 .. n
    BY <1>1
  <2> QED BY <1>5, <1>9, <2>1, <2>2
<1> QED BY <1>10 DEF X

\* The keys of links.
LinkKey == Asked \X {Headers(c) : c \in Clients}
CacheSound ==
  /\ order \in Seq(LinkKey) /\ DOMAIN expiry = DOMAIN links
  /\ IsFiniteSet(DOMAIN links) /\ Cardinality(DOMAIN links) <= MaxCacheSize
  /\ DOMAIN links \subseteq ToSet(order)
CacheInv == ProxyInv /\ ProxyTypeOK /\ CacheSound

LEMMA AppendedTo ==
  ASSUME NEW S, NEW q \in Seq(S), NEW e \in S
  PROVE  Append(q, e) \in Seq(S) /\ ToSet(q) \cup {e} \subseteq ToSet(Append(q, e))
<1>1. PICK p : p = Append(q, e)
  OBVIOUS
<1>2. p \in Seq(S) /\ Len(p) = Len(q) + 1 /\ p[Len(q) + 1] = e /\ \A i \in 1 .. Len(q) : p[i] = q[i]
  BY <1>1, AppendProperties
<1>3. DOMAIN p = 1 .. Len(p) /\ DOMAIN q = 1 .. Len(q) /\ Len(q) \in Nat
  BY <1>2, LenProperties
<1>4. e \in ToSet(p)
  BY <1>2, <1>3 DEF ToSet
<1>5. ToSet(q) \subseteq ToSet(p)
  BY <1>2, <1>3 DEF ToSet
<1> QED BY <1>1, <1>2, <1>4, <1>5

LEMMA RestHasOthers ==
  ASSUME NEW S, NEW q \in Seq(S), NEW n \in 0 .. Len(q)
  PROVE  /\ SubSeq(q, n + 1, Len(q)) \in Seq(S)
         /\ ToSet(q) \ ToSet(SubSeq(q, 1, n)) \subseteq ToSet(SubSeq(q, n + 1, Len(q)))
<1>1. PICK m \in Nat : m = Len(q) /\ DOMAIN q = 1 .. m
  BY LenProperties
<1> DEFINE front == SubSeq(q, 1, n)
           rest == SubSeq(q, n + 1, m)
<1>2. n \in Nat /\ n <= m
  BY <1>1
<1>3. front \in Seq(S) /\ Len(front) = n /\ \A i \in 1 .. n : front[i] = q[i]
  BY <1>1, <1>2
<1>4. rest \in Seq(S) /\ Len(rest) = m - n /\ \A i \in 1 .. m - n : rest[i] = q[n + i]
  BY <1>1, <1>2
<1> HIDE DEF front, rest
<1>5. ASSUME NEW i \in 1 .. m PROVE q[i] \in ToSet(front) \cup ToSet(rest)
  <2>1. DOMAIN front = 1 .. n /\ DOMAIN rest = 1 .. m - n
    BY <1>1, <1>2, <1>3, <1>4, LenProperties
  <2>2. CASE i <= n
    <3>1. i \in DOMAIN front /\ front[i] = q[i]
      BY <1>2, <1>3, <2>1, <2>2
    <3> QED BY <3>1 DEF ToSet
  <2>3. CASE ~(i <= n)
    <3>1. i - n \in 1 .. m - n /\ n + (i - n) = i
      BY <1>2, <2>3
    <3>2. i - n \in DOMAIN rest /\ rest[i - n] = q[i]
      BY <1>4, <2>1, <3>1
    <3> QED BY <3>2 DEF ToSet
  <2> QED BY <2>2, <2>3
<1>6. ToSet(q) \subseteq ToSet(front) \cup ToSet(rest)
  BY <1>1, <1>5 DEF ToSet
<1> QED BY <1>1, <1>4, <1>6 DEF front, rest

\* Room is made for one more link: at the end of the order nothing is left but
\* what has a place there.
LEMMA RoomMade ==
  ASSUME EmbyProxyAssumption, CacheSound, NEW key \in LinkKey, NEW answer, CachePlaybackURL(key, answer)
  PROVE  CacheSound'
<1> DEFINE live == DOMAIN links \ Expired
           q == RemoveExpired(order)
           LeftAfter(k) == live \ ToSet(SubSeq(q, 1, k))
           Enough(k) == Cardinality(LeftAfter(k)) < MaxCacheSize \/ k = Len(q)
           n == CHOOSE k \in 0 .. Len(q) : Enough(k) /\ \A j \in 0 .. k - 1 : Cardinality(LeftAfter(j)) >= MaxCacheSize
           keys == LeftAfter(n) \cup {key}
           rest == SubSeq(q, n + 1, Len(q))
<1>1. IsFiniteSet(Expired) /\ IsFiniteSet(live)
  BY FS_Subset DEF CacheSound, Expired
<1>2. q \in Seq(LinkKey) /\ live \subseteq ToSet(q)
  BY <1>1, ExpiredRemoved DEF CacheSound
<1>3. /\ DOMAIN links' = keys /\ DOMAIN expiry' = keys
      /\ order' = Append(rest, key)
  BY DEF CachePlaybackURL
<1> HIDE DEF q, live
<1>4. \A k \in 0 .. Len(q) : IsFiniteSet(LeftAfter(k)) /\ Cardinality(LeftAfter(k)) \in Nat
  BY <1>1, FS_Subset, FS_CardinalityType
<1>5. n \in 0 .. Len(q) /\ Enough(n)
  <2> DEFINE T == {k \in 0 .. Len(q) : Enough(k)}
  <2>1. T \in SUBSET Nat /\ Len(q) \in T
    BY <1>2
  <2>2. PICK k \in T : \A j \in T : k <= j
    BY <2>1, LeastOne
  <2>3. ASSUME NEW j \in 0 .. k - 1 PROVE Cardinality(LeftAfter(j)) >= MaxCacheSize
    <3>1. j \in 0 .. Len(q) /\ ~(k <= j)
      BY <1>2, <2>2
    <3>2. ~Enough(j)
      BY <2>2, <3>1
    <3>3. Cardinality(LeftAfter(j)) \in Nat /\ MaxCacheSize \in Nat
      BY <1>4, <3>1 DEF EmbyProxyAssumption
    <3> HIDE DEF LeftAfter
    <3> QED BY <3>2, <3>3
  <2> HIDE DEF LeftAfter
  <2> QED BY <2>2, <2>3
<1> HIDE DEF n
<1>6. Cardinality(LeftAfter(n)) < MaxCacheSize
  <2>1. CASE n = Len(q)
    <3>1. SubSeq(q, 1, Len(q)) = q
      BY <1>2, SubSeqFull
    <3>2. LeftAfter(n) = {}
      BY <1>2, <2>1, <3>1
    <3> QED BY <3>2, FS_EmptySet DEF EmbyProxyAssumption
  <2> QED BY <1>5, <2>1
<1>7. IsFiniteSet(keys) /\ Cardinality(keys) <= MaxCacheSize
  <2>1. IsFiniteSet(LeftAfter(n)) /\ Cardinality(LeftAfter(n)) \in Nat
    BY <1>4, <1>5
  <2> HIDE DEF LeftAfter
  <2>2. IsFiniteSet(keys) /\ (Cardinality(keys) = Cardinality(LeftAfter(n)) \/ Cardinality(keys) = Cardinality(LeftAfter(n)) + 1)
    BY <2>1, FS_AddElement
  <2> QED BY <1>6, <2>1, <2>2 DEF EmbyProxyAssumption
<1>8. rest \in Seq(LinkKey) /\ LeftAfter(n) \subseteq ToSet(rest)
  BY <1>2, <1>5, RestHasOthers
<1> HIDE DEF rest, LeftAfter
<1>9. order' \in Seq(LinkKey) /\ keys \subseteq ToSet(order')
  BY <1>3, <1>8, AppendedTo
<1> QED BY <1>3, <1>7, <1>9 DEF CacheSound, LinkKey, Asked, Headers

LEMMA CacheStart == EmbyProxyAssumption /\ ProxyInit => CacheInv
<1> SUFFICES ASSUME EmbyProxyAssumption, ProxyInit PROVE CacheInv
  OBVIOUS
<1>1. CacheSound
  <2>1. DOMAIN links = {} /\ DOMAIN expiry = {} /\ order \in Seq(LinkKey)
    BY DEF ProxyInit
  <2> QED BY <2>1, FS_EmptySet DEF CacheSound, EmbyProxyAssumption
<1>2. ProxyTypeOK
  BY <1>1 DEF CacheSound, ProxyTypeOK, ProxyInit, NotPlayed, EmbyProxyAssumption
<1> QED BY <1>1, <1>2, ProxyStart DEF CacheInv

LEMMA HitKeeps ==
  ASSUME CacheSound, NEW r \in Plays, NEW c \in Clients, NEW source \in Asked, Hit(r, c, source)
  PROVE  CacheSound'
<1> DEFINE key == Key(source, c)
<1>1. key \in LinkKey /\ key \in DOMAIN links
  BY DEF Hit, Key, LinkKey
<1>2. order' = Append(RemoveFirst(order, key), key) /\ UNCHANGED <<links, expiry>>
  BY DEF Hit, ToEnd
<1> HIDE DEF key
<1>3. PICK q : q = RemoveFirst(order, key)
  OBVIOUS
<1>4. q \in Seq(LinkKey) /\ DOMAIN links \ {key} \subseteq ToSet(q)
  BY <1>3, FirstRemoved DEF CacheSound
<1>5. order' \in Seq(LinkKey) /\ DOMAIN links \subseteq ToSet(order')
  BY <1>1, <1>2, <1>3, <1>4, AppendedTo
<1> QED BY <1>2, <1>5 DEF CacheSound, LinkKey, Asked, Headers

LEMMA NoHitKeeps ==
  ASSUME EmbyProxyAssumption, CacheSound, NEW r \in Plays, NEW c \in Clients, NEW source \in Asked, NoHit(r, c, source)
  PROVE  CacheSound'
<1> DEFINE key == Key(source, c)
<1>1. CASE UNCHANGED linkVars
  BY <1>1 DEF linkVars, CacheSound, LinkKey, Asked, Headers
<1>2. CASE /\ links' = Restrict(links, DOMAIN links \ {key})
           /\ expiry' = Restrict(expiry, DOMAIN links \ {key})
           /\ order' = RemoveFirst(order, key)
  <2> HIDE DEF key
  <2>1. DOMAIN links' = DOMAIN links \ {key} /\ DOMAIN expiry' = DOMAIN links \ {key}
    BY <1>2 DEF Restrict
  <2>2. order' \in Seq(LinkKey) /\ DOMAIN links \ {key} \subseteq ToSet(order')
    BY <1>2, FirstRemoved DEF CacheSound
  <2>3. IsFiniteSet(DOMAIN links') /\ Cardinality(DOMAIN links') <= Cardinality(DOMAIN links)
    BY <2>1, FS_Subset DEF CacheSound
  <2>4. Cardinality(DOMAIN links') \in Nat /\ Cardinality(DOMAIN links) \in Nat
    BY <2>3, FS_CardinalityType DEF CacheSound
  <2>5. Cardinality(DOMAIN links') <= MaxCacheSize
    BY <2>3, <2>4 DEF CacheSound, EmbyProxyAssumption
  <2> QED BY <2>1, <2>2, <2>3, <2>5 DEF CacheSound, LinkKey, Asked, Headers
<1> QED BY <1>1, <1>2 DEF NoHit

LEMMA CacheKeeps == CacheInv /\ [ProxyNext]_proxyVars => CacheInv'
<1> SUFFICES ASSUME CacheInv, [ProxyNext]_proxyVars PROVE CacheInv'
  OBVIOUS
<1>1. ProxyInv /\ ProxyInv' /\ EmbyProxyAssumption /\ CacheSound /\ ProxyTypeOK /\ DOMAIN play = Plays
  BY ProxyKeeps DEF CacheInv, ProxyInv, ProxyTyped
<1>2. ASSUME UNCHANGED linkVars PROVE CacheSound'
  BY <1>1, <1>2 DEF linkVars, CacheSound, LinkKey, Asked, Headers
<1>3. CacheSound'
  <2>1. ASSUME NEW r \in Plays, ArrivePlay(r) PROVE CacheSound'
    BY <1>1, <2>1, HitKeeps, NoHitKeeps DEF ArrivePlay
  <2>2. ASSUME NEW r \in Plays, Resolve(r) PROVE CacheSound'
    <3>1. play[r].client \in Clients /\ play[r].source \in Asked
      BY <1>1, <2>2 DEF Resolve, ProxyInv, MissFits
    <3>2. Key(play[r].source, play[r].client) \in LinkKey
      BY <3>1 DEF Key, LinkKey
    <3>3. ASSUME NEW answer, Give(r, play[r], answer) PROVE CacheSound'
      BY <1>1, <1>2, <3>2, <3>3, RoomMade DEF Give
    <3>4. CASE GiveNothing(r, play[r])
      BY <1>2, <3>4 DEF GiveNothing
    <3> QED BY <2>2, <3>3, <3>4 DEF Resolve
  <2> QED BY <1>2, <2>1, <2>2 DEF ProxyNext, Tick, PlaybackInfo, proxyVars
<1>4. now' \in 0 .. MaxTime
  <2>1. now \in 0 .. MaxTime /\ MaxTime \in Nat
    BY <1>1 DEF ProxyTypeOK, EmbyProxyAssumption
  <2>2. CASE Tick
    BY <2>1, <2>2 DEF Tick
  <2>3. CASE UNCHANGED now
    BY <2>1, <2>3
  <2> QED BY <2>2, <2>3 DEF ProxyNext, PlaybackInfo, ArrivePlay, Resolve, proxyVars
<1>5. \A r \in Plays : play'[r].at \in {"new", "miss", "done"}
  <2>2. ASSUME NEW r \in Plays, NEW c, NEW source, NEW answer, FinishPlay(r, c, source, answer)
        PROVE  \A t \in Plays : play'[t].at \in {"new", "miss", "done"}
    <3>1. PICK next : next = [at |-> "done"]
      OBVIOUS
    <3>2. next.at \in {"miss", "done"} /\ play' = [play EXCEPT ![r] = next]
      BY <2>2, <3>1 DEF FinishPlay
    <3> QED BY <1>1, <3>2 DEF ProxyTypeOK
  <2>3. ASSUME NEW r \in Plays, NEW c, NEW source, NEW meta, Miss(r, c, source, meta)
        PROVE  \A t \in Plays : play'[t].at \in {"new", "miss", "done"}
    <3>1. PICK next : next = [at |-> "miss", client |-> c, source |-> source, meta |-> meta]
      OBVIOUS
    <3>2. next.at \in {"miss", "done"} /\ play' = [play EXCEPT ![r] = next]
      BY <2>3, <3>1 DEF Miss
    <3> QED BY <1>1, <3>2 DEF ProxyTypeOK
  <2>4. CASE UNCHANGED play
    BY <1>1, <2>4 DEF ProxyTypeOK
  <2>5. ASSUME NEW r \in Plays, ArrivePlay(r) PROVE \A t \in Plays : play'[t].at \in {"new", "miss", "done"}
    BY <2>2, <2>3, <2>5 DEF ArrivePlay, Hit, NoHit, MissWithKnown
  <2>6. ASSUME NEW r \in Plays, Resolve(r) PROVE \A t \in Plays : play'[t].at \in {"new", "miss", "done"}
    BY <2>2, <2>6 DEF Resolve, Give, GiveNothing
  <2> QED BY <2>4, <2>5, <2>6 DEF ProxyNext, Tick, PlaybackInfo, proxyVars
<1>6. \A h \in DOMAIN strmSources' : strmSources'[h] \subseteq HttpSources /\ h[1] # NoAuth
  <2>1. ASSUME NEW c \in Clients, PlaybackInfo(c)
        PROVE  \A h \in DOMAIN strmSources' : strmSources'[h] \subseteq HttpSources /\ h[1] # NoAuth
    BY <1>1, <2>1 DEF PlaybackInfo, Headers, Authenticated, ProxyTypeOK
  <2>2. CASE UNCHANGED strmSources
    BY <1>1, <2>2 DEF ProxyTypeOK
  <2> QED BY <2>1, <2>2 DEF ProxyNext, Tick, ArrivePlay, Resolve, proxyVars
<1>7. ProxyTypeOK'
  BY <1>3, <1>4, <1>5, <1>6 DEF ProxyTypeOK, CacheSound, Plays, HttpSources
<1> QED BY <1>1, <1>3, <1>7 DEF CacheInv

\* The proxy never remembers more links than MaxCacheSize, for any clients,
\* sources and requests and any room: each link has a place in the order, so that
\* what is pushed out at its front makes room, also where requests that raced
\* left a key there twice (service/embyproxy/proxy.go, cachePlaybackURL).
THEOREM CacheBounded == EmbyProxyAssumption /\ ProxySpec => []ProxyTypeOK
<1>1. CacheInv => ProxyTypeOK
  BY DEF CacheInv
<1> QED BY <1>1, CacheStart, CacheKeeps, PTL DEF ProxySpec
=============================================================================
