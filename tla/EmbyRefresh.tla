---------------------------- MODULE EmbyRefresh ----------------------------
(* Emby is told of new and deleted STRM files (service/emby/refresh.go).     *)
(* Whoever changes a directory asks for its refresh; the requests of one     *)
(* directory share a timer, which each of them starts again.  What the timer *)
(* runs waits for one of a few slots, gives up when that takes too long,     *)
(* looks for the item of the directory or of one above it and refreshes that *)
(* with everything below.                                                    *)
EXTENDS Integers, FiniteSets

CONSTANTS Folders,     \* local directories
          Up,          \* the directory above, or Outside
          Concurrency, \* refreshes at a time
          Timers,      \* bound: timers, armed or running, at a time
          MaxWrites    \* bound: changes of directories
Outside == "outside"
Slots == 1 .. Timers
RefreshAssumption ==
  /\ Up \in [Folders -> Folders \cup {Outside}] /\ Outside \notin Folders
  /\ Concurrency \in Nat \ {0} /\ {Timers, MaxWrites} \subseteq Nat

VARIABLES
  calls,    \* changes whose request for a refresh is still to come
  stale,    \* directories changed since Emby was asked to look at them
  timers,   \* the timers and what they run
  debounce, \* debounceMap: the timer of a directory, or 0
  known,    \* directories Emby has an item for
  on,       \* whether refreshing is switched on and Emby configured
  missed,   \* directories whose refresh was given up: off, timed out, failed
  writes
refreshVars == <<calls, stale, timers, debounce, known, on, missed, writes>>

Free == [dir |-> Outside, at |-> "free"]
Stages == {"free", "armed", "queued", "running", "unmap"}
At(s) == timers[s].at
RefreshTypeOK ==
  /\ calls \in [Folders -> 0 .. MaxWrites] /\ stale \subseteq Folders
  /\ timers \in [Slots -> [dir : Folders \cup {Outside}, at : Stages]]
  /\ debounce \in [Folders -> 0 .. Timers] /\ known \subseteq Folders /\ missed \subseteq Folders
  /\ on \in BOOLEAN /\ writes \in 0 .. MaxWrites
  /\ Cardinality({s \in Slots : At(s) = "running"}) <= Concurrency

RefreshInit ==
  /\ calls = [d \in Folders |-> 0] /\ stale = {} /\ missed = {} /\ writes = 0 /\ on = TRUE
  /\ timers = [s \in Slots |-> Free] /\ debounce = [d \in Folders |-> 0]
  /\ known \in SUBSET Folders

Within[d \in Folders] == {d} \cup (IF Up[d] = Outside THEN {} ELSE Within[Up[d]])
Under(d) == {e \in Folders : d \in Within[e]}

-----------------------------------------------------------------------------
\* A STRM file is written or removed; its writer then asks for a refresh.
Write(d) ==
  /\ writes < MaxWrites /\ writes' = writes + 1
  /\ stale' = stale \cup {d} /\ missed' = missed \ {d}
  /\ calls' = [calls EXCEPT ![d] = @ + 1]
  /\ UNCHANGED <<timers, debounce, known, on>>

FreeOf(f) == CHOOSE s \in Slots : f[s].at = "free"
Armed(f, s, d) == [t \in Slots |-> IF t = s THEN [dir |-> d, at |-> "armed"] ELSE f[t]]
\* Mutant: an entry in the map is taken for a timer that is still to run.
ArmUnlessMapped(d) ==
  IF debounce[d] # 0 THEN UNCHANGED <<timers, debounce>>
  ELSE /\ timers' = Armed(timers, FreeOf(timers), d)
       /\ debounce' = [debounce EXCEPT ![d] = FreeOf(timers)]
\* The timer of the map is stopped, which does nothing once it has fired, and a
\* new one takes its place.
Stopped(d) ==
  [t \in Slots |-> IF t = debounce[d] /\ At(t) = "armed" THEN Free ELSE timers[t]]
Arm(d) ==
  /\ timers' = Armed(Stopped(d), FreeOf(Stopped(d)), d)
  /\ debounce' = [debounce EXCEPT ![d] = FreeOf(Stopped(d))]
RefreshByPath(d) ==
  /\ calls[d] > 0 /\ \E s \in Slots : At(s) = "free"
  /\ calls' = [calls EXCEPT ![d] = @ - 1]
  /\ IF on THEN Arm(d) /\ UNCHANGED missed
     ELSE missed' = missed \cup {d} /\ UNCHANGED <<timers, debounce>>
  /\ UNCHANGED <<stale, known, on, writes>>

Move(s, at) == timers' = [timers EXCEPT ![s] = [dir |-> timers[s].dir, at |-> at]]
Fire(s) ==
  /\ At(s) = "armed" /\ Move(s, "queued")
  /\ UNCHANGED <<calls, stale, debounce, known, on, missed, writes>>

\* runRefresh: a slot of the semaphore, or none within 30 seconds.
Admit(s) ==
  /\ At(s) = "queued" /\ Cardinality({t \in Slots : At(t) = "running"}) < Concurrency
  /\ Move(s, "running")
  /\ UNCHANGED <<calls, stale, debounce, known, on, missed, writes>>
QueueTimeout(s) ==
  /\ At(s) = "queued" /\ Cardinality({t \in Slots : At(t) = "running"}) = Concurrency
  /\ Move(s, "unmap") /\ missed' = missed \cup {timers[s].dir}
  /\ UNCHANGED <<calls, stale, debounce, known, on, writes>>

\* doRefresh: the nearest directory with an item, its refresh covers all below.
FindItemByPath(d) == {e \in Within[d] \cap known : Within[d] \cap known \subseteq Within[e]}
DoRefresh(s) ==
  LET d == timers[s].dir IN
  /\ At(s) = "running" /\ Move(s, "unmap")
  /\ \/ /\ on
        /\ \E e \in FindItemByPath(d) : stale' = stale \ Under(e) /\ known' = known \cup Under(e)
        /\ UNCHANGED missed
     \/ missed' = missed \cup {d} /\ UNCHANGED <<stale, known>>
  /\ UNCHANGED <<calls, debounce, on, writes>>

\* At its end the timer's function deletes the entry of the directory, also
\* that of a newer timer.
Unmap(s) ==
  /\ At(s) = "unmap"
  /\ debounce' = [debounce EXCEPT ![timers[s].dir] = 0]
  /\ timers' = [timers EXCEPT ![s] = Free]
  /\ UNCHANGED <<calls, stale, known, on, missed, writes>>

\* The user switches refreshing on or off.
Toggle == on' = ~on /\ UNCHANGED <<calls, stale, timers, debounce, known, missed, writes>>

RefreshNext ==
  \/ \E d \in Folders : Write(d) \/ RefreshByPath(d)
  \/ \E s \in Slots : Fire(s) \/ Admit(s) \/ QueueTimeout(s) \/ DoRefresh(s) \/ Unmap(s)
  \/ Toggle
RefreshSpec == RefreshInit /\ [][RefreshNext]_refreshVars

\* A change Emby has not been asked to look at is asked for, or its directory
\* has a timer that runs or waits for its slot, unless that was given up: a
\* change during a refresh gets a timer of its own.
ChangesFollowed ==
  \A d \in stale \ missed :
    calls[d] > 0 \/ \E s \in Slots : timers[s].dir = d /\ At(s) \in {"armed", "queued", "running"}
=============================================================================
