----------------------------- MODULE TasksStore -----------------------------
(***************************************************************************)
(* tasks.json behind its mutex (internal/service/store/tasks.go).  A task  *)
(* is reduced to what the scheduler reads of it: the mode of its schedule  *)
(* and the age of lastRunAt, in minutes rounded to the nearest one.  An    *)
(* age of -1 is a stamp from the second half of the current minute; Cap    *)
(* stands for every age an interval has passed at, and for "never ran".    *)
(***************************************************************************)
EXTENDS Integers

CONSTANTS Ids,   \* task identifiers
          Cap    \* bound on the ages that are told apart

ASSUME CapAssumption == Cap \in Nat \ {0}

VARIABLE file    \* tasks.json

Modes == {"absent", "manual", "interval", "daily"}
Ages == -1..Cap
Entry == [mode : Modes, age : Ages]
File == [Ids -> Entry]

Absent == [mode |-> "absent", age |-> Cap]
Empty == [t \in Ids |-> Absent]

Older(e) == [mode |-> e.mode, age |-> IF e.age = Cap THEN Cap ELSE e.age + 1]
OlderFile(f) == [t \in Ids |-> Older(f[t])]

\* tmp + rename: the file is the old list or the new one, never a part of it.
SaveTasks(f) == file' \in {file, f}

\* Read, change and save under one lock.
UpsertTask(t, e) == file' = [file EXCEPT ![t] = e]
DeleteTask(t) == file' = [file EXCEPT ![t] = Absent]
=============================================================================
