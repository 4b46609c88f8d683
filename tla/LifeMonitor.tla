---------------------------- MODULE LifeMonitor ----------------------------
(***************************************************************************)
(* The monitor of one account's life events (internal/service/monitor).    *)
(* A goroutine polls 115 for the events past a cursor, handles them one by *)
(* one, writes the cursor back to the account's entry and saves it.  A     *)
(* goroutine that was stopped may still be at work when the next starts.   *)
(* Events have the ids 1..N, in the order 115 records them; that a cursor  *)
(* also carries a time, and which file operations an event makes, is left  *)
(* out.  The first pull is the one of FirstPullMode "all".                 *)
(***************************************************************************)
EXTENDS Integers

CONSTANTS N,            \* number of events: a bound for TLC only
          Files, Keys,
          FileOf,       \* the file of an event
          KeyOf,        \* what tells events apart for the deduplicator:
                        \* the file, the type and the parent of an event
          Loops,        \* goroutines of pollLoop
          MaxAttempts,  \* monitorMaxEventAttempts
          EnableDedup,  \* of the settings
          Unresolvable  \* whether the path of an event may be unknown

Events == 1..N

ASSUME EventAssumption ==
    /\ N \in Nat
    /\ FileOf \in [Events -> Files] /\ KeyOf \in [Events -> Keys]
    /\ \A d, e \in Events : KeyOf[d] = KeyOf[e] => FileOf[d] = FileOf[e]
ASSUME SettingsAssumption ==
    /\ MaxAttempts \in Nat \ {0}
    /\ EnableDedup \in BOOLEAN /\ Unresolvable \in BOOLEAN

VARIABLES produced,  \* the events 115 has recorded so far are 1..produced
          acc,       \* the account's entry in Monitor.accounts
          failures,  \* its eventFailures
          loops,     \* the goroutines of pollLoop
          seen,      \* the keys in the deduplicator
          db,        \* the saved cursor
          done       \* history: events that were applied, skipped or given up

vars == <<produced, acc, failures, loops, seen, db, done>>

Cursor == 0..N
Entry == [at : {"none", "running", "stopped"}, cursor : Cursor]
Poll == [at : {"idle", "wait", "pull", "check", "doing", "finish", "save"},
         from : Cursor, batch : SUBSET Events, cursor : Cursor, cancelled : BOOLEAN]
IdlePoll == [at |-> "idle", from |-> 0, batch |-> {}, cursor |-> 0, cancelled |-> FALSE]

NoFailures == [e \in Events |-> 0]

TypeOK ==
    /\ produced \in Cursor
    /\ acc \in Entry
    /\ failures \in [Events -> 0..MaxAttempts-1]
    /\ loops \in [Loops -> Poll]
    /\ seen \in SUBSET Keys
    /\ db \in Cursor
    /\ done \in SUBSET Events

Init ==
    /\ produced = 0
    /\ acc = [at |-> "none", cursor |-> 0]
    /\ failures = NoFailures
    /\ loops = [l \in Loops |-> IdlePoll]
    /\ seen = {}
    /\ db = 0
    /\ done = {}

-----------------------------------------------------------------------------
(* What the actions are made of *)

\* The goroutine l goes on at a, with what it pulled and where it has got to.
Go(l, a, batch, cursor) ==
    loops' = [loops EXCEPT ![l] =
                [at |-> a, from |-> loops[l].from, batch |-> batch,
                 cursor |-> cursor, cancelled |-> loops[l].cancelled]]
GoTo(l, a) == Go(l, a, loops[l].batch, loops[l].cursor)

\* It goes on at a with nothing pulled.
Fresh(l, a, from) ==
    loops' = [loops EXCEPT ![l] =
                [at |-> a, from |-> from, batch |-> {}, cursor |-> 0,
                 cancelled |-> loops[l].cancelled]]

Cancelled(p) == [at |-> p.at, from |-> p.from, batch |-> p.batch,
                 cursor |-> p.cursor, cancelled |-> p.at # "idle"]

-----------------------------------------------------------------------------
(* 115 and the deduplicator's clock *)

Produce ==
    /\ produced < N
    /\ produced' = produced + 1
    /\ UNCHANGED <<acc, failures, loops, seen, db, done>>

\* The window of a key is over, or Refresh drops the deduplicator.
ExpireDedup(k) ==
    /\ k \in seen
    /\ seen' = seen \ {k}
    /\ UNCHANGED <<produced, acc, failures, loops, db, done>>

Marked(e) == IF EnableDedup THEN seen \cup {KeyOf[e]} ELSE seen

-----------------------------------------------------------------------------
(* Start and Stop, by a request, by Refresh or by StartAll and StopAll *)

\* A new entry and a goroutine for it, from the saved cursor, or from none if
\* it cannot be read.
Launch(l) ==
    /\ loops[l].at = "idle"
    /\ Fresh(l, "wait", 0)
    /\ \E c \in {db, 0} : acc' = [at |-> "running", cursor |-> c]
    /\ failures' = NoFailures
    /\ UNCHANGED <<produced, seen, db, done>>

\* Mutant: a second goroutine while the first one runs.
StartBlind(l) == Launch(l)

Start(l) ==
    /\ acc.at # "running"
    /\ Launch(l)

Stop ==
    /\ acc.at = "running"
    /\ acc' = [at |-> "stopped", cursor |-> acc.cursor]
    /\ loops' = [l \in Loops |-> Cancelled(loops[l])]
    /\ UNCHANGED <<produced, failures, seen, db, done>>

\* The process ends, however it does; the cursor saved last is what stays.
Crash ==
    /\ acc.at # "none"
    /\ acc' = [at |-> "none", cursor |-> 0]
    /\ failures' = NoFailures
    /\ loops' = [l \in Loops |-> IdlePoll]
    /\ seen' = {}
    /\ UNCHANGED <<produced, db, done>>

-----------------------------------------------------------------------------
(* pollLoop *)

Exit(l) ==
    /\ loops[l].at = "wait"
    /\ loops[l].cancelled \/ acc.at # "running"
    /\ loops' = [loops EXCEPT ![l] = IdlePoll]
    /\ UNCHANGED <<produced, acc, failures, seen, db, done>>

\* The select may take the timer of a goroutine that is cancelled as well.
PollStart(l) ==
    /\ loops[l].at = "wait" /\ acc.at = "running"
    /\ Fresh(l, "pull", acc.cursor)
    /\ UNCHANGED <<produced, acc, failures, seen, db, done>>

\* A full scan has the account, there is no cookie, or 115 does not answer.
PullFail(l) ==
    /\ loops[l].at = "pull"
    /\ Fresh(l, "wait", 0)
    /\ UNCHANGED <<produced, acc, failures, seen, db, done>>

\* The events past the cursor, of each file the newest one.
Newest(from) ==
    {e \in from+1..produced : \A n \in e+1..produced : FileOf[n] # FileOf[e]}

PullOk(l) ==
    /\ loops[l].at = "pull" /\ ~loops[l].cancelled
    /\ Go(l, "check", Newest(loops[l].from), 0)
    /\ UNCHANGED <<produced, acc, failures, seen, db, done>>

-----------------------------------------------------------------------------
(* The events of a poll, the oldest first *)

Check(l) ==
    /\ loops[l].at = "check"
    /\ GoTo(l, IF loops[l].cancelled \/ loops[l].batch = {} THEN "finish" ELSE "doing")
    /\ UNCHANGED <<produced, acc, failures, seen, db, done>>

Doing(l, e) ==
    /\ loops[l].at = "doing"
    /\ e \in loops[l].batch
    /\ \A b \in loops[l].batch : e <= b

\* The poll is past e.
Advance(l, e) == Go(l, "check", loops[l].batch \ {e}, e)

\* e is applied, or there is nothing to do for it; most paths mark its key.
Handle(l, e) ==
    /\ Doing(l, e) /\ ~(EnableDedup /\ KeyOf[e] \in seen)
    /\ done' = done \cup {e}
    /\ seen' \in {seen, Marked(e)}
    /\ failures' = [failures EXCEPT ![e] = 0]
    /\ Advance(l, e)
    /\ UNCHANGED <<produced, acc, db>>

Duplicate(l, e) ==
    /\ Doing(l, e) /\ EnableDedup /\ KeyOf[e] \in seen
    /\ failures' = [failures EXCEPT ![e] = 0]
    /\ Advance(l, e)
    /\ UNCHANGED <<produced, acc, seen, db, done>>

\* Mutant: the events behind the one that failed are handled.
BreakOn(l, e) == Go(l, "check", loops[l].batch \ {e}, loops[l].cursor)

\* The cursor must not pass e: the poll ends here.
Break(l, e) == GoTo(l, "finish")

\* Mutant: failures are not counted.
BumpNot(e) == UNCHANGED failures

Bump(e) == failures' = [failures EXCEPT ![e] = failures[e] + 1]

\* An event whose path is unknown is marked although it failed.
FailMarks(e) == {seen} \cup (IF Unresolvable THEN {Marked(e)} ELSE {})

Fail(l, e) ==
    /\ Doing(l, e) /\ ~(EnableDedup /\ KeyOf[e] \in seen)
    /\ failures[e] + 1 < MaxAttempts
    /\ Bump(e)
    /\ seen' \in FailMarks(e)
    /\ Break(l, e)
    /\ UNCHANGED <<produced, acc, db, done>>

ClearFailure(e) == failures' = [failures EXCEPT ![e] = 0]

\* One failure too many: e is given up.
DeadLetter(l, e) ==
    /\ Doing(l, e) /\ ~(EnableDedup /\ KeyOf[e] \in seen)
    /\ failures[e] + 1 >= MaxAttempts
    /\ ClearFailure(e)
    /\ done' = done \cup {e}
    /\ seen' = Marked(e)
    /\ Advance(l, e)
    /\ UNCHANGED <<produced, acc, db>>

\* The cursor goes to whatever entry the account has now.
Finish(l) ==
    /\ loops[l].at = "finish"
    /\ acc' = [at |-> acc.at, cursor |-> IF loops[l].cursor > 0 THEN loops[l].cursor ELSE acc.cursor]
    /\ GoTo(l, "save")
    /\ UNCHANGED <<produced, failures, seen, db, done>>

\* A poll that has no cursor saves the one of the entry.
Save(l) ==
    /\ loops[l].at = "save"
    /\ db' \in {db, IF loops[l].cursor > 0 THEN loops[l].cursor ELSE acc.cursor}
    /\ Fresh(l, "wait", 0)
    /\ UNCHANGED <<produced, acc, failures, seen, done>>

EventStep(l, e) == Handle(l, e) \/ Duplicate(l, e) \/ Fail(l, e) \/ DeadLetter(l, e)

LoopStep(l) ==
    \/ Exit(l) \/ PollStart(l) \/ PullFail(l) \/ PullOk(l)
    \/ Check(l) \/ \E e \in Events : EventStep(l, e)
    \/ Finish(l) \/ Save(l)

Next ==
    \/ Produce
    \/ \E k \in Keys : ExpireDedup(k)
    \/ \E l \in Loops : Start(l) \/ LoopStep(l)
    \/ Stop \/ Crash

Spec == Init /\ [][Next]_vars

\* Timers fire and handlers return; 115 does not fail for ever.
MonitorFairness ==
    \A l \in Loops : WF_vars(LoopStep(l)) /\ SF_vars(PullOk(l))
FairSpec == Spec /\ MonitorFairness

-----------------------------------------------------------------------------
(* Properties *)

\* Nothing is left to do for e: an event the deduplicator does not tell from
\* it is done, or a newer event on its file replaces it.
Settled(e) ==
    \/ \E d \in done : KeyOf[d] = KeyOf[e]
    \/ \E n \in e+1..produced : FileOf[n] = FileOf[e]

\* No cursor, neither in memory nor saved, is past an event that is still to
\* be handled: what fails, is stopped or crashes is pulled again.
NoEventLost == \A e \in Events : e <= acc.cursor \/ e <= db => Settled(e)

\* A goroutine that is not stopped handles no event on a file after a newer
\* event on it, whatever cursor it had to start from.
LiveInOrder ==
    [][\A l \in Loops : \A e \in Events :
         Handle(l, e) /\ ~loops[l].cancelled
         => \A d \in done : FileOf[d] = FileOf[e] => d <= e]_vars

\* While the monitor stays on, every event is passed in the end: one that
\* fails for good does not hold up the ones behind it.
EventsSettle ==
    <>[](acc.at = "running") => \A e \in Events : []<>(produced < e \/ acc.cursor >= e)
=============================================================================
