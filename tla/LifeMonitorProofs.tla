------------------------- MODULE LifeMonitorProofs -------------------------
(***************************************************************************)
(* Proofs about LifeMonitor for any events, files, keys and goroutines:    *)
(* type correctness, that no cursor passes an event that is still to be    *)
(* handled, and that a goroutine that runs keeps the order of a file's     *)
(* events.  And about LifeEvents, for any files, folders, names, settings  *)
(* and operations of users: type correctness, and that no handler removes  *)
(* what somebody else wrote.                                               *)
(***************************************************************************)
EXTENDS LifeMonitor, LifeEvents, FiniteSetTheorems, SequenceTheorems, WellFoundedInduction, TLAPS

-----------------------------------------------------------------------------
(* Type correctness *)

LEMMA IdleIsPoll == IdlePoll \in Poll
  BY EventAssumption DEF IdlePoll, Poll, Cursor

LEMMA NoFailuresTyped == NoFailures \in [Events -> 0..MaxAttempts-1]
  BY SettingsAssumption DEF NoFailures

\* The two ways a goroutine goes on, and the stop of one, keep it a goroutine.
LEMMA GoTyped ==
  ASSUME TypeOK, NEW l \in Loops, NEW a, NEW b, NEW c, Go(l, a, b, c),
         a \in {"wait", "pull", "check", "doing", "finish", "save"},
         b \in SUBSET Events, c \in Cursor
  PROVE  loops' \in [Loops -> Poll]
  <1>1. loops[l] \in Poll
    BY DEF TypeOK
  <1> QED
    BY <1>1 DEF TypeOK, Go, Poll

LEMMA FreshTyped ==
  ASSUME TypeOK, NEW l \in Loops, NEW a \in {"wait", "pull"}, NEW c \in Cursor,
         Fresh(l, a, c)
  PROVE  loops' \in [Loops -> Poll]
  <1>1. loops[l] \in Poll
    BY DEF TypeOK
  <1> QED
    BY <1>1, EventAssumption DEF TypeOK, Fresh, Poll, Cursor

LEMMA CancelledTyped == ASSUME NEW p \in Poll PROVE Cancelled(p) \in Poll
  BY DEF Poll, Cancelled

LEMMA MarkedTyped == ASSUME TypeOK, NEW e \in Events PROVE Marked(e) \in SUBSET Keys
  BY EventAssumption DEF TypeOK, Marked

LEMMA InitTyped == Init => TypeOK
  BY IdleIsPoll, NoFailuresTyped, EventAssumption DEF Init, TypeOK, Entry, Cursor

\* What happens outside a goroutine keeps the types.
LEMMA OutsideTyped ==
  ASSUME TypeOK,
         \/ Produce \/ Stop \/ Crash
         \/ \E k \in Keys : ExpireDedup(k)
         \/ \E l \in Loops : Start(l)
  PROVE  TypeOK'
  <1>z. 0 \in Cursor
    BY EventAssumption DEF Cursor
  <1>1. CASE Produce
    BY <1>1, EventAssumption DEF TypeOK, Produce, Cursor
  <1>2. CASE Stop
    <2>1. loops' \in [Loops -> Poll]
      BY <1>2, CancelledTyped DEF TypeOK, Stop
    <2> QED
      BY <1>2, <2>1 DEF TypeOK, Stop, Entry
  <1>3. CASE Crash
    BY <1>3, <1>z, IdleIsPoll, NoFailuresTyped DEF TypeOK, Crash, Entry
  <1>4. CASE \E k \in Keys : ExpireDedup(k)
    BY <1>4 DEF TypeOK, ExpireDedup
  <1>5. ASSUME NEW l \in Loops, Start(l) PROVE TypeOK'
    <2>1. loops' \in [Loops -> Poll]
      BY <1>5, <1>z, FreshTyped DEF Start, Launch
    <2>2. acc' \in Entry
      BY <1>5, <1>z DEF TypeOK, Start, Launch, Entry
    <2> QED
      BY <1>5, <2>1, <2>2, NoFailuresTyped DEF TypeOK, Start, Launch
  <1> QED
    BY <1>1, <1>2, <1>3, <1>4, <1>5

\* The handling of an event keeps the types.
LEMMA EventTyped ==
  ASSUME TypeOK, NEW l \in Loops, NEW e \in Events, EventStep(l, e)
  PROVE  TypeOK'
  <1>1. loops[l] \in Poll /\ loops[l].batch \ {e} \in SUBSET Events /\ e \in Cursor
    BY EventAssumption DEF TypeOK, Poll, Events, Cursor
  <1>2. 0 \in 0..MaxAttempts-1
    BY SettingsAssumption
  <1>3. CASE Handle(l, e)
    <2>1. loops' \in [Loops -> Poll]
      BY <1>1, <1>3, GoTyped DEF Handle, Advance
    <2> QED
      BY <1>2, <1>3, <2>1, MarkedTyped DEF TypeOK, Handle
  <1>4. CASE Duplicate(l, e)
    <2>1. loops' \in [Loops -> Poll]
      BY <1>1, <1>4, GoTyped DEF Duplicate, Advance
    <2> QED
      BY <1>2, <1>4, <2>1 DEF TypeOK, Duplicate
  <1>5. CASE Fail(l, e)
    <2>1. loops' \in [Loops -> Poll]
      BY <1>1, <1>5, GoTyped DEF Fail, Break, GoTo, Poll
    <2>2. failures' \in [Events -> 0..MaxAttempts-1]
      BY <1>5, SettingsAssumption DEF TypeOK, Fail, Bump
    <2>3. seen' \in SUBSET Keys
      BY <1>5, MarkedTyped DEF TypeOK, Fail, FailMarks
    <2> QED
      BY <1>5, <2>1, <2>2, <2>3 DEF TypeOK, Fail
  <1>6. CASE DeadLetter(l, e)
    <2>1. loops' \in [Loops -> Poll]
      BY <1>1, <1>6, GoTyped DEF DeadLetter, Advance
    <2> QED
      BY <1>2, <1>6, <2>1, MarkedTyped DEF TypeOK, DeadLetter, ClearFailure
  <1> QED
    BY <1>3, <1>4, <1>5, <1>6 DEF EventStep

\* Every step of a goroutine keeps the types.
LEMMA LoopTyped == ASSUME TypeOK, NEW l \in Loops, LoopStep(l) PROVE TypeOK'
  <1>1. loops[l] \in Poll /\ acc \in Entry /\ 0 \in Cursor
    BY EventAssumption DEF TypeOK, Cursor
  <1>2. CASE Exit(l)
    BY <1>2, IdleIsPoll DEF TypeOK, Exit
  <1>3. CASE PollStart(l)
    <2>1. loops' \in [Loops -> Poll]
      BY <1>1, <1>3, FreshTyped DEF PollStart, Entry
    <2> QED
      BY <1>3, <2>1 DEF TypeOK, PollStart
  <1>4. CASE PullFail(l)
    <2>1. loops' \in [Loops -> Poll]
      BY <1>1, <1>4, FreshTyped DEF PullFail
    <2> QED
      BY <1>4, <2>1 DEF TypeOK, PullFail
  <1>5. CASE PullOk(l)
    <2>1. Newest(loops[l].from) \in SUBSET Events
      BY <1>1, EventAssumption DEF TypeOK, Newest, Poll, Cursor, Events
    <2>2. loops' \in [Loops -> Poll]
      BY <1>1, <1>5, <2>1, GoTyped DEF PullOk
    <2> QED
      BY <1>5, <2>2 DEF TypeOK, PullOk
  <1>6. CASE Check(l)
    <2>1. loops' \in [Loops -> Poll]
      BY <1>1, <1>6, GoTyped DEF Check, GoTo, Poll
    <2> QED
      BY <1>6, <2>1 DEF TypeOK, Check
  <1>7. CASE \E e \in Events : EventStep(l, e)
    BY <1>7, EventTyped
  <1>8. CASE Finish(l)
    <2>1. loops' \in [Loops -> Poll]
      BY <1>1, <1>8, GoTyped DEF Finish, GoTo, Poll
    <2>2. acc' \in Entry
      BY <1>1, <1>8 DEF Finish, Entry, Poll
    <2> QED
      BY <1>8, <2>1, <2>2 DEF TypeOK, Finish
  <1>9. CASE Save(l)
    <2>1. loops' \in [Loops -> Poll]
      BY <1>1, <1>9, FreshTyped DEF Save
    <2>2. db' \in Cursor
      BY <1>1, <1>9 DEF TypeOK, Save, Entry, Poll
    <2> QED
      BY <1>9, <2>1, <2>2 DEF TypeOK, Save
  <1> QED
    BY <1>2, <1>3, <1>4, <1>5, <1>6, <1>7, <1>8, <1>9 DEF LoopStep

LEMMA NextTyped == TypeOK /\ [Next]_vars => TypeOK'
  <1> SUFFICES ASSUME TypeOK, [Next]_vars PROVE TypeOK'
    OBVIOUS
  <1>1. CASE Next
    BY <1>1, OutsideTyped, LoopTyped DEF Next
  <1>2. CASE UNCHANGED vars
    BY <1>2 DEF TypeOK, vars
  <1> QED
    BY <1>1, <1>2

\* The monitor keeps its types, whatever fails, stops or crashes.
THEOREM MonitorTypeCorrect == Spec => []TypeOK
  BY InitTyped, NextTyped, PTL DEF Spec

-----------------------------------------------------------------------------
(***************************************************************************)
(* No event is lost.  NoEventLost is not inductive: a cursor is written    *)
(* back long after it was read, by a goroutine that may be an old one.     *)
(* The invariant below follows the cursor through the goroutine: whatever  *)
(* is before an event of its batch is in the batch too, or settled.        *)
(***************************************************************************)
SafeTo(c) == \A e \in Events : e <= c => Settled(e)

LoopSafe(l) ==
    /\ SafeTo(loops[l].from)
    /\ SafeTo(loops[l].cursor)
    /\ \A b \in loops[l].batch : \A e \in Events :
         e < b => Settled(e) \/ e \in loops[l].batch

LossInv ==
    /\ SafeTo(acc.cursor) /\ SafeTo(db)
    /\ \A l \in Loops : LoopSafe(l)
    /\ \A k \in seen : \E d \in done : KeyOf[d] = k

\* Nothing makes a settled event unsettled.
Grown == \A e \in Events : Settled(e) => Settled(e)'

LEMMA SettledGrows ==
  ASSUME TypeOK, TypeOK', produced <= produced', done \subseteq done'
  PROVE  Grown
  <1> SUFFICES ASSUME NEW e \in Events, Settled(e) PROVE Settled(e)'
    BY DEF Grown
  <1>1. CASE \E d \in done : KeyOf[d] = KeyOf[e]
    BY <1>1 DEF Settled
  <1>2. CASE \E n \in e+1..produced : FileOf[n] = FileOf[e]
    BY <1>2, EventAssumption DEF Settled, TypeOK, Events, Cursor
  <1> QED
    BY <1>1, <1>2 DEF Settled

\* Nothing is before 0.
LEMMA SafeToZero == SafeTo(0)
  BY EventAssumption DEF SafeTo, Events

LEMMA InitSafe == Init => LossInv
  <1> SUFFICES ASSUME Init PROVE LossInv
    OBVIOUS
  <1>1. \A l \in Loops : LoopSafe(l)
    BY SafeToZero DEF Init, LoopSafe, IdlePoll
  <1> QED
    BY <1>1, SafeToZero DEF Init, LossInv

\* What does not touch the loops but for l leaves the others safe.
LEMMA LoopsSafe ==
  ASSUME TypeOK, LossInv, Grown, NEW l \in Loops, NEW p,
         loops' = [loops EXCEPT ![l] = p], LoopSafe(l)'
  PROVE  \A m \in Loops : LoopSafe(m)'
  <1> SUFFICES ASSUME NEW m \in Loops, m # l PROVE LoopSafe(m)'
    OBVIOUS
  <1>1. loops'[m] = loops[m] /\ loops[m] \in Poll
    BY DEF TypeOK
  <1> QED
    BY <1>1 DEF LossInv, LoopSafe, SafeTo, Grown, Poll

LEMMA FreshSafe ==
  ASSUME TypeOK, LossInv, Grown, NEW l \in Loops, NEW a, NEW c,
         \A e \in Events : e <= c => Settled(e), Fresh(l, a, c)
  PROVE  \A m \in Loops : LoopSafe(m)'
  <1>1. loops'[l] = [at |-> a, from |-> c, batch |-> {}, cursor |-> 0,
                     cancelled |-> loops[l].cancelled]
    BY DEF Fresh, TypeOK
  <1>2. LoopSafe(l)'
    BY <1>1, EventAssumption DEF LoopSafe, SafeTo, Grown, Events
  <1> QED
    BY <1>2, LoopsSafe DEF Fresh

\* A goroutine that only goes on elsewhere stays safe.
LEMMA GoToSafe ==
  ASSUME TypeOK, LossInv, Grown, NEW l \in Loops, NEW a, GoTo(l, a)
  PROVE  \A m \in Loops : LoopSafe(m)'
  <1>1. loops'[l] = [at |-> a, from |-> loops[l].from, batch |-> loops[l].batch,
                     cursor |-> loops[l].cursor, cancelled |-> loops[l].cancelled]
    BY DEF GoTo, Go, TypeOK
  <1>2. LoopSafe(l)'
    BY <1>1 DEF LossInv, LoopSafe, SafeTo, Grown, TypeOK, Poll
  <1> QED
    BY <1>2, LoopsSafe DEF GoTo, Go

\* The oldest event of a batch is passed when it is settled.
LEMMA AdvanceSafe ==
  ASSUME TypeOK, LossInv, Grown, NEW l \in Loops, NEW e \in Events,
         Doing(l, e), Advance(l, e), Settled(e)'
  PROVE  \A m \in Loops : LoopSafe(m)'
  <1>1. loops'[l] = [at |-> "check", from |-> loops[l].from, batch |-> loops[l].batch \ {e},
                     cursor |-> e, cancelled |-> loops[l].cancelled]
    BY DEF Advance, Go, TypeOK
  <1>2. loops[l] \in Poll
    BY DEF TypeOK
  <1>3. LoopSafe(l)
    BY DEF LossInv
  <1>4. \A x \in Events : x <= e => Settled(x)'
    <2> SUFFICES ASSUME NEW x \in Events, x < e PROVE Settled(x)'
      BY DEF Events
    <2>1. x \notin loops[l].batch
      BY DEF Doing, Events
    <2> QED
      BY <1>3, <2>1 DEF LoopSafe, Doing, Grown
  <1>5. LoopSafe(l)'
    BY <1>1, <1>2, <1>3, <1>4 DEF LoopSafe, SafeTo, Grown, Poll
  <1> QED
    BY <1>5, LoopsSafe DEF Advance, Go

\* A pull skips nothing but what a newer event replaces.
LEMMA PullSafe ==
  ASSUME TypeOK, LossInv, Grown, NEW l \in Loops, PullOk(l)
  PROVE  \A m \in Loops : LoopSafe(m)'
  <1>1. loops[l] \in Poll /\ produced \in Cursor
    BY DEF TypeOK
  <1>2. loops'[l] = [at |-> "check", from |-> loops[l].from, batch |-> Newest(loops[l].from),
                     cursor |-> 0, cancelled |-> loops[l].cancelled]
    BY DEF PullOk, Go, TypeOK
  <1>3. \A b \in Newest(loops[l].from) : \A e \in Events :
          e < b => Settled(e)' \/ e \in Newest(loops[l].from)
    <2> SUFFICES ASSUME NEW b \in Newest(loops[l].from), NEW e \in Events, e < b,
                        e \notin Newest(loops[l].from)
                 PROVE  Settled(e)
      BY DEF Grown
    <2>1. CASE e <= loops[l].from
      BY <2>1 DEF LossInv, LoopSafe, SafeTo
    <2>2. CASE e > loops[l].from
      <3>1. e \in loops[l].from + 1 .. produced
        BY <1>1, <2>2 DEF Newest, Poll, Cursor, Events
      <3>2. \E n \in e+1..produced : FileOf[n] = FileOf[e]
        BY <3>1 DEF Newest
      <3> QED
        BY <3>2 DEF Settled
    <2> QED
      BY <1>1, <2>1, <2>2 DEF Poll, Cursor, Events
  <1>4. LoopSafe(l)'
    BY <1>1, <1>2, <1>3, EventAssumption DEF LossInv, LoopSafe, SafeTo, Grown, Poll, Events
  <1> QED
    BY <1>4, LoopsSafe DEF PullOk, Go

\* What happens outside a goroutine loses nothing.
LEMMA OutsideSafe ==
  ASSUME TypeOK, TypeOK', LossInv,
         \/ Produce \/ Stop \/ Crash
         \/ \E k \in Keys : ExpireDedup(k)
         \/ \E l \in Loops : Start(l)
  PROVE  LossInv'
  <1>0. produced <= produced' /\ done \subseteq done'
    BY EventAssumption DEF TypeOK, Cursor, Produce, Stop, Crash, ExpireDedup, Start, Launch
  <1>g. Grown
    BY <1>0, SettledGrows
  <1>z. \A e \in Events : ~(e <= 0)
    BY EventAssumption DEF Events
  <1>1. CASE Produce
    BY <1>1, <1>g DEF Produce, LossInv, LoopSafe, SafeTo, Grown, TypeOK, Poll
  <1>2. CASE Stop
    <2>1. ASSUME NEW l \in Loops PROVE LoopSafe(l)'
      <3>1. loops'[l] = [at |-> loops[l].at, from |-> loops[l].from, batch |-> loops[l].batch,
                         cursor |-> loops[l].cursor, cancelled |-> loops[l].at # "idle"]
        BY <1>2 DEF Stop, Cancelled
      <3> QED
        BY <3>1, <1>g DEF LossInv, LoopSafe, SafeTo, Grown, TypeOK, Poll
    <2> QED
      BY <1>2, <1>g, <2>1 DEF Stop, LossInv, SafeTo, Grown
  <1>3. CASE Crash
    <2>1. ASSUME NEW l \in Loops PROVE LoopSafe(l)'
      <3>1. loops'[l] = IdlePoll
        BY <1>3 DEF Crash
      <3> QED
        BY <3>1, <1>z DEF LoopSafe, SafeTo, IdlePoll
    <2> QED
      BY <1>3, <1>g, <1>z, <2>1 DEF Crash, LossInv, SafeTo, Grown
  <1>4. CASE \E k \in Keys : ExpireDedup(k)
    BY <1>4, <1>g DEF ExpireDedup, LossInv, LoopSafe, SafeTo, Grown, TypeOK, Poll
  <1>5. ASSUME NEW l \in Loops, Start(l) PROVE LossInv'
    <2>1. \A m \in Loops : LoopSafe(m)'
      BY <1>5, <1>g, <1>z, FreshSafe DEF Start, Launch
    <2> QED
      BY <1>5, <1>g, <1>z, <2>1 DEF Start, Launch, LossInv, SafeTo, Grown
  <1> QED
    BY <1>1, <1>2, <1>3, <1>4, <1>5

\* Nor does the handling of an event, provided that no key is marked for an
\* event that is to be tried again.
LEMMA EventSafe ==
  ASSUME ~(EnableDedup /\ Unresolvable), TypeOK, TypeOK', LossInv,
         NEW l \in Loops, NEW e \in Events, EventStep(l, e)
  PROVE  LossInv'
  <1>0. produced <= produced' /\ done \subseteq done'
    BY DEF TypeOK, Cursor, EventStep, Handle, Duplicate, Fail, DeadLetter
  <1>g. Grown
    BY <1>0, SettledGrows
  <1>a. UNCHANGED <<acc, db>>
    BY DEF EventStep, Handle, Duplicate, Fail, DeadLetter
  <1>b. SafeTo(acc.cursor)' /\ SafeTo(db)'
    BY <1>a, <1>g DEF LossInv, SafeTo, Grown
  <1>1. CASE Handle(l, e)
    <2>1. Settled(e)'
      BY <1>1 DEF Handle, Settled
    <2>2. \A m \in Loops : LoopSafe(m)'
      BY <1>1, <1>g, <2>1, AdvanceSafe DEF Handle
    <2>3. \A k \in seen' : \E d \in done' : KeyOf[d] = k
      BY <1>1 DEF Handle, Marked, LossInv
    <2> QED
      BY <1>b, <2>2, <2>3 DEF LossInv
  <1>2. CASE Duplicate(l, e)
    <2>1. Settled(e)'
      BY <1>2 DEF Duplicate, Settled, LossInv
    <2>2. \A m \in Loops : LoopSafe(m)'
      BY <1>2, <1>g, <2>1, AdvanceSafe DEF Duplicate
    <2> QED
      BY <1>2, <1>b, <2>2 DEF LossInv, Duplicate
  <1>3. CASE Fail(l, e)
    <2>1. seen' = seen
      BY <1>3 DEF Fail, FailMarks, Marked
    <2>2. \A m \in Loops : LoopSafe(m)'
      BY <1>3, <1>g, GoToSafe DEF Fail, Break
    <2> QED
      BY <1>3, <1>b, <2>1, <2>2 DEF LossInv, Fail
  <1>4. CASE DeadLetter(l, e)
    <2>1. Settled(e)'
      BY <1>4 DEF DeadLetter, Settled
    <2>2. \A m \in Loops : LoopSafe(m)'
      BY <1>4, <1>g, <2>1, AdvanceSafe DEF DeadLetter
    <2>3. \A k \in seen' : \E d \in done' : KeyOf[d] = k
      BY <1>4 DEF DeadLetter, Marked, LossInv
    <2> QED
      BY <1>b, <2>2, <2>3 DEF LossInv
  <1> QED
    BY <1>1, <1>2, <1>3, <1>4 DEF EventStep

\* No other step of a goroutine loses an event.
LEMMA LoopStepSafe ==
  ASSUME ~(EnableDedup /\ Unresolvable), TypeOK, TypeOK', LossInv,
         NEW l \in Loops, LoopStep(l)
  PROVE  LossInv'
  <1>1. CASE \E e \in Events : EventStep(l, e)
    BY <1>1, EventSafe
  <1> SUFFICES ASSUME Exit(l) \/ PollStart(l) \/ PullFail(l) \/ PullOk(l)
                      \/ Check(l) \/ Finish(l) \/ Save(l)
               PROVE  LossInv'
    BY <1>1 DEF LoopStep
  <1>0. UNCHANGED <<produced, seen, done>>
    BY DEF Exit, PollStart, PullFail, PullOk, Check, Finish, Save
  <1>g. Grown
    BY <1>0, SettledGrows DEF TypeOK, Cursor
  <1>z. \A e \in Events : ~(e <= 0)
    BY EventAssumption DEF Events
  <1>s. \A k \in seen' : \E d \in done' : KeyOf[d] = k
    BY <1>0 DEF LossInv
  <1>c. SafeTo(acc.cursor) /\ SafeTo(db) /\ SafeTo(loops[l].cursor)
    BY DEF LossInv, LoopSafe
  <1>2. CASE Exit(l)
    <2>1. loops'[l] = IdlePoll
      BY <1>2 DEF Exit, TypeOK
    <2>2. LoopSafe(l)'
      BY <2>1, <1>z DEF LoopSafe, SafeTo, IdlePoll
    <2>3. \A m \in Loops : LoopSafe(m)'
      BY <1>2, <1>g, <2>2, LoopsSafe DEF Exit
    <2> QED
      BY <1>2, <1>g, <1>s, <2>3 DEF Exit, LossInv, SafeTo, Grown
  <1>3. CASE PollStart(l)
    <2>1. \A m \in Loops : LoopSafe(m)'
      BY <1>3, <1>g, <1>c, FreshSafe DEF PollStart, SafeTo
    <2> QED
      BY <1>3, <1>g, <1>s, <2>1 DEF PollStart, LossInv, SafeTo, Grown
  <1>4. CASE PullFail(l)
    <2>1. \A m \in Loops : LoopSafe(m)'
      BY <1>4, <1>g, <1>z, FreshSafe DEF PullFail
    <2> QED
      BY <1>4, <1>g, <1>s, <2>1 DEF PullFail, LossInv, SafeTo, Grown
  <1>5. CASE PullOk(l)
    <2>1. \A m \in Loops : LoopSafe(m)'
      BY <1>5, <1>g, PullSafe
    <2> QED
      BY <1>5, <1>g, <1>s, <2>1 DEF PullOk, LossInv, SafeTo, Grown
  <1>6. CASE Check(l)
    <2>1. \A m \in Loops : LoopSafe(m)'
      BY <1>6, <1>g, GoToSafe DEF Check
    <2> QED
      BY <1>6, <1>g, <1>s, <2>1 DEF Check, LossInv, SafeTo, Grown
  <1>7. CASE Finish(l)
    <2>1. \A m \in Loops : LoopSafe(m)'
      BY <1>7, <1>g, GoToSafe DEF Finish
    <2>2. acc'.cursor = acc.cursor \/ acc'.cursor = loops[l].cursor
      BY <1>7 DEF Finish
    <2>3. SafeTo(acc.cursor)'
      BY <1>c, <1>g, <2>2 DEF SafeTo, Grown
    <2>4. SafeTo(db)'
      BY <1>7, <1>c, <1>g DEF Finish, SafeTo, Grown
    <2> QED
      BY <1>s, <2>1, <2>3, <2>4 DEF LossInv
  <1>8. CASE Save(l)
    <2>1. \A m \in Loops : LoopSafe(m)'
      BY <1>8, <1>g, <1>z, FreshSafe DEF Save
    <2>2. db' = db \/ db' = acc.cursor \/ db' = loops[l].cursor
      BY <1>8 DEF Save
    <2>3. SafeTo(db)'
      BY <1>c, <1>g, <2>2 DEF SafeTo, Grown
    <2>4. SafeTo(acc.cursor)'
      BY <1>8, <1>c, <1>g DEF Save, SafeTo, Grown
    <2> QED
      BY <1>s, <2>1, <2>3, <2>4 DEF LossInv
  <1> QED
    BY <1>2, <1>3, <1>4, <1>5, <1>6, <1>7, <1>8

LEMMA NextSafe ==
  ASSUME ~(EnableDedup /\ Unresolvable)
  PROVE  TypeOK /\ TypeOK' /\ LossInv /\ [Next]_vars => LossInv'
  <1> SUFFICES ASSUME TypeOK, TypeOK', LossInv, [Next]_vars PROVE LossInv'
    OBVIOUS
  <1>1. CASE Next
    BY <1>1, OutsideSafe, LoopStepSafe DEF Next
  <1>2. CASE UNCHANGED vars
    <2>1. Grown
      BY <1>2, SettledGrows DEF vars, TypeOK, Cursor
    <2> QED
      BY <1>2, <2>1 DEF vars, LossInv, LoopSafe, SafeTo, Grown, TypeOK, Poll
  <1> QED
    BY <1>1, <1>2

\* Whatever fails, stops, crashes or overlaps, no cursor passes an event that
\* is still to be handled, unless events that failed are marked as processed.
THEOREM NothingLost ==
  ASSUME ~(EnableDedup /\ Unresolvable)
  PROVE  Spec => []NoEventLost
  <1>1. LossInv => NoEventLost
    BY DEF LossInv, SafeTo, NoEventLost
  <1>2. Spec => []TypeOK
    BY MonitorTypeCorrect
  <1>3. TypeOK /\ TypeOK' /\ LossInv /\ [Next]_vars => LossInv'
    BY NextSafe
  <1> QED
    BY <1>1, <1>2, <1>3, InitSafe, PTL DEF Spec

-----------------------------------------------------------------------------
(***************************************************************************)
(* The order of a file's events.  At most one goroutine is live, and it    *)
(* pulled last: what it has in its batch is not older than what any other  *)
(* goroutine still has, nor than what is done.                             *)
(***************************************************************************)
Live(l) == loops[l].at # "idle" /\ ~loops[l].cancelled

Bounded ==
    /\ done \subseteq 1..produced
    /\ \A l \in Loops : loops[l].batch \subseteq 1..produced

OneLive ==
    /\ \A l \in Loops : Live(l) => acc.at = "running"
    /\ \A l, m \in Loops : Live(l) /\ Live(m) => l = m

NewestLive ==
    \A l \in Loops : Live(l) => \A b \in loops[l].batch :
        /\ \A d \in done : FileOf[d] = FileOf[b] => d <= b
        /\ \A m \in Loops : \A c \in loops[m].batch : FileOf[c] = FileOf[b] => c <= b

OrderInv == Bounded /\ OneLive /\ NewestLive

LEMMA InitOrdered == Init => OrderInv
  BY EventAssumption DEF Init, OrderInv, Bounded, OneLive, NewestLive, Live, IdlePoll

\* A step that pulls nothing: batches only shrink, what is done comes from a
\* batch, and who is live with a batch was live before.
Shrinks ==
    /\ produced <= produced'
    /\ \A l \in Loops : loops'[l].batch \subseteq loops[l].batch
    /\ \A d \in done' : d \in done \/ \E l \in Loops : d \in loops[l].batch
    /\ \A l \in Loops : Live(l)' /\ loops'[l].batch # {} => Live(l)

LEMMA ShrinkOrdered ==
  ASSUME TypeOK, TypeOK', Bounded, NewestLive, Shrinks
  PROVE  Bounded' /\ NewestLive'
  <1>1. 1..produced \subseteq 1..produced'
    BY EventAssumption DEF Shrinks, TypeOK, Cursor
  <1>2. Bounded'
    BY <1>1 DEF Bounded, Shrinks
  <1>3. ASSUME NEW l \in Loops, Live(l)', NEW b \in loops'[l].batch
        PROVE  /\ \A d \in done' : FileOf[d] = FileOf[b] => d <= b
               /\ \A m \in Loops : \A c \in loops'[m].batch : FileOf[c] = FileOf[b] => c <= b
    <2>1. Live(l) /\ b \in loops[l].batch
      BY <1>3 DEF Shrinks
    <2> QED
      BY <2>1 DEF NewestLive, Shrinks
  <1> QED
    BY <1>2, <1>3 DEF NewestLive

\* How the steps of goroutines change the one they belong to.
LEMMA FreshShrinks ==
  ASSUME TypeOK, NEW l \in Loops, NEW a, NEW c, Fresh(l, a, c)
  PROVE  /\ \A m \in Loops : loops'[m].batch \subseteq loops[m].batch
         /\ \A m \in Loops : Live(m)' /\ loops'[m].batch # {} => Live(m)
         /\ loops[l].at # "idle" => \A m \in Loops : Live(m)' => Live(m)
  BY DEF TypeOK, Fresh, Live, Poll

LEMMA GoShrinks ==
  ASSUME TypeOK, NEW l \in Loops, NEW a, NEW b, NEW c, Go(l, a, b, c),
         b \subseteq loops[l].batch, loops[l].at # "idle"
  PROVE  /\ \A m \in Loops : loops'[m].batch \subseteq loops[m].batch
         /\ \A m \in Loops : Live(m)' => Live(m)
  BY DEF TypeOK, Go, Live, Poll

LEMMA OutsideOrdered ==
  ASSUME TypeOK, TypeOK', OrderInv,
         \/ Produce \/ Stop \/ Crash
         \/ \E k \in Keys : ExpireDedup(k)
         \/ \E l \in Loops : Start(l)
  PROVE  OrderInv'
  <1>p. produced \in Nat /\ produced <= produced + 1 /\ produced <= produced
    BY EventAssumption DEF TypeOK, Cursor
  <1>1. CASE Produce
    <2>1. Shrinks
      BY <1>1, <1>p DEF Produce, Shrinks, Live
    <2> QED
      BY <1>1, <2>1, ShrinkOrdered DEF Produce, OrderInv, OneLive, Live
  <1>2. CASE Stop
    <2>1. \A l \in Loops : loops'[l].batch = loops[l].batch /\ ~Live(l)'
      BY <1>2 DEF Stop, Cancelled, Live
    <2>2. Shrinks
      BY <1>2, <1>p, <2>1 DEF Stop, Shrinks
    <2> QED
      BY <2>1, <2>2, ShrinkOrdered DEF OrderInv, OneLive
  <1>3. CASE Crash
    <2>1. \A l \in Loops : loops'[l].batch = {} /\ ~Live(l)'
      BY <1>3 DEF Crash, IdlePoll, Live
    <2>2. Shrinks
      BY <1>3, <1>p, <2>1 DEF Crash, Shrinks
    <2> QED
      BY <2>1, <2>2, ShrinkOrdered DEF OrderInv, OneLive
  <1>4. CASE \E k \in Keys : ExpireDedup(k)
    <2>1. Shrinks
      BY <1>4, <1>p DEF ExpireDedup, Shrinks, Live
    <2> QED
      BY <1>4, <2>1, ShrinkOrdered DEF ExpireDedup, OrderInv, OneLive, Live
  <1>5. ASSUME NEW l \in Loops, Start(l) PROVE OrderInv'
    <2>1. Shrinks
      BY <1>5, <1>p, FreshShrinks DEF Start, Launch, Shrinks
    <2>2. \A m \in Loops : Live(m)' => m = l
      BY <1>5 DEF Start, Launch, Fresh, OrderInv, OneLive, Live, TypeOK
    <2>3. acc'.at = "running"
      BY <1>5 DEF Start, Launch
    <2> QED
      BY <2>1, <2>2, <2>3, ShrinkOrdered DEF OrderInv, OneLive
  <1> QED
    BY <1>1, <1>2, <1>3, <1>4, <1>5

LEMMA LoopOrdered ==
  ASSUME TypeOK, TypeOK', OrderInv, NEW l \in Loops, LoopStep(l)
  PROVE  OrderInv'
  <1>p. produced \in Nat /\ produced <= produced /\ produced' = produced
    BY EventAssumption DEF TypeOK, Cursor, LoopStep, EventStep, Exit, PollStart, PullFail,
       PullOk, Check, Handle, Duplicate, Fail, DeadLetter, Finish, Save
  <1>1. CASE PullOk(l)
    <2>0. loops[l] \in Poll /\ Live(l)
      BY <1>1 DEF TypeOK, PullOk, Live
    <2>1. loops'[l] = [at |-> "check", from |-> loops[l].from, batch |-> Newest(loops[l].from),
                       cursor |-> 0, cancelled |-> loops[l].cancelled]
      BY <1>1 DEF PullOk, Go, TypeOK
    <2>2. \A m \in Loops : m # l => loops'[m] = loops[m]
      BY <1>1 DEF PullOk, Go, TypeOK
    <2>3. Newest(loops[l].from) \subseteq 1..produced
      BY <1>p, <2>0 DEF Newest, Poll, Cursor
    <2>4. Bounded'
      BY <1>1, <2>1, <2>2, <2>3 DEF OrderInv, Bounded, PullOk
    <2>5. \A m \in Loops : Live(m)' => m = l
      BY <2>0, <2>2 DEF OrderInv, OneLive, Live
    <2>6. \A b \in Newest(loops[l].from) : \A x \in 1..produced : FileOf[x] = FileOf[b] => x <= b
      <3> SUFFICES ASSUME NEW b \in Newest(loops[l].from), NEW x \in 1..produced,
                          FileOf[x] = FileOf[b], x > b
                   PROVE  FALSE
        BY <1>p, <2>3
      <3>1. x \in b+1..produced
        BY <1>p, <2>3
      <3> QED
        BY <3>1 DEF Newest
    <2>7. NewestLive'
      <3> SUFFICES ASSUME NEW b \in loops'[l].batch
                   PROVE  /\ \A d \in done' : FileOf[d] = FileOf[b] => d <= b
                          /\ \A m \in Loops : \A c \in loops'[m].batch : FileOf[c] = FileOf[b] => c <= b
        BY <2>5 DEF NewestLive
      <3>1. b \in Newest(loops[l].from)
        BY <2>1
      <3> QED
        BY <1>p, <2>4, <2>6, <3>1 DEF Bounded
    <2> QED
      BY <1>1, <2>0, <2>4, <2>5, <2>7 DEF OrderInv, OneLive, PullOk
  <1>2. CASE ~PullOk(l)
    <2>1. /\ \A m \in Loops : loops'[m].batch \subseteq loops[m].batch
          /\ \A m \in Loops : Live(m)' => Live(m)
      <3>1. CASE PollStart(l) \/ PullFail(l) \/ Save(l)
        <4>1. loops[l].at # "idle" /\ \E a, c : Fresh(l, a, c)
          BY <3>1 DEF PollStart, PullFail, Save
        <4> QED
          BY <4>1, FreshShrinks
      <3>2. CASE Check(l) \/ Finish(l)
        <4>1. loops[l].at # "idle" /\ \E a : GoTo(l, a)
          BY <3>2 DEF Check, Finish
        <4> QED
          BY <4>1, GoShrinks DEF GoTo
      <3>3. CASE Exit(l)
        BY <3>3 DEF Exit, IdlePoll, Live, TypeOK
      <3>4. ASSUME NEW e \in Events, EventStep(l, e)
            PROVE  \E a, b, c : b \subseteq loops[l].batch /\ Go(l, a, b, c) /\ loops[l].at # "idle"
        <4>1. loops[l].at # "idle" /\ (Advance(l, e) \/ Break(l, e))
          BY <3>4 DEF EventStep, Handle, Duplicate, Fail, DeadLetter, Doing
        <4> QED
          BY <4>1 DEF Advance, Break, GoTo
      <3> QED
        BY <1>2, <3>1, <3>2, <3>3, <3>4, GoShrinks DEF LoopStep
    <2>2. \A d \in done' : d \in done \/ d \in loops[l].batch
      BY DEF LoopStep, EventStep, Exit, PollStart, PullFail, PullOk, Check, Handle,
         Duplicate, Fail, DeadLetter, Finish, Save, Doing
    <2>3. acc'.at = acc.at
      BY DEF LoopStep, EventStep, Exit, PollStart, PullFail, PullOk, Check, Handle,
         Duplicate, Fail, DeadLetter, Finish, Save
    <2>4. Shrinks
      BY <1>p, <2>1, <2>2 DEF Shrinks
    <2> QED
      BY <2>1, <2>3, <2>4, ShrinkOrdered DEF OrderInv, OneLive
  <1> QED
    BY <1>1, <1>2

LEMMA NextOrdered == TypeOK /\ TypeOK' /\ OrderInv /\ [Next]_vars => OrderInv'
  <1> SUFFICES ASSUME TypeOK, TypeOK', OrderInv, [Next]_vars PROVE OrderInv'
    OBVIOUS
  <1>1. CASE Next
    BY <1>1, OutsideOrdered, LoopOrdered DEF Next
  <1>2. CASE UNCHANGED vars
    BY <1>2 DEF vars, OrderInv, Bounded, OneLive, NewestLive, Live
  <1> QED
    BY <1>1, <1>2

\* A goroutine that is not stopped handles no event of a file after a newer
\* one, although stopped goroutines still handle theirs beside it.
THEOREM OrderKept == Spec => LiveInOrder
  <1>1. OrderInv => \A l \in Loops : \A e \in Events :
          Handle(l, e) /\ ~loops[l].cancelled
          => \A d \in done : FileOf[d] = FileOf[e] => d <= e
    BY DEF OrderInv, NewestLive, Live, Handle, Doing
  <1>2. Spec => []TypeOK
    BY MonitorTypeCorrect
  <1> QED
    BY <1>1, <1>2, InitOrdered, NextOrdered, PTL DEF Spec, LiveInOrder

-----------------------------------------------------------------------------
(* The handlers of life events.  T is the sequence of stores a handler      *)
(* leaves behind, and Sound(T) what each of its steps keeps of it: every    *)
(* store fits, so that the index has paths of files for files and of folders *)
(* for folders and no file is outside of a directory that is there, and     *)
(* what somebody else wrote is spared from one store to the next.           *)
Housed(S) == \A p \in LocalPath : S.local[p] # NoFile => p[1] \in S.dirs
FitStore ==
  {S \in LocalStore : /\ \A x \in MediaFiles : S.files[x] \in FileAt
                      /\ \A f \in CloudFolders : S.files[f] \in FolderAt
                      /\ Housed(S)}
Sound(T) == T \in Seq(FitStore) /\ T # <<>> /\ AllSpare(T)

LEMMA PathsAre ==
  /\ \A p \in LocalPath : p = <<p[1], p[2]>> /\ p[1] \in FolderNames /\ p[2] \in FileNames
  /\ \A d \in FolderNames, n \in FileNames : <<d, n>> \in LocalPath
  /\ \A p, q \in LocalPath : p[1] = q[1] /\ p[2] = q[2] => p = q
BY DEF LocalPath

LEMMA StoreIs ==
  ASSUME NEW S \in FitStore
  PROVE  /\ S.local \in [LocalPath -> MediaFiles \cup {User, NoFile}]
         /\ S.dirs \in SUBSET FolderNames
         /\ S.row \in [LocalPath -> [file : MediaFiles \cup {NoFile}, at : FileAt, active : BOOLEAN]]
         /\ S.files \in [MediaFiles \cup CloudFolders -> FileAt \cup FolderAt]
         /\ S.folders \in [CloudFolders -> FolderAt]
         /\ S.marked \in SUBSET MediaFiles
         /\ S = [local |-> S.local, dirs |-> S.dirs, row |-> S.row, files |-> S.files,
                 folders |-> S.folders, marked |-> S.marked]
         /\ \A x \in MediaFiles : S.files[x] \in FileAt
         /\ \A f \in CloudFolders : S.files[f] \in FolderAt
         /\ \A p \in LocalPath : S.local[p] # NoFile => p[1] \in S.dirs
BY DEF FitStore, LocalStore, Housed

\* What somebody else wrote is spared where its paths keep a file.
LEMMA UserStays ==
  ASSUME NEW S, NEW S2, \A p \in LocalPath : S.local[p] = User => S2.local[p] # NoFile
  PROVE  Spares(S, S2)
<1> DEFINE same == [p \in UserFiles(S) |-> p]
<1>1. same \in [UserFiles(S) -> LocalPath] /\ IsInjective(same)
  BY DEF UserFiles, IsInjective
<1>2. \A p \in UserFiles(S) : same[p] = p /\ S2.local[p] # NoFile
  BY DEF UserFiles
<1> QED BY <1>1, <1>2, Zenon DEF Spares

\* One more store.
LEMMA Grows ==
  ASSUME NEW T, Sound(T), NEW S \in FitStore, Spares(Now(T), S)
  PROVE  Sound(Append(T, S)) /\ Now(Append(T, S)) = S
<1>1. T \in Seq(FitStore) /\ Len(T) \in Nat /\ Len(T) # 0
  BY EmptySeq, LenProperties DEF Sound
<1>2. /\ Append(T, S) \in Seq(FitStore) /\ Len(Append(T, S)) = Len(T) + 1
      /\ \A i \in 1 .. Len(T) : Append(T, S)[i] = T[i]
      /\ Append(T, S)[Len(T) + 1] = S
  BY <1>1, AppendProperties
<1>3. Now(Append(T, S)) = S
  BY <1>2 DEF Now, Last
<1>4. ASSUME NEW i \in 2 .. Len(T) + 1
      PROVE  Spares(Append(T, S)[i - 1], Append(T, S)[i])
  <2>1. CASE i \in 2 .. Len(T)
    <3>1. i - 1 \in 1 .. Len(T) /\ i \in 1 .. Len(T)
      BY <2>1, <1>1
    <3> QED BY <1>2, <3>1, <2>1 DEF Sound, AllSpare
  <2>2. CASE i = Len(T) + 1
    <3>1. i - 1 = Len(T) /\ Len(T) \in 1 .. Len(T)
      BY <2>2, <1>1
    <3> QED BY <1>2, <2>2, <3>1 DEF Now, Last
  <2> QED BY <1>1, <2>1, <2>2
<1>5. Append(T, S) # <<>>
  BY <1>1, <1>2
<1> QED BY <1>2, <1>3, <1>4, <1>5 DEF Sound, AllSpare

LEMMA NowFits ==
  ASSUME NEW T, Sound(T)
  PROVE  Now(T) \in FitStore
<1>1. T \in Seq(FitStore) /\ Len(T) \in Nat /\ Len(T) # 0
  BY EmptySeq, LenProperties DEF Sound
<1> QED BY <1>1, ElementOfSeq DEF Now, Last

\* One more store with the same files.
LEMMA GrowsAside ==
  ASSUME NEW T, Sound(T), NEW S \in FitStore, S.local = Now(T).local
  PROVE  Sound(Append(T, S)) /\ Now(Append(T, S)) = S
<1>1. Spares(Now(T), S)
  BY UserStays DEF User, NoFile
<1> QED BY <1>1, Grows

(* Index rows *)
PathNames == FolderNames \cup FileNames \cup {Out}
LEMMA PathsAreSeqs ==
  /\ \A p \in FileAt \cup FolderAt : p \in Seq(PathNames)
  /\ \A d \in PathNames : <<d>> \in Seq(PathNames) /\ Len(<<d>>) = 1
  /\ \A p \in LocalPath : p \in Seq(PathNames) /\ Len(p) = 2
<1>1. ASSUME NEW a \in PathNames, NEW b \in PathNames, NEW c \in PathNames
      PROVE  /\ <<a>> \in Seq(PathNames) /\ Len(<<a>>) = 1
             /\ <<a, b>> \in Seq(PathNames) /\ Len(<<a, b>>) = 2
             /\ <<a, b, c>> \in Seq(PathNames)
  OBVIOUS
<1>2. FolderNames \subseteq PathNames /\ FileNames \subseteq PathNames /\ Out \in PathNames
  BY DEF PathNames
<1>3. <<>> \in Seq(PathNames)
  BY EmptySeq
<1> HIDE DEF PathNames
<1>4. ASSUME NEW p \in LocalPath PROVE p \in Seq(PathNames) /\ Len(p) = 2
  <2>1. PICK a \in FolderNames, b \in FileNames : p = <<a, b>>
    BY DEF LocalPath
  <2> QED BY <1>1, <1>2, <2>1
<1>5. \A p \in FolderAt : p \in Seq(PathNames)
  BY <1>1, <1>2, <1>3 DEF FolderAt, NotKnown
<1>6. ASSUME NEW p \in FileAt PROVE p \in Seq(PathNames)
  <2>1. CASE p \in {NotKnown} \cup LocalPath \cup {<<Out, n>> : n \in FileNames}
    BY <1>1, <1>2, <1>3, <1>4, <2>1 DEF NotKnown
  <2>2. CASE p \in {<<Out, d, n>> : d \in FolderNames, n \in FileNames}
    <3>1. PICK a \in FolderNames, b \in FileNames : p = <<Out, a, b>>
      BY <2>2
    <3> QED BY <1>1, <1>2, <3>1
  <2> QED BY <2>1, <2>2 DEF FileAt
<1> QED BY <1>1, <1>4, <1>5, <1>6

\* A path that begins with a directory's name, and the directory has another.
LEMMA PrefixName ==
  ASSUME NEW P, NEW p \in Seq(P), NEW c \in P, NEW d \in P
  PROVE  NewPrefix(p, <<c>>, <<d>>) = IF p # <<>> /\ p[1] = c THEN [p EXCEPT ![1] = d] ELSE p
<1>1. /\ <<c>> \in Seq(P) /\ Len(<<c>>) = 1 /\ <<c>>[1] = c
      /\ <<d>> \in Seq(P) /\ Len(<<d>>) = 1 /\ <<d>>[1] = d
  OBVIOUS
<1>2. SubSeq(<<c>>, 1, Len(<<c>>)) = <<c>>
  BY <1>1, SubSeqFull
<1>3. Len(p) \in Nat /\ (p # <<>> => Len(p) >= 1) /\ Len(<<>>) = 0
  BY EmptySeq, LenProperties
<1>4. CASE p = <<>>
  BY <1>1, <1>3, <1>4 DEF NewPrefix, IsWithin, IsPrefix
<1>5. CASE p # <<>>
  <2> DEFINE first == SubSeq(p, 1, 1)
             rest == SubSeq(p, 2, Len(p))
             changed == [p EXCEPT ![1] = d]
  <2>0. PICK m \in Nat : m = Len(p) /\ m >= 1 /\ (m = 1 \/ m >= 2)
    BY <1>3, <1>5
  <2>1. \A i \in 1 .. Len(p) : p[i] \in P
    BY ElementOfSeq
  <2>2. first \in Seq(P) /\ Len(first) = 1 /\ first[1] = p[1]
    <3>1. \A i \in 1 .. 1 : p[i] \in P
      BY <1>3, <1>5, <2>1
    <3>2. 1 \in 1 .. 1 - 1 + 1 /\ 1 + 1 - 1 = 1 /\ 1 <= 1 /\ 1 - 1 + 1 = 1
      OBVIOUS
    <3> QED BY <3>1, <3>2, SubSeqProperties
  <2>3. rest \in Seq(P) /\ Len(rest) = Len(p) - 1 /\ \A i \in 1 .. Len(p) - 1 : rest[i] = p[i + 1]
    <3>1. \A i \in 2 .. Len(p) : p[i] \in P
      BY <2>1
    <3>2. /\ rest \in Seq(P) /\ Len(rest) = IF 2 <= Len(p) THEN Len(p) - 2 + 1 ELSE 0
          /\ \A i \in 1 .. Len(p) - 2 + 1 : rest[i] = p[2 + i - 1]
      BY <1>3, <3>1, SubSeqProperties
    <3> HIDE DEF rest
    <3>3. Len(rest) = Len(p) - 1
      <4>1. CASE 2 <= Len(p)
        BY <1>3, <3>2, <4>1
      <4>2. CASE Len(p) = 1
        BY <3>2, <4>2
      <4> QED BY <2>0, <4>1, <4>2
    <3>4. \A i \in 1 .. Len(p) - 1 : i \in 1 .. Len(p) - 2 + 1 /\ 2 + i - 1 = i + 1
      BY <1>3
    <3> QED BY <3>2, <3>3, <3>4
  <2>4. IsPrefix(<<c>>, p) <=> p[1] = c
    <3>1. IsPrefix(<<c>>, p) <=> <<c>> = first
      BY <1>1, <1>2, <1>3, <1>5 DEF IsPrefix
    <3>2. p[1] = c => <<c>> = first
      BY <1>1, <2>2, SeqEqual
    <3> QED BY <1>1, <2>2, <3>1, <3>2
  <2>5. /\ changed \in Seq(P) /\ Len(changed) = Len(p)
        /\ \A i \in 1 .. Len(p) : changed[i] = IF i = 1 THEN d ELSE p[i]
    BY <1>3, <1>5, ExceptSeq
  <2> HIDE DEF first, rest, changed
  <2>6. <<d>> \o rest = changed
    <3>1. /\ <<d>> \o rest \in Seq(P) /\ Len(<<d>> \o rest) = 1 + Len(rest)
          /\ \A i \in 1 .. 1 + Len(rest) : (<<d>> \o rest)[i] = IF i <= 1 THEN <<d>>[i] ELSE rest[i - 1]
      BY <1>1, <2>3, ConcatProperties
    <3>2. Len(<<d>> \o rest) = Len(changed)
      BY <1>3, <1>5, <2>3, <2>5, <3>1
    <3>3. ASSUME NEW i \in 1 .. Len(p) PROVE (<<d>> \o rest)[i] = changed[i]
      <4>1. i \in 1 .. 1 + Len(rest)
        BY <1>3, <2>3
      <4>2. i # 1 => i - 1 \in 1 .. Len(p) - 1 /\ (i - 1) + 1 = i /\ ~(i <= 1)
        BY <1>3
      <4> QED BY <1>1, <2>3, <2>5, <3>1, <4>1, <4>2
    <3> QED BY <2>5, <3>1, <3>2, <3>3, SeqEqual
  <2>7. SubSeq(p, Len(<<c>>) + 1, Len(p)) = rest
    BY <1>1 DEF rest
  <2>8. NewPrefix(p, <<c>>, <<d>>) = IF p[1] = c THEN changed ELSE p
    BY <2>4, <2>6, <2>7 DEF NewPrefix, IsWithin
  <2> QED BY <1>5, <2>8 DEF changed
<1> QED BY <1>4, <1>5

\* A directory's new name leaves paths of files and of folders such.
LEMMA PrefixOf ==
  ASSUME LifeAssumption, NEW c \in FolderNames, NEW d \in FolderNames
  PROVE  /\ \A p \in FileAt : NewPrefix(p, <<c>>, <<d>>) \in FileAt
         /\ \A p \in FolderAt : NewPrefix(p, <<c>>, <<d>>) \in FolderAt
<1>1. c # Out /\ c \in PathNames /\ d \in PathNames
  BY DEF LifeAssumption, PathNames
<1>2. ASSUME NEW p \in FileAt \cup FolderAt
      PROVE  NewPrefix(p, <<c>>, <<d>>) = IF p # <<>> /\ p[1] = c THEN [p EXCEPT ![1] = d] ELSE p
  BY <1>1, PathsAreSeqs, PrefixName
<1>3. ASSUME NEW p \in FileAt, p # <<>>, p[1] = c PROVE [p EXCEPT ![1] = d] \in FileAt
  <2>1. PICK n \in FileNames : p = <<c, n>>
    BY <1>1, <1>3 DEF FileAt, LocalPath, NotKnown
  <2>2. [p EXCEPT ![1] = d] = <<d, n>>
    BY <2>1
  <2> QED BY <2>2 DEF FileAt, LocalPath
<1>4. ASSUME NEW p \in FolderAt, p # <<>>, p[1] = c PROVE [p EXCEPT ![1] = d] \in FolderAt
  <2>1. p = <<c>>
    BY <1>1, <1>4 DEF FolderAt, NotKnown
  <2>2. [p EXCEPT ![1] = d] = <<d>>
    BY <2>1
  <2> QED BY <2>2 DEF FolderAt
<1>5. ASSUME NEW p \in FileAt PROVE NewPrefix(p, <<c>>, <<d>>) \in FileAt
  <2>1. CASE p # <<>> /\ p[1] = c
    <3>1. NewPrefix(p, <<c>>, <<d>>) = [p EXCEPT ![1] = d]
      BY <1>2, <2>1
    <3> QED BY <1>3, <2>1, <3>1
  <2>2. CASE ~(p # <<>> /\ p[1] = c)
    BY <1>2, <2>2
  <2> QED BY <2>1, <2>2
<1>6. ASSUME NEW p \in FolderAt PROVE NewPrefix(p, <<c>>, <<d>>) \in FolderAt
  <2>1. CASE p # <<>> /\ p[1] = c
    <3>1. NewPrefix(p, <<c>>, <<d>>) = [p EXCEPT ![1] = d]
      BY <1>2, <2>1
    <3> QED BY <1>4, <2>1, <3>1
  <2>2. CASE ~(p # <<>> /\ p[1] = c)
    BY <1>2, <2>2
  <2> QED BY <2>1, <2>2
<1> QED BY <1>5, <1>6

\* A file's path that gives way to another.
LEMMA WholePrefixOf ==
  ASSUME LifeAssumption, NEW c \in LocalPath, NEW d \in LocalPath, NEW p \in FileAt
  PROVE  NewPrefix(p, c, d) \in FileAt
<1>1. c \in Seq(PathNames) /\ Len(c) = 2 /\ d \in Seq(PathNames) /\ p \in Seq(PathNames)
  BY PathsAreSeqs
<1>2. SubSeq(c, 1, 2) = c
  BY <1>1, SubSeqFull
<1>3. c[1] # Out
  BY PathsAre DEF LifeAssumption
<1>4. NewPrefix(p, c, d) = IF 2 <= Len(p) /\ c = SubSeq(p, 1, 2) THEN d \o SubSeq(p, 3, Len(p)) ELSE p
  <2>1. 2 + 1 = 3
    OBVIOUS
  <2> QED BY <1>1, <1>2, <2>1 DEF NewPrefix, IsWithin, IsPrefix
<1>5. CASE Len(p) = 2
  <2>1. SubSeq(p, 3, Len(p)) = <<>>
    BY <1>5, SubSeqEmpty
  <2>2. d \o <<>> = d
    BY <1>1, ConcatEmptySeq
  <2>3. d \in FileAt
    BY DEF FileAt
  <2> QED BY <1>4, <2>1, <2>2, <2>3
<1>6. CASE p = NotKnown
  <2>1. ~(2 <= Len(p))
    BY <1>6, EmptySeq DEF NotKnown
  <2> QED BY <1>4, <2>1
<1>7. CASE p \in {<<Out, a, n>> : a \in FolderNames, n \in FileNames}
  <2>0. PICK a \in FolderNames, n \in FileNames : p = <<Out, a, n>>
    BY <1>7
  <2>1. p[1] = Out /\ p[2] = a /\ Len(p) = 3
    BY <2>0
  <2>2. \A i \in 1 .. 2 : p[i] \in PathNames
    BY <2>1 DEF PathNames
  <2>3. SubSeq(p, 1, 2)[1] = p[1]
    <3>1. 1 \in 1 .. 2 - 1 + 1 /\ 1 + 1 - 1 = 1
      OBVIOUS
    <3> QED BY <2>2, <3>1, SubSeqProperties
  <2> QED BY <1>3, <1>4, <2>1, <2>3
<1>8. CASE p \in LocalPath \cup {<<Out, n>> : n \in FileNames}
  <2>1. Len(p) = 2
    BY <1>8, PathsAreSeqs
  <2> QED BY <1>5, <2>1
<1> QED BY <1>6, <1>7, <1>8 DEF FileAt

(* The steps that leave the files alone *)
LEMMA Indexed ==
  ASSUME LifeAssumption, NEW T, Sound(T), NEW id \in MediaFiles \cup CloudFolders, NEW path,
         id \in MediaFiles => path \in FileAt, id \in CloudFolders => path \in FolderAt
  PROVE  Sound(Index(T, id, path)) /\ Now(Index(T, id, path)).local = Now(T).local
         /\ Now(Index(T, id, path)).dirs = Now(T).dirs
<1> DEFINE S == Now(T)
           S2 == [S EXCEPT !.files = [@ EXCEPT ![id] = path]]
<1>1. S \in FitStore
  BY NowFits
<1> HIDE DEF S
<1>2. S2 \in FitStore /\ S2.local = S.local /\ S2.dirs = S.dirs
  BY <1>1, StoreIs DEF FitStore, LocalStore, Housed
<1> HIDE DEF S2
<1>3. Sound(Append(T, S2)) /\ Now(Append(T, S2)) = S2
  BY <1>2, GrowsAside DEF S
<1> QED BY <1>2, <1>3 DEF Index, S, S2

LEMMA FolderIndexed ==
  ASSUME NEW T, Sound(T), NEW f \in CloudFolders, NEW path \in FolderAt
  PROVE  Sound(IndexFolder(T, f, path)) /\ Now(IndexFolder(T, f, path)).local = Now(T).local
         /\ Now(IndexFolder(T, f, path)).dirs = Now(T).dirs
<1> DEFINE S == Now(T)
           S2 == [S EXCEPT !.folders = [@ EXCEPT ![f] = path]]
<1>1. S \in FitStore
  BY NowFits
<1> HIDE DEF S
<1>2. S2 \in FitStore /\ S2.local = S.local /\ S2.dirs = S.dirs
  BY <1>1, StoreIs DEF FitStore, LocalStore, Housed
<1> HIDE DEF S2
<1>3. Sound(Append(T, S2)) /\ Now(Append(T, S2)) = S2
  BY <1>2, GrowsAside DEF S
<1> QED BY <1>2, <1>3 DEF IndexFolder, S, S2

LEMMA DirMade ==
  ASSUME NEW T, Sound(T), NEW d \in FolderNames
  PROVE  Sound(Mkdir(T, d)) /\ Now(Mkdir(T, d)).local = Now(T).local
         /\ Now(Mkdir(T, d)).dirs = Now(T).dirs \cup {d}
<1> DEFINE S == Now(T)
           S2 == [S EXCEPT !.dirs = @ \cup {d}]
<1>1. S \in FitStore
  BY NowFits
<1> HIDE DEF S
<1>2. S2 \in FitStore /\ S2.local = S.local /\ S2.dirs = S.dirs \cup {d}
  BY <1>1, StoreIs DEF FitStore, LocalStore, Housed
<1> HIDE DEF S2
<1>3. Sound(Append(T, S2)) /\ Now(Append(T, S2)) = S2
  BY <1>2, GrowsAside DEF S
<1> QED BY <1>2, <1>3 DEF Mkdir, S, S2

LEMMA ParentsRemoved ==
  ASSUME NEW T, Sound(T), NEW d
  PROVE  Sound(RemoveEmptyParents(T, d)) /\ Now(RemoveEmptyParents(T, d)).local = Now(T).local
<1> DEFINE S == Now(T)
           S2 == [S EXCEPT !.dirs = @ \ {d}]
<1>1. S \in FitStore
  BY NowFits
<1>2. CASE NothingIn(Now(T), d)
  <2> HIDE DEF S
  <2>1. ASSUME NEW p \in LocalPath, S.local[p] # NoFile PROVE p[1] # d
    BY <1>2, <2>1, PathsAre DEF NothingIn, S
  <2>2. S2 \in FitStore /\ S2.local = S.local
    BY <1>1, <2>1, StoreIs DEF FitStore, LocalStore, Housed
  <2> HIDE DEF S2
  <2>3. Sound(Append(T, S2)) /\ Now(Append(T, S2)) = S2
    BY <2>2, GrowsAside DEF S
  <2> QED BY <1>2, <2>2, <2>3 DEF RemoveEmptyParents, S, S2
<1>3. CASE ~NothingIn(Now(T), d)
  BY <1>3 DEF RemoveEmptyParents
<1> QED BY <1>2, <1>3

LEMMA RowsDeleted ==
  ASSUME NEW T, Sound(T), NEW prefix
  PROVE  Sound(DeleteByPathPrefix(T, prefix)) /\ Now(DeleteByPathPrefix(T, prefix)).local = Now(T).local
<1> DEFINE S == Now(T)
           hit(path) == prefix # NotKnown /\ IsWithin(path, prefix)
           fs == [i \in DOMAIN S.files |-> IF hit(S.files[i]) THEN NotKnown ELSE S.files[i]]
           ds == [f \in DOMAIN S.folders |-> IF hit(S.folders[f]) THEN NotKnown ELSE S.folders[f]]
           S2 == [S EXCEPT !.files = fs, !.folders = ds]
<1>1. S \in FitStore
  BY NowFits
<1>0. DeleteByPathPrefix(T, prefix) = Append(T, S2)
  BY DEF DeleteByPathPrefix
<1> HIDE DEF S, hit
<1>2. NotKnown \in FileAt /\ NotKnown \in FolderAt
  BY DEF FileAt, FolderAt
<1>3. /\ fs \in [MediaFiles \cup CloudFolders -> FileAt \cup FolderAt] /\ ds \in [CloudFolders -> FolderAt]
      /\ \A x \in MediaFiles : fs[x] \in FileAt
      /\ \A f \in CloudFolders : fs[f] \in FolderAt
  BY <1>1, <1>2, StoreIs
<1> HIDE DEF fs, ds
<1>4. S2 \in FitStore /\ S2.local = S.local
  BY <1>1, <1>3, StoreIs DEF FitStore, LocalStore, Housed
<1> HIDE DEF S2
<1>5. Sound(Append(T, S2)) /\ Now(Append(T, S2)) = S2
  BY <1>4, GrowsAside DEF S
<1> QED BY <1>0, <1>4, <1>5 DEF S

LEMMA PrefixUpdated ==
  ASSUME LifeAssumption, NEW T, Sound(T), NEW c \in FolderNames, NEW d \in FolderNames
  PROVE  /\ Sound(UpdatePathPrefix(T, <<c>>, <<d>>))
         /\ Now(UpdatePathPrefix(T, <<c>>, <<d>>)).local = Now(T).local
         /\ Now(UpdatePathPrefix(T, <<c>>, <<d>>)).dirs = Now(T).dirs
<1> DEFINE S == Now(T)
           fs == [i \in DOMAIN S.files |-> NewPrefix(S.files[i], <<c>>, <<d>>)]
           S2 == [S EXCEPT !.files = fs]
<1>0. UpdatePathPrefix(T, <<c>>, <<d>>) = Append(T, S2)
  BY DEF UpdatePathPrefix
<1>1. S \in FitStore
  BY NowFits
<1> HIDE DEF S
<1>2. ASSUME NEW i \in MediaFiles \cup CloudFolders
      PROVE  /\ i \in MediaFiles => NewPrefix(S.files[i], <<c>>, <<d>>) \in FileAt
             /\ i \in CloudFolders => NewPrefix(S.files[i], <<c>>, <<d>>) \in FolderAt
  <2>1. (i \in MediaFiles => S.files[i] \in FileAt) /\ (i \in CloudFolders => S.files[i] \in FolderAt)
    BY <1>1, StoreIs
  <2> QED BY <2>1, PrefixOf
<1>3. /\ fs \in [MediaFiles \cup CloudFolders -> FileAt \cup FolderAt]
      /\ \A x \in MediaFiles : fs[x] \in FileAt
      /\ \A f \in CloudFolders : fs[f] \in FolderAt
  BY <1>1, <1>2, StoreIs
<1> HIDE DEF fs
<1>4. S2 \in FitStore /\ S2.local = S.local /\ S2.dirs = S.dirs
  BY <1>1, <1>3, StoreIs DEF FitStore, LocalStore, Housed
<1> HIDE DEF S2
<1>5. Sound(Append(T, S2)) /\ Now(Append(T, S2)) = S2
  BY <1>4, GrowsAside DEF S
<1> QED BY <1>0, <1>4, <1>5 DEF S

LEMMA FolderPrefixUpdated ==
  ASSUME LifeAssumption, NEW T, Sound(T), NEW c \in FolderNames, NEW d \in FolderNames
  PROVE  /\ Sound(UpdateFolderPathPrefix(T, <<c>>, <<d>>))
         /\ Now(UpdateFolderPathPrefix(T, <<c>>, <<d>>)).local = Now(T).local
         /\ Now(UpdateFolderPathPrefix(T, <<c>>, <<d>>)).dirs = Now(T).dirs
<1> DEFINE S == Now(T)
           ds == [f \in DOMAIN S.folders |-> NewPrefix(S.folders[f], <<c>>, <<d>>)]
           S2 == [S EXCEPT !.folders = ds]
<1>0. UpdateFolderPathPrefix(T, <<c>>, <<d>>) = Append(T, S2)
  BY DEF UpdateFolderPathPrefix
<1>1. S \in FitStore
  BY NowFits
<1> HIDE DEF S
<1>2. ASSUME NEW f \in CloudFolders PROVE NewPrefix(S.folders[f], <<c>>, <<d>>) \in FolderAt
  <2>1. S.folders[f] \in FolderAt
    BY <1>1, StoreIs
  <2> QED BY <2>1, PrefixOf
<1>3. ds \in [CloudFolders -> FolderAt]
  BY <1>1, <1>2, StoreIs
<1> HIDE DEF ds
<1>4. S2 \in FitStore /\ S2.local = S.local /\ S2.dirs = S.dirs
  BY <1>1, <1>3, StoreIs DEF FitStore, LocalStore, Housed
<1> HIDE DEF S2
<1>5. Sound(Append(T, S2)) /\ Now(Append(T, S2)) = S2
  BY <1>4, GrowsAside DEF S
<1> QED BY <1>0, <1>4, <1>5 DEF S

LEMMA FileMarked ==
  ASSUME NEW T, Sound(T), NEW x \in MediaFiles
  PROVE  Sound(Mark(T, x)) /\ Now(Mark(T, x)).local = Now(T).local
<1> DEFINE S == Now(T)
           S2 == [S EXCEPT !.marked = @ \cup {x}]
<1>1. S \in FitStore
  BY NowFits
<1> HIDE DEF S
<1>2. S2 \in FitStore /\ S2.local = S.local
  BY <1>1, StoreIs DEF FitStore, LocalStore, Housed
<1> HIDE DEF S2
<1>3. Sound(Append(T, S2)) /\ Now(Append(T, S2)) = S2
  BY <1>2, GrowsAside DEF S
<1> QED BY <1>2, <1>3 DEF Mark, S, S2

(* The records *)
LEMMA Recorded ==
  ASSUME NEW T, Sound(T), NEW path \in LocalPath, NEW x \in MediaFiles, NEW at \in FileAt
  PROVE  /\ Sound(Record(T, path, x, at)) /\ Now(Record(T, path, x, at)).local = Now(T).local
         /\ Now(Record(T, path, x, at)).dirs = Now(T).dirs
<1> DEFINE S == Now(T)
           r == [file |-> x, at |-> IF at = NotKnown THEN S.row[path].at ELSE at, active |-> TRUE]
           S2 == [S EXCEPT !.row = [@ EXCEPT ![path] = r]]
<1>0. Record(T, path, x, at) = Append(T, S2)
  BY DEF Record
<1>1. S \in FitStore
  BY NowFits
<1> HIDE DEF S
<1>2. r \in [file : MediaFiles \cup {NoFile}, at : FileAt, active : BOOLEAN]
  BY <1>1, StoreIs
<1> HIDE DEF r
<1>3. S2 \in FitStore /\ S2.local = S.local /\ S2.dirs = S.dirs
  BY <1>1, <1>2, StoreIs DEF FitStore, LocalStore, Housed
<1> HIDE DEF S2
<1>4. Sound(Append(T, S2)) /\ Now(Append(T, S2)) = S2
  BY <1>3, GrowsAside DEF S
<1> QED BY <1>0, <1>3, <1>4 DEF S

LEMMA Migrated ==
  ASSUME NEW T, Sound(T), NEW D \in SUBSET LocalPath, NEW moved \in [D -> LocalPath], NEW old, NEW new,
         \A p \in FileAt : NewPrefix(p, old, new) \in FileAt
  PROVE  /\ Sound(MigrateManaged(T, moved, old, new))
         /\ Now(MigrateManaged(T, moved, old, new)).local = Now(T).local
         /\ Now(MigrateManaged(T, moved, old, new)).dirs = Now(T).dirs
<1> DEFINE S == Now(T)
           rows == {p \in DOMAIN moved : S.row[p] # NoRow}
           arrived == [q \in {moved[p] : p \in rows} |-> CHOOSE p \in rows : moved[p] = q]
           row2 == [q \in LocalPath |->
                     IF q \in DOMAIN arrived
                     THEN [S.row[arrived[q]] EXCEPT !.at = NewPrefix(@, old, new)]
                     ELSE IF q \in rows THEN NoRow ELSE S.row[q]]
           S2 == [S EXCEPT !.row = row2]
<1>0. MigrateManaged(T, moved, old, new) =
        IF \E p \in rows : S.row[moved[p]] # NoRow THEN T ELSE Append(T, S2)
  BY DEF MigrateManaged
<1>1. S \in FitStore
  BY NowFits
<1> HIDE DEF S
<1> DEFINE Row == [file : MediaFiles \cup {NoFile}, at : FileAt, active : BOOLEAN]
<1>2. S.row \in [LocalPath -> Row]
  BY <1>1, StoreIs
<1>3. \A r \in Row : [r EXCEPT !.at = NewPrefix(@, old, new)] \in Row
  OBVIOUS
<1>4. NoRow \in Row
  BY DEF NoRow, FileAt
<1>5. rows \subseteq LocalPath /\ \A q \in DOMAIN arrived : arrived[q] \in rows
  OBVIOUS
<1> HIDE DEF Row, arrived, rows
<1>6. row2 \in [LocalPath -> Row]
  BY <1>2, <1>3, <1>4, <1>5
<1> HIDE DEF row2
<1>7. S2 \in FitStore /\ S2.local = S.local /\ S2.dirs = S.dirs
  BY <1>1, <1>6, StoreIs DEF FitStore, LocalStore, Housed, Row
<1> HIDE DEF S2
<1>8. Sound(Append(T, S2)) /\ Now(Append(T, S2)) = S2
  BY <1>7, GrowsAside DEF S
<1>9. CASE \E p \in rows : S.row[moved[p]] # NoRow
  BY <1>0, <1>9
<1>10. CASE ~\E p \in rows : S.row[moved[p]] # NoRow
  BY <1>0, <1>7, <1>8, <1>10 DEF S
<1> QED BY <1>9, <1>10

(* Files are written and trashed *)
LEMMA Written ==
  ASSUME LifeAssumption, NEW T, Sound(T), NEW path \in LocalPath, NEW x \in MediaFiles, path[1] \in Now(T).dirs
  PROVE  /\ Sound(WriteStrmFile(T, path, x)) /\ Now(WriteStrmFile(T, path, x)).dirs = Now(T).dirs
         /\ Now(WriteStrmFile(T, path, x)).local = [Now(T).local EXCEPT ![path] = x]
<1> DEFINE S == Now(T)
           S2 == [S EXCEPT !.local = [@ EXCEPT ![path] = x]]
<1>0. WriteStrmFile(T, path, x) = Append(T, S2)
  BY DEF WriteStrmFile
<1>1. S \in FitStore /\ path[1] \in S.dirs
  BY NowFits
<1> HIDE DEF S
<1>2. S2 \in FitStore /\ S2.local = [S.local EXCEPT ![path] = x] /\ S2.dirs = S.dirs
  BY <1>1, StoreIs DEF FitStore, LocalStore, Housed
<1> HIDE DEF S2
<1>3. x # NoFile /\ User # NoFile
  BY DEF LifeAssumption, User, NoFile
<1>4. \A p \in LocalPath : S.local[p] = User => S2.local[p] # NoFile
  BY <1>1, <1>2, <1>3, StoreIs
<1>5. Spares(S, S2)
  BY <1>4, UserStays
<1>6. Sound(Append(T, S2)) /\ Now(Append(T, S2)) = S2
  BY <1>2, <1>5, Grows DEF S
<1> QED BY <1>0, <1>2, <1>6 DEF S

LEMMA WrittenRecorded ==
  ASSUME LifeAssumption, NEW T, Sound(T), NEW path \in LocalPath, NEW x \in MediaFiles, path[1] \in Now(T).dirs,
         NEW at \in FileAt
  PROVE  /\ Sound(WriteRecorded(T, path, x, at)) /\ Now(WriteRecorded(T, path, x, at)).dirs = Now(T).dirs
<1>1. PICK U : U = WriteStrmFile(T, path, x)
  OBVIOUS
<1>2. Sound(U) /\ Now(U).dirs = Now(T).dirs
  BY <1>1, Written
<1>3. Sound(Record(U, path, x, at)) /\ Now(Record(U, path, x, at)).dirs = Now(U).dirs
  BY <1>2, Recorded
<1> QED BY <1>1, <1>2, <1>3 DEF WriteRecorded

\* What is trashed is as its record has it, and so is not somebody else's.
LEMMA ManagedIsOwn ==
  ASSUME LifeAssumption, NEW S \in FitStore, NEW p \in LocalPath, Managed(S, p)
  PROVE  S.local[p] # User
<1>1. S.row[p].file \in MediaFiles
  BY StoreIs DEF Managed
<1> QED BY <1>1 DEF Managed, LifeAssumption

LEMMA Trashed ==
  ASSUME LifeAssumption, NEW T, Sound(T), NEW path, NEW expected
  PROVE  Sound(TrashFile(T, path, expected))
<1> DEFINE S == Now(T)
           moved == [S EXCEPT !.local = [@ EXCEPT ![path] = NoFile]]
           r == [file |-> S.row[path].file, at |-> S.row[path].at, active |-> FALSE]
           S3 == [moved EXCEPT !.row = [@ EXCEPT ![path] = r]]
<1>0. TrashFile(T, path, expected) = IF ~Trashable(S, path, expected) THEN T ELSE Append(Append(T, moved), S3)
  BY DEF TrashFile
<1>1. S \in FitStore
  BY NowFits
<1> HIDE DEF S
<1>2. CASE Trashable(S, path, expected)
  <2>1. moved \in FitStore /\ moved.row = S.row /\ moved.local = [S.local EXCEPT ![path] = NoFile]
    BY <1>1, StoreIs DEF FitStore, LocalStore, Housed
  <2>2. ASSUME NEW p \in LocalPath, S.local[p] = User PROVE moved.local[p] # NoFile
    <3>1. p # path
      BY <1>1, <1>2, <2>2, ManagedIsOwn DEF Trashable
    <3> QED BY <1>1, <2>1, <2>2, <3>1, StoreIs DEF User, NoFile
  <2>3. path \in LocalPath => r \in [file : MediaFiles \cup {NoFile}, at : FileAt, active : BOOLEAN]
    BY <1>1, StoreIs
  <2> HIDE DEF moved, r
  <2>4. S3 \in FitStore /\ S3.local = moved.local
    BY <2>1, <2>3, StoreIs DEF FitStore, LocalStore, Housed
  <2> HIDE DEF S3
  <2>5. Spares(S, moved)
    BY <2>2, UserStays
  <2>6. Sound(Append(T, moved)) /\ Now(Append(T, moved)) = moved
    BY <2>1, <2>5, Grows DEF S
  <2>7. PICK U : U = Append(T, moved)
    OBVIOUS
  <2>8. Sound(Append(U, S3))
    BY <2>4, <2>6, <2>7, GrowsAside
  <2> QED BY <1>0, <1>2, <2>7, <2>8
<1> QED BY <1>0, <1>2

LEMMA TreeTrashed ==
  ASSUME LifeAssumption, NEW T, Sound(T), NEW d
  PROVE  Sound(TrashTree(T, d))
<1> DEFINE S == Now(T)
           dead == {p \in LocalPath : p[1] = d /\ Managed(S, p)}
           left == [p \in LocalPath |-> IF p \in dead THEN NoFile ELSE S.local[p]]
           S2 == [S EXCEPT !.local = left]
<1>0. TrashTree(T, d) = IF dead = {} THEN T ELSE RemoveEmptyParents(Append(T, S2), d)
  BY DEF TrashTree
<1>1. S \in FitStore
  BY NowFits
<1> HIDE DEF S
<1>2. ASSUME NEW p \in LocalPath, S.local[p] = User PROVE p \notin dead
  BY <1>1, <1>2, ManagedIsOwn
<1> HIDE DEF dead
<1>3. S2 \in FitStore /\ S2.local = left
  BY <1>1, StoreIs DEF FitStore, LocalStore, Housed
<1>4. ASSUME NEW p \in LocalPath, S.local[p] = User PROVE S2.local[p] # NoFile
  BY <1>2, <1>3, <1>4 DEF User, NoFile
<1> HIDE DEF S2, left
<1>5. Spares(S, S2)
  BY <1>4, UserStays
<1>6. Sound(Append(T, S2))
  BY <1>3, <1>5, Grows DEF S
<1>7. PICK U : U = Append(T, S2)
  OBVIOUS
<1>8. Sound(RemoveEmptyParents(U, d))
  BY <1>6, <1>7, ParentsRemoved
<1> QED BY <1>0, <1>7, <1>8

LEMMA KnownPaths == NotKnown \in FileAt /\ NotKnown \in FolderAt /\ LocalPath \subseteq FileAt
BY DEF FileAt, FolderAt

(* Creating *)
LEMMA OldStrmRemoved ==
  ASSUME LifeAssumption, NEW T, Sound(T), NEW x \in MediaFiles, NEW old
  PROVE  Sound(CleanupOldStrmByFileID(T, x, old))
<1> DEFINE found == FindFile(Now(T), Last(old))
<1>1. PICK A : A = TrashFile(T, old, NotKnown)
  OBVIOUS
<1>2. PICK B : B = TrashTree(T, found[1])
  OBVIOUS
<1>3. PICK C : C = RemoveEmptyParents(B, found[1])
  OBVIOUS
<1>4. CleanupOldStrmByFileID(T, x, old) \in {T, Index(A, x, NotKnown), Index(C, x, NotKnown)}
  BY <1>1, <1>2, <1>3 DEF CleanupOldStrmByFileID
<1>5. Sound(A) /\ Sound(B)
  BY <1>1, <1>2, Trashed, TreeTrashed
<1>6. Sound(C)
  BY <1>3, <1>5, ParentsRemoved
<1>7. Sound(Index(A, x, NotKnown)) /\ Sound(Index(C, x, NotKnown))
  BY <1>5, <1>6, Indexed, KnownPaths DEF LifeAssumption
<1> QED BY <1>4, <1>7

LEMMA StrmCreated ==
  ASSUME LifeAssumption, NEW T, Sound(T), NEW x \in MediaFiles, NEW path \in LocalPath
  PROVE  Sound(CreateStrm(T, x, path))
<1> DEFINE old == OldPath(Now(T), x)
<1>1. PICK A : A = Index(T, x, path)
  OBVIOUS
<1>2. PICK B : B = Mkdir(A, path[1])
  OBVIOUS
<1>3. PICK C : C = WriteRecorded(B, path, x, path)
  OBVIOUS
<1>4. CreateStrm(T, x, path) \in {C, CleanupOldStrmByFileID(C, x, old)}
  BY <1>1, <1>2, <1>3 DEF CreateStrm
<1>5. path[1] \in FolderNames /\ path \in FileAt
  BY PathsAre, KnownPaths
<1>6. Sound(A)
  BY <1>1, <1>5, Indexed DEF LifeAssumption
<1>7. Sound(B) /\ path[1] \in Now(B).dirs
  BY <1>2, <1>5, <1>6, DirMade
<1>8. Sound(C)
  BY <1>3, <1>5, <1>7, WrittenRecorded
<1> HIDE DEF old
<1>9. Sound(CleanupOldStrmByFileID(C, x, old))
  BY <1>8, OldStrmRemoved
<1> QED BY <1>4, <1>8, <1>9

LEMMA ChildCreated ==
  ASSUME LifeAssumption, fileName \in [MediaFiles -> FileNames],
         NEW T, Sound(T), NEW x \in MediaFiles, NEW d \in FolderNames
  PROVE  Sound(CreateChild(T, x, d))
<1>1. PICK A : A = CreateStrm(T, x, <<d, fileName[x]>>)
  OBVIOUS
<1>2. <<d, fileName[x]>> \in LocalPath
  BY PathsAre
<1>3. Sound(A)
  BY <1>1, <1>2, StrmCreated
<1>4. Sound(Mark(A, x))
  BY <1>3, FileMarked
<1> QED BY <1>1, <1>4 DEF CreateChild

\* What the first of the children leave behind.
MadeTo(T, kids, d, n, g) ==
  /\ DOMAIN g = 0 .. n /\ g = [i \in 0 .. n |-> g[i]]
  /\ \A i \in 0 .. n : g[i] = IF i = 0 THEN T ELSE CreateChild(g[i - 1], kids[i], d)

LEMMA MakesOn ==
  ASSUME NEW T, NEW kids, NEW d, NEW n \in Nat, NEW g, MadeTo(T, kids, d, n, g)
  PROVE  \E h : MadeTo(T, kids, d, n + 1, h)
<1> DEFINE last == CreateChild(g[n], kids[n + 1], d)
           h == [i \in 0 .. n + 1 |-> IF i = n + 1 THEN last ELSE g[i]]
<1> HIDE DEF last
<1>4. \A i \in 0 .. n : h[i] = g[i]
  OBVIOUS
<1>5. \A i \in 0 .. n : h[i] = IF i = 0 THEN T ELSE CreateChild(h[i - 1], kids[i], d)
  <2> TAKE i \in 0 .. n
  <2>1. CASE i = 0
    BY <1>4, <2>1 DEF MadeTo
  <2>2. CASE i # 0
    <3>1. i - 1 \in 0 .. n
      BY <2>2
    <3>2. h[i - 1] = g[i - 1] /\ h[i] = g[i]
      BY <1>4, <3>1
    <3> HIDE DEF h
    <3> QED BY <2>2, <3>2 DEF MadeTo
  <2> QED BY <2>1, <2>2
<1>6. h[n + 1] = CreateChild(h[n], kids[n + 1], d)
  BY <1>4 DEF last
<1>7. DOMAIN h = 0 .. n + 1 /\ h = [i \in 0 .. n + 1 |-> h[i]]
  OBVIOUS
<1> HIDE DEF h
<1>8. MadeTo(T, kids, d, n + 1, h)
  <2>1. \A i \in 0 .. n + 1 : i \in 0 .. n \/ i = n + 1
    OBVIOUS
  <2>2. n + 1 # 0 /\ (n + 1) - 1 = n
    OBVIOUS
  <2> QED BY <1>5, <1>6, <1>7, <2>1, <2>2 DEF MadeTo
<1> QED BY <1>8

LEMMA EveryCount ==
  ASSUME NEW Good \in SUBSET Nat, 0 \in Good, \A n \in Good : n + 1 \in Good
  PROVE  \A n \in Nat : n \in Good
<1> DEFINE Rest == Nat \ Good
           Less == OpToRel(<, Nat)
<1> SUFFICES ASSUME Rest # {} PROVE FALSE
  OBVIOUS
<1>1. IsWellFoundedOn(Less, Nat) /\ \A x, y \in Nat : x < y => <<x, y>> \in Less
  BY NatLessThanWellFounded DEF OpToRel
<1> HIDE DEF Less
<1>2. PICK x \in Rest : \A y \in Rest : ~(<<y, x>> \in Less)
  BY <1>1, WFMin
<1>3. x # 0 /\ x - 1 \in Nat /\ x - 1 < x
  BY <1>2
<1>4. x - 1 \in Good
  BY <1>1, <1>2, <1>3
<1> QED BY <1>2, <1>3, <1>4

LEMMA MadeOnes ==
  ASSUME NEW T, NEW kids, NEW d, Len(kids) \in Nat
  PROVE  CreateChildren(T, kids, d) = [i \in 0 .. Len(kids) |->
           IF i = 0 THEN T ELSE CreateChild(CreateChildren(T, kids, d)[i - 1], kids[i], d)]
<1> DEFINE Good == {n \in Nat : \E g : MadeTo(T, kids, d, n, g)}
<1>1. 0 \in Good
  <2>1. MadeTo(T, kids, d, 0, [i \in 0 .. 0 |-> T])
    BY DEF MadeTo
  <2> QED BY <2>1
<1>2. \A n \in Good : n + 1 \in Good
  BY MakesOn
<1> HIDE DEF Good
<1>3. Len(kids) \in Good
  <2>1. Good \in SUBSET Nat
    BY DEF Good
  <2> QED BY <1>1, <1>2, <2>1, EveryCount
<1>4. PICK g : MadeTo(T, kids, d, Len(kids), g)
  BY <1>3 DEF Good
<1>5. g = [i \in 0 .. Len(kids) |-> IF i = 0 THEN T ELSE CreateChild(g[i - 1], kids[i], d)]
  BY <1>4 DEF MadeTo
<1> QED BY <1>5 DEF CreateChildren

LEMMA ChildrenCreated ==
  ASSUME LifeAssumption, fileName \in [MediaFiles -> FileNames],
         NEW T, Sound(T), NEW kids \in Seq(MediaFiles), NEW d \in FolderNames
  PROVE  Sound(CreateChildren(T, kids, d)[Len(kids)])
<1>0. Len(kids) \in Nat /\ \A i \in 1 .. Len(kids) : kids[i] \in MediaFiles
  BY LenProperties, ElementOfSeq
<1>1. PICK K : K = CreateChildren(T, kids, d)
  OBVIOUS
<1>2. K = [i \in 0 .. Len(kids) |-> IF i = 0 THEN T ELSE CreateChild(K[i - 1], kids[i], d)]
  BY <1>0, <1>1, MadeOnes
<1>3. /\ K[0] = T
      /\ \A i \in 1 .. Len(kids) : K[i] = CreateChild(K[i - 1], kids[i], d)
  <2>1. 0 \in 0 .. Len(kids) /\ \A i \in 1 .. Len(kids) : i \in 0 .. Len(kids) /\ i # 0
    BY <1>0
  <2>2. K[0] = T
    BY <1>2, <2>1
  <2>3. ASSUME NEW i \in 1 .. Len(kids) PROVE K[i] = CreateChild(K[i - 1], kids[i], d)
    BY <1>2, <2>1, Zenon
  <2> QED BY <2>2, <2>3
<1> DEFINE Good == {n \in Nat : n <= Len(kids) => Sound(K[n])}
<1>4. 0 \in Good
  BY <1>3
<1>5. ASSUME NEW n \in Good PROVE n + 1 \in Good
  <2> SUFFICES ASSUME n + 1 <= Len(kids) PROVE Sound(K[n + 1])
    OBVIOUS
  <2>1. n \in Nat /\ Sound(K[n]) /\ n + 1 \in 1 .. Len(kids) /\ (n + 1) - 1 = n
    BY <1>0
  <2>2. K[n + 1] = CreateChild(K[n], kids[n + 1], d) /\ kids[n + 1] \in MediaFiles
    BY <1>0, <1>3, <2>1
  <2>3. PICK A : A = K[n]
    OBVIOUS
  <2>4. Sound(CreateChild(A, kids[n + 1], d))
    BY <2>1, <2>2, <2>3, ChildCreated
  <2> QED BY <2>2, <2>3, <2>4
<1> HIDE DEF Good
<1>6. Len(kids) \in Good
  <2>1. Good \in SUBSET Nat
    BY DEF Good
  <2> QED BY <1>0, <1>4, <1>5, <2>1, EveryCount
<1>7. Sound(K[Len(kids)])
  BY <1>0, <1>6 DEF Good
<1> QED BY <1>1, <1>7

\* SetToSeq of a finite set is a sequence of its members.
LEMMA Listed ==
  ASSUME NEW S, NEW U, S \subseteq U, IsFiniteSet(S)
  PROVE  SetToSeq(S) \in Seq(U)
<1>1. PICK n \in Nat : n = Cardinality(S) /\ ExistsBijection(1 .. n, S)
  BY FS_CardinalityType
<1>2. \E f \in [1 .. n -> S] : IsInjective(f)
  BY <1>1 DEF ExistsBijection, Bijection, Injection, IsInjective
<1>3. SetToSeq(S) \in [1 .. n -> S]
  BY <1>1, <1>2 DEF SetToSeq
<1> QED BY <1>3

LEMMA FolderCreated ==
  ASSUME LifeAssumption, fileName \in [MediaFiles -> FileNames],
         NEW T, Sound(T), NEW f \in CloudFolders, NEW d \in FolderNames
  PROVE  Sound(CreateFolder(T, f, d))
<1>1. PICK kids : kids = SetToSeq(Children(f))
  OBVIOUS
<1>2. kids \in Seq(MediaFiles)
  <2>1. Children(f) \subseteq MediaFiles
    BY DEF Children
  <2>2. IsFiniteSet(Children(f))
    BY <2>1, FS_Subset DEF LifeAssumption
  <2> QED BY <1>1, <2>1, <2>2, Listed
<1>3. PICK A : A = Mkdir(T, d)
  OBVIOUS
<1>4. PICK B : B = IndexFolder(A, f, <<d>>)
  OBVIOUS
<1>5. Sound(A)
  BY <1>3, DirMade
<1>6. <<d>> \in FolderAt
  BY DEF FolderAt
<1>7. Sound(B)
  BY <1>4, <1>5, <1>6, FolderIndexed
<1>8. Sound(CreateChildren(B, kids, d)[Len(kids)])
  BY <1>2, <1>7, ChildrenCreated
<1> QED BY <1>1, <1>3, <1>4, <1>8 DEF CreateFolder

\* What an event may be about: a file and its path, or a folder and its.
Fits(id, path) ==
  \/ id \in MediaFiles /\ path \in LocalPath
  \/ id \in CloudFolders /\ path \in {<<d>> : d \in FolderNames}

LEMMA Created ==
  ASSUME LifeAssumption, fileName \in [MediaFiles -> FileNames],
         NEW T, Sound(T), NEW id, NEW path, Fits(id, path)
  PROVE  Sound(Create(T, id, path))
<1>1. CASE id \in CloudFolders
  <2>1. path[1] \in FolderNames
    BY <1>1 DEF Fits, LifeAssumption
  <2> QED BY <1>1, <2>1, FolderCreated DEF Create
<1>2. CASE id \notin CloudFolders
  BY <1>2, StrmCreated DEF Create, Fits
<1> QED BY <1>1, <1>2

(* Deleting *)
LEMMA DeleteHandled ==
  ASSUME LifeAssumption, NEW T, Sound(T), NEW e, NEW path
  PROVE  Sound(HandleDelete(T, e, path))
<1> DEFINE S == Now(T)
           dir == IF path[1] \in S.dirs THEN path[1] ELSE e.name
           file == IF S.local[path] # NoFile THEN path ELSE FindFile(S, e.name)
<1>1. PICK A : A = TrashFile(T, file, path)
  OBVIOUS
<1>2. HandleDelete(T, e, path) \in {T, TrashTree(T, dir), RemoveEmptyParents(A, file[1])}
  BY <1>1 DEF HandleDelete
<1> HIDE DEF S, dir, file
<1>3. Sound(A) /\ Sound(TrashTree(T, dir))
  BY <1>1, Trashed, TreeTrashed
<1>4. Sound(RemoveEmptyParents(A, file[1]))
  BY <1>3, ParentsRemoved
<1> QED BY <1>2, <1>3, <1>4

(* Moves and renames *)
\* What the index may say of an id, and what it says of one in the mapping.
Suits(id, path) ==
  \/ id \in MediaFiles /\ path \in FileAt
  \/ id \in CloudFolders /\ path \in FolderAt

LEMMA SuitsIs ==
  ASSUME LifeAssumption, NEW id, NEW path, Suits(id, path)
  PROVE  /\ id \in MediaFiles \cup CloudFolders
         /\ id \in MediaFiles => path \in FileAt
         /\ id \in CloudFolders => path \in FolderAt
BY DEF Suits, LifeAssumption

LEMMA InMediaFits ==
  ASSUME LifeAssumption, NEW id, NEW path, Suits(id, path), InMedia(path)
  PROVE  Fits(id, path)
<1>1. path # <<>> /\ path[1] # Out
  BY DEF InMedia, NotKnown, LifeAssumption
<1>2. CASE path \in FileAt /\ id \in MediaFiles
  BY <1>1, <1>2 DEF FileAt, NotKnown, Fits
<1>3. CASE path \in FolderAt /\ id \in CloudFolders
  BY <1>1, <1>3 DEF FolderAt, NotKnown, Fits
<1> QED BY <1>2, <1>3 DEF Suits

LEMMA OldPathSuits ==
  ASSUME LifeAssumption, NEW S \in FitStore, NEW id \in MediaFiles \cup CloudFolders
  PROVE  Suits(id, OldPath(S, id))
<1>1. CASE id \in MediaFiles
  <2>1. S.files[id] \in FileAt /\ id \notin CloudFolders
    BY <1>1, StoreIs DEF LifeAssumption
  <2> QED BY <1>1, <2>1, KnownPaths DEF Suits, OldPath
<1>2. CASE id \in CloudFolders
  <2>1. S.files[id] \in FolderAt /\ S.folders[id] \in FolderAt
    BY <1>2, StoreIs
  <2> QED BY <1>2, <2>1 DEF Suits, OldPath
<1> QED BY <1>1, <1>2

LEMMA AssetsRemoved ==
  ASSUME LifeAssumption, NEW T, Sound(T), NEW id \in MediaFiles \cup CloudFolders, NEW old
  PROVE  Sound(CleanupOldStrmAssets(T, id, old))
<1>1. PICK A : A = TrashTree(T, old[1])
  OBVIOUS
<1>2. PICK B : B = TrashFile(T, old, old)
  OBVIOUS
<1>3. PICK C : C = RemoveEmptyParents(B, old[1])
  OBVIOUS
<1>4. CleanupOldStrmAssets(T, id, old) \in {DeleteByPathPrefix(A, old), Index(C, id, NotKnown)}
  BY <1>1, <1>2, <1>3 DEF CleanupOldStrmAssets
<1>5. Sound(A) /\ Sound(B)
  BY <1>1, <1>2, Trashed, TreeTrashed
<1>6. Sound(C)
  BY <1>3, <1>5, ParentsRemoved
<1>7. Sound(DeleteByPathPrefix(A, old)) /\ Sound(Index(C, id, NotKnown))
  BY <1>5, <1>6, RowsDeleted, Indexed, KnownPaths
<1> QED BY <1>4, <1>7

LEMMA Recreated ==
  ASSUME LifeAssumption, fileName \in [MediaFiles -> FileNames],
         NEW T, Sound(T), NEW id, NEW old, NEW path, Fits(id, path)
  PROVE  Sound(Recreate(T, id, old, path))
<1>1. PICK A : A = IF config.keepOld THEN T ELSE CleanupOldStrmAssets(T, id, old)
  OBVIOUS
<1>2. id \in MediaFiles \cup CloudFolders
  BY DEF Fits
<1>3. Sound(A)
  BY <1>1, <1>2, AssetsRemoved
<1>4. Sound(Create(A, id, path))
  BY <1>3, Created
<1> QED BY <1>1, <1>4 DEF Recreate

LEMMA OtherRemoved ==
  ASSUME LifeAssumption, NEW T, Sound(T), NEW e, e.id \in MediaFiles \cup CloudFolders, NEW old
  PROVE  Sound(CleanupForOtherToMedia(T, e, old))
<1> DEFINE first == FindFile(Now(T), IF old = NotKnown THEN e.name ELSE Last(old))
           found == IF first = NotKnown THEN FindFile(Now(T), e.name) ELSE first
<1>1. PICK A : A = TrashFile(T, found, old)
  OBVIOUS
<1>2. PICK B : B = RemoveEmptyParents(A, found[1])
  OBVIOUS
<1>3. CleanupForOtherToMedia(T, e, old) \in {T, Index(B, e.id, NotKnown)}
  BY <1>1, <1>2 DEF CleanupForOtherToMedia
<1> HIDE DEF first, found
<1>4. Sound(A)
  BY <1>1, Trashed
<1>5. Sound(B)
  BY <1>2, <1>4, ParentsRemoved
<1>6. Sound(Index(B, e.id, NotKnown))
  BY <1>5, Indexed, KnownPaths
<1> QED BY <1>3, <1>6

\* A directory is renamed to one that is not there, and so no file is at the
\* paths its files get.
LEMMA DirRenamed ==
  ASSUME LifeAssumption, NEW T, Sound(T), NEW f \in CloudFolders, NEW c \in FolderNames, NEW d \in FolderNames,
         c \in Now(T).dirs, d \notin Now(T).dirs
  PROVE  Sound(RenameLocalDir(T, f, <<c>>, <<d>>))
<1> DEFINE S == Now(T)
           L2 == [p \in LocalPath |-> IF p[1] = d THEN S.local[<<c, p[2]>>]
                                      ELSE IF p[1] = c THEN NoFile ELSE S.local[p]]
           D2 == (S.dirs \ {c}) \cup {d}
           S2 == [S EXCEPT !.local = L2, !.dirs = D2]
           moved == [p \in {q \in LocalPath : q[1] = c} |-> <<d, p[2]>>]
<1>0. <<c>>[1] = c /\ <<d>>[1] = d
  OBVIOUS
<1>1. PICK A : A = Append(T, S2)
  OBVIOUS
<1>2. PICK B : B = UpdatePathPrefix(A, <<c>>, <<d>>)
  OBVIOUS
<1>3. PICK C : C = UpdateFolderPathPrefix(B, <<c>>, <<d>>)
  OBVIOUS
<1>4. PICK E : E = IndexFolder(C, f, <<d>>)
  OBVIOUS
<1>5. RenameLocalDir(T, f, <<c>>, <<d>>) = MigrateManaged(E, moved, <<c>>, <<d>>)
  BY <1>1, <1>2, <1>3, <1>4 DEF RenameLocalDir
<1>6. S \in FitStore /\ c \in S.dirs /\ d \notin S.dirs /\ c # d
  BY NowFits
<1> HIDE DEF S
<1>7. L2 \in [LocalPath -> MediaFiles \cup {User, NoFile}]
  BY <1>6, StoreIs, PathsAre
<1>8. ASSUME NEW p \in LocalPath, S.local[p] = User
      PROVE  /\ p[1] # d
             /\ p[1] = c => /\ <<d, p[2]>> \in LocalPath /\ S.local[<<d, p[2]>>] = NoFile
                            /\ L2[<<d, p[2]>>] = User
             /\ p[1] # c => L2[p] # NoFile
  <2>1. p[1] # d
    BY <1>6, <1>8, StoreIs DEF User, NoFile
  <2>2. ASSUME p[1] = c
        PROVE  /\ <<d, p[2]>> \in LocalPath /\ S.local[<<d, p[2]>>] = NoFile
               /\ L2[<<d, p[2]>>] = User
    <3>1. <<d, p[2]>> \in LocalPath /\ p = <<c, p[2]>> /\ <<d, p[2]>>[1] = d /\ <<d, p[2]>>[2] = p[2]
      BY <2>2, PathsAre
    <3>2. S.local[<<d, p[2]>>] = NoFile
      BY <1>6, <3>1, StoreIs
    <3>3. L2[<<d, p[2]>>] = S.local[<<c, p[2]>>]
      BY <3>1
    <3> QED BY <1>8, <3>1, <3>2, <3>3
  <2>3. p[1] # c => L2[p] # NoFile
    BY <1>8, <2>1 DEF User, NoFile
  <2> QED BY <2>1, <2>2, <2>3
<1>9. ASSUME NEW p \in LocalPath, L2[p] # NoFile PROVE p[1] \in D2
  BY <1>6, <1>9, StoreIs
<1>10. D2 \in SUBSET FolderNames
  BY <1>6, StoreIs
<1> HIDE DEF L2, D2
<1>11. S2 \in FitStore /\ S2.local = L2
  BY <1>6, <1>7, <1>9, <1>10, StoreIs DEF FitStore, LocalStore, Housed
<1> HIDE DEF S2
<1>12. Spares(S, S2)
  <2> DEFINE to == [p \in UserFiles(S) |-> IF p[1] = c THEN <<d, p[2]>> ELSE p]
  <2>1. to \in [UserFiles(S) -> LocalPath]
    BY <1>8 DEF UserFiles
  <2>2. IsInjective(to)
    <3>1. ASSUME NEW p \in UserFiles(S), NEW q \in UserFiles(S), to[p] = to[q] PROVE p = q
      <4>1. p \in LocalPath /\ q \in LocalPath /\ p[1] # d /\ q[1] # d
        BY <1>8 DEF UserFiles
      <4>2. CASE p[1] = c
        <5>1. to[p] = <<d, p[2]>> /\ to[p][1] = d /\ to[p][2] = p[2]
          BY <4>2
        <5>2. q[1] = c
          BY <3>1, <4>1, <5>1
        <5>3. to[q] = <<d, q[2]>> /\ to[q][2] = q[2]
          BY <5>2
        <5> QED BY <3>1, <4>1, <4>2, <5>1, <5>2, <5>3, PathsAre
      <4>3. CASE p[1] # c
        <5>1. to[p] = p
          BY <4>3
        <5>2. q[1] # c
          <6> SUFFICES ASSUME q[1] = c PROVE FALSE
            OBVIOUS
          <6>1. to[q] = <<d, q[2]>> /\ to[q][1] = d
            OBVIOUS
          <6> QED BY <3>1, <4>1, <5>1, <6>1
        <5> QED BY <3>1, <5>1, <5>2
      <4> QED BY <4>2, <4>3
    <3> QED BY <3>1 DEF IsInjective
  <2>3. ASSUME NEW p \in UserFiles(S)
        PROVE  IF to[p] = p THEN S2.local[p] # NoFile
               ELSE S.local[to[p]] = NoFile /\ S2.local[to[p]] = User
    <3>1. p \in LocalPath /\ S.local[p] = User /\ p[1] # d
      BY <1>8 DEF UserFiles
    <3>2. CASE p[1] = c
      <4>1. to[p] = <<d, p[2]>> /\ to[p][1] = d
        BY <3>2
      <4>2. to[p] # p
        BY <3>1, <4>1
      <4> QED BY <1>8, <1>11, <3>1, <3>2, <4>1, <4>2
    <3>3. CASE p[1] # c
      <4>1. to[p] = p
        BY <3>3
      <4> QED BY <1>8, <1>11, <3>1, <3>3, <4>1
    <3> QED BY <3>2, <3>3
  <2> HIDE DEF to
  <2> QED BY <2>1, <2>2, <2>3, Zenon DEF Spares
<1>13. Sound(A)
  BY <1>1, <1>11, <1>12, Grows DEF S
<1>14. Sound(B)
  BY <1>2, <1>13, PrefixUpdated
<1>15. Sound(C)
  BY <1>3, <1>14, FolderPrefixUpdated
<1>16. <<d>> \in FolderAt
  BY DEF FolderAt
<1>17. Sound(E)
  BY <1>4, <1>15, <1>16, FolderIndexed
<1>18. PICK D \in SUBSET LocalPath : D = {q \in LocalPath : q[1] = c}
  OBVIOUS
<1>19. moved \in [D -> LocalPath]
  BY <1>18, PathsAre
<1> HIDE DEF moved
<1>20. \A p \in FileAt : NewPrefix(p, <<c>>, <<d>>) \in FileAt
  BY PrefixOf
<1>21. Sound(MigrateManaged(E, moved, <<c>>, <<d>>))
  BY <1>17, <1>19, <1>20, Migrated
<1> QED BY <1>5, <1>21

LEMMA FolderRelocated ==
  ASSUME LifeAssumption, fileName \in [MediaFiles -> FileNames],
         NEW T, Sound(T), NEW f \in CloudFolders, NEW c \in FolderNames, NEW d \in FolderNames
  PROVE  Sound(RelocateFolder(T, f, <<c>>, <<d>>))
<1>0. <<c>>[1] = c /\ <<d>>[1] = d /\ Fits(f, <<d>>)
  BY DEF Fits
<1>1. PICK A : A = CleanupOldStrmAssets(T, f, <<c>>)
  OBVIOUS
<1>2. PICK B : B = CreateFolder(A, f, d)
  OBVIOUS
<1>3. Sound(A)
  BY <1>1, AssetsRemoved
<1>4. Sound(B)
  BY <1>2, <1>3, FolderCreated
<1>5. /\ Sound(Recreate(T, f, <<c>>, <<d>>))
      /\ Sound(CreateFolder(T, f, d))
      /\ Sound(UpdatePathPrefix(B, <<c>>, <<d>>))
  BY <1>0, <1>4, Recreated, FolderCreated, PrefixUpdated
<1>6. CASE config.recreate \/ c \notin Now(T).dirs \/ d \in Now(T).dirs
  BY <1>0, <1>1, <1>2, <1>5, <1>6 DEF RelocateFolder
<1>7. CASE ~(config.recreate \/ c \notin Now(T).dirs \/ d \in Now(T).dirs)
  <2>1. Sound(RenameLocalDir(T, f, <<c>>, <<d>>))
    BY <1>7, DirRenamed
  <2> QED BY <1>0, <1>7, <2>1 DEF RelocateFolder
<1> QED BY <1>6, <1>7

LEMMA AppendedTuples ==
  ASSUME NEW a, NEW b, NEW c
  PROVE  Append(<<a>>, b) = <<a, b>> /\ Append(<<a, b>>, c) = <<a, b, c>>
<1> DEFINE P == {a, b, c}
<1>0. a \in P /\ b \in P /\ c \in P
  OBVIOUS
<1> HIDE DEF P
<1>1. <<a>> \in Seq(P) /\ <<a, b>> \in Seq(P) /\ <<a, b, c>> \in Seq(P)
  BY <1>0
<1>2. Len(<<a>>) = 1 /\ Len(<<a, b>>) = 2 /\ Len(<<a, b, c>>) = 3 /\ <<a>>[1] = a
      /\ <<a, b>>[1] = a /\ <<a, b>>[2] = b
      /\ <<a, b, c>>[1] = a /\ <<a, b, c>>[2] = b /\ <<a, b, c>>[3] = c
  OBVIOUS
<1>3. Append(<<a>>, b) = <<a, b>>
  <2>1. PICK s \in Seq(P), t \in Seq(P) : s = <<a>> /\ t = <<a, b>>
    BY <1>1
  <2>2. Append(s, b) \in Seq(P) /\ Len(Append(s, b)) = Len(s) + 1
        /\ (\A i \in 1 .. Len(s) : Append(s, b)[i] = s[i]) /\ Append(s, b)[Len(s) + 1] = b
    BY <1>0, AppendProperties
  <2>3. Len(Append(s, b)) = Len(t) /\ \A i \in 1 .. Len(t) : Append(s, b)[i] = t[i]
    BY <1>2, <2>1, <2>2
  <2>4. Append(s, b) = t
    BY <2>2, <2>3, SeqEqual
  <2> QED BY <2>1, <2>4
<1>4. Append(<<a, b>>, c) = <<a, b, c>>
  <2>1. PICK s \in Seq(P), t \in Seq(P) : s = <<a, b>> /\ t = <<a, b, c>>
    BY <1>1
  <2>2. Append(s, c) \in Seq(P) /\ Len(Append(s, c)) = Len(s) + 1
        /\ (\A i \in 1 .. Len(s) : Append(s, c)[i] = s[i]) /\ Append(s, c)[Len(s) + 1] = c
    BY <1>0, AppendProperties
  <2>3. Len(Append(s, c)) = Len(t) /\ \A i \in 1 .. Len(t) : Append(s, c)[i] = t[i]
    BY <1>2, <2>1, <2>2
  <2>4. Append(s, c) = t
    BY <2>2, <2>3, SeqEqual
  <2> QED BY <2>1, <2>4
<1> QED BY <1>3, <1>4

LEMMA Synced ==
  ASSUME LifeAssumption, NEW T, Sound(T), NEW x \in MediaFiles, NEW path \in LocalPath, path[1] \in Now(T).dirs
  PROVE  Sound(Sync(T, x, path))
BY WrittenRecorded, KnownPaths DEF Sync

\* A file is renamed to a path where none is.
LEMMA StrmRenamed ==
  ASSUME LifeAssumption, NEW T, Sound(T), NEW x \in MediaFiles, NEW a \in LocalPath, NEW b \in LocalPath,
         a # b, Now(T).local[a] # NoFile, Now(T).local[b] = NoFile
  PROVE  Sound(RenameStrm(T, x, a, b))
<1> DEFINE S == Now(T)
           L2 == [S.local EXCEPT ![b] = S.local[a], ![a] = NoFile]
           D2 == S.dirs \cup {b[1]}
           S2 == [S EXCEPT !.dirs = D2, !.local = L2]
           moved == [p \in {a} |-> b]
<1>1. PICK A : A = Mkdir(T, b[1])
  OBVIOUS
<1>2. PICK B : B = Append(A, S2)
  OBVIOUS
<1>3. PICK C : C = MigrateManaged(B, moved, a, b)
  OBVIOUS
<1>4. PICK E : E = Sync(C, x, b)
  OBVIOUS
<1>5. PICK F : F = Index(E, x, b)
  OBVIOUS
<1>6. RenameStrm(T, x, a, b) \in {F, RemoveEmptyParents(F, a[1])}
  BY <1>1, <1>2, <1>3, <1>4, <1>5 DEF RenameStrm
<1>7. S \in FitStore /\ S.local[a] # NoFile /\ S.local[b] = NoFile
  BY NowFits
<1> HIDE DEF S
<1>8. b[1] \in FolderNames /\ a[1] \in FolderNames
  BY PathsAre
<1>9. L2 \in [LocalPath -> MediaFiles \cup {User, NoFile}]
  BY <1>7, StoreIs
<1>10. \A p \in LocalPath : L2[p] = IF p = a THEN NoFile ELSE IF p = b THEN S.local[a] ELSE S.local[p]
  BY <1>7, StoreIs
<1>11. ASSUME NEW p \in LocalPath, L2[p] # NoFile PROVE p[1] \in D2
  BY <1>7, <1>10, <1>11, StoreIs
<1>12. D2 \in SUBSET FolderNames /\ b[1] \in D2
  BY <1>7, <1>8, StoreIs
<1> HIDE DEF L2, D2
<1>13. S2 \in FitStore /\ S2.local = L2 /\ S2.dirs = D2
  BY <1>7, <1>9, <1>11, <1>12, StoreIs DEF FitStore, LocalStore, Housed
<1> HIDE DEF S2
<1>14. Sound(A) /\ Now(A).local = S.local
  BY <1>1, <1>8, DirMade DEF S
<1>15. Spares(Now(A), S2)
  <2>0. PICK R : R = Now(A)
    OBVIOUS
  <2>1. R.local = S.local
    BY <1>14, <2>0
  <2> DEFINE to == [p \in UserFiles(R) |-> IF p = a THEN b ELSE p]
  <2>2. \A p \in UserFiles(R) : p \in LocalPath /\ S.local[p] = User /\ p # b
    BY <1>7, <2>1 DEF UserFiles, User, NoFile
  <2>3. to \in [UserFiles(R) -> LocalPath] /\ IsInjective(to)
    BY <2>2 DEF IsInjective
  <2>4. ASSUME NEW p \in UserFiles(R)
        PROVE  IF to[p] = p THEN S2.local[p] # NoFile
               ELSE R.local[to[p]] = NoFile /\ S2.local[to[p]] = User
    <3>1. CASE p = a
      BY <1>7, <1>10, <1>13, <2>1, <2>2, <3>1
    <3>2. CASE p # a
      BY <1>7, <1>10, <1>13, <2>1, <2>2, <3>2 DEF User, NoFile
    <3> QED BY <3>1, <3>2
  <2> HIDE DEF to
  <2>5. Spares(R, S2)
    BY <2>3, <2>4, Zenon DEF Spares
  <2> QED BY <2>0, <2>5
<1>16. Sound(B) /\ Now(B).dirs = D2
  BY <1>2, <1>13, <1>14, <1>15, Grows
<1>17. PICK D \in SUBSET LocalPath : D = {a}
  OBVIOUS
<1>18. moved \in [D -> LocalPath]
  BY <1>17
<1> HIDE DEF moved
<1>19. \A p \in FileAt : NewPrefix(p, a, b) \in FileAt
  BY WholePrefixOf
<1>20. Sound(C) /\ Now(C).dirs = D2
  BY <1>3, <1>16, <1>18, <1>19, Migrated
<1>21. Sound(E)
  BY <1>4, <1>12, <1>20, Synced
<1>22. Sound(F)
  BY <1>5, <1>21, Indexed, KnownPaths DEF LifeAssumption
<1>23. Sound(RemoveEmptyParents(F, a[1]))
  BY <1>22, ParentsRemoved
<1> QED BY <1>6, <1>22, <1>23

LEMMA FileRelocated ==
  ASSUME LifeAssumption, fileName \in [MediaFiles -> FileNames],
         NEW T, Sound(T), NEW e, e.id \in MediaFiles, NEW a \in LocalPath, NEW b \in LocalPath
  PROVE  Sound(RelocateFile(T, e, a, b))
<1>1. PICK S \in FitStore : S = Now(T)
  BY NowFits
<1>2. PICK x \in MediaFiles : x = e.id
  OBVIOUS
<1>3. \A p \in LocalPath : S.local[p] # NoFile => p[1] \in S.dirs
  BY <1>1, StoreIs
<1>4. /\ Sound(CreateStrm(T, x, b))
      /\ Sound(Recreate(T, x, a, b))
  BY StrmCreated, Recreated DEF Fits
<1>5. ASSUME S.local[b] # NoFile
      PROVE  /\ Sound(Sync(T, x, b)) /\ Sound(Index(Sync(T, x, b), x, b))
             /\ Sound(MergeStrm(T, x, a, b))
  <2>1. PICK A : A = Sync(T, x, b)
    OBVIOUS
  <2>2. Sound(A)
    BY <1>1, <1>3, <1>5, <2>1, Synced
  <2>3. PICK B : B = TrashFile(A, a, a)
    OBVIOUS
  <2>4. Sound(B)
    BY <2>2, <2>3, Trashed
  <2>5. b \in FileAt /\ x \notin CloudFolders
    BY KnownPaths DEF LifeAssumption
  <2>6. Sound(Index(A, x, b)) /\ Sound(Index(B, x, b))
    BY <2>2, <2>4, <2>5, Indexed
  <2> QED BY <2>1, <2>2, <2>3, <2>6 DEF MergeStrm
<1>6. CASE config.recreate
  BY <1>2, <1>4, <1>6 DEF RelocateFile
<1>7. CASE ~config.recreate /\ S.local[a] = NoFile
  BY <1>1, <1>2, <1>4, <1>5, <1>7 DEF RelocateFile
<1>8. CASE ~config.recreate /\ S.local[a] # NoFile /\ S.local[b] # NoFile
  BY <1>1, <1>2, <1>5, <1>8 DEF RelocateFile
<1>9. CASE ~config.recreate /\ S.local[a] # NoFile /\ S.local[b] = NoFile
  <2>1. a # b
    BY <1>9
  <2>2. Sound(RenameStrm(T, x, a, b))
    BY <1>1, <1>9, <2>1, StrmRenamed
  <2> QED BY <1>1, <1>2, <1>9, <2>1, <2>2 DEF RelocateFile
<1> QED BY <1>6, <1>7, <1>8, <1>9

LEMMA MoveOutHandled ==
  ASSUME LifeAssumption, NEW T, Sound(T), NEW e, e.id \in MediaFiles \cup CloudFolders, NEW old
  PROVE  Sound(HandleMoveOut(T, e, old))
<1> DEFINE S == Now(T)
           byName == IF e.id \in CloudFolders THEN IF e.name \in S.dirs THEN <<e.name>> ELSE NotKnown
                     ELSE FindFile(S, e.name)
           at == IF InMedia(old) THEN old ELSE byName
           known == IF InMedia(old) THEN old ELSE <<Out, e.name>>
<1>1. PICK A : A = TrashTree(T, at[1])
  OBVIOUS
<1>2. PICK B : B = TrashFile(T, at, known)
  OBVIOUS
<1>3. PICK C : C = RemoveEmptyParents(B, at[1])
  OBVIOUS
<1>4. HandleMoveOut(T, e, old) \in {T, DeleteByPathPrefix(A, known), Index(C, e.id, NotKnown)}
  BY <1>1, <1>2, <1>3 DEF HandleMoveOut
<1> HIDE DEF S, byName, at, known
<1>5. Sound(A) /\ Sound(B)
  BY <1>1, <1>2, Trashed, TreeTrashed
<1>6. Sound(C)
  BY <1>3, <1>5, ParentsRemoved
<1>7. Sound(DeleteByPathPrefix(A, known)) /\ Sound(Index(C, e.id, NotKnown))
  BY <1>5, <1>6, RowsDeleted, Indexed, KnownPaths
<1> QED BY <1>4, <1>7

LEMMA MoveHandled ==
  ASSUME LifeAssumption, fileName \in [MediaFiles -> FileNames],
         NEW T, Sound(T), NEW e, e.id \in MediaFiles \cup CloudFolders, NEW path, Suits(e.id, path)
  PROVE  Sound(HandleMove(T, e, path))
<1>1. PICK old : old = OldPath(Now(T), e.id)
  OBVIOUS
<1>2. Now(T) \in FitStore
  BY NowFits
<1>3. Suits(e.id, old)
  BY <1>1, <1>2, OldPathSuits
<1>4. CASE path = NotKnown
  BY <1>4 DEF HandleMove
<1>5. CASE path # NotKnown /\ ~InMedia(path)
  <2>1. Sound(HandleMoveOut(T, e, old))
    BY MoveOutHandled
  <2> QED BY <1>1, <1>5, <2>1 DEF HandleMove
<1>6. CASE path # NotKnown /\ InMedia(path) /\ ~InMedia(old)
  <2>1. PICK A : A = CleanupForOtherToMedia(T, e, old)
    OBVIOUS
  <2>2. Sound(A)
    BY <2>1, OtherRemoved
  <2>3. Fits(e.id, path)
    BY <1>6, InMediaFits
  <2>4. Sound(Create(A, e.id, path))
    BY <2>2, <2>3, Created
  <2> QED BY <1>1, <1>6, <2>1, <2>4 DEF HandleMove
<1>7. CASE path # NotKnown /\ InMedia(path) /\ InMedia(old)
  <2>1. Fits(e.id, path) /\ Fits(e.id, old)
    BY <1>3, <1>7, InMediaFits
  <2>2. CASE e.id \in CloudFolders
    <3>1. PICK c \in FolderNames, d \in FolderNames : old = <<c>> /\ path = <<d>>
      BY <2>1, <2>2 DEF Fits, LifeAssumption
    <3>2. Sound(RelocateFolder(T, e.id, <<c>>, <<d>>))
      BY <2>2, FolderRelocated
    <3> QED BY <1>1, <1>7, <2>2, <3>1, <3>2 DEF HandleMove
  <2>3. CASE e.id \notin CloudFolders
    <3>1. e.id \in MediaFiles /\ old \in LocalPath /\ path \in LocalPath
      BY <2>1, <2>3 DEF Fits
    <3>2. Sound(RelocateFile(T, e, old, path))
      BY <3>1, FileRelocated
    <3> QED BY <1>1, <1>7, <2>3, <3>2 DEF HandleMove
  <2> QED BY <2>2, <2>3
<1> QED BY <1>4, <1>5, <1>6, <1>7

(* An event *)
CloudOK ==
  /\ place \in [CloudFolders -> {Mapped, Out, "new", "gone"}] /\ dirName \in [CloudFolders -> FolderNames]
  /\ parent \in [MediaFiles -> CloudFolders \cup {Out, "new", "gone"}] /\ fileName \in [MediaFiles -> FileNames]

LEMMA PathResolved ==
  ASSUME LifeAssumption, CloudOK, store \in FitStore, NEW e \in FileEvent \cup FolderEvent, NEW fresh
  PROVE  e.id \in MediaFiles \cup CloudFolders /\ Suits(e.id, ResolvePath(e, fresh))
<1>1. e.id \in MediaFiles \cup CloudFolders
  BY DEF FileEvent, FolderEvent
<1>2. Suits(e.id, OldPath(store, e.id))
  BY <1>1, OldPathSuits
<1>3. CASE CachedPath(e) # NotKnown
  <2>1. ResolvePath(e, fresh) = OldPath(store, e.id)
    BY <1>3 DEF ResolvePath, CachedPath
  <2> QED BY <1>1, <1>2, <2>1
<1>4. CASE CachedPath(e) = NotKnown /\ e \in FolderEvent
  <2>1. e.id \in CloudFolders /\ e.parent \in {Mapped, Out} /\ e.name \in FolderNames
    BY <1>4 DEF FolderEvent
  <2>2. ResolvePath(e, fresh) \in {<<e.name>>, <<Out, e.name>>}
    BY <1>4, <2>1 DEF ResolvePath
  <2>3. <<e.name>> \in FolderAt /\ <<Out, e.name>> \in FolderAt
    BY <2>1 DEF FolderAt
  <2> QED BY <1>1, <2>1, <2>2, <2>3 DEF Suits
<1>5. CASE CachedPath(e) = NotKnown /\ e \in FileEvent
  <2>1. e.id \in MediaFiles /\ e.parent \in CloudFolders \cup {Out} /\ e.name \in FileNames
    BY <1>5 DEF FileEvent
  <2>2. CASE e.parent = Out
    <3>1. ResolvePath(e, fresh) = <<Out, e.name>>
      BY <1>5, <2>2 DEF ResolvePath, Out, Mapped
    <3>2. <<Out, e.name>> \in FileAt
      BY <2>1 DEF FileAt
    <3> QED BY <1>1, <2>1, <3>1, <3>2 DEF Suits
  <2>3. CASE e.parent \in CloudFolders
    <3>1. e.parent # Mapped /\ e.parent # Out
      BY <2>3 DEF LifeAssumption
    <3>2. FolderPath(e.parent) \in FolderAt
      <4>1. dirName[e.parent] \in FolderNames
        BY <2>3 DEF CloudOK
      <4> QED BY <4>1 DEF FolderPath, FolderAt
    <3>3. store.folders[e.parent] \in FolderAt
      BY <2>3, StoreIs
    <3>4. ParentPath(e, fresh) \in FolderAt
      BY <2>3, <3>2, <3>3 DEF ParentPath, ParentRow, AskedPath
    <3>5. ASSUME NEW p \in FolderAt, p # NotKnown PROVE Append(p, e.name) \in FileAt
      <4>1. CASE p \in {<<d>> : d \in FolderNames}
        <5>1. PICK d \in FolderNames : p = <<d>>
          BY <4>1
        <5>2. Append(<<d>>, e.name) = <<d, e.name>>
          BY AppendedTuples, Zenon
        <5> QED BY <2>1, <5>1, <5>2 DEF FileAt, LocalPath
      <4>2. CASE p \in {<<Out, d>> : d \in FolderNames}
        <5>1. PICK d \in FolderNames : p = <<Out, d>>
          BY <4>2
        <5>2. Append(<<Out, d>>, e.name) = <<Out, d, e.name>>
          BY AppendedTuples, Zenon
        <5> QED BY <2>1, <5>1, <5>2 DEF FileAt
      <4> QED BY <3>5, <4>1, <4>2 DEF FolderAt
    <3>6. CASE ParentPath(e, fresh) = NotKnown
      BY <1>1, <1>5, <2>1, <3>1, <3>6, KnownPaths DEF ResolvePath, Suits
    <3>7. CASE ParentPath(e, fresh) # NotKnown
      <4>1. ResolvePath(e, fresh) = Append(ParentPath(e, fresh), e.name)
        BY <1>5, <3>1, <3>7 DEF ResolvePath
      <4>2. Append(ParentPath(e, fresh), e.name) \in FileAt
        BY <3>4, <3>5, <3>7
      <4> QED BY <1>1, <2>1, <4>1, <4>2 DEF Suits
    <3> QED BY <3>6, <3>7
  <2> QED BY <2>1, <2>2, <2>3
<1> QED BY <1>3, <1>4, <1>5

LEMMA AloneSound ==
  ASSUME NEW S \in FitStore
  PROVE  Sound(<<S>>) /\ Now(<<S>>) = S
<1>1. <<S>> \in Seq(FitStore) /\ <<S>> # <<>> /\ Len(<<S>>) = 1 /\ <<S>>[1] = S
  OBVIOUS
<1>2. AllSpare(<<S>>)
  BY <1>1 DEF AllSpare
<1> QED BY <1>1, <1>2 DEF Sound, Now, Last

LEMMA EventHandled ==
  ASSUME LifeAssumption, CloudOK, store \in FitStore, NEW e \in FileEvent \cup FolderEvent, NEW fresh
  PROVE  Sound(HandleEvent(e, fresh))
<1>1. PICK path : path = ResolvePath(e, fresh)
  OBVIOUS
<1>2. PICK T : T = <<store>>
  OBVIOUS
<1>3. PICK ahead : ahead = WriteAhead(e, path)
  OBVIOUS
<1>4. e.id \in MediaFiles \cup CloudFolders /\ Suits(e.id, path)
  BY <1>1, PathResolved
<1>5. Sound(T) /\ Now(T) = store
  BY <1>2, AloneSound
<1>6. Sound(ahead)
  <2>1. Sound(Index(T, e.id, path))
    BY <1>4, <1>5, SuitsIs, Indexed
  <2> QED BY <1>2, <1>3, <1>5, <2>1 DEF WriteAhead
<1>7. ASSUME e.id \in store.marked PROVE Sound(Consume(e.id))
  <2> DEFINE S2 == [store EXCEPT !.marked = @ \ {e.id}]
  <2>1. S2 \in FitStore /\ S2.local = store.local
    BY StoreIs DEF FitStore, LocalStore, Housed
  <2> HIDE DEF S2
  <2>2. Sound(Append(T, S2))
    BY <1>5, <2>1, GrowsAside
  <2>3. Append(T, S2) = <<store, S2>>
    BY <1>2, AppendedTuples, Zenon
  <2> QED BY <2>2, <2>3 DEF Consume, S2
<1>8. Sound(HandleMove(T, e, path))
  BY <1>4, <1>5, MoveHandled DEF CloudOK
<1>9. Sound(HandleDelete(ahead, e, path))
  BY <1>6, DeleteHandled
<1>10. ASSUME InMedia(path) PROVE Sound(Create(ahead, e.id, path))
  <2>1. Fits(e.id, path)
    BY <1>4, <1>10, InMediaFits
  <2> QED BY <1>6, <2>1, Created DEF CloudOK
<1>11. HandleEvent(e, fresh) = IF e.type = "create" /\ e.id \in store.marked THEN Consume(e.id)
         ELSE IF e.type \in {"move", "rename"} THEN HandleMove(T, e, path)
         ELSE IF path = NotKnown THEN T
         ELSE IF ~InMedia(path) THEN ahead
         ELSE IF e.type = "delete" THEN HandleDelete(ahead, e, path)
         ELSE Create(ahead, e.id, path)
  BY <1>1, <1>2, <1>3 DEF HandleEvent
<1> QED BY <1>5, <1>6, <1>7, <1>8, <1>9, <1>10, <1>11

(* The invariant of LifeEvents, with the assumption on its constants.        *)
LifeInv ==
  /\ LifeAssumption /\ CloudOK
  /\ events \in Seq(FileEvent \cup FolderEvent) /\ Len(events) <= MaxBacklog
  /\ store \in FitStore /\ verified \subseteq CloudFolders \X FolderAt /\ dropped \subseteq MediaFiles
  /\ config \in LifeSettings /\ users \in OpSets
  /\ ops \in 0 .. MaxOps /\ crashes \in 0 .. MaxCrashes

LEMMA ConfirmedTyped ==
  ASSUME store \in FitStore, verified \subseteq CloudFolders \X FolderAt, NEW e, NEW fresh
  PROVE  Confirmed(e, fresh) \subseteq CloudFolders \X FolderAt
<1>1. CASE e.parent \in CloudFolders
  <2>1. ParentRow(e) \in FolderAt
    BY <1>1, StoreIs DEF ParentRow
  <2> QED BY <1>1, <2>1 DEF Confirmed
<1>2. CASE e.parent \notin CloudFolders
  <2>1. ParentRow(e) = NotKnown
    BY <1>2 DEF ParentRow
  <2> QED BY <2>1 DEF Confirmed, Verifies
<1> QED BY <1>1, <1>2

LEMMA EmptyFits == LifeAssumption => EmptyStore \in FitStore
<1> SUFFICES ASSUME LifeAssumption PROVE EmptyStore \in FitStore
  OBVIOUS
<1>1. NoRow \in [file : MediaFiles \cup {NoFile}, at : FileAt, active : BOOLEAN]
  BY KnownPaths DEF NoRow
<1> QED BY <1>1, KnownPaths DEF EmptyStore, FitStore, LocalStore, Housed

LEMMA BootstrapFits ==
  ASSUME LifeAssumption, NEW S \in FitStore
  PROVE  Bootstrap(S) \in FitStore
<1> DEFINE row2 == [p \in LocalPath |->
             IF S.row[p] = NoRow /\ S.local[p] \in MediaFiles /\ S.files[S.local[p]] # NotKnown
             THEN [file |-> S.local[p], at |-> S.files[S.local[p]], active |-> TRUE] ELSE S.row[p]]
<1>1. Bootstrap(S) = [S EXCEPT !.marked = {}, !.row = row2]
  BY DEF Bootstrap
<1>2. row2 \in [LocalPath -> [file : MediaFiles \cup {NoFile}, at : FileAt, active : BOOLEAN]]
  BY StoreIs
<1> HIDE DEF row2
<1>3. {} \in SUBSET MediaFiles
  OBVIOUS
<1>4. PICK B : B = [local |-> S.local, dirs |-> S.dirs, row |-> row2, files |-> S.files,
                    folders |-> S.folders, marked |-> {}]
  OBVIOUS
<1>5. Bootstrap(S) = B
  <2>1. S = [local |-> S.local, dirs |-> S.dirs, row |-> S.row, files |-> S.files,
             folders |-> S.folders, marked |-> S.marked]
    BY StoreIs
  <2>2. Bootstrap(S) = [local |-> S.local, dirs |-> S.dirs, row |-> row2, files |-> S.files,
                        folders |-> S.folders, marked |-> {}]
    BY <1>1, <2>1
  <2> QED BY <1>4, <2>2
<1>6. B \in LocalStore
  BY <1>2, <1>4, StoreIs DEF LocalStore
<1>7. B.local = S.local /\ B.dirs = S.dirs /\ B.files = S.files
  BY <1>4
<1> QED BY <1>5, <1>6, <1>7, StoreIs DEF FitStore, Housed

LEMMA LifeInitInv == LifeAssumption /\ LifeInit => LifeInv
<1> SUFFICES ASSUME LifeAssumption, LifeInit PROVE LifeInv
  OBVIOUS
<1>1. EmptyStore \in FitStore
  BY EmptyFits
<1>2. <<>> \in Seq(FileEvent \cup FolderEvent) /\ Len(<<>>) = 0
  BY EmptySeq
<1> QED BY <1>1, <1>2 DEF LifeInit, LifeInv, CloudOK, LifeAssumption

\* One operation of a user and its event.
LEMMA CloudOpInv ==
  ASSUME LifeInv, CloudOK', ops < MaxOps, NEW op, NEW from, NEW e \in FileEvent \cup FolderEvent, CloudOp(op, from, e)
  PROVE  LifeInv'
<1>1. PICK es \in Seq(FileEvent \cup FolderEvent) : es = events
  BY DEF LifeInv
<1>2. Append(es, e) \in Seq(FileEvent \cup FolderEvent) /\ Len(Append(es, e)) = Len(es) + 1 /\ Len(es) \in Nat
  BY AppendProperties, LenProperties
<1>3. events' = Append(es, e) /\ Len(es) < MaxBacklog /\ ops < MaxOps /\ ops' = ops + 1
      /\ UNCHANGED <<store, verified, dropped, config, users, crashes>>
  BY <1>1 DEF CloudOp
<1>4. LifeAssumption /\ MaxBacklog \in Nat /\ MaxOps \in Nat
  BY DEF LifeInv, LifeAssumption
<1>5. events' \in Seq(FileEvent \cup FolderEvent) /\ Len(events)' <= MaxBacklog
  BY <1>2, <1>3, <1>4
<1>6. ops' \in 0 .. MaxOps
  BY <1>3, <1>4 DEF LifeInv
<1> QED BY <1>3, <1>4, <1>5, <1>6 DEF LifeInv

LEMMA CloudEvents ==
  /\ \A f \in CloudFolders, above \in {Mapped, Out}, name \in FolderNames, type \in {"newFolder", "delete", "move", "rename"} :
       Event(type, f, above, name) \in FileEvent \cup FolderEvent
  /\ \A x \in MediaFiles, above \in CloudFolders \cup {Out}, name \in FileNames, type \in {"create", "delete", "move", "rename"} :
       Event(type, x, above, name) \in FileEvent \cup FolderEvent
BY DEF Event, FileEvent, FolderEvent

LEMMA LifeNextInv == LifeInv /\ [LifeNext]_lifeVars => LifeInv'
<1> SUFFICES ASSUME LifeInv, [LifeNext]_lifeVars PROVE LifeInv'
  OBVIOUS
<1>0. LifeAssumption /\ CloudOK /\ store \in FitStore
  BY DEF LifeInv
<1>1. CASE UNCHANGED lifeVars
  BY <1>1 DEF lifeVars, mediaVars, LifeInv, CloudOK
<1>2. ASSUME NEW f \in CloudFolders, NEW above \in {Mapped, Out}, NEW inside \in SUBSET MediaFiles,
             UploadFolder(f, above, inside), ops < MaxOps
      PROVE  LifeInv'
  <2>1. CloudOK'
    BY <1>0, <1>2 DEF CloudOK, UploadFolder
  <2>2. Event("newFolder", f, above, dirName[f]) \in FileEvent \cup FolderEvent
    BY <1>0, CloudEvents DEF CloudOK
  <2> QED BY <1>2, <2>1, <2>2, CloudOpInv DEF UploadFolder
<1>3. ASSUME NEW x \in MediaFiles, NEW above \in CloudFolders \cup {Out}, UploadFile(x, above), ops < MaxOps PROVE LifeInv'
  <2>1. CloudOK'
    BY <1>0, <1>3 DEF CloudOK, UploadFile
  <2>2. Event("create", x, above, fileName[x]) \in FileEvent \cup FolderEvent
    BY <1>0, CloudEvents DEF CloudOK
  <2> QED BY <1>3, <2>1, <2>2, CloudOpInv DEF UploadFile
<1>4. ASSUME NEW x \in MediaFiles, EraseFile(x), ops < MaxOps PROVE LifeInv'
  <2>1. CloudOK'
    BY <1>0, <1>4 DEF CloudOK, EraseFile
  <2>2. parent[x] \in CloudFolders \cup {Out}
    BY <1>4 DEF EraseFile, FilePath
  <2>3. Event("delete", x, parent[x], fileName[x]) \in FileEvent \cup FolderEvent
    BY <1>0, <2>2, CloudEvents DEF CloudOK
  <2> QED BY <1>4, <2>1, <2>3, CloudOpInv DEF EraseFile
<1>5. ASSUME NEW f \in CloudFolders, DeleteFolder(f), ops < MaxOps PROVE LifeInv'
  <2>1. CloudOK'
    BY <1>0, <1>5 DEF CloudOK, DeleteFolder
  <2>2. place[f] \in {Mapped, Out}
    BY <1>5 DEF DeleteFolder, FolderPath
  <2>3. Event("delete", f, place[f], dirName[f]) \in FileEvent \cup FolderEvent
    BY <1>0, <2>2, CloudEvents DEF CloudOK
  <2> QED BY <1>5, <2>1, <2>3, CloudOpInv DEF DeleteFolder
<1>6. ASSUME NEW x \in MediaFiles, NEW above \in CloudFolders \cup {Out}, MoveFile(x, above), ops < MaxOps PROVE LifeInv'
  <2>1. CloudOK'
    BY <1>0, <1>6 DEF CloudOK, MoveFile
  <2>2. Event("move", x, above, fileName[x]) \in FileEvent \cup FolderEvent
    BY <1>0, CloudEvents DEF CloudOK
  <2> QED BY <1>6, <2>1, <2>2, CloudOpInv DEF MoveFile
<1>7. ASSUME NEW f \in CloudFolders, MoveFolder(f), ops < MaxOps PROVE LifeInv'
  <2>1. CloudOK' /\ place'[f] \in {Mapped, Out}
    BY <1>0, <1>7 DEF CloudOK, MoveFolder
  <2>2. Event("move", f, place'[f], dirName[f]) \in FileEvent \cup FolderEvent
    BY <1>0, <2>1, CloudEvents DEF CloudOK
  <2> QED BY <1>7, <2>1, <2>2, CloudOpInv DEF MoveFolder
<1>8. ASSUME NEW x \in MediaFiles, NEW name \in FileNames, RenameFile(x, name), ops < MaxOps PROVE LifeInv'
  <2>1. CloudOK'
    BY <1>0, <1>8 DEF CloudOK, RenameFile
  <2>2. parent[x] \in CloudFolders \cup {Out}
    BY <1>8 DEF RenameFile, FilePath
  <2>3. Event("rename", x, parent[x], name) \in FileEvent \cup FolderEvent
    BY <2>2, CloudEvents
  <2> QED BY <1>8, <2>1, <2>3, CloudOpInv DEF RenameFile
<1>9. ASSUME NEW f \in CloudFolders, NEW name \in FolderNames, RenameFolder(f, name), ops < MaxOps PROVE LifeInv'
  <2>1. CloudOK'
    BY <1>0, <1>9 DEF CloudOK, RenameFolder
  <2>2. place[f] \in {Mapped, Out}
    BY <1>9 DEF RenameFolder, FolderPath
  <2>3. Event("rename", f, place[f], name) \in FileEvent \cup FolderEvent
    BY <2>2, CloudEvents
  <2> QED BY <1>9, <2>1, <2>3, CloudOpInv DEF RenameFolder
<1>10. ASSUME NEW path \in LocalPath, UserWrites(path), ops < MaxOps PROVE LifeInv'
  <2>1. PICK S \in FitStore : S = store
    BY <1>0
  <2>2. [S EXCEPT !.local = [@ EXCEPT ![path] = User]] \in FitStore
    BY <1>10, <2>1, StoreIs DEF UserWrites, FitStore, LocalStore, Housed
  <2>3. store' \in FitStore
    BY <1>10, <2>1, <2>2 DEF UserWrites
  <2>4. ops' \in 0 .. MaxOps
    BY <1>10 DEF UserWrites, LifeInv, LifeAssumption
  <2> QED BY <1>10, <2>3, <2>4 DEF UserWrites, LifeInv, CloudOK, mediaVars
<1>11. ASSUME events # <<>>
       PROVE  /\ \A fresh : Sound(HandleEvent(Head(events), fresh))
              /\ Head(events).id \in MediaFiles \cup CloudFolders
              /\ Tail(events) \in Seq(FileEvent \cup FolderEvent) /\ Len(Tail(events)) <= MaxBacklog
  <2>1. PICK es \in Seq(FileEvent \cup FolderEvent) : es = events /\ Len(es) <= MaxBacklog /\ es # <<>>
    BY <1>11 DEF LifeInv
  <2>2. Head(es) \in FileEvent \cup FolderEvent /\ Tail(es) \in Seq(FileEvent \cup FolderEvent) /\ Len(Tail(es)) = Len(es) - 1
    BY <2>1, HeadTailProperties
  <2>3. Head(es).id \in MediaFiles \cup CloudFolders
    BY <2>2 DEF FileEvent, FolderEvent
  <2>4. Len(es) \in Nat /\ MaxBacklog \in Nat
    BY <1>0, LenProperties DEF LifeAssumption
  <2> QED BY <1>0, <2>1, <2>2, <2>3, <2>4, EventHandled
<1>12. CASE ProcessEvent
  <2>0. PICK fresh \in Beliefs(Head(events)) :
          /\ store' = Last(HandleEvent(Head(events), fresh))
          /\ verified' \in {{}, Confirmed(Head(events), fresh)}
          /\ dropped' \in {dropped, dropped \cup ({Head(events).id} \cap MediaFiles)}
    BY <1>12 DEF ProcessEvent
  <2>1. PICK T : T = HandleEvent(Head(events), fresh)
    OBVIOUS
  <2>2. Last(T) \in FitStore
    BY <1>11, <1>12, <2>1, NowFits DEF ProcessEvent, Now
  <2>3. verified' \subseteq CloudFolders \X FolderAt /\ dropped' \subseteq MediaFiles
    BY <1>0, <2>0, ConfirmedTyped DEF LifeInv
  <2> QED BY <1>11, <1>12, <2>0, <2>1, <2>2, <2>3 DEF ProcessEvent, LifeInv, CloudOK, mediaVars
<1>13. CASE HandlerCrash
  <2>0. PICK fresh \in Beliefs(Head(events)) : \E i \in DOMAIN HandleEvent(Head(events), fresh) :
          store' = Bootstrap(HandleEvent(Head(events), fresh)[i])
    BY <1>13 DEF HandlerCrash
  <2>1. PICK T : T = HandleEvent(Head(events), fresh)
    OBVIOUS
  <2>2. T \in Seq(FitStore)
    BY <1>11, <1>13, <2>1 DEF HandlerCrash, Sound
  <2>3. PICK i \in DOMAIN T : store' = Bootstrap(T[i])
    BY <2>0, <2>1
  <2>4. T[i] \in FitStore
    BY <2>2, ElementOfSeq, LenProperties
  <2>5. store' \in FitStore
    BY <1>0, <2>3, <2>4, BootstrapFits
  <2>6. crashes' \in 0 .. MaxCrashes
    BY <1>13 DEF HandlerCrash, LifeInv, LifeAssumption
  <2> QED BY <1>13, <2>5, <2>6 DEF HandlerCrash, LifeInv, CloudOK, mediaVars
<1> QED BY <1>1, <1>2, <1>3, <1>4, <1>5, <1>6, <1>7, <1>8, <1>9, <1>10, <1>12, <1>13 DEF LifeNext

LEMMA LifeInvariant == LifeAssumption /\ LifeSpec => []LifeInv
BY LifeInitInv, LifeNextInv, PTL DEF LifeSpec

\* The cloud, the events that wait and all that a handler leaves of files, records
\* and index keep their types, whatever users do and wherever the program stops
\* (processEvent).
THEOREM LifeTyped == LifeAssumption /\ LifeSpec => []LifeTypeOK
<1>1. LifeInv => LifeTypeOK
  BY DEF LifeInv, LifeTypeOK, CloudOK, FitStore
<1> QED BY <1>1, LifeInvariant, PTL

\* Whatever event comes next, in whatever state of the cloud, the files and the
\* index, no step of its handler removes a file that somebody else wrote:
\* VerifyFile compares a file with its record before it is trashed, and a rename
\* is of a directory that is not there or to a path that is free.
THEOREM OthersSpared == LifeAssumption /\ LifeSpec => []UserKept
<1>1. LifeInv => UserKept
  <2> SUFFICES ASSUME LifeInv, events # <<>>, NEW fresh PROVE AllSpare(HandleEvent(Head(events), fresh))
    BY DEF UserKept
  <2>1. PICK es \in Seq(FileEvent \cup FolderEvent) : es = events
    BY DEF LifeInv
  <2>2. Head(es) \in FileEvent \cup FolderEvent
    BY <2>1, HeadTailProperties
  <2>3. Sound(HandleEvent(Head(es), fresh))
    BY <2>2, EventHandled DEF LifeInv
  <2> QED BY <2>1, <2>3 DEF Sound
<1> QED BY <1>1, LifeInvariant, PTL
=============================================================================
