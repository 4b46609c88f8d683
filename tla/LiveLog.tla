------------------------------ MODULE LiveLog ------------------------------
(* The live log (service/sse): a task's frames go to the browsers that watch *)
(* it.  Broadcast keeps a frame in the buffer of its task (logMu) and then   *)
(* offers it to every subscriber (mu, shared); a subscriber registers (mu)   *)
(* and then copies the buffer (logMu), which a goroutine of its own replays. *)
(* No lock spans both steps, on either side.  A frame that finds the queue   *)
(* of a subscriber full is lost to it, so that no browser holds up a task.   *)
EXTENDS Integers, Sequences, FiniteSets, SequencesExt

CONSTANTS Frames,       \* the frames, each broadcast by a goroutine
          Tasks,
          TaskOf,       \* the task of a frame
          Subscribers,  \* connections of browsers
          Watches,      \* the task a subscriber watches, or Everything
          QueueSize,    \* frames a subscriber's queue holds (256)
          MaxLogPer,    \* frames kept of a task (500)
          MaxTaskLogs   \* tasks whose frames are kept (64)
Everything == "*"
LiveLogAssumption ==
  /\ TaskOf \in [Frames -> Tasks] /\ Everything \notin Tasks
  /\ Watches \in [Subscribers -> Tasks \cup {Everything}]
  /\ {QueueSize, MaxLogPer, MaxTaskLogs} \subseteq Nat \ {0}

VARIABLES
  emission,   \* how far Broadcast of a frame has come
  left,       \* the subscribers it has still to offer the frame to, in its order
  taskLogs,   \* the frames kept of a task
  taskLogAt,  \* the tasks with a buffer, in the order of their last frames
  stage,      \* how far a subscriber has come
  replay,     \* what its goroutine has still to replay
  send,       \* its queue
  got, lost   \* the frames its browser was sent; those that found the queue full
subVars == <<stage, replay, send, got, lost>>
liveVars == <<emission, left, taskLogs, taskLogAt, subVars>>

LiveLogTypeOK ==
  /\ emission \in [Frames -> {"new", "kept", "offered"}]
  /\ \A f \in Frames : IsInjective(left[f]) /\ ToSet(left[f]) \subseteq Subscribers
  /\ DOMAIN taskLogs = Tasks /\ \A t \in Tasks : Len(taskLogs[t]) <= MaxLogPer
  /\ IsInjective(taskLogAt) /\ ToSet(taskLogAt) \subseteq Tasks /\ Len(taskLogAt) <= MaxTaskLogs
  /\ \A t \in Tasks : taskLogs[t] # <<>> <=> t \in ToSet(taskLogAt)
  /\ stage \in [Subscribers -> {"new", "registered", "open", "gone"}]
  /\ \A s \in Subscribers : Len(send[s]) <= QueueSize /\ Len(replay[s]) <= MaxLogPer
  /\ {got, lost} \subseteq [Subscribers -> SUBSET Frames]

LiveLogInit ==
  /\ emission = [f \in Frames |-> "new"] /\ left = [f \in Frames |-> <<>>]
  /\ taskLogs = [t \in Tasks |-> <<>>] /\ taskLogAt = <<>>
  /\ stage = [s \in Subscribers |-> "new"]
  /\ replay = [s \in Subscribers |-> <<>>] /\ send = [s \in Subscribers |-> <<>>]
  /\ got = [s \in Subscribers |-> {}] /\ lost = [s \in Subscribers |-> {}]

-----------------------------------------------------------------------------
(* Broadcast                                                                *)

\* The newest n elements.
Newest(q, n) == IF Len(q) <= n THEN q ELSE SubSeq(q, Len(q) - n + 1, Len(q))
\* gcTaskLogsLocked: of the tasks in the order of their last frames those that
\* are too old go, which are the first ones and never the one just written, and
\* of the others the oldest until no more than MaxTaskLogs are left.
Remaining(order) == {Newest(SubSeq(order, n, Len(order)), MaxTaskLogs) : n \in 1 .. Len(order)}
\* The first half of Broadcast: the frame joins the buffer of its task.
Keep(f) ==
  LET t == TaskOf[f]
      written == [taskLogs EXCEPT ![t] = Newest(Append(@, f), MaxLogPer)] IN
  /\ emission[f] = "new"
  /\ \E order \in Remaining(Append(RemoveFirst(taskLogAt, t), t)) :
       /\ taskLogAt' = order
       /\ taskLogs' = [u \in Tasks |-> IF u \in ToSet(order) THEN written[u] ELSE <<>>]
  /\ emission' = [emission EXCEPT ![f] = "kept"]
  /\ UNCHANGED <<left, subVars>>

Registered == {s \in Subscribers : stage[s] \in {"registered", "open"}}
\* The second half: mu is held shared while the subscribers are gone through, in
\* any order (a range over a map).
Offer(f) ==
  /\ emission[f] = "kept"
  /\ emission' = [emission EXCEPT ![f] = "offered"]
  /\ \E order \in SetToSeqs({s \in Registered : Watches[s] \in {TaskOf[f], Everything}}) :
       left' = [left EXCEPT ![f] = order]
  /\ UNCHANGED <<taskLogs, taskLogAt, subVars>>
\* Mutant: with a full queue it waits for the browser to read.
SendWaits(s, f) ==
  IF stage[s] = "gone" THEN UNCHANGED <<send, lost>>
  ELSE Len(send[s]) < QueueSize /\ send' = [send EXCEPT ![s] = Append(@, f)] /\ UNCHANGED lost
\* Send: it never waits.
Send(s, f) ==
  IF stage[s] = "gone" THEN UNCHANGED <<send, lost>>
  ELSE IF Len(send[s]) < QueueSize
       THEN send' = [send EXCEPT ![s] = Append(@, f)] /\ UNCHANGED lost
       ELSE lost' = [lost EXCEPT ![s] = @ \cup {f}] /\ UNCHANGED send
OfferNext(f) ==
  /\ left[f] # <<>>
  /\ Send(Head(left[f]), f)
  /\ left' = [left EXCEPT ![f] = Tail(@)]
  /\ UNCHANGED <<emission, taskLogs, taskLogAt, stage, replay, got>>
\* mu is free for those that want it alone.
Unshared == \A f \in Frames : left[f] = <<>>

-----------------------------------------------------------------------------
(* A subscriber: Subscribe, its goroutine, the loop of Handler              *)

Register(s) ==
  /\ stage[s] = "new" /\ Unshared
  /\ stage' = [stage EXCEPT ![s] = "registered"]
  /\ UNCHANGED <<emission, left, taskLogs, taskLogAt, replay, send, got, lost>>
\* The history is that of the key that is watched: Everything has none.
CopyHistory(s) ==
  /\ stage[s] = "registered"
  /\ replay' = [replay EXCEPT ![s] = IF Watches[s] = Everything THEN <<>> ELSE taskLogs[Watches[s]]]
  /\ stage' = [stage EXCEPT ![s] = "open"]
  /\ UNCHANGED <<emission, left, taskLogs, taskLogAt, send, got, lost>>
ReplayNext(s) ==
  /\ replay[s] # <<>>
  /\ Send(s, Head(replay[s]))
  /\ replay' = [replay EXCEPT ![s] = Tail(@)]
  /\ UNCHANGED <<emission, left, taskLogs, taskLogAt, stage, got>>
\* The loop writes one frame of the queue to the browser.
Deliver(s) ==
  /\ stage[s] = "open" /\ send[s] # <<>>
  /\ got' = [got EXCEPT ![s] = @ \cup {Head(send[s])}]
  /\ send' = [send EXCEPT ![s] = Tail(@)]
  /\ UNCHANGED <<emission, left, taskLogs, taskLogAt, stage, replay, lost>>
\* The browser has gone: Unsubscribe.
Unsubscribe(s) ==
  /\ stage[s] = "open" /\ Unshared
  /\ stage' = [stage EXCEPT ![s] = "gone"]
  /\ UNCHANGED <<emission, left, taskLogs, taskLogAt, replay, send, got, lost>>

LiveLogNext ==
  \/ \E f \in Frames : Keep(f) \/ Offer(f) \/ OfferNext(f)
  \/ \E s \in Subscribers :
       Register(s) \/ CopyHistory(s) \/ ReplayNext(s) \/ Deliver(s) \/ Unsubscribe(s)
\* The goroutines of the service go on; a browser need not read.
LiveLogFairness ==
  /\ \A f \in Frames : WF_liveVars(Offer(f)) /\ WF_liveVars(OfferNext(f))
  /\ \A s \in Subscribers : WF_liveVars(CopyHistory(s)) /\ WF_liveVars(ReplayNext(s))
LiveLogSpec == LiveLogInit /\ [][LiveLogNext]_liveVars /\ LiveLogFairness

-----------------------------------------------------------------------------
(* Property                                                                 *)

Reached(f, s) == f \in got[s] \cup ToSet(send[s]) \cup lost[s]
\* A frame reaches every browser that watches its task while the frame is kept,
\* whether it came before the frame, after it or between the steps of the two,
\* and whether the other browsers read or not: it is sent, in the queue, or lost
\* to the full queue of this browser alone (Broadcast, Subscribe, Send).
FramesReach ==
  \A f \in Frames : \A s \in {b \in Subscribers : Watches[b] = TaskOf[f]} :
    (emission[f] # "new" /\ stage[s] = "open")
      ~> (Reached(f, s) \/ stage[s] = "gone" \/ f \notin ToSet(taskLogs[TaskOf[f]]))
=============================================================================
