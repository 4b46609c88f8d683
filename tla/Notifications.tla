--------------------------- MODULE Notifications ---------------------------
(* Notifications on their way to Telegram (service/notify): Dispatch puts    *)
(* those about STRM files into the batcher's bucket of their account and     *)
(* type; a full bucket and the timer turn a bucket into one message of the   *)
(* send queue; one worker sends the queue, and whoever finds it full sends   *)
(* by itself.  Failures of the network pause the sender (send_guard).  A     *)
(* message of one note may have buttons, which are sent past that guard.     *)
(* Nothing in the service calls Dispatcher.Stop: the process just ends.      *)
EXTENDS Integers, Sequences, FiniteSets, SequencesExt

CONSTANTS Notes,        \* the notifications, each dispatched by a goroutine of its own
          BatchKeys,    \* account and type of those that are merged
          BatchKeyOf,   \* the key of a note, or Direct
          WithButtons,  \* keys whose messages have buttons
          MaxPer,       \* notes that fill a bucket
          QueueSize,    \* capacity of the send queue
          MaxFailures,  \* failures in a row that pause the sender
          Retries,      \* attempts after the first when Telegram times out
          MaxErrors     \* bound: attempts that go wrong, changes of the settings, ends
                        \* of the process
Direct == "direct"
Flushers == Notes \cup {"timer"}
Senders == Flushers \cup {"worker"}
NotifyAssumption ==
  /\ BatchKeyOf \in [Notes -> BatchKeys \cup {Direct}] /\ Direct \notin BatchKeys /\ WithButtons \subseteq BatchKeys
  /\ {MaxPer, QueueSize, MaxFailures} \subseteq Nat \ {0} /\ {Retries, MaxErrors} \subseteq Nat
  /\ Notes \cap {"timer", "worker"} = {}

VARIABLES
  producer,              \* where Dispatch of a note is
  batches,               \* the notes that wait in the batcher
  hand,                  \* the message a flusher has made and not queued yet
  keysLeft,              \* the buckets the timer's flushAll has still to flush
  timer,                 \* armed: it is to fire; flushing: its function runs
  sendQueue,             \* the messages of the send queue
  sending,               \* the message a goroutine sends, and how far it is
  worker,                \* the worker of the send queue
  sendFailures, paused,  \* the send guard
  configured,            \* whether Telegram is configured
  settled,               \* the notes whose message was sent, refused or dropped
  lost,                  \* history: the notes that were under way when a process ended
  errors                 \* how much went wrong, see MaxErrors
guardVars == <<sendFailures, paused>>
batchVars == <<producer, batches, hand, keysLeft, timer>>
notifyVars == <<batchVars, sendQueue, sending, worker, guardVars, configured, settled, lost, errors>>

Idle == [msg |-> <<>>, at |-> "idle", tries |-> 0]
SendStages == {"idle", "buttons", "allow", "attempt"}
Held(f) == ToSet(hand[f]) \cup ToSet(sending[f].msg)

NotifyTypeOK ==
  /\ producer \in [Notes -> {"new", "checked", "full", "send", "done"}]
  /\ \A k \in BatchKeys : Len(batches[k]) <= Cardinality(Notes)
  /\ keysLeft \subseteq BatchKeys
  /\ timer \in [armed : BOOLEAN, flushing : BOOLEAN]
  /\ Len(sendQueue) <= QueueSize
  /\ \A s \in Senders : sending[s].at \in SendStages /\ sending[s].tries \in 0 .. Retries
  /\ worker \in {"none", "runs"}
  /\ sendFailures \in 0 .. MaxErrors /\ {paused, configured} \subseteq BOOLEAN
  /\ settled \subseteq Notes /\ lost \subseteq Notes /\ errors \in 0 .. MaxErrors

NotifyInit ==
  /\ producer = [n \in Notes |-> "new"]
  /\ batches = [k \in BatchKeys |-> <<>>]
  /\ hand = [f \in Flushers |-> <<>>] /\ keysLeft = {}
  /\ timer = [armed |-> FALSE, flushing |-> FALSE]
  /\ sendQueue = <<>> /\ sending = [s \in Senders |-> Idle] /\ worker = "none"
  /\ sendFailures = 0 /\ paused = FALSE /\ configured = TRUE
  /\ settled = {} /\ lost = {} /\ errors = 0
\* The batcher arms its timer, the worker of the queue starts.
NewDispatcher ==
  /\ worker = "none" /\ worker' = "runs"
  /\ timer' = [timer EXCEPT !.armed = TRUE]
  /\ UNCHANGED <<producer, batches, hand, keysLeft, sendQueue, sending, guardVars, configured, settled, lost, errors>>

-----------------------------------------------------------------------------
(* The batcher                                                              *)

\* Dispatch and Enqueue up to the lock: what is not merged is a message of its own.
Dispatch(n) ==
  /\ producer[n] = "new" /\ worker # "none"
  /\ IF ~configured
     THEN /\ producer' = [producer EXCEPT ![n] = "done"] /\ settled' = settled \cup {n}
          /\ UNCHANGED hand
     ELSE IF BatchKeyOf[n] = Direct
     THEN /\ producer' = [producer EXCEPT ![n] = "send"] /\ hand' = [hand EXCEPT ![n] = <<n>>]
          /\ UNCHANGED settled
     ELSE producer' = [producer EXCEPT ![n] = "checked"] /\ UNCHANGED <<hand, settled>>
  /\ UNCHANGED <<batches, keysLeft, timer, sendQueue, sending, worker, guardVars, configured, lost, errors>>

\* The note is added under the lock; another one may have filled the bucket since.
Enqueue(n) ==
  LET bucket == Append(batches[BatchKeyOf[n]], n) IN
  /\ producer[n] = "checked"
  /\ batches' = [batches EXCEPT ![BatchKeyOf[n]] = bucket]
  /\ producer' = [producer EXCEPT ![n] = IF Len(bucket) >= MaxPer THEN "full" ELSE "done"]
  /\ UNCHANGED <<hand, keysLeft, timer, sendQueue, sending, worker, guardVars, configured, settled, lost, errors>>

\* flushBucket: its entries are copied and the bucket is deleted under one lock.
\* Mutant: the bucket is deleted when its message has been queued.
TakeCopy(f, k) ==
  /\ hand' = [hand EXCEPT ![f] = batches[k]]
  /\ UNCHANGED batches
TakeBucket(f, k) ==
  /\ hand' = [hand EXCEPT ![f] = batches[k]]
  /\ batches' = [batches EXCEPT ![k] = <<>>]
FlushFull(n) ==
  /\ producer[n] = "full"
  /\ TakeBucket(n, BatchKeyOf[n])
  /\ producer' = [producer EXCEPT ![n] = IF batches[BatchKeyOf[n]] = <<>> THEN "done" ELSE "send"]
  /\ UNCHANGED <<keysLeft, timer, sendQueue, sending, worker, guardVars, configured, settled, lost, errors>>
FlushNext(k) ==
  /\ k \in keysLeft /\ hand["timer"] = <<>> /\ sending["timer"] = Idle
  /\ TakeBucket("timer", k)
  /\ keysLeft' = keysLeft \ {k}
  /\ UNCHANGED <<producer, timer, sendQueue, sending, worker, guardVars, configured, settled, lost, errors>>

\* flushAll: the keys there are; it arms the timer when it is done with them.
NonEmpty == {k \in BatchKeys : batches[k] # <<>>}
FlushedAll == keysLeft = {} /\ hand["timer"] = <<>> /\ sending["timer"] = Idle
Fire ==
  /\ timer.armed /\ ~timer.flushing
  /\ timer' = [armed |-> FALSE, flushing |-> TRUE]
  /\ keysLeft' = NonEmpty
  /\ UNCHANGED <<producer, batches, hand, sendQueue, sending, worker, guardVars, configured, settled, lost, errors>>
\* Mutant: the timer is not armed again.
RearmNever == timer' = [armed |-> timer.armed, flushing |-> FALSE]
Rearm == timer' = [armed |-> TRUE, flushing |-> FALSE]
TimerFlushed ==
  /\ timer.flushing /\ FlushedAll
  /\ Rearm
  /\ UNCHANGED <<producer, batches, hand, keysLeft, sendQueue, sending, worker, guardVars, configured, settled, lost, errors>>

\* enqueueSend: without room in the queue the flusher sends by itself.
FirstStage(msg) ==
  IF Len(msg) = 1 /\ BatchKeyOf[msg[1]] \in WithButtons THEN "buttons" ELSE "allow"
EnqueueSend(f) ==
  /\ hand[f] # <<>> /\ sending[f] = Idle
  /\ hand' = [hand EXCEPT ![f] = <<>>]
  /\ IF ~configured
     THEN settled' = settled \cup Held(f) /\ UNCHANGED <<sendQueue, sending>>
     ELSE IF Len(sendQueue) < QueueSize
     THEN sendQueue' = Append(sendQueue, hand[f]) /\ UNCHANGED <<settled, sending>>
     ELSE /\ sending' = [sending EXCEPT ![f] = [msg |-> hand[f], at |-> FirstStage(hand[f]), tries |-> 0]]
          /\ UNCHANGED <<settled, sendQueue>>
  /\ producer' = [n \in Notes |-> IF n = f THEN "done" ELSE producer[n]]
  /\ UNCHANGED <<batches, keysLeft, timer, worker, guardVars, configured, lost, errors>>

-----------------------------------------------------------------------------
(* The worker and the sending of a message                                  *)
TakeMessage ==
  /\ worker = "runs" /\ sending["worker"] = Idle /\ sendQueue # <<>>
  /\ sending' = [sending EXCEPT !["worker"] = [msg |-> Head(sendQueue), at |-> FirstStage(Head(sendQueue)), tries |-> 0]]
  /\ sendQueue' = Tail(sendQueue)
  /\ UNCHANGED <<batchVars, worker, guardVars, configured, settled, lost, errors>>

\* The message of s is done with, or goes on at another stage.
Settle(s) ==
  /\ settled' = settled \cup ToSet(sending[s].msg)
  /\ sending' = [sending EXCEPT ![s] = Idle]
GoOn(s, stage, tries) ==
  /\ sending' = [sending EXCEPT ![s] = [msg |-> @.msg, at |-> stage, tries |-> tries]]
  /\ UNCHANGED settled

\* A message with buttons: the guard is not asked, and falls back to plain text.
SendButtons(s) ==
  /\ sending[s].at = "buttons"
  /\ \/ ~configured /\ Settle(s) /\ UNCHANGED errors
     \/ configured /\ Settle(s) /\ UNCHANGED errors
     \/ configured /\ errors < MaxErrors /\ errors' = errors + 1 /\ GoOn(s, "allow", 0)
  /\ UNCHANGED <<batchVars, sendQueue, worker, guardVars, configured, lost>>

\* sendTG: during a pause the message is dropped.
Allow(s) ==
  /\ sending[s].at = "allow"
  /\ IF paused \/ ~configured THEN Settle(s) ELSE GoOn(s, "attempt", 0)
  /\ UNCHANGED <<batchVars, sendQueue, worker, guardVars, configured, lost, errors>>
OnSuccess == sendFailures' = 0 /\ paused' = FALSE
OnFailure ==
  /\ sendFailures' = sendFailures + 1
  /\ paused' = (paused \/ sendFailures' = MaxFailures)
\* SendMessageWithRetry: a timeout is tried again, anything else is not.
Attempt(s) ==
  /\ sending[s].at = "attempt"
  /\ \/ Settle(s) /\ OnSuccess /\ UNCHANGED errors
     \/ /\ errors < MaxErrors /\ errors' = errors + 1
        /\ Settle(s) /\ OnFailure
     \/ /\ errors < MaxErrors /\ errors' = errors + 1
        /\ sending[s].tries < Retries
        /\ GoOn(s, "attempt", sending[s].tries + 1) /\ UNCHANGED guardVars
  /\ UNCHANGED <<batchVars, sendQueue, worker, configured, lost>>
PauseEnds ==
  /\ paused /\ paused' = FALSE
  /\ UNCHANGED <<batchVars, sendQueue, sending, worker, sendFailures, configured, settled, lost, errors>>

-----------------------------------------------------------------------------
(* The end of the process, and settings                                     *)

\* Run returns, or the process is killed: what waits or is under way is gone, and
\* the next process begins with an empty batcher.
ProcessEnds ==
  /\ worker # "none" /\ errors < MaxErrors
  /\ lost' = lost \cup {n \in Notes : producer[n] # "new" /\ n \notin settled}
  /\ producer' = [n \in Notes |-> IF producer[n] = "new" THEN "new" ELSE "done"]
  /\ batches' = [k \in BatchKeys |-> <<>>]
  /\ hand' = [f \in Flushers |-> <<>>] /\ keysLeft' = {}
  /\ timer' = [armed |-> FALSE, flushing |-> FALSE]
  /\ sendQueue' = <<>> /\ sending' = [s \in Senders |-> Idle] /\ worker' = "none"
  /\ sendFailures' = 0 /\ paused' = FALSE
  /\ errors' = errors + 1
  /\ UNCHANGED <<configured, settled>>
\* ApplySettings: Telegram is switched off or on.
ApplySettings ==
  /\ worker # "none" /\ errors < MaxErrors
  /\ configured' = ~configured /\ errors' = errors + 1
  /\ UNCHANGED <<batchVars, sendQueue, sending, worker, guardVars, settled, lost>>

NotifyNext ==
  \/ NewDispatcher
  \/ \E n \in Notes : Dispatch(n) \/ Enqueue(n) \/ FlushFull(n)
  \/ \E k \in BatchKeys : FlushNext(k)
  \/ Fire \/ TimerFlushed
  \/ \E f \in Flushers : EnqueueSend(f)
  \/ TakeMessage
  \/ \E s \in Senders : SendButtons(s) \/ Allow(s) \/ Attempt(s)
  \/ PauseEnds \/ ProcessEnds \/ ApplySettings

\* Goroutines go on, requests end (their client has a timeout), the timer
\* fires.  Notes, settings and the ends of the process come as they please.
SendStep(s) == SendButtons(s) \/ Allow(s) \/ Attempt(s)
TimerStep ==
  \/ Fire \/ TimerFlushed \/ \E k \in BatchKeys : FlushNext(k)
  \/ EnqueueSend("timer") \/ SendStep("timer")
NotifyFairness ==
  /\ \A n \in Notes : WF_notifyVars(Enqueue(n) \/ FlushFull(n) \/ EnqueueSend(n) \/ SendStep(n))
  /\ WF_notifyVars(TimerStep)
  /\ WF_notifyVars(TakeMessage \/ SendStep("worker"))
NotifySpec == NotifyInit /\ [][NotifyNext]_notifyVars /\ NotifyFairness

-----------------------------------------------------------------------------
(* Properties                                                               *)
Occurs(n, s) == n \in ToSet(s)
Places(n) ==
  {<<"bucket", k>> : k \in {j \in BatchKeys : Occurs(n, batches[j])}}
  \cup {<<"hand", f>> : f \in {g \in Flushers : Occurs(n, hand[g])}}
  \cup {<<"queue", i>> : i \in {j \in DOMAIN sendQueue : Occurs(n, sendQueue[j])}}
  \cup {<<"sender", s>> : s \in {t \in Senders : Occurs(n, sending[t].msg)}}
  \cup (IF n \in settled THEN {<<"settled">>} ELSE {})
  \cup (IF n \in lost THEN {<<"lost">>} ELSE {})

\* A note the dispatcher took is in one place until its process ends, whichever of
\* the timer and full buckets flush at the same time: none is dropped between the
\* batcher and the queue, none comes in two messages (flushBucket, enqueueSend).
NotesKept ==
  \A n \in Notes :
    Cardinality(Places(n)) = IF producer[n] \in {"new", "checked"} THEN 0 ELSE 1

\* Every note that Dispatch takes is settled: sent, given up after its attempts, or
\* dropped by a pause, unless its process ends first (the window of the batcher,
\* the worker).
NotesSettle ==
  \A n \in Notes : producer[n] # "new" ~> n \in settled \cup lost
=============================================================================
