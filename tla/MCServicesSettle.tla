-------------------------- MODULE MCServicesSettle --------------------------
(* Instances for TLC of what must come to an end.  As in MCServices a       *)
(* behaviour takes one part and leaves the others as they began; fairness   *)
(* is asked of all, and those at rest have no step that could be owed.      *)
EXTENDS MCLifeMonitor, RateLimits, Notifications, RangeProxy

VARIABLES
  part,
  logEmission, logLeft, logKept, logAt, logStage, logReplay, logSend, logGot, logLost

\* Rate limits: two callers of one account, a burst of one token, new limits once.
CONSTANTS c1, c2, a1
MCAccountOf == [c \in {c1, c2} |-> a1]

\* Notifications: two that fill a bucket, a send queue of one message, one failure
\* pauses the sender; two times something goes wrong or the process ends.
CONSTANTS n1, n2, k
MCKeyOfNote == [n \in {n1, n2} |-> k]

\* Playback: a stream of a first piece and three chunks, fetched two at a time.
CONSTANT w1
MCChunks == [w \in {w1} |-> 3]

\* Live log: a frame of each of two tasks of which one is remembered, a browser
\* that watches the first task and one that watches all, queues of one frame.
CONSTANTS m1, m2, t1, t2, s1, s2
Log == INSTANCE LiveLog WITH
  Frames <- {m1, m2}, Tasks <- {t1, t2}, TaskOf <- [f \in {m1, m2} |-> IF f = m1 THEN t1 ELSE t2],
  Subscribers <- {s1, s2}, Watches <- [s \in {s1, s2} |-> IF s = s1 THEN t1 ELSE "*"],
  QueueSize <- 1, MaxLogPer <- 1, MaxTaskLogs <- 1,
  emission <- logEmission, left <- logLeft, taskLogs <- logKept, taskLogAt <- logAt,
  stage <- logStage, replay <- logReplay, send <- logSend, got <- logGot, lost <- logLost

ASSUME InstanceAssumption ==
  /\ RateAssumption /\ NotifyAssumption /\ RangeAssumption /\ Log!LiveLogAssumption

-----------------------------------------------------------------------------
\* The variables of the part that is instantiated.
logVs == <<logEmission, logLeft, logKept, logAt, logStage, logReplay, logSend, logGot, logLost>>

Parts == {"monitor", "rate", "note", "play", "log"}
AtRest(p) == part # p
SettleInit ==
  /\ part \in Parts
  /\ Init
  /\ RateInit /\ (AtRest("rate") => ~capped)
  /\ NotifyInit
  /\ RangeInit
  /\ Log!LiveLogInit

SettleNext ==
  /\ \/ part = "monitor" /\ Next
     \/ part = "rate" /\ RateNext
     \/ part = "note" /\ NotifyNext
     \/ part = "play" /\ RangeNext
     \/ part = "log" /\ Log!LiveLogNext
  /\ UNCHANGED part
  /\ (AtRest("monitor") => UNCHANGED vars)
  /\ (AtRest("rate") => UNCHANGED rateVars)
  /\ (AtRest("note") => UNCHANGED notifyVars)
  /\ (AtRest("play") => UNCHANGED rangeVars)
  /\ (AtRest("log") => UNCHANGED logVs)
settleVars == <<part, vars, rateVars, notifyVars, rangeVars, logVs>>
SettleSpec ==
  /\ SettleInit /\ [][SettleNext]_settleVars
  /\ MonitorFairness /\ RateFairness /\ NotifyFairness /\ RangeFairness
  /\ Log!LiveLogFairness

-----------------------------------------------------------------------------
(* What the run checks of the parts beside the properties of their modules  *)

\* Every part keeps its types; those of the monitor are checked in MCServices.
SettleTypeOK ==
  /\ part = "rate" => RateTypeOK
  /\ part = "note" => NotifyTypeOK
  /\ part = "play" => RangeTypeOK
  /\ part = "log" => Log!LiveLogTypeOK
\* A kept frame reaches whoever watches its task (LiveLog, Broadcast).
FramesReach == Log!FramesReach
=============================================================================
