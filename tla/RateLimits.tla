----------------------------- MODULE RateLimits -----------------------------
(* The limits on the requests to 115 (internal/service/rate): a bucket of   *)
(* tokens per account and use, one for the whole process when the settings  *)
(* ask for it, and callers that need a token of each.  A caller that finds  *)
(* no token queues with a channel of its own and starts a goroutine that    *)
(* hands tokens to the queue on every tick; its context may end meanwhile.  *)
(* Tokens are whole here, and a tick that hands out several is several      *)
(* steps: each takes the first of the queue and a token.                    *)
EXTENDS Integers, Sequences, SequencesExt

CONSTANTS Callers,     \* calls of Registry.Acquire
          Accounts, AccountOf,   \* the account and use each is for
          MaxConfigures,         \* bound: how often Configure is called
          PerMinute,   \* tokens per minute of an account and use
          GlobalPerMinute        \* globalCapQPM, where it is not 0
Global == "global"     \* GlobalKey
Nobody == "none"
RateAssumption ==
  /\ AccountOf \in [Callers -> Accounts] /\ Accounts \cap {Global, Nobody} = {}
  /\ MaxConfigures \in Nat
  /\ PerMinute \in Nat \ {0} /\ GlobalPerMinute \in Nat \ {0}

VARIABLES
  generation,  \* Configure has replaced the maps of the registry so often
  capped,      \* globalCapQPM > 0
  tokens, queue, refillers,   \* of each bucket: Limiter.tokens, its waitQueue,
                              \* the goroutines of scheduleRefill
  stage,       \* where a caller is
  bucketAt,    \* the bucket it asks at
  paid,        \* the bucket of the account it has a token of
  ended,       \* whether its context has ended
  sent,        \* its channel holds a token
  closed       \* <<caller, bucket>> whose channel is closed
rateVars == <<generation, capped, tokens, queue, refillers, stage, bucketAt, paid,
              ended, sent, closed>>
buckets == <<tokens, queue, refillers>>

Generations == 0 .. MaxConfigures
Bucket == Generations \X (Accounts \cup {Global})

\* NewLimiterBurst: a burst that comes out as 0 is a quarter of the minute's
\* tokens, and one at least.
NewLimiterBurst(perMinute, burst) ==
  IF burst > 0 THEN burst ELSE IF perMinute >= 4 THEN perMinute \div 4 ELSE 1
Capacity(b) == IF b[2] = Global
               THEN NewLimiterBurst(GlobalPerMinute, IF GlobalPerMinute >= 5 THEN GlobalPerMinute \div 5 ELSE 1)
               ELSE NewLimiterBurst(PerMinute, PerMinute \div 4)
NoBucket == <<0, Nobody>>
Waiting == {"queued", "select", "leave"}
Stages == {"idle", "ask", "paid", "removed", "passed", "refused"} \cup Waiting

RateTypeOK ==
  /\ generation \in Generations /\ capped \in BOOLEAN
  /\ tokens \in [Bucket -> Nat]
  /\ \A b \in Bucket : tokens[b] <= Capacity(b)
  /\ queue \in [Bucket -> Seq(Callers)]
  /\ refillers \in [Bucket -> Nat]
  /\ stage \in [Callers -> Stages]
  /\ bucketAt \in [Callers -> Bucket \cup {NoBucket}]
  /\ paid \in [Callers -> Bucket \cup {NoBucket}]
  /\ ended \in [Callers -> BOOLEAN] /\ sent \in [Callers -> BOOLEAN]
  /\ closed \in SUBSET (Callers \X Bucket)

RateInit ==
  /\ generation = 0 /\ capped \in BOOLEAN
  /\ tokens = [b \in Bucket |-> Capacity(b)]
  /\ queue = [b \in Bucket |-> <<>>]
  /\ refillers = [b \in Bucket |-> 0]
  /\ stage = [c \in Callers |-> "idle"]
  /\ bucketAt = [c \in Callers |-> NoBucket] /\ paid = [c \in Callers |-> NoBucket]
  /\ ended = [c \in Callers |-> FALSE] /\ sent = [c \in Callers |-> FALSE]
  /\ closed = {}

-----------------------------------------------------------------------------
(* The registry                                                             *)

\* New maps; whoever queues at a bucket of the old ones stays there.
Configure(on) ==
  /\ generation + 1 \in Generations
  /\ generation' = generation + 1
  /\ capped' = on
  /\ UNCHANGED <<buckets, stage, bucketAt, paid, ended, sent, closed>>

\* GetLimiter: the bucket of the account, in the maps of now.  A bucket is
\* full when it is made, so one that nobody has asked for yet is full here.
GetLimiter(c) ==
  /\ stage[c] = "idle"
  /\ stage' = [stage EXCEPT ![c] = "ask"]
  /\ bucketAt' = [bucketAt EXCEPT ![c] = <<generation, AccountOf[c]>>]
  /\ UNCHANGED <<generation, capped, buckets, paid, ended, sent, closed>>

\* globalCapLimiter, after the account's token: no bucket when it is off.
GetGlobalCap(c) ==
  /\ stage[c] = "paid"
  /\ stage' = [stage EXCEPT ![c] = IF capped THEN "ask" ELSE "passed"]
  /\ bucketAt' = [bucketAt EXCEPT ![c] = IF capped THEN <<generation, Global>> ELSE @]
  /\ UNCHANGED <<generation, capped, buckets, paid, ended, sent, closed>>

-----------------------------------------------------------------------------
(* A bucket                                                                 *)

\* refillLocked: what time has brought is there at the next look.
Refill(b) ==
  /\ tokens[b] < Capacity(b)
  /\ tokens' = [tokens EXCEPT ![b] = @ + 1]
  /\ UNCHANGED <<generation, capped, queue, refillers, stage, bucketAt, paid,
                 ended, sent, closed>>

\* The caller has a token of the bucket it asked at: with that of its account
\* it goes on to the bucket of the process, with both it is through.
WasServed(c) ==
  /\ stage' = [stage EXCEPT ![c] = IF paid[c] = NoBucket THEN "paid" ELSE "passed"]
  /\ paid' = [paid EXCEPT ![c] = IF @ = NoBucket THEN bucketAt[c] ELSE @]
  /\ UNCHANGED <<generation, capped, bucketAt, ended, closed>>

\* Limiter.Acquire, under its lock: a token at hand is taken even when others
\* queue for one; otherwise the caller queues and starts a goroutine.
TakeToken(c) ==
  /\ stage[c] = "ask" /\ tokens[bucketAt[c]] >= 1
  /\ tokens' = [tokens EXCEPT ![bucketAt[c]] = @ - 1]
  /\ WasServed(c)
  /\ UNCHANGED <<queue, refillers, sent>>
JoinQueue(c) ==
  /\ stage[c] = "ask" /\ tokens[bucketAt[c]] = 0
  /\ queue' = [queue EXCEPT ![bucketAt[c]] = Append(@, c)]
  /\ refillers' = [refillers EXCEPT ![bucketAt[c]] = @ + 1]
  /\ stage' = [stage EXCEPT ![c] = "queued"]
  /\ UNCHANGED <<generation, capped, tokens, bucketAt, paid, ended, sent, closed>>

\* The caller reaches its select.
Select(c) ==
  /\ stage[c] = "queued"
  /\ stage' = [stage EXCEPT ![c] = "select"]
  /\ UNCHANGED <<generation, capped, buckets, bucketAt, paid, ended, sent, closed>>

\* Mutant: the channel has no room, so only a caller that is at its select
\* gets the token that is taken for it.
HandTokenUnbuffered(b) ==
  /\ refillers[b] > 0 /\ tokens[b] >= 1 /\ queue[b] # <<>>
  /\ tokens' = [tokens EXCEPT ![b] = @ - 1]
  /\ queue' = [queue EXCEPT ![b] = Tail(@)]
  /\ sent' = [sent EXCEPT ![Head(queue[b])] = stage[Head(queue[b])] = "select"]
  /\ refillers' = [refillers EXCEPT ![b] = IF Len(queue[b]) = 1 THEN @ - 1 ELSE @]
  /\ UNCHANGED <<generation, capped, stage, bucketAt, paid, ended, closed>>

\* scheduleRefill on a tick: the first of the queue has a token put into its
\* channel, which has room for one; the goroutine ends with the queue.
HandToken(b) ==
  /\ refillers[b] > 0 /\ tokens[b] >= 1 /\ queue[b] # <<>>
  /\ tokens' = [tokens EXCEPT ![b] = @ - 1]
  /\ queue' = [queue EXCEPT ![b] = Tail(@)]
  /\ sent' = [sent EXCEPT ![Head(queue[b])] = TRUE]
  /\ refillers' = [refillers EXCEPT ![b] = IF Len(queue[b]) = 1 THEN @ - 1 ELSE @]
  /\ UNCHANGED <<generation, capped, stage, bucketAt, paid, ended, closed>>
RefillerEnds(b) ==
  /\ refillers[b] > 0 /\ queue[b] = <<>>
  /\ refillers' = [refillers EXCEPT ![b] = @ - 1]
  /\ UNCHANGED <<generation, capped, tokens, queue, stage, bucketAt, paid, ended,
                 sent, closed>>

\* The two branches of the select.  Both may be open, and a caller that takes
\* the second one leaves the token in its channel.
Wake(c) ==
  /\ stage[c] = "select" /\ sent[c]
  /\ sent' = [sent EXCEPT ![c] = FALSE]
  /\ WasServed(c)
  /\ UNCHANGED buckets
GiveUp(c) ==
  /\ stage[c] = "select" /\ ended[c]
  /\ stage' = [stage EXCEPT ![c] = "leave"]
  /\ UNCHANGED <<generation, capped, buckets, bucketAt, paid, ended, sent, closed>>
\* Its channel is taken out of the queue, where it still is there.
Without(q, c) ==
  IF \E i \in DOMAIN q : q[i] = c THEN RemoveAt(q, CHOOSE i \in DOMAIN q : q[i] = c) ELSE q
LeaveQueue(c) ==
  /\ stage[c] = "leave"
  /\ queue' = [queue EXCEPT ![bucketAt[c]] = Without(@, c)]
  /\ stage' = [stage EXCEPT ![c] = "removed"]
  /\ UNCHANGED <<generation, capped, tokens, refillers, bucketAt, paid, ended, sent, closed>>

\* The channel is closed, and Registry.Acquire gives the account's token back
\* (Refund) when it was the bucket of the process that had none.
\* Mutant: without a look at the capacity.
RefundAlways(b) == [tokens EXCEPT ![b] = @ + 1]
\* Mutant: to the bucket the account has now.
RefundToCurrent(b) ==
  LET now == <<generation, b[2]>> IN
  IF tokens[now] < Capacity(now) THEN [tokens EXCEPT ![now] = @ + 1] ELSE tokens

Refund(b) == IF tokens[b] < Capacity(b) THEN [tokens EXCEPT ![b] = @ + 1] ELSE tokens
CloseChannel(c) ==
  /\ stage[c] = "removed"
  /\ closed' = closed \cup {<<c, bucketAt[c]>>}
  /\ tokens' = IF paid[c] = NoBucket THEN tokens ELSE Refund(paid[c])
  /\ stage' = [stage EXCEPT ![c] = "refused"]
  /\ UNCHANGED <<generation, capped, queue, refillers, bucketAt, paid, ended, sent>>

\* The context of a call ends.
ContextEnds(c) ==
  /\ ~ended[c] /\ stage[c] \notin {"passed", "refused"}
  /\ ended' = [ended EXCEPT ![c] = TRUE]
  /\ UNCHANGED <<generation, capped, buckets, stage, bucketAt, paid, sent, closed>>
-----------------------------------------------------------------------------
RateNext ==
  \/ \E on \in BOOLEAN : Configure(on)
  \/ \E b \in Bucket : Refill(b) \/ HandToken(b) \/ RefillerEnds(b)
  \/ \E c \in Callers :
       \/ GetLimiter(c) \/ GetGlobalCap(c) \/ TakeToken(c) \/ JoinQueue(c)
       \/ Select(c) \/ Wake(c) \/ GiveUp(c) \/ LeaveQueue(c) \/ CloseChannel(c)
       \/ ContextEnds(c)

\* Time passes, goroutines that can run do.  No context has to end.
CallerStep(c) ==
  \/ GetGlobalCap(c) \/ TakeToken(c) \/ JoinQueue(c) \/ Select(c) \/ Wake(c) \/ GiveUp(c)
  \/ LeaveQueue(c) \/ CloseChannel(c)
RateFairness ==
  /\ \A b \in Bucket : WF_rateVars(Refill(b)) /\ WF_rateVars(HandToken(b))
  /\ \A c \in Callers : WF_rateVars(CallerStep(c))

RateSpec == RateInit /\ [][RateNext]_rateVars /\ RateFairness

-----------------------------------------------------------------------------
(* What is checked                                                          *)

(* Whoever asks is let through or refused in the end, whatever generation   *)
(* of buckets it queues at and whoever overtakes it.  limiter.go:84, where  *)
(* a comment gives the room in the channel as the reason.                   *)
AcquireReturns ==
  \A c \in Callers : []<>(stage[c] \in {"idle", "passed", "refused"})

(* Every bucket, of every generation, keeps the promise of TokenBucket: no  *)
(* token is made but by the time, only a request that ends loses one, and   *)
(* what is given back goes to the bucket it came from.  limiter.go:92-118,  *)
(* registry.go:215-230                                                      *)
AtBucket(c, b) == bucketAt[c] = b /\ stage[c] \in Waiting \cup {"removed"}
AskingAt(b) == {c \in Callers : AtBucket(c, b) /\ ~sent[c]}
GivenBy(b) == {c \in Callers : AtBucket(c, b) /\ sent[c]}
HoldingOf(b) ==
  {c \in Callers : \/ paid[c] = b /\ stage[c] # "refused"
                   \/ bucketAt[c] = b /\ stage[c] = "passed"}
RefusedBy(b) == {c \in Callers : stage[c] = "refused" /\ (bucketAt[c] = b \/ paid[c] = b)}
Promise(b) == INSTANCE TokenBucket WITH
  Size <- Capacity(b), level <- tokens[b], asking <- AskingAt(b),
  given <- GivenBy(b), holding <- HoldingOf(b), ended <- RefusedBy(b)
PromiseInit == \A b \in Bucket : Promise(b)!BucketInit
PromiseStep ==
  UNCHANGED rateVars \/ \A b \in Bucket : [Promise(b)!BucketNext]_(Promise(b)!bucketVars)
BucketsKeepPromise == PromiseInit /\ [][PromiseStep]_rateVars
=============================================================================
