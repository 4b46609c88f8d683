-------------------------- MODULE RateLimitsProofs --------------------------
(***************************************************************************)
(* What TLAPS proves of RateLimits, for any callers, accounts and limits   *)
(* and however often the limits are replaced: every bucket implements      *)
(* TokenBucket.  The invariant says who stands in a queue, and that the    *)
(* two tokens of a caller are of two buckets.  Then that nobody waits for  *)
(* a token nobody will bring.                                              *)
(* The last parts are about RangeProxy: a playback whose link was refused  *)
(* asks for one new link, because the one chunk that holds the lock of the *)
(* link looks whether it was replaced before it asks; its limits hold, and *)
(* a stream that is over holds nothing.                                    *)
(***************************************************************************)
EXTENDS RateLimits, RangeProxy, FiniteSetTheorems, SequenceTheorems, TLAPS

RateTyped ==
  /\ generation \in Generations /\ tokens \in [Bucket -> Nat]
  /\ queue \in [Bucket -> Seq(Callers)] /\ stage \in [Callers -> Stages]
  /\ bucketAt \in [Callers -> Bucket \cup {NoBucket}] /\ paid \in [Callers -> Bucket \cup {NoBucket}]
  /\ sent \in [Callers -> BOOLEAN]

AccountBucket == Generations \X Accounts
Asking == Waiting \cup {"ask", "removed"}

\* Where a caller is tells what it has.
CallerSound(c) ==
  /\ stage[c] = "idle" => bucketAt[c] = NoBucket /\ paid[c] = NoBucket
  /\ stage[c] # "idle" => bucketAt[c] \in Bucket
  /\ stage[c] = "paid" => paid[c] = bucketAt[c]
  /\ paid[c] \in AccountBucket \cup {NoBucket}
  /\ stage[c] \in Asking => IF paid[c] = NoBucket THEN bucketAt[c] \in AccountBucket ELSE bucketAt[c] # paid[c]
  /\ sent[c] => stage[c] \in Waiting \cup {"removed", "refused"}

\* Who stands in a queue waits there for its first token, and stands there once.
QueueSound(b) ==
  \A i \in 1 .. Len(queue[b]) :
    /\ bucketAt[queue[b][i]] = b /\ stage[queue[b][i]] \in Waiting /\ ~sent[queue[b][i]]
    /\ \A j \in 1 .. Len(queue[b]) : j # i => queue[b][j] # queue[b][i]

RateInv ==
  /\ RateAssumption /\ RateTyped
  /\ \A c \in Callers : CallerSound(c)
  /\ \A b \in Bucket : QueueSound(b)

-----------------------------------------------------------------------------
LEMMA BucketFacts ==
  ASSUME RateAssumption
  PROVE  /\ NoBucket \notin Bucket /\ AccountBucket \subseteq Bucket
         /\ \A c \in Callers, g \in Generations : <<g, AccountOf[c]>> \in AccountBucket
         /\ \A g \in Generations : <<g, Global>> \in Bucket \ AccountBucket
BY DEF RateAssumption, Bucket, AccountBucket, NoBucket, Nobody, Global

LEMMA StageFacts ==
  /\ Waiting \subseteq Asking /\ Asking \subseteq Stages
  /\ "idle" \notin Asking /\ "paid" \notin Asking /\ "passed" \notin Asking /\ "refused" \notin Asking
  /\ "removed" \notin Waiting /\ "ask" \notin Waiting
BY DEF Waiting, Asking, Stages

LEMMA RateStart == RateAssumption /\ RateInit => RateInv
<1> SUFFICES ASSUME RateAssumption, RateInit PROVE RateInv
  OBVIOUS
<1>1. \A b \in Bucket : Capacity(b) \in Nat
  BY DEF RateAssumption, Capacity, NewLimiterBurst
<1>2. RateTyped
  BY <1>1, EmptySeq DEF RateAssumption, RateInit, RateTyped, Generations, Stages
<1>3. \A c \in Callers : CallerSound(c)
  BY StageFacts DEF RateInit, CallerSound
<1>4. \A b \in Bucket : QueueSound(b)
  BY DEF RateInit, QueueSound
<1> QED BY <1>2, <1>3, <1>4 DEF RateInv

-----------------------------------------------------------------------------
(* Queues *)

LEMMA WithoutFacts ==
  ASSUME NEW q \in Seq(Callers), NEW c \in Callers,
         \A i, j \in 1 .. Len(q) : i # j => q[i] # q[j]
  PROVE  /\ Without(q, c) \in Seq(Callers)
         /\ \A i \in 1 .. Len(Without(q, c)) :
              /\ Without(q, c)[i] # c
              /\ \E k \in 1 .. Len(q) : Without(q, c)[i] = q[k]
              /\ \A j \in 1 .. Len(Without(q, c)) : j # i => Without(q, c)[j] # Without(q, c)[i]
         /\ \A k \in 1 .. Len(q) : q[k] # c => \E i \in 1 .. Len(Without(q, c)) : Without(q, c)[i] = q[k]
<1>1. CASE \E i \in DOMAIN q : q[i] = c
  <2> DEFINE m == CHOOSE i \in DOMAIN q : q[i] = c
             r == RemoveAt(q, m)
  <2>1. m \in 1 .. Len(q) /\ q[m] = c
    BY <1>1
  <2>2. Without(q, c) = r
    BY <1>1 DEF Without
  <2> HIDE DEF m
  <2>3. /\ r \in Seq(Callers) /\ Len(r) = Len(q) - 1
        /\ \A j \in 1 .. Len(q) - 1 : r[j] = IF j < m THEN q[j] ELSE q[j + 1]
    <3> DEFINE front == SubSeq(q, 1, m - 1)
               back == SubSeq(q, m + 1, Len(q))
    <3>1. front \in Seq(Callers) /\ Len(front) = m - 1 /\ \A j \in 1 .. m - 1 : front[j] = q[j]
      BY <2>1
    <3>2. back \in Seq(Callers) /\ Len(back) = Len(q) - m /\ \A j \in 1 .. Len(q) - m : back[j] = q[m + j]
      BY <2>1
    <3>3. r = front \o back
      BY DEF RemoveAt
    <3> HIDE DEF front, back, r
    <3>4. r \in Seq(Callers) /\ Len(r) = Len(q) - 1
      <4>1. Len(q) \in Nat
        BY LenProperties
      <4>2. r \in Seq(Callers) /\ Len(r) = Len(front) + Len(back)
        BY <3>1, <3>2, <3>3, ConcatProperties, ZenonT(60)
      <4> QED BY <2>1, <3>1, <3>2, <4>1, <4>2
    <3>5. ASSUME NEW j \in 1 .. Len(q) - 1 PROVE r[j] = IF j < m THEN q[j] ELSE q[j + 1]
      <4>1. r[j] = IF j <= m - 1 THEN front[j] ELSE back[j - (m - 1)]
        <5>1. j \in 1 .. Len(front) + Len(back)
          BY <2>1, <3>1, <3>2, LenProperties
        <5>2. r[j] = IF j <= Len(front) THEN front[j] ELSE back[j - Len(front)]
          BY <3>1, <3>2, <3>3, <5>1, ConcatProperties
        <5> QED BY <3>1, <5>2
      <4>2. CASE j < m
        BY <2>1, <3>1, <4>1, <4>2
      <4>3. CASE ~(j < m)
        <5>1. j - (m - 1) \in 1 .. Len(q) - m /\ m + (j - (m - 1)) = j + 1
          BY <2>1, <4>3
        <5> QED BY <2>1, <3>2, <4>1, <4>3, <5>1
      <4> QED BY <4>2, <4>3
    <3> QED BY <3>4, <3>5
  <2> HIDE DEF r
  <2>4. ASSUME NEW i \in 1 .. Len(r)
        PROVE  r[i] # c /\ \E k \in 1 .. Len(q) : r[i] = q[k]
    BY <2>1, <2>3
  <2>5. ASSUME NEW i \in 1 .. Len(r), NEW j \in 1 .. Len(r), j # i PROVE r[j] # r[i]
    BY <2>1, <2>3, <2>5
  <2>6. ASSUME NEW k \in 1 .. Len(q), q[k] # c PROVE \E i \in 1 .. Len(r) : r[i] = q[k]
    <3>1. CASE k < m
      <4>1. k \in 1 .. Len(r) /\ r[k] = q[k]
        BY <2>1, <2>3, <3>1, LenProperties
      <4> QED BY <4>1
    <3>2. CASE m < k
      <4>1. k - 1 \in 1 .. Len(r) /\ ~(k - 1 < m) /\ (k - 1) + 1 = k
        BY <2>1, <2>3, <3>2, LenProperties
      <4>2. r[k - 1] = q[k]
        BY <2>3, <4>1
      <4> QED BY <4>1, <4>2
    <3> QED BY <2>1, <2>6, <3>1, <3>2
  <2> QED BY <2>2, <2>3, <2>4, <2>5, <2>6
<1>2. CASE ~\E i \in DOMAIN q : q[i] = c
  BY <1>2 DEF Without
<1> QED BY <1>1, <1>2

\* Steps of one caller that leave queues and channels alone, while nobody
\* waits for it to.
LEMMA QueuesStay ==
  ASSUME RateInv, UNCHANGED <<queue, sent>>, NEW c \in Callers, stage[c] \notin Waiting \/ sent[c],
         \A d \in Callers \ {c} : stage'[d] = stage[d] /\ bucketAt'[d] = bucketAt[d]
  PROVE  \A b \in Bucket : QueueSound(b)'
<1> SUFFICES ASSUME NEW b \in Bucket PROVE QueueSound(b)'
  OBVIOUS
<1>1. queue[b] \in Seq(Callers) /\ QueueSound(b)
  BY DEF RateInv, RateTyped
<1>2. \A i \in 1 .. Len(queue[b]) : queue[b][i] \in Callers \ {c}
  BY <1>1 DEF QueueSound
<1> QED BY <1>1, <1>2 DEF QueueSound

LEMMA GetLimiterKeeps ==
  ASSUME RateInv, NEW c \in Callers, GetLimiter(c) PROVE RateInv'
<1> USE BucketFacts, StageFacts
<1>1. RateTyped'
  BY DEF RateInv, RateTyped, GetLimiter, buckets, Stages
<1>2. \A d \in Callers : CallerSound(d)'
  BY DEF RateInv, RateTyped, GetLimiter, CallerSound
<1>3. \A b \in Bucket : QueueSound(b)'
  BY QueuesStay DEF RateInv, RateTyped, GetLimiter, buckets
<1> QED BY <1>1, <1>2, <1>3 DEF RateInv, RateAssumption

LEMMA GetGlobalCapKeeps ==
  ASSUME RateInv, NEW c \in Callers, GetGlobalCap(c) PROVE RateInv'
<1> USE BucketFacts, StageFacts
<1>1. RateTyped'
  BY DEF RateInv, RateTyped, GetGlobalCap, buckets, Stages
<1>2. \A d \in Callers : CallerSound(d)'
  BY DEF RateInv, RateTyped, GetGlobalCap, CallerSound
<1>3. \A b \in Bucket : QueueSound(b)'
  BY QueuesStay DEF RateInv, RateTyped, GetGlobalCap, buckets
<1> QED BY <1>1, <1>2, <1>3 DEF RateInv, RateAssumption

LEMMA WasServedKeeps ==
  ASSUME RateInv, NEW c \in Callers, WasServed(c), stage[c] \in Asking
  PROVE  /\ generation' \in Generations /\ stage' \in [Callers -> Stages]
         /\ bucketAt' \in [Callers -> Bucket \cup {NoBucket}] /\ paid' \in [Callers -> Bucket \cup {NoBucket}]
         /\ ~sent'[c] /\ (\A d \in Callers \ {c} : sent'[d] = sent[d]) => \A d \in Callers : CallerSound(d)'
<1> USE BucketFacts, StageFacts
<1>1. "paid" \in Stages /\ "passed" \in Stages
  BY DEF Stages
<1>2. stage[c] # "idle" /\ bucketAt[c] \in Bucket
  BY DEF RateInv, CallerSound
<1> QED BY <1>1, <1>2 DEF RateInv, RateTyped, WasServed, CallerSound

LEMMA TakeTokenKeeps ==
  ASSUME RateInv, NEW c \in Callers, TakeToken(c) PROVE RateInv'
<1> USE BucketFacts, StageFacts
<1>0. stage[c] \in Asking /\ stage[c] \notin Waiting /\ ~sent[c] /\ WasServed(c) /\ bucketAt[c] \in Bucket
  BY DEF RateInv, TakeToken, CallerSound, Asking
<1>1. RateTyped'
  BY <1>0, WasServedKeeps DEF RateInv, RateTyped, TakeToken
<1>2. \A d \in Callers : CallerSound(d)'
  BY <1>0, WasServedKeeps DEF TakeToken
<1>3. \A b \in Bucket : QueueSound(b)'
  BY <1>0, QueuesStay DEF RateInv, RateTyped, TakeToken, WasServed
<1> QED BY <1>1, <1>2, <1>3 DEF RateInv, RateAssumption

LEMMA WakeKeeps ==
  ASSUME RateInv, NEW c \in Callers, Wake(c) PROVE RateInv'
<1> USE BucketFacts, StageFacts
<1>0. stage[c] \in Asking /\ sent[c] /\ sent' = [sent EXCEPT ![c] = FALSE] /\ WasServed(c)
  BY DEF Wake, Waiting, Asking
<1>1. RateTyped'
  BY <1>0, WasServedKeeps DEF RateInv, RateTyped, Wake, buckets
<1>2. \A d \in Callers : CallerSound(d)'
  BY <1>0, WasServedKeeps DEF RateInv, RateTyped
<1>3. ASSUME NEW b \in Bucket PROVE QueueSound(b)'
  <2>1. queue[b] \in Seq(Callers) /\ QueueSound(b) /\ queue' = queue
    BY DEF RateInv, RateTyped, Wake, buckets
  <2>2. \A i \in 1 .. Len(queue[b]) : queue[b][i] \in Callers \ {c}
    BY <1>0, <2>1 DEF QueueSound
  <2> QED BY <1>0, <2>1, <2>2 DEF QueueSound, WasServed, RateInv, RateTyped
<1> QED BY <1>1, <1>2, <1>3 DEF RateInv, RateAssumption

LEMMA JoinQueueKeeps ==
  ASSUME RateInv, NEW c \in Callers, JoinQueue(c) PROVE RateInv'
<1> USE BucketFacts, StageFacts
<1>0. /\ bucketAt[c] \in Bucket /\ queue' = [queue EXCEPT ![bucketAt[c]] = Append(@, c)]
      /\ stage' = [stage EXCEPT ![c] = "queued"] /\ stage[c] = "ask" /\ ~sent[c]
      /\ UNCHANGED <<generation, tokens, bucketAt, paid, sent>>
  BY DEF RateInv, JoinQueue, CallerSound
<1>1. RateTyped'
  BY <1>0 DEF RateInv, RateTyped, Stages, Waiting
<1>2. \A d \in Callers : CallerSound(d)'
  BY <1>0 DEF RateInv, RateTyped, CallerSound, Waiting, Asking
<1>3. ASSUME NEW b \in Bucket PROVE QueueSound(b)'
  <2>1. queue[b] \in Seq(Callers) /\ QueueSound(b)
    BY DEF RateInv, RateTyped
  <2>2. \A i \in 1 .. Len(queue[b]) : queue[b][i] \in Callers \ {c}
    BY <1>0, <2>1 DEF QueueSound
  <2>3. CASE b = bucketAt[c]
    <3>1. /\ queue'[b] = Append(queue[b], c) /\ Len(queue'[b]) = Len(queue[b]) + 1
          /\ \A i \in 1 .. Len(queue[b]) : queue'[b][i] = queue[b][i]
          /\ queue'[b][Len(queue[b]) + 1] = c
      BY <1>0, <2>1, <2>3, AppendProperties DEF RateInv, RateTyped
    <3>2. "queued" \in Waiting /\ Len(queue[b]) \in Nat
      BY <2>1, LenProperties DEF Waiting
    <3>3. ASSUME NEW i \in 1 .. Len(queue'[b])
          PROVE  bucketAt'[queue'[b][i]] = b /\ stage'[queue'[b][i]] \in Waiting /\ ~sent'[queue'[b][i]]
      BY <1>0, <2>1, <2>2, <2>3, <3>1, <3>2 DEF QueueSound, RateInv, RateTyped
    <3>4. ASSUME NEW i \in 1 .. Len(queue'[b]), NEW j \in 1 .. Len(queue'[b]), j # i
          PROVE  queue'[b][j] # queue'[b][i]
      BY <2>1, <2>2, <3>1, <3>2, <3>4 DEF QueueSound
    <3> QED BY <3>3, <3>4 DEF QueueSound
  <2>4. CASE b # bucketAt[c]
    <3>1. queue'[b] = queue[b]
      BY <1>0, <2>4 DEF RateInv, RateTyped
    <3> QED BY <1>0, <2>1, <2>2, <3>1 DEF QueueSound, RateInv, RateTyped
  <2> QED BY <2>3, <2>4
<1> QED BY <1>1, <1>2, <1>3 DEF RateInv, RateAssumption

LEMMA HandTokenKeeps ==
  ASSUME RateInv, NEW h \in Bucket, HandToken(h) PROVE RateInv'
<1> USE BucketFacts, StageFacts
<1> DEFINE c == Head(queue[h])
<1>0. /\ queue[h] \in Seq(Callers) /\ queue[h] # <<>> /\ tokens[h] >= 1
      /\ tokens' = [tokens EXCEPT ![h] = @ - 1] /\ queue' = [queue EXCEPT ![h] = Tail(@)]
      /\ sent' = [sent EXCEPT ![c] = TRUE]
      /\ UNCHANGED <<generation, stage, bucketAt, paid>>
  BY DEF RateInv, RateTyped, HandToken
<1>1. /\ c \in Callers /\ 1 \in 1 .. Len(queue[h]) /\ c = queue[h][1]
      /\ Tail(queue[h]) \in Seq(Callers) /\ Len(Tail(queue[h])) = Len(queue[h]) - 1
      /\ \A i \in 1 .. Len(queue[h]) - 1 : Tail(queue[h])[i] = queue[h][i + 1]
  BY <1>0, HeadTailProperties
<1>2. bucketAt[c] = h /\ stage[c] \in Waiting /\ ~sent[c]
  BY <1>1 DEF RateInv, QueueSound
<1> HIDE DEF c
<1>3. RateTyped'
  BY <1>0, <1>1 DEF RateInv, RateTyped
<1>4. \A d \in Callers : CallerSound(d)'
  BY <1>0, <1>1, <1>2 DEF RateInv, RateTyped, CallerSound
<1>5. ASSUME NEW b \in Bucket PROVE QueueSound(b)'
  <2>1. queue[b] \in Seq(Callers) /\ QueueSound(b)
    BY DEF RateInv, RateTyped
  <2>2. CASE b = h
    <3>1. queue'[b] = Tail(queue[h]) /\ Len(queue[h]) \in Nat
      BY <1>0, <2>2, LenProperties DEF RateInv, RateTyped
    <3>2. ASSUME NEW i \in 1 .. Len(queue'[b])
          PROVE  i + 1 \in 1 .. Len(queue[h]) /\ queue'[b][i] = queue[h][i + 1] /\ queue'[b][i] \in Callers \ {c}
      <4>1. i + 1 \in 1 .. Len(queue[h]) /\ queue'[b][i] = queue[h][i + 1] /\ i + 1 # 1
        BY <1>1, <3>1
      <4> QED BY <1>1, <2>1, <2>2, <4>1 DEF QueueSound
    <3>3. \A i \in 1 .. Len(queue'[b]) :
            bucketAt'[queue'[b][i]] = b /\ stage'[queue'[b][i]] \in Waiting /\ ~sent'[queue'[b][i]]
      BY <1>0, <2>1, <2>2, <3>2 DEF QueueSound, RateInv, RateTyped
    <3>4. ASSUME NEW i \in 1 .. Len(queue'[b]), NEW j \in 1 .. Len(queue'[b]), j # i
          PROVE  queue'[b][j] # queue'[b][i]
      <4>1. j + 1 # i + 1
        BY <3>1, <3>4, <1>1
      <4>2. i + 1 \in 1 .. Len(queue[b]) /\ queue'[b][i] = queue[b][i + 1]
        BY <2>2, <3>2
      <4>3. j + 1 \in 1 .. Len(queue[b]) /\ queue'[b][j] = queue[b][j + 1]
        BY <2>2, <3>2
      <4> QED BY <2>1, <4>1, <4>2, <4>3 DEF QueueSound
    <3> QED BY <3>3, <3>4 DEF QueueSound
  <2>3. CASE b # h
    <3>1. queue'[b] = queue[b]
      BY <1>0, <2>3 DEF RateInv, RateTyped
    <3>2. \A i \in 1 .. Len(queue[b]) : queue[b][i] \in Callers \ {c}
      BY <1>2, <2>1, <2>3 DEF QueueSound
    <3> QED BY <1>0, <2>1, <3>1, <3>2 DEF QueueSound, RateInv, RateTyped
  <2> QED BY <2>2, <2>3
<1> QED BY <1>3, <1>4, <1>5 DEF RateInv, RateAssumption

LEMMA GiveUpKeeps ==
  ASSUME RateInv, NEW c \in Callers, GiveUp(c) PROVE RateInv'
<1> USE BucketFacts, StageFacts
<1>0. {"select", "leave"} \subseteq Waiting \cap Asking
  BY DEF Waiting, Asking
<1>1. RateTyped'
  BY <1>0 DEF RateInv, RateTyped, GiveUp, buckets, Stages
<1>2. \A d \in Callers : CallerSound(d)'
  BY <1>0 DEF RateInv, RateTyped, GiveUp, CallerSound
<1>3. \A b \in Bucket : QueueSound(b)'
  BY <1>0 DEF RateInv, RateTyped, GiveUp, buckets, QueueSound
<1> QED BY <1>1, <1>2, <1>3 DEF RateInv, RateAssumption

LEMMA SelectKeeps ==
  ASSUME RateInv, NEW c \in Callers, Select(c) PROVE RateInv'
<1> USE BucketFacts, StageFacts
<1>0. {"queued", "select"} \subseteq Waiting \cap Asking
  BY DEF Waiting, Asking
<1>1. RateTyped'
  BY <1>0 DEF RateInv, RateTyped, Select, buckets, Stages
<1>2. \A d \in Callers : CallerSound(d)'
  BY <1>0 DEF RateInv, RateTyped, Select, CallerSound
<1>3. \A b \in Bucket : QueueSound(b)'
  BY <1>0 DEF RateInv, RateTyped, Select, buckets, QueueSound
<1> QED BY <1>1, <1>2, <1>3 DEF RateInv, RateAssumption

LEMMA LeaveQueueKeeps ==
  ASSUME RateInv, NEW c \in Callers, LeaveQueue(c) PROVE RateInv'
<1> USE BucketFacts, StageFacts
<1>0. /\ stage[c] = "leave" /\ bucketAt[c] \in Bucket
      /\ stage' = [stage EXCEPT ![c] = "removed"] /\ queue' = [queue EXCEPT ![bucketAt[c]] = Without(@, c)]
      /\ UNCHANGED <<generation, tokens, bucketAt, paid, sent>>
  BY DEF RateInv, CallerSound, LeaveQueue
<1>1. ASSUME NEW b \in Bucket
      PROVE  /\ queue[b] \in Seq(Callers) /\ QueueSound(b)
             /\ \A i, j \in 1 .. Len(queue[b]) : i # j => queue[b][i] # queue[b][j]
  BY DEF RateInv, RateTyped, QueueSound
<1>2. RateTyped'
  <2>1. Without(queue[bucketAt[c]], c) \in Seq(Callers)
    BY <1>0, <1>1, WithoutFacts
  <2> QED BY <1>0, <2>1 DEF RateInv, RateTyped, Stages
<1>3. \A d \in Callers : CallerSound(d)'
  BY <1>0 DEF RateInv, RateTyped, CallerSound, Waiting, Asking
<1>4. ASSUME NEW b \in Bucket PROVE QueueSound(b)'
  <2>1. CASE b = bucketAt[c]
    <3>1. queue'[b] = Without(queue[b], c)
      BY <1>0, <2>1 DEF RateInv, RateTyped
    <3>2. /\ \A i \in 1 .. Len(queue'[b]) :
                /\ queue'[b][i] # c /\ \E k \in 1 .. Len(queue[b]) : queue'[b][i] = queue[b][k]
                /\ \A j \in 1 .. Len(queue'[b]) : j # i => queue'[b][j] # queue'[b][i]
      <4> DEFINE q == queue[b]
                 w == Without(q, c)
      <4>1. q \in Seq(Callers) /\ \A i, j \in 1 .. Len(q) : i # j => q[i] # q[j]
        BY <1>1
      <4> HIDE DEF q
      <4>2. \A i \in 1 .. Len(w) :
              /\ w[i] # c /\ \E k \in 1 .. Len(q) : w[i] = q[k]
              /\ \A j \in 1 .. Len(w) : j # i => w[j] # w[i]
        BY <4>1, WithoutFacts
      <4>3. queue'[b] = w
        BY <3>1 DEF q
      <4> HIDE DEF w
      <4> QED BY <4>2, <4>3 DEF q
    <3> QED BY <1>0, <1>1, <3>2 DEF QueueSound, RateInv, RateTyped
  <2>2. CASE b # bucketAt[c]
    <3>1. queue'[b] = queue[b] /\ \A i \in 1 .. Len(queue[b]) : queue[b][i] \in Callers \ {c}
      BY <1>0, <1>1, <2>2 DEF RateInv, RateTyped, QueueSound
    <3> QED BY <1>0, <1>1, <3>1 DEF QueueSound, RateInv, RateTyped
  <2> QED BY <2>1, <2>2
<1> QED BY <1>2, <1>3, <1>4 DEF RateInv, RateAssumption

LEMMA CloseChannelKeeps ==
  ASSUME RateInv, NEW c \in Callers, CloseChannel(c) PROVE RateInv'
<1> USE BucketFacts, StageFacts
<1>0. /\ stage[c] = "removed" /\ stage' = [stage EXCEPT ![c] = "refused"]
      /\ UNCHANGED <<generation, queue, bucketAt, paid, sent>>
  BY DEF CloseChannel
<1>1. RateTyped'
  <2>1. CASE paid[c] = NoBucket
    BY <1>0, <2>1 DEF RateInv, RateTyped, CloseChannel, Stages
  <2>2. CASE paid[c] # NoBucket
    <3>1. paid[c] \in Bucket
      BY <2>2 DEF RateInv, RateTyped
    <3>2. tokens' \in [Bucket -> Nat]
      BY <2>2, <3>1 DEF RateInv, RateTyped, CloseChannel, Refund
    <3> QED BY <1>0, <3>2 DEF RateInv, RateTyped, Stages
  <2> QED BY <2>1, <2>2
<1>2. \A d \in Callers : CallerSound(d)'
  BY <1>0 DEF RateInv, RateTyped, CallerSound
<1>3. \A b \in Bucket : QueueSound(b)'
  BY <1>0, QueuesStay DEF RateInv, RateTyped
<1> QED BY <1>1, <1>2, <1>3 DEF RateInv, RateAssumption

LEMMA OthersKeep ==
  ASSUME RateInv,
         \/ \E on \in BOOLEAN : Configure(on)
         \/ \E b \in Bucket : Refill(b) \/ RefillerEnds(b)
         \/ \E c \in Callers : ContextEnds(c)
         \/ UNCHANGED rateVars
  PROVE  RateInv'
<1>1. UNCHANGED <<queue, stage, bucketAt, paid, sent>>
  BY DEF Configure, Refill, RefillerEnds, ContextEnds, rateVars, buckets
<1>2. generation' \in Generations /\ tokens' \in [Bucket -> Nat]
  BY DEF RateInv, RateTyped, Configure, Refill, RefillerEnds, ContextEnds, rateVars, buckets
<1>3. RateTyped'
  BY <1>1, <1>2 DEF RateInv, RateTyped
<1> QED BY <1>1, <1>3 DEF RateInv, RateAssumption, CallerSound, QueueSound

LEMMA RateKeeps == RateInv /\ [RateNext]_rateVars => RateInv'
BY GetLimiterKeeps, GetGlobalCapKeeps, TakeTokenKeeps, WakeKeeps, JoinQueueKeeps, HandTokenKeeps,
   GiveUpKeeps, SelectKeeps, LeaveQueueKeeps, CloseChannelKeeps, OthersKeep DEF RateNext

-----------------------------------------------------------------------------
(* The promise of a bucket *)

Kept(b) == [Promise(b)!BucketNext]_(Promise(b)!bucketVars)

LEMMA NothingMoves ==
  ASSUME NEW b \in Bucket, tokens'[b] = tokens[b],
         UNCHANGED <<AskingAt(b), GivenBy(b), HoldingOf(b), RefusedBy(b)>>
  PROVE  Kept(b)
BY DEF Kept, Promise!bucketVars

\* A step of one caller, which leaves all others in the places they have.
OnlyMoves(c) ==
  \A d \in Callers \ {c} : /\ stage'[d] = stage[d] /\ bucketAt'[d] = bucketAt[d]
                          /\ paid'[d] = paid[d] /\ sent'[d] = sent[d]
\* It may change its own place, or not.
StaysAt(c, b) ==
  /\ (c \in AskingAt(b)') <=> (c \in AskingAt(b))
  /\ (c \in GivenBy(b)') <=> (c \in GivenBy(b))
  /\ (c \in HoldingOf(b)') <=> (c \in HoldingOf(b))
  /\ (c \in RefusedBy(b)') <=> (c \in RefusedBy(b))
LEMMA OthersStay ==
  ASSUME NEW b \in Bucket, NEW c \in Callers,
         OnlyMoves(c)
  PROVE  /\ AskingAt(b)' \ {c} = AskingAt(b) \ {c} /\ GivenBy(b)' \ {c} = GivenBy(b) \ {c}
         /\ HoldingOf(b)' \ {c} = HoldingOf(b) \ {c} /\ RefusedBy(b)' \ {c} = RefusedBy(b) \ {c}
BY DEF OnlyMoves, AskingAt, GivenBy, HoldingOf, RefusedBy, AtBucket

LEMMA ButFor ==
  ASSUME NEW A, NEW B, NEW c, A \ {c} = B \ {c}
  PROVE  /\ ((c \in A) <=> (c \in B)) => A = B
         /\ c \in A /\ c \notin B => A = B \cup {c} /\ B = A \ {c}
<1>1. \A x : x # c => ((x \in A) <=> (x \in B))
  <2> TAKE x
  <2>1. (x \in A \ {c}) <=> (x \in B \ {c})
    OBVIOUS
  <2> QED BY <2>1
<1> QED BY <1>1

\* Where c itself is.
Places(b, c) ==
  /\ c \in AskingAt(b) <=> AtBucket(c, b) /\ ~sent[c]
  /\ c \in GivenBy(b) <=> AtBucket(c, b) /\ sent[c]
  /\ c \in HoldingOf(b) <=> (paid[c] = b /\ stage[c] # "refused") \/ (bucketAt[c] = b /\ stage[c] = "passed")
  /\ c \in RefusedBy(b) <=> stage[c] = "refused" /\ (bucketAt[c] = b \/ paid[c] = b)
LEMMA PlacesHold == ASSUME NEW b \in Bucket, NEW c \in Callers PROVE Places(b, c) /\ Places(b, c)'
BY DEF Places, AskingAt, GivenBy, HoldingOf, RefusedBy

LEMMA CallerStaysPut ==
  ASSUME NEW b \in Bucket, NEW c \in Callers, tokens'[b] = tokens[b],
         OnlyMoves(c),
         StaysAt(c, b)
  PROVE  Kept(b)
<1>1. /\ AskingAt(b)' \ {c} = AskingAt(b) \ {c} /\ GivenBy(b)' \ {c} = GivenBy(b) \ {c}
      /\ HoldingOf(b)' \ {c} = HoldingOf(b) \ {c} /\ RefusedBy(b)' \ {c} = RefusedBy(b) \ {c}
  BY OthersStay
<1>2. UNCHANGED <<AskingAt(b), GivenBy(b), HoldingOf(b), RefusedBy(b)>>
  BY <1>1, ButFor DEF StaysAt
<1> QED BY <1>2, NothingMoves

LEMMA TakeTokenPromised ==
  ASSUME RateInv, NEW c \in Callers, TakeToken(c), NEW b \in Bucket PROVE Kept(b)
<1> USE BucketFacts, StageFacts
<1>0. /\ stage[c] = "ask" /\ ~sent[c] /\ bucketAt[c] \in Bucket /\ paid[c] # bucketAt[c]
      /\ tokens' = [tokens EXCEPT ![bucketAt[c]] = @ - 1] /\ tokens[bucketAt[c]] >= 1
      /\ stage' = [stage EXCEPT ![c] = IF paid[c] = NoBucket THEN "paid" ELSE "passed"]
      /\ paid' = [paid EXCEPT ![c] = IF @ = NoBucket THEN bucketAt[c] ELSE @]
      /\ UNCHANGED <<bucketAt, sent>>
  BY DEF RateInv, TakeToken, WasServed, CallerSound, Asking
<1>1. OnlyMoves(c)
  BY <1>0 DEF RateInv, RateTyped, OnlyMoves
<1>2. CASE b = bucketAt[c]
  <2>1. c \notin AskingAt(b) \cup GivenBy(b) \cup HoldingOf(b) \cup RefusedBy(b)
    BY <1>0, <1>2, PlacesHold DEF Places, AtBucket
  <2>2. c \in HoldingOf(b)' /\ c \notin AskingAt(b)' \cup GivenBy(b)' \cup RefusedBy(b)'
    BY <1>0, <1>2, PlacesHold DEF Places, AtBucket, RateInv, RateTyped
  <2>3. HoldingOf(b)' = HoldingOf(b) \cup {c} /\ UNCHANGED <<AskingAt(b), GivenBy(b), RefusedBy(b)>>
    BY <1>1, <2>1, <2>2, OthersStay, ButFor
  <2>4. tokens[b] > 0 /\ tokens'[b] = tokens[b] - 1
    BY <1>0, <1>2 DEF RateInv, RateTyped
  <2>5. Promise(b)!AskAndGet(c)
    BY <2>1, <2>3, <2>4 DEF Promise!AskAndGet, Promise!New
  <2> QED BY <2>5 DEF Kept, Promise!BucketNext
<1>3. CASE b # bucketAt[c]
  <2>1. tokens'[b] = tokens[b]
    BY <1>0, <1>3 DEF RateInv, RateTyped
  <2>2. StaysAt(c, b)
    BY <1>0, <1>3, PlacesHold DEF StaysAt, Places, AtBucket, RateInv, RateTyped
  <2> QED BY <1>1, <2>1, <2>2, CallerStaysPut
<1> QED BY <1>2, <1>3

LEMMA WakePromised ==
  ASSUME RateInv, NEW c \in Callers, Wake(c), NEW b \in Bucket PROVE Kept(b)
<1> USE BucketFacts, StageFacts
<1>0. /\ stage[c] = "select" /\ sent[c] /\ bucketAt[c] \in Bucket /\ paid[c] # bucketAt[c]
      /\ stage' = [stage EXCEPT ![c] = IF paid[c] = NoBucket THEN "paid" ELSE "passed"]
      /\ paid' = [paid EXCEPT ![c] = IF @ = NoBucket THEN bucketAt[c] ELSE @]
      /\ sent' = [sent EXCEPT ![c] = FALSE] /\ tokens' = tokens /\ bucketAt' = bucketAt
  BY DEF RateInv, Wake, WasServed, CallerSound, Asking, Waiting, buckets
<1>1. OnlyMoves(c)
  BY <1>0 DEF RateInv, RateTyped, OnlyMoves
<1>2. CASE b = bucketAt[c]
  <2>1. c \in GivenBy(b) /\ c \notin AskingAt(b) \cup HoldingOf(b) \cup RefusedBy(b)
    BY <1>0, <1>2, PlacesHold DEF Places, AtBucket, Waiting
  <2>2. c \in HoldingOf(b)' /\ c \notin AskingAt(b)' \cup GivenBy(b)' \cup RefusedBy(b)'
    BY <1>0, <1>2, PlacesHold DEF Places, AtBucket, RateInv, RateTyped
  <2>3. /\ HoldingOf(b)' = HoldingOf(b) \cup {c} /\ GivenBy(b)' = GivenBy(b) \ {c}
        /\ UNCHANGED <<AskingAt(b), RefusedBy(b)>>
    BY <1>1, <2>1, <2>2, OthersStay, ButFor
  <2>4. Promise(b)!Take(c)
    BY <1>0, <2>1, <2>3 DEF Promise!Take
  <2> QED BY <2>4 DEF Kept, Promise!BucketNext
<1>3. CASE b # bucketAt[c]
  <2>1. StaysAt(c, b)
    BY <1>0, <1>3, PlacesHold DEF StaysAt, Places, AtBucket, RateInv, RateTyped
  <2> QED BY <1>0, <1>1, <2>1, CallerStaysPut
<1> QED BY <1>2, <1>3

LEMMA JoinQueuePromised ==
  ASSUME RateInv, NEW c \in Callers, JoinQueue(c), NEW b \in Bucket PROVE Kept(b)
<1> USE BucketFacts, StageFacts
<1>0. /\ stage[c] = "ask" /\ ~sent[c] /\ bucketAt[c] \in Bucket /\ paid[c] # bucketAt[c]
      /\ stage' = [stage EXCEPT ![c] = "queued"] /\ "queued" \in Waiting
      /\ UNCHANGED <<tokens, bucketAt, paid, sent>>
  BY DEF RateInv, JoinQueue, CallerSound, Asking, Waiting
<1>1. OnlyMoves(c)
  BY <1>0 DEF RateInv, RateTyped, OnlyMoves
<1>2. CASE b = bucketAt[c]
  <2>1. c \notin AskingAt(b) \cup GivenBy(b) \cup HoldingOf(b) \cup RefusedBy(b)
    BY <1>0, <1>2, PlacesHold DEF Places, AtBucket
  <2>2. c \in AskingAt(b)' /\ c \notin GivenBy(b)' \cup HoldingOf(b)' \cup RefusedBy(b)'
    BY <1>0, <1>2, PlacesHold DEF Places, AtBucket, RateInv, RateTyped
  <2>3. AskingAt(b)' = AskingAt(b) \cup {c} /\ UNCHANGED <<GivenBy(b), HoldingOf(b), RefusedBy(b)>>
    BY <1>1, <2>1, <2>2, OthersStay, ButFor
  <2>4. Promise(b)!Ask(c)
    BY <1>0, <2>1, <2>3 DEF Promise!Ask, Promise!New
  <2> QED BY <2>4 DEF Kept, Promise!BucketNext
<1>3. CASE b # bucketAt[c]
  <2>1. StaysAt(c, b)
    BY <1>0, <1>3, PlacesHold DEF StaysAt, Places, AtBucket, RateInv, RateTyped
  <2> QED BY <1>0, <1>1, <2>1, CallerStaysPut
<1> QED BY <1>2, <1>3

LEMMA HandTokenPromised ==
  ASSUME RateInv, NEW h \in Bucket, HandToken(h), NEW b \in Bucket PROVE Kept(b)
<1> USE BucketFacts, StageFacts
<1> DEFINE c == Head(queue[h])
<1>0. /\ queue[h] \in Seq(Callers) /\ queue[h] # <<>> /\ tokens[h] >= 1
      /\ tokens' = [tokens EXCEPT ![h] = @ - 1] /\ sent' = [sent EXCEPT ![c] = TRUE]
      /\ UNCHANGED <<stage, bucketAt, paid>>
  BY DEF RateInv, RateTyped, HandToken
<1>1. c \in Callers /\ 1 \in 1 .. Len(queue[h]) /\ c = queue[h][1]
  BY <1>0, HeadTailProperties
<1>2. bucketAt[c] = h /\ stage[c] \in Waiting /\ ~sent[c]
  BY <1>1 DEF RateInv, QueueSound
<1> HIDE DEF c
<1>3. OnlyMoves(c)
  BY <1>0, <1>1 DEF RateInv, RateTyped, OnlyMoves
<1>4. CASE b = h
  <2>1. c \in AskingAt(b) /\ c \notin GivenBy(b)
    BY <1>1, <1>2, <1>4, PlacesHold DEF Places, AtBucket
  <2>2. c \in GivenBy(b)' /\ c \notin AskingAt(b)'
    BY <1>0, <1>1, <1>2, <1>4, PlacesHold DEF Places, AtBucket, RateInv, RateTyped
  <2>3. /\ (c \in HoldingOf(b)') <=> (c \in HoldingOf(b))
        /\ (c \in RefusedBy(b)') <=> (c \in RefusedBy(b))
    BY <1>0, <1>1, PlacesHold DEF Places
  <2>4. /\ AskingAt(b)' = AskingAt(b) \ {c} /\ GivenBy(b)' = GivenBy(b) \cup {c}
        /\ UNCHANGED <<HoldingOf(b), RefusedBy(b)>>
    BY <1>1, <1>3, <2>1, <2>2, <2>3, OthersStay, ButFor
  <2>5. tokens[b] > 0 /\ tokens'[b] = tokens[b] - 1
    BY <1>0, <1>4 DEF RateInv, RateTyped
  <2>6. Promise(b)!Serve(c)
    BY <2>1, <2>4, <2>5 DEF Promise!Serve
  <2> QED BY <1>1, <2>6 DEF Kept, Promise!BucketNext
<1>5. CASE b # h
  <2>1. tokens'[b] = tokens[b]
    BY <1>0, <1>5 DEF RateInv, RateTyped
  <2>2. StaysAt(c, b)
    BY <1>0, <1>1, <1>2, <1>5, PlacesHold DEF StaysAt, Places, AtBucket, RateInv, RateTyped
  <2> QED BY <1>1, <1>3, <2>1, <2>2, CallerStaysPut
<1> QED BY <1>4, <1>5

LEMMA CloseChannelPromised ==
  ASSUME RateInv, NEW c \in Callers, CloseChannel(c), NEW b \in Bucket PROVE Kept(b)
<1> USE BucketFacts, StageFacts
<1>0. /\ stage[c] = "removed" /\ bucketAt[c] \in Bucket /\ paid[c] # bucketAt[c]
      /\ paid[c] \in Bucket \cup {NoBucket}
      /\ stage' = [stage EXCEPT ![c] = "refused"] /\ UNCHANGED <<bucketAt, paid, sent>>
      /\ tokens' = IF paid[c] = NoBucket THEN tokens ELSE Refund(paid[c])
  BY DEF RateInv, RateTyped, CloseChannel, CallerSound, Asking, Waiting
<1>1. OnlyMoves(c)
  BY <1>0 DEF RateInv, RateTyped, OnlyMoves
<1>2. b # paid[c] => tokens'[b] = tokens[b]
  BY <1>0 DEF Refund, RateInv, RateTyped
<1>3. CASE b = bucketAt[c]
  <2>1. c \in AskingAt(b) \cup GivenBy(b) /\ c \notin HoldingOf(b) \cup RefusedBy(b)
    BY <1>0, <1>3, PlacesHold DEF Places, AtBucket
  <2>2. c \in RefusedBy(b)' /\ c \notin AskingAt(b)' \cup GivenBy(b)' \cup HoldingOf(b)'
    BY <1>0, <1>3, PlacesHold DEF Places, AtBucket, RateInv, RateTyped
  <2>3. /\ RefusedBy(b)' = RefusedBy(b) \cup {c} /\ HoldingOf(b)' = HoldingOf(b)
        /\ AskingAt(b)' = AskingAt(b) \ {c} /\ GivenBy(b)' = GivenBy(b) \ {c}
    BY <1>1, <2>1, <2>2, OthersStay, ButFor
  <2>4. Promise(b)!Leave(c)
    BY <1>0, <1>2, <1>3, <2>1, <2>3 DEF Promise!Leave
  <2> QED BY <2>4 DEF Kept, Promise!BucketNext
<1>4. CASE b = paid[c]
  <2>1. c \in HoldingOf(b) /\ c \notin AskingAt(b) \cup GivenBy(b) \cup RefusedBy(b)
    BY <1>0, <1>4, PlacesHold DEF Places, AtBucket
  <2>2. c \in RefusedBy(b)' /\ c \notin AskingAt(b)' \cup GivenBy(b)' \cup HoldingOf(b)'
    BY <1>0, <1>4, PlacesHold DEF Places, AtBucket, RateInv, RateTyped
  <2>3. /\ RefusedBy(b)' = RefusedBy(b) \cup {c} /\ HoldingOf(b)' = HoldingOf(b) \ {c}
        /\ UNCHANGED <<AskingAt(b), GivenBy(b)>>
    BY <1>1, <2>1, <2>2, OthersStay, ButFor
  <2>4. tokens'[b] = IF tokens[b] < Capacity(b) THEN tokens[b] + 1 ELSE tokens[b]
    BY <1>0, <1>4 DEF Refund, RateInv, RateTyped
  <2>5. Promise(b)!GiveBack(c)
    BY <2>1, <2>3, <2>4 DEF Promise!GiveBack
  <2> QED BY <2>5 DEF Kept, Promise!BucketNext
<1>5. CASE b # bucketAt[c] /\ b # paid[c]
  <2>1. StaysAt(c, b)
    BY <1>0, <1>5, PlacesHold DEF StaysAt, Places, AtBucket, RateInv, RateTyped
  <2> QED BY <1>1, <1>2, <1>5, <2>1, CallerStaysPut
<1> QED BY <1>3, <1>4, <1>5

\* The steps of a caller that no bucket sees.
LEMMA CallerUnseen ==
  ASSUME RateInv, NEW c \in Callers, NEW b \in Bucket,
         GetLimiter(c) \/ GetGlobalCap(c) \/ Select(c) \/ GiveUp(c) \/ LeaveQueue(c)
  PROVE  Kept(b)
<1> USE BucketFacts, StageFacts
<1>1. OnlyMoves(c)
  BY DEF GetLimiter, GetGlobalCap, Select, GiveUp, LeaveQueue, RateInv, RateTyped, OnlyMoves
<1>2. UNCHANGED <<tokens, paid, sent>>
  BY DEF GetLimiter, GetGlobalCap, Select, GiveUp, LeaveQueue, buckets
<1>3. StaysAt(c, b)
  <2>1. CASE GetLimiter(c)
    BY <2>1, <1>2, PlacesHold DEF GetLimiter, StaysAt, Places, AtBucket, RateInv, RateTyped, CallerSound
  <2>2. CASE GetGlobalCap(c)
    BY <2>2, <1>2, PlacesHold DEF GetGlobalCap, StaysAt, Places, AtBucket, RateInv, RateTyped, CallerSound
  <2>3. CASE Select(c) \/ GiveUp(c) \/ LeaveQueue(c)
    BY <2>3, <1>2, PlacesHold DEF Select, GiveUp, LeaveQueue, StaysAt, Places, AtBucket, RateInv, RateTyped, Waiting
  <2> QED BY <2>1, <2>2, <2>3
<1> QED BY <1>1, <1>2, <1>3, CallerStaysPut

LEMMA OthersUnseen ==
  ASSUME NEW b \in Bucket,
         \/ \E on \in BOOLEAN : Configure(on)
         \/ \E r \in Bucket : RefillerEnds(r)
         \/ \E c \in Callers : ContextEnds(c)
         \/ UNCHANGED rateVars
  PROVE  Kept(b)
<1>1. UNCHANGED <<tokens, stage, bucketAt, paid, sent>>
  BY DEF Configure, RefillerEnds, ContextEnds, rateVars, buckets
<1>2. UNCHANGED <<AskingAt(b), GivenBy(b), HoldingOf(b), RefusedBy(b)>>
  BY <1>1 DEF AskingAt, GivenBy, HoldingOf, RefusedBy, AtBucket
<1> QED BY <1>1, <1>2, NothingMoves

LEMMA RefillPromised ==
  ASSUME RateInv, NEW r \in Bucket, Refill(r), NEW b \in Bucket PROVE Kept(b)
<1>1. UNCHANGED <<stage, bucketAt, paid, sent>>
  BY DEF Refill
<1>2. UNCHANGED <<AskingAt(b), GivenBy(b), HoldingOf(b), RefusedBy(b)>>
  BY <1>1 DEF AskingAt, GivenBy, HoldingOf, RefusedBy, AtBucket
<1>3. CASE b = r
  <2>1. Promise(b)!Earn
    BY <1>2, <1>3 DEF Refill, Promise!Earn, RateInv, RateTyped
  <2> QED BY <2>1 DEF Kept, Promise!BucketNext
<1>4. CASE b # r
  BY <1>2, <1>4, NothingMoves DEF Refill, RateInv, RateTyped
<1> QED BY <1>3, <1>4

LEMMA PromiseKept == RateInv /\ [RateNext]_rateVars => PromiseStep
<1> SUFFICES ASSUME RateInv, [RateNext]_rateVars, NEW b \in Bucket PROVE Kept(b)
  BY DEF PromiseStep, Kept
<1> QED BY TakeTokenPromised, WakePromised, JoinQueuePromised, HandTokenPromised, CloseChannelPromised,
           CallerUnseen, OthersUnseen, RefillPromised DEF RateNext

LEMMA PromiseStart == RateInv /\ RateInit => PromiseInit
<1> SUFFICES ASSUME RateInv, RateInit, NEW b \in Bucket PROVE Promise(b)!BucketInit
  BY DEF PromiseInit
<1>1. NoBucket \notin Bucket /\ tokens[b] = Capacity(b)
  BY BucketFacts DEF RateInv, RateInit
<1>2. AskingAt(b) = {} /\ GivenBy(b) = {} /\ HoldingOf(b) = {} /\ RefusedBy(b) = {}
  BY <1>1 DEF RateInit, AskingAt, GivenBy, HoldingOf, RefusedBy, AtBucket
<1> QED BY <1>1, <1>2 DEF Promise!BucketInit

\* Every bucket, of every generation, implements TokenBucket: no token is made
\* but by the time, none is given to two callers, and what is given back goes
\* to the bucket it came from (service/rate/limiter.go, registry.go).
THEOREM BucketsImplementTokenBucket == RateAssumption /\ RateSpec => BucketsKeepPromise
<1>1. RateInv /\ [RateNext]_rateVars => [PromiseStep]_rateVars
  BY PromiseKept
<1> QED BY RateStart, RateKeeps, PromiseStart, <1>1, PTL DEF RateSpec, BucketsKeepPromise


-----------------------------------------------------------------------------
(***************************************************************************)
(* Nobody waits in vain: the invariant adds to RateInv that the tokens of  *)
(* a bucket never exceed its burst, and that whoever is in a queue has     *)
(* somebody who hands tokens to it.                                        *)
(***************************************************************************)
\* Whoever waits has a token in its channel, or stands in the queue of its bucket
\* while a goroutine hands tokens to that.
Tended(c) ==
  \/ sent[c]
  \/ \E i \in 1 .. Len(queue[bucketAt[c]]) : queue[bucketAt[c]][i] = c /\ refillers[bucketAt[c]] > 0
WaitersTended == \A c \in Callers : stage[c] \in Waiting => Tended(c)
TendInv == RateInv /\ RateTypeOK /\ WaitersTended

LEMMA TendStart == RateAssumption /\ RateInit => TendInv
<1> SUFFICES ASSUME RateAssumption, RateInit PROVE TendInv
  OBVIOUS
<1>1. \A b \in Bucket : Capacity(b) \in Nat
  BY DEF RateAssumption, Capacity, NewLimiterBurst
<1>2. RateTypeOK
  BY <1>1, EmptySeq DEF RateAssumption, RateInit, RateTypeOK, Generations, Stages
<1>3. WaitersTended
  BY DEF RateInit, WaitersTended, Waiting
<1> QED BY <1>2, <1>3, RateStart DEF TendInv

\* Steps of one caller that leave the queues alone.
LEMMA StillTended ==
  ASSUME TendInv, NEW c \in Callers, stage[c] \notin Waiting \/ stage'[c] \notin Waiting \/ bucketAt'[c] = bucketAt[c],
         stage'[c] \in Waiting => stage[c] \in Waiting,
         UNCHANGED <<queue, refillers>>,
         \A d \in Callers \ {c} : stage'[d] = stage[d] /\ bucketAt'[d] = bucketAt[d] /\ sent'[d] = sent[d],
         stage'[c] \in Waiting => sent'[c] = sent[c]
  PROVE  WaitersTended'
BY DEF TendInv, WaitersTended, Tended

LEMMA QuietStep ==
  ASSUME TendInv, NEW c \in Callers,
         GetLimiter(c) \/ GetGlobalCap(c) \/ TakeToken(c) \/ Select(c) \/ Wake(c) \/ GiveUp(c) \/ CloseChannel(c)
  PROVE  WaitersTended'
<1>1. stage[c] \in Stages /\ RateTyped
  BY DEF TendInv, RateInv, RateTyped
<1>2. CASE GetLimiter(c)
  BY <1>1, <1>2, StillTended DEF GetLimiter, RateTyped, buckets, Waiting
<1>3. CASE GetGlobalCap(c)
  BY <1>1, <1>3, StillTended DEF GetGlobalCap, RateTyped, buckets, Waiting
<1>4. CASE TakeToken(c)
  BY <1>1, <1>4, StillTended DEF TakeToken, WasServed, RateTyped, Waiting
<1>5. CASE Select(c)
  BY <1>1, <1>5, StillTended DEF Select, RateTyped, buckets, Waiting
<1>6. CASE Wake(c)
  BY <1>1, <1>6, StillTended DEF Wake, WasServed, RateTyped, buckets, Waiting
<1>7. CASE GiveUp(c)
  BY <1>1, <1>7, StillTended DEF GiveUp, RateTyped, buckets, Waiting
<1>8. CASE CloseChannel(c)
  BY <1>1, <1>8, StillTended DEF CloseChannel, RateTyped, Waiting
<1> QED BY <1>2, <1>3, <1>4, <1>5, <1>6, <1>7, <1>8

LEMMA JoinQueueTended ==
  ASSUME TendInv, NEW c \in Callers, JoinQueue(c) PROVE WaitersTended'
<1> DEFINE b == bucketAt[c]
<1>1. /\ b \in Bucket /\ queue[b] \in Seq(Callers) /\ queue \in [Bucket -> Seq(Callers)] /\ refillers \in [Bucket -> Nat]
      /\ stage \in [Callers -> Stages]
  BY DEF TendInv, RateInv, CallerSound, RateTyped, RateTypeOK, JoinQueue
<1>2. /\ queue' = [queue EXCEPT ![b] = Append(@, c)] /\ refillers' = [refillers EXCEPT ![b] = @ + 1]
      /\ stage' = [stage EXCEPT ![c] = "queued"] /\ UNCHANGED <<bucketAt, sent>>
  BY DEF JoinQueue
<1> HIDE DEF b
<1>3. PICK n \in Nat : n = Len(queue[b])
  BY <1>1, LenProperties
<1>4. Len(queue'[b]) = n + 1 /\ queue'[b][n + 1] = c /\ \A i \in 1 .. n : queue'[b][i] = queue[b][i]
  BY <1>1, <1>2, <1>3, AppendProperties
<1>5. refillers'[b] > 0
  BY <1>1, <1>2
<1>6. Tended(c)'
  BY <1>2, <1>3, <1>4, <1>5 DEF Tended, b
<1>7. ASSUME NEW d \in Callers \ {c}, stage'[d] \in Waiting PROVE Tended(d)'
  <2>1. Tended(d) /\ bucketAt'[d] = bucketAt[d] /\ sent'[d] = sent[d]
    BY <1>1, <1>2, <1>7 DEF TendInv, WaitersTended
  <2>2. CASE bucketAt[d] = b
    BY <1>3, <1>4, <1>5, <2>1, <2>2 DEF Tended
  <2>3. CASE bucketAt[d] # b
    <3>1. queue'[bucketAt[d]] = queue[bucketAt[d]] /\ refillers'[bucketAt[d]] = refillers[bucketAt[d]]
      BY <1>1, <1>2, <2>3
    <3> QED BY <2>1, <3>1 DEF Tended
  <2> QED BY <2>2, <2>3
<1> QED BY <1>6, <1>7 DEF WaitersTended

LEMMA HandTokenTended ==
  ASSUME TendInv, NEW h \in Bucket, HandToken(h) PROVE WaitersTended'
<1> DEFINE c == Head(queue[h])
<1>1. /\ queue[h] \in Seq(Callers) /\ queue[h] # <<>> /\ queue \in [Bucket -> Seq(Callers)]
      /\ refillers \in [Bucket -> Nat] /\ sent \in [Callers -> BOOLEAN]
      /\ queue' = [queue EXCEPT ![h] = Tail(@)] /\ sent' = [sent EXCEPT ![c] = TRUE]
      /\ refillers' = [refillers EXCEPT ![h] = IF Len(queue[h]) = 1 THEN @ - 1 ELSE @]
      /\ UNCHANGED <<stage, bucketAt>>
  BY DEF TendInv, RateTypeOK, HandToken
<1>2. /\ c \in Callers /\ c = queue[h][1]
      /\ Tail(queue[h]) \in Seq(Callers) /\ Len(Tail(queue[h])) = Len(queue[h]) - 1
      /\ \A i \in 1 .. Len(queue[h]) - 1 : Tail(queue[h])[i] = queue[h][i + 1]
  BY <1>1, HeadTailProperties
<1> HIDE DEF c
<1>3. PICK n \in Nat : n = Len(queue[h])
  BY <1>1, LenProperties
<1>4. Len(queue'[h]) = n - 1 /\ \A i \in 1 .. n - 1 : queue'[h][i] = queue[h][i + 1]
  BY <1>1, <1>2, <1>3
<1>5. ASSUME NEW d \in Callers, stage'[d] \in Waiting PROVE Tended(d)'
  <2>1. Tended(d) /\ bucketAt'[d] = bucketAt[d]
    BY <1>1, <1>5 DEF TendInv, WaitersTended
  <2>2. CASE sent[d] \/ d = c
    BY <1>1, <1>2, <2>2 DEF Tended
  <2>3. CASE bucketAt[d] = h /\ d # c /\ ~sent[d]
    <3>1. PICK i \in 1 .. n : queue[h][i] = d /\ refillers[h] > 0
      BY <1>3, <2>1, <2>3 DEF Tended
    <3>2. i # 1 /\ n # 1
      BY <1>2, <2>3, <3>1
    <3>3. i - 1 \in 1 .. n - 1 /\ queue'[h][i - 1] = d
      BY <1>4, <3>1, <3>2
    <3>4. refillers'[h] > 0
      BY <1>1, <1>3, <3>1, <3>2
    <3> QED BY <1>4, <2>1, <2>3, <3>3, <3>4 DEF Tended
  <2>4. CASE bucketAt[d] # h /\ d # c /\ ~sent[d]
    <3>1. queue'[bucketAt[d]] = queue[bucketAt[d]] /\ refillers'[bucketAt[d]] = refillers[bucketAt[d]]
      BY <1>1, <2>4
    <3> QED BY <2>1, <2>4, <3>1 DEF Tended
  <2> QED BY <2>2, <2>3, <2>4
<1> QED BY <1>5 DEF WaitersTended

LEMMA LeaveQueueTended ==
  ASSUME TendInv, NEW c \in Callers, LeaveQueue(c) PROVE WaitersTended'
<1> DEFINE b == bucketAt[c]
<1>1. /\ b \in Bucket /\ queue[b] \in Seq(Callers) /\ queue \in [Bucket -> Seq(Callers)] /\ stage \in [Callers -> Stages]
      /\ \A i, j \in 1 .. Len(queue[b]) : i # j => queue[b][i] # queue[b][j]
      /\ stage[c] \in Waiting
  BY StageFacts DEF TendInv, RateInv, CallerSound, RateTyped, QueueSound, LeaveQueue, Waiting
<1>2. /\ queue' = [queue EXCEPT ![b] = Without(@, c)] /\ stage' = [stage EXCEPT ![c] = "removed"]
      /\ UNCHANGED <<refillers, bucketAt, sent>>
  BY DEF LeaveQueue
<1> HIDE DEF b
<1>3. \A k \in 1 .. Len(queue[b]) : queue[b][k] # c => \E i \in 1 .. Len(queue'[b]) : queue'[b][i] = queue[b][k]
  <2>1. PICK q : q = queue[b]
    OBVIOUS
  <2>2. \A k \in 1 .. Len(q) : q[k] # c => \E i \in 1 .. Len(Without(q, c)) : Without(q, c)[i] = q[k]
    <3>1. q \in Seq(Callers) /\ \A i, j \in 1 .. Len(q) : i # j => q[i] # q[j]
      BY <1>1, <2>1
    <3> QED BY <3>1, WithoutFacts, ZenonT(60)
  <2>3. queue'[b] = Without(q, c)
    BY <1>1, <1>2, <2>1
  <2> QED BY <2>1, <2>2, <2>3
<1>4. ASSUME NEW d \in Callers, stage'[d] \in Waiting PROVE Tended(d)'
  <2>1. d # c
    BY <1>1, <1>2, <1>4, StageFacts
  <2>2. Tended(d) /\ bucketAt'[d] = bucketAt[d] /\ sent'[d] = sent[d] /\ refillers' = refillers
    BY <1>1, <1>2, <1>4, <2>1 DEF TendInv, WaitersTended
  <2>3. CASE bucketAt[d] = b
    BY <1>3, <2>1, <2>2, <2>3 DEF Tended
  <2>4. CASE bucketAt[d] # b
    <3>1. queue'[bucketAt[d]] = queue[bucketAt[d]]
      BY <1>1, <1>2, <2>4
    <3> QED BY <2>2, <3>1 DEF Tended
  <2> QED BY <2>3, <2>4
<1> QED BY <1>4 DEF WaitersTended

LEMMA OthersTended ==
  ASSUME TendInv,
         \/ \E on \in BOOLEAN : Configure(on)
         \/ \E b \in Bucket : Refill(b) \/ RefillerEnds(b)
         \/ \E c \in Callers : ContextEnds(c)
         \/ UNCHANGED rateVars
  PROVE  WaitersTended'
<1>1. UNCHANGED <<queue, stage, bucketAt, sent>>
  BY DEF Configure, Refill, RefillerEnds, ContextEnds, rateVars, buckets
<1>2. CASE UNCHANGED refillers
  BY <1>1, <1>2 DEF TendInv, WaitersTended, Tended
<1>3. ASSUME NEW b \in Bucket, RefillerEnds(b) PROVE WaitersTended'
  <2>1. \A a : a # b => refillers'[a] = refillers[a]
    BY <1>3 DEF RefillerEnds, TendInv, RateTypeOK
  <2>2. Len(queue[b]) = 0
    BY <1>3 DEF RefillerEnds
  <2>3. ASSUME NEW c \in Callers, stage[c] \in Waiting PROVE Tended(c)'
    <3>1. Tended(c)
      BY <2>3 DEF TendInv, WaitersTended
    <3>2. CASE sent[c]
      BY <1>1, <3>2 DEF Tended
    <3>3. CASE ~sent[c]
      <4>1. bucketAt[c] # b
        BY <2>2, <3>1, <3>3 DEF Tended
      <4>2. refillers'[bucketAt[c]] = refillers[bucketAt[c]]
        BY <2>1, <4>1
      <4> QED BY <1>1, <3>1, <4>2 DEF Tended
    <3> QED BY <3>2, <3>3
  <2> QED BY <1>1, <2>3 DEF WaitersTended
<1> QED BY <1>2, <1>3 DEF Configure, Refill, ContextEnds, rateVars, buckets

\* A bucket holds no more tokens than it has room for, and a goroutine that hands
\* them out was started by a caller.
LEMMA RateTypeStep ==
  ASSUME TendInv, [RateNext]_rateVars PROVE RateTypeOK'
<1> USE BucketFacts, StageFacts
<1>1. /\ RateInv /\ RateInv' /\ RateTypeOK /\ capped \in BOOLEAN /\ refillers \in [Bucket -> Nat]
      /\ ended \in [Callers -> BOOLEAN] /\ closed \in SUBSET (Callers \X Bucket) /\ tokens \in [Bucket -> Nat]
      /\ \A b \in Bucket : tokens[b] <= Capacity(b) /\ Capacity(b) \in Nat
  <2>1. \A b \in Bucket : Capacity(b) \in Nat
    BY DEF TendInv, RateInv, RateAssumption, Capacity, NewLimiterBurst
  <2> QED BY <2>1, RateKeeps DEF TendInv, RateTypeOK
<1>2. \A b \in Bucket : Capacity(b)' = Capacity(b)
  BY DEF Capacity, NewLimiterBurst
<1>3. \A b \in Bucket : tokens'[b] <= Capacity(b)
  <2>1. ASSUME NEW c \in Callers, TakeToken(c) PROVE \A b \in Bucket : tokens'[b] <= Capacity(b)
    BY <1>1, <2>1 DEF TakeToken
  <2>2. ASSUME NEW h \in Bucket, Refill(h) \/ HandToken(h) PROVE \A b \in Bucket : tokens'[b] <= Capacity(b)
    BY <1>1, <2>2 DEF Refill, HandToken
  <2>3. ASSUME NEW c \in Callers, CloseChannel(c) PROVE \A b \in Bucket : tokens'[b] <= Capacity(b)
    BY <1>1, <2>3 DEF CloseChannel, Refund
  <2>4. CASE UNCHANGED tokens
    BY <1>1, <2>4
  <2> QED BY <2>1, <2>2, <2>3, <2>4
     DEF RateNext, Configure, RefillerEnds, GetLimiter, GetGlobalCap, JoinQueue, Select, Wake, GiveUp, LeaveQueue,
         ContextEnds, rateVars, buckets
<1>4. refillers' \in [Bucket -> Nat]
  <2>1. ASSUME NEW b \in Bucket, HandToken(b) \/ RefillerEnds(b) PROVE refillers' \in [Bucket -> Nat]
    BY <1>1, <2>1 DEF HandToken, RefillerEnds
  <2>2. ASSUME NEW c \in Callers, JoinQueue(c) PROVE refillers' \in [Bucket -> Nat]
    <3>1. bucketAt[c] \in Bucket /\ refillers' = [refillers EXCEPT ![bucketAt[c]] = @ + 1]
      BY <1>1, <2>2 DEF RateInv, CallerSound, JoinQueue
    <3> QED BY <1>1, <3>1
  <2>3. CASE UNCHANGED refillers
    BY <1>1, <2>3
  <2> QED BY <2>1, <2>2, <2>3
     DEF RateNext, Configure, Refill, GetLimiter, GetGlobalCap, TakeToken, Select, Wake, GiveUp, LeaveQueue,
         CloseChannel, ContextEnds, rateVars, buckets
<1>5. capped' \in BOOLEAN /\ ended' \in [Callers -> BOOLEAN]
  BY <1>1
  DEF RateNext, Configure, Refill, HandToken, RefillerEnds, GetLimiter, GetGlobalCap, TakeToken, JoinQueue, WasServed,
      Select, Wake, GiveUp, LeaveQueue, CloseChannel, ContextEnds, rateVars
<1>6. closed' \in SUBSET (Callers \X Bucket)
  <2>1. ASSUME NEW c \in Callers, CloseChannel(c) PROVE closed' \in SUBSET (Callers \X Bucket)
    <3>1. bucketAt[c] \in Bucket
      BY <1>1, <2>1 DEF RateInv, CallerSound, CloseChannel
    <3> QED BY <1>1, <2>1, <3>1 DEF CloseChannel
  <2>2. CASE UNCHANGED closed
    BY <1>1, <2>2
  <2> QED BY <2>1, <2>2
     DEF RateNext, Configure, Refill, HandToken, RefillerEnds, GetLimiter, GetGlobalCap, TakeToken, JoinQueue, WasServed,
         Select, Wake, GiveUp, LeaveQueue, ContextEnds, rateVars
<1> QED BY <1>1, <1>2, <1>3, <1>4, <1>5, <1>6 DEF RateTypeOK, RateInv, RateTyped

LEMMA TendKeeps == TendInv /\ [RateNext]_rateVars => TendInv'
<1> SUFFICES ASSUME TendInv, [RateNext]_rateVars PROVE TendInv'
  OBVIOUS
<1>1. RateInv' /\ RateTypeOK'
  BY RateKeeps, RateTypeStep DEF TendInv
<1>2. WaitersTended'
  BY QuietStep, JoinQueueTended, HandTokenTended, LeaveQueueTended, OthersTended DEF RateNext
<1> QED BY <1>1, <1>2 DEF TendInv

\* Nobody waits for a token that nobody will bring: whoever waits has one in its
\* channel, or stands in the queue of a bucket that a goroutine hands tokens to,
\* however contexts end and limits are replaced meanwhile (limiter.go, Acquire and
\* scheduleRefill).
THEOREM NobodyWaitsInVain == RateAssumption /\ RateSpec => []WaitersTended
<1>1. TendInv => WaitersTended
  BY DEF TendInv
<1> QED BY <1>1, TendStart, TendKeeps, PTL DEF RateSpec

\* A bucket never holds more tokens than its burst, whatever is refilled, handed
\* out and given back (limiter.go, refillLocked and Refund).
THEOREM BucketsBounded == RateAssumption /\ RateSpec => []RateTypeOK
<1>1. TendInv => RateTypeOK
  BY DEF TendInv
<1> QED BY <1>1, TendStart, TendKeeps, PTL DEF RateSpec


-----------------------------------------------------------------------------
(***************************************************************************)
(* The playback (RangeProxy): a stream asks for one new link at a time.    *)
(* The chunk that asks has the lock of its stream, and the link it saw     *)
(* fail is still the one the stream has.                                   *)
(***************************************************************************)
ChunkTables ==
  /\ chunk = [s \in Streams |-> [i \in Index(s) |-> chunk[s][i]]]
  /\ seenSeq = [s \in Streams |-> [i \in Index(s) |-> seenSeq[s][i]]]
  /\ seq = [s \in Streams |-> seq[s]]
LockHeld ==
  \A s \in Streams : \A i \in Index(s) : chunk[s][i] = "lock" =>
    seenSeq[s][i] = seq[s] /\ \A j \in Index(s) : chunk[s][j] = "lock" => j = i
LinkInv == ChunkTables /\ LockHeld

\* An entry of a table of tables changes.
LEMMA ChunkSet ==
  ASSUME ChunkTables, NEW s \in Streams, NEW x, NEW to, Set(s, x, to)
  PROVE  /\ chunk' = [t \in Streams |-> [j \in Index(t) |-> chunk'[t][j]]]
         /\ \A t \in Streams : \A j \in Index(t) : chunk'[t][j] = IF t = s /\ j = x THEN to ELSE chunk[t][j]
<1>1. chunk' = [t \in Streams |-> IF t = s THEN [chunk[s] EXCEPT ![x] = to] ELSE chunk[t]]
  BY DEF Set, ChunkTables
<1>2. chunk[s] = [j \in Index(s) |-> chunk[s][j]] /\ \A t \in Streams : chunk[t] = [j \in Index(t) |-> chunk[t][j]]
  BY DEF ChunkTables
<1>3. [chunk[s] EXCEPT ![x] = to] = [j \in Index(s) |-> IF j = x THEN to ELSE chunk[s][j]]
  BY <1>2
<1>4. \A t \in Streams : chunk'[t] = [j \in Index(t) |-> IF t = s /\ j = x THEN to ELSE chunk[t][j]]
  <2> SUFFICES ASSUME NEW t \in Streams
               PROVE  chunk'[t] = [j \in Index(t) |-> IF t = s /\ j = x THEN to ELSE chunk[t][j]]
    OBVIOUS
  <2>1. CASE t = s
    BY <1>1, <1>3, <2>1
  <2>2. CASE t # s
    BY <1>1, <1>2, <2>2
  <2> QED BY <2>1, <2>2
<1>5. \A t \in Streams : chunk'[t] = [j \in Index(t) |-> chunk'[t][j]]
  BY <1>4
<1>6. chunk' = [t \in Streams |-> chunk'[t]]
  BY <1>1
<1> QED BY <1>4, <1>5, <1>6

SeenAs(s, x, to) == seenSeq' = [seenSeq EXCEPT ![s][x] = to]
LEMMA SeenSet ==
  ASSUME ChunkTables, NEW s \in Streams, NEW x, NEW to, SeenAs(s, x, to)
  PROVE  /\ seenSeq' = [t \in Streams |-> [j \in Index(t) |-> seenSeq'[t][j]]]
         /\ \A t \in Streams : \A j \in Index(t) : seenSeq'[t][j] = IF t = s /\ j = x THEN to ELSE seenSeq[t][j]
<1>1. seenSeq' = [t \in Streams |-> IF t = s THEN [seenSeq[s] EXCEPT ![x] = to] ELSE seenSeq[t]]
  BY DEF ChunkTables, SeenAs
<1>2. seenSeq[s] = [j \in Index(s) |-> seenSeq[s][j]] /\ \A t \in Streams : seenSeq[t] = [j \in Index(t) |-> seenSeq[t][j]]
  BY DEF ChunkTables
<1>3. [seenSeq[s] EXCEPT ![x] = to] = [j \in Index(s) |-> IF j = x THEN to ELSE seenSeq[s][j]]
  BY <1>2
<1>4. \A t \in Streams : seenSeq'[t] = [j \in Index(t) |-> IF t = s /\ j = x THEN to ELSE seenSeq[t][j]]
  <2> SUFFICES ASSUME NEW t \in Streams
               PROVE  seenSeq'[t] = [j \in Index(t) |-> IF t = s /\ j = x THEN to ELSE seenSeq[t][j]]
    OBVIOUS
  <2>1. CASE t = s
    BY <1>1, <1>3, <2>1
  <2>2. CASE t # s
    BY <1>1, <1>2, <2>2
  <2> QED BY <2>1, <2>2
<1>5. \A t \in Streams : seenSeq'[t] = [j \in Index(t) |-> seenSeq'[t][j]]
  <2> SUFFICES ASSUME NEW t \in Streams PROVE seenSeq'[t] = [j \in Index(t) |-> seenSeq'[t][j]]
    OBVIOUS
  <2>1. seenSeq'[t] = [j \in Index(t) |-> IF t = s /\ j = x THEN to ELSE seenSeq[t][j]]
    BY <1>4
  <2>2. \A j \in Index(t) : seenSeq'[t][j] = IF t = s /\ j = x THEN to ELSE seenSeq[t][j]
    BY <2>1
  <2> QED BY <2>1, <2>2
<1>6. seenSeq' = [t \in Streams |-> seenSeq'[t]]
  BY <1>1
<1> QED BY <1>4, <1>5, <1>6

LEMMA NoLinkAsked == RangeInit => LinkInv
<1> SUFFICES ASSUME RangeInit PROVE LinkInv
  OBVIOUS
<1>1. ChunkTables
  BY DEF RangeInit, ChunkTables
<1>2. \A s \in Streams : \A i \in Index(s) : chunk[s][i] = "none"
  BY DEF RangeInit
<1> QED BY <1>1, <1>2 DEF LinkInv, LockHeld

\* A chunk comes to the lock only from "stale": its stream has no other there.
LEMMA LocksStay ==
  ASSUME LinkInv, ChunkTables', UNCHANGED seq,
         \A t \in Streams : \A j \in Index(t) : chunk'[t][j] = "lock" =>
           chunk[t][j] = "lock" /\ seenSeq'[t][j] = seenSeq[t][j]
  PROVE  LinkInv'
BY DEF LinkInv, LockHeld, Index

\* A chunk that has not the lock goes on, to anything but the lock.
LEMMA ChunkGoesOn ==
  ASSUME LinkInv, NEW s \in Streams, NEW x, NEW to, to # "lock", Set(s, x, to), UNCHANGED seq,
         UNCHANGED seenSeq \/ \E n : SeenAs(s, x, n)
  PROVE  LinkInv'
<1>1. ChunkTables
  BY DEF LinkInv
<1>2. /\ chunk' = [t \in Streams |-> [j \in Index(t) |-> chunk'[t][j]]]
      /\ \A t \in Streams : \A j \in Index(t) : chunk'[t][j] = IF t = s /\ j = x THEN to ELSE chunk[t][j]
  BY <1>1, ChunkSet
<1>3. /\ seenSeq' = [t \in Streams |-> [j \in Index(t) |-> seenSeq'[t][j]]]
      /\ \A t \in Streams : \A j \in Index(t) : ~(t = s /\ j = x) => seenSeq'[t][j] = seenSeq[t][j]
  <2>1. CASE UNCHANGED seenSeq
    BY <1>1, <2>1 DEF ChunkTables
  <2>2. CASE \E n : SeenAs(s, x, n)
    BY <1>1, <2>2, SeenSet
  <2> QED BY <2>1, <2>2
<1>4. ChunkTables'
  BY <1>1, <1>2, <1>3 DEF ChunkTables, Index
<1> QED BY <1>2, <1>3, <1>4, LocksStay

LEMMA WorkerKeepsLink ==
  ASSUME LinkInv, NEW s \in Streams, NEW i \in Index(s), Worker(s, i), ~Refreshed(s, i)
  PROVE  LinkInv'
<1>1. CASE Acquire(s, i)
  BY <1>1, ChunkGoesOn DEF Acquire, SeenAs
<1>2. CASE FetchOnce(s, i)
  BY <1>2, ChunkGoesOn DEF FetchOnce, Forget, SeenAs
<1>3. CASE RefreshIfStale(s, i) /\ Set(s, i, "again")
  BY <1>3, ChunkGoesOn DEF RefreshIfStale, Forget, SeenAs
<1>4. CASE RefreshIfStale(s, i) /\ Set(s, i, "lock") /\ seq[s] = seenSeq[s][i]
  <2>1. ChunkTables /\ UNCHANGED <<seenSeq, seq>> /\ Being(s, {"lock"}) = {}
    BY <1>4 DEF RefreshIfStale, LinkInv
  <2>2. /\ chunk' = [t \in Streams |-> [j \in Index(t) |-> chunk'[t][j]]]
        /\ \A t \in Streams : \A j \in Index(t) : chunk'[t][j] = IF t = s /\ j = i THEN "lock" ELSE chunk[t][j]
    BY <1>4, <2>1, ChunkSet
  <2>3. ChunkTables'
    BY <2>1, <2>2 DEF ChunkTables, Index
  <2>4. \A j \in Index(s) : chunk[s][j] # "lock"
    BY <2>1 DEF Being
  <2>5. LockHeld'
    <3> SUFFICES ASSUME NEW t \in Streams, NEW j \in Index(t), chunk'[t][j] = "lock"
                 PROVE  seenSeq[t][j] = seq[t] /\ \A k \in Index(t) : chunk'[t][k] = "lock" => k = j
      BY <2>1 DEF LockHeld, Index
    <3>1. CASE t = s
      BY <1>4, <2>2, <2>4, <3>1
    <3>2. CASE t # s
      BY <2>2, <3>2 DEF LinkInv, LockHeld
    <3> QED BY <3>1, <3>2
  <2> QED BY <2>3, <2>5 DEF LinkInv
<1>5. CASE FetchAgain(s, i)
  BY <1>5, ChunkGoesOn DEF FetchAgain
<1>6. CASE Put(s, i)
  <2>1. PICK to \in {"queued", "failed", "done"} : Set(s, i, to) /\ UNCHANGED <<seenSeq, seq>>
    BY <1>6 DEF Put
  <2> QED BY <2>1, ChunkGoesOn
<1> QED BY <1>1, <1>2, <1>3, <1>4, <1>5, <1>6 DEF Worker, RefreshIfStale

\* The new link: the chunk that asked for it gives the lock back.
LEMMA LinkReplaced ==
  ASSUME LinkInv, NEW s \in Streams, NEW i \in Index(s), Refreshed(s, i)
  PROVE  LinkInv' /\ \A t \in Streams : seq'[t] # seq[t] => \E j \in Being(t, {"lock"}) : seenSeq[t][j] = seq[t]
<1>1. ChunkTables /\ chunk[s][i] = "lock" /\ SeenAs(s, i, 0)
  BY DEF Refreshed, Forget, LinkInv, SeenAs
<1>2. PICK to \in {"again", "error"} : Set(s, i, to)
  BY DEF Refreshed
<1>3. seq' = [seq EXCEPT ![s] = @ + 1] \/ UNCHANGED seq
  BY DEF Refreshed
<1>4. seq' = [t \in Streams |-> seq'[t]] /\ \A t \in Streams \ {s} : seq'[t] = seq[t]
  BY <1>1, <1>3 DEF ChunkTables
<1>5. /\ chunk' = [t \in Streams |-> [j \in Index(t) |-> chunk'[t][j]]]
      /\ \A t \in Streams : \A j \in Index(t) : chunk'[t][j] = IF t = s /\ j = i THEN to ELSE chunk[t][j]
  BY <1>1, <1>2, ChunkSet
<1>6. /\ seenSeq' = [t \in Streams |-> [j \in Index(t) |-> seenSeq'[t][j]]]
      /\ \A t \in Streams : \A j \in Index(t) : seenSeq'[t][j] = IF t = s /\ j = i THEN 0 ELSE seenSeq[t][j]
  BY <1>1, SeenSet
<1>7. ChunkTables'
  BY <1>4, <1>5, <1>6 DEF ChunkTables, Index
<1>8. \A j \in Index(s) : chunk'[s][j] # "lock"
  BY <1>1, <1>2, <1>5 DEF LinkInv, LockHeld
<1>9. LockHeld'
  <2> SUFFICES ASSUME NEW t \in Streams, NEW j \in Index(t), chunk'[t][j] = "lock"
               PROVE  seenSeq'[t][j] = seq'[t] /\ \A k \in Index(t) : chunk'[t][k] = "lock" => k = j
    BY DEF LockHeld, Index
  <2>1. t # s
    BY <1>8
  <2>2. seenSeq'[t][j] = seenSeq[t][j] /\ seq'[t] = seq[t] /\ \A k \in Index(t) : chunk'[t][k] = chunk[t][k]
    BY <1>4, <1>5, <1>6, <2>1
  <2> QED BY <2>2 DEF LinkInv, LockHeld
<1>10. i \in Being(s, {"lock"}) /\ seenSeq[s][i] = seq[s]
  BY <1>1 DEF Being, LinkInv, LockHeld
<1> QED BY <1>4, <1>7, <1>9, <1>10 DEF LinkInv

\* What writes the answers to the player moves chunks that have no lock.
LEMMA WriterKeepsLink ==
  ASSUME LinkInv, NEW s \in Streams, StreamRemaining(s)
  PROVE  LinkInv'
<1>1. UNCHANGED <<seenSeq, seq>>
  BY DEF StreamRemaining
<1>2. UNCHANGED chunk \/ \E x, to : to # "lock" /\ Set(s, x, to)
  <2>1. ASSUME NEW i \in Index(s), Take(s, i) PROVE \E x, to : to # "lock" /\ Set(s, x, to)
    <3>1. PICK to \in {"copy", "done", "pending", "pendingError"} : Set(s, i, to)
      BY <2>1 DEF Take
    <3> QED BY <3>1
  <2>2. CASE TakePending(s)
    <3>1. PICK to \in {"copy", "done"} : Set(s, next[s], to)
      BY <2>2 DEF TakePending
    <3> QED BY <3>1
  <2>3. CASE CopyChunk(s)
    <3>1. Set(s, next[s], "done")
      BY <2>3 DEF CopyChunk
    <3> QED BY <3>1
  <2> QED BY <2>1, <2>2, <2>3 DEF StreamRemaining
<1>3. CASE UNCHANGED chunk
  BY <1>1, <1>3, ZenonT(60) DEF LinkInv, ChunkTables, LockHeld, Index
<1>4. CASE \E x, to : to # "lock" /\ Set(s, x, to)
  BY <1>1, <1>4, ChunkGoesOn
<1> QED BY <1>2, <1>3, <1>4

LEMMA StopKeepsLink ==
  ASSUME LinkInv, NEW s \in Streams, StopStream(s)
  PROVE  LinkInv'
<1>1. chunk' = [chunk EXCEPT ![s] = [i \in Index(s) |-> "done"]] /\ UNCHANGED <<seenSeq, seq>> /\ ChunkTables
  BY DEF StopStream, LinkInv
<1>2. \A t \in Streams : chunk'[t] = IF t = s THEN [i \in Index(s) |-> "done"] ELSE chunk[t]
  BY <1>1 DEF ChunkTables
<1>3. \A t \in Streams : chunk'[t] = [j \in Index(t) |-> chunk'[t][j]]
  <2>1. \A t \in Streams : chunk[t] = [j \in Index(t) |-> chunk[t][j]]
    BY <1>1 DEF ChunkTables
  <2> QED BY <1>2, <2>1
<1>4. chunk' = [t \in Streams |-> chunk'[t]]
  BY <1>1 DEF ChunkTables
<1>5. ChunkTables'
  BY <1>1, <1>3, <1>4, ZenonT(60) DEF ChunkTables, Index
<1>6. \A t \in Streams : \A j \in Index(t) : chunk'[t][j] = "lock" => chunk[t][j] = "lock"
  BY <1>2
<1> QED BY <1>1, <1>5, <1>6, LocksStay

LEMMA LinkStep ==
  LinkInv /\ [RangeNext]_rangeVars =>
    LinkInv' /\ \A s \in Streams : seq'[s] # seq[s] => \E i \in Being(s, {"lock"}) : seenSeq[s][i] = seq[s]
<1> SUFFICES ASSUME LinkInv, [RangeNext]_rangeVars
             PROVE  LinkInv' /\ \A s \in Streams : seq'[s] # seq[s] => \E i \in Being(s, {"lock"}) : seenSeq[s][i] = seq[s]
  OBVIOUS
<1>1. ASSUME UNCHANGED <<chunk, seenSeq, seq>> PROVE LinkInv'
  BY <1>1, ZenonT(60) DEF LinkInv, ChunkTables, LockHeld, Index
<1>2. CASE UNCHANGED rangeVars
  BY <1>1, <1>2 DEF rangeVars, chunkVars
<1>3. ASSUME NEW s \in Streams, HandleStrm(s) \/ Resolve(s) \/ ClientLeaves(s) PROVE LinkInv' /\ UNCHANGED seq
  BY <1>1, <1>3 DEF HandleStrm, Resolve, ClientLeaves, chunkVars
<1>4. ASSUME NEW s \in Streams, Handler(s) PROVE LinkInv' /\ UNCHANGED seq
  <2>1. CASE Route(s) \/ Enter(s) \/ LeaveWait(s) \/ Begin(s) \/ FetchUpstreamWithRefresh(s) \/ StreamRangeProxy(s)
    BY <1>1, <2>1 DEF Route, Enter, LeaveWait, Begin, FetchUpstreamWithRefresh, StreamRangeProxy, chunkVars
  <2>2. CASE StreamRemaining(s)
    BY <2>2, WriterKeepsLink DEF StreamRemaining
  <2>3. CASE StopStream(s)
    BY <2>3, StopKeepsLink DEF StopStream
  <2> QED BY <1>4, <2>1, <2>2, <2>3 DEF Handler
<1>5. ASSUME NEW s \in Streams, Spawn(s) PROVE LinkInv' /\ UNCHANGED seq
  <2>1. UNCHANGED <<seenSeq, seq>>
    BY <1>5 DEF Spawn
  <2>2. CASE UNCHANGED chunk
    BY <1>1, <2>1, <2>2
  <2>3. CASE \E i \in Index(s) : Set(s, i, "slot")
    BY <2>1, <2>3, ChunkGoesOn
  <2> QED BY <1>5, <2>1, <2>2, <2>3 DEF Spawn, Being
<1>6. ASSUME NEW s \in Streams, NEW i \in Index(s), Worker(s, i), ~Refreshed(s, i) PROVE LinkInv' /\ UNCHANGED seq
  <2>1. UNCHANGED seq
    BY <1>6 DEF Worker, Acquire, FetchOnce, RefreshIfStale, FetchAgain, Put
  <2> QED BY <1>6, <2>1, WorkerKeepsLink
<1>7. ASSUME NEW s \in Streams, NEW i \in Index(s), Refreshed(s, i)
      PROVE  LinkInv' /\ \A t \in Streams : seq'[t] # seq[t] => \E j \in Being(t, {"lock"}) : seenSeq[t][j] = seq[t]
  BY <1>7, LinkReplaced
<1> QED BY <1>1, <1>2, <1>3, <1>4, <1>5, <1>6, <1>7 DEF RangeNext, rangeVars, chunkVars

\* A new link replaces only the one the chunk that asked for it saw fail: chunks
\* that find a link dead together ask once (refreshIfStale of range_proxy.go).
THEOREM OneNewLink == RangeAssumption /\ RangeSpec => RefreshOnce
<1>1. LinkInv /\ [RangeNext]_rangeVars =>
        [\A s \in Streams : seq'[s] # seq[s] => \E i \in Being(s, {"lock"}) : seenSeq[s][i] = seq[s]]_rangeVars
  BY LinkStep
<1>2. LinkInv /\ [RangeNext]_rangeVars => LinkInv'
  BY LinkStep
<1> QED BY NoLinkAsked, <1>1, <1>2, PTL DEF RangeSpec, RefreshOnce

-----------------------------------------------------------------------------
(***************************************************************************)
(* The playback again: its limits, and what it leaves behind.  The         *)
(* invariant says what a stream may hold at each stage, and counts the     *)
(* slots and the places; the players are not assumed finitely many.        *)
(***************************************************************************)
Slots == UNION {{s} \X Being(s, HasSlot) : s \in Streams}
\* A stream holds nothing before it streams, and nothing when it is over.
HoldsNothingEarly(s) ==
  streamStage[s] \notin {"run", "stop", "over"} => s \notin spawning /\ \A i \in Index(s) : chunk[s][i] = "none"
HoldsNothingLate(s) ==
  streamStage[s] = "over" => s \notin spawning /\ Being(s, HasSlot \cup Working) = {}
Idle == {"none", "failed", "pendingError", "done"}
PlayTyped ==
  /\ streamStage \in [Streams -> StreamStages] /\ gone \subseteq Streams /\ spawning \subseteq Streams
  /\ cached \in BOOLEAN /\ failed \in BOOLEAN /\ asking \in [Streams -> Looks]
  /\ \A s \in Streams : /\ \A i \in Index(s) : chunk[s][i] \in ChunkStates /\ seenSeq[s][i] \in Nat
                        /\ seq[s] \in Nat
  /\ next \in [Streams -> Nat] /\ \A s \in Streams : next[s] \in Index(s)
NothingHeld == \A s \in Streams : HoldsNothingLate(s)
SlotsBounded == IsFiniteSet(Slots) /\ Cardinality(Slots) <= RangeLimit
PlacesBounded == IsFiniteSet(InStage(Placed)) /\ Cardinality(InStage(Placed)) <= ConcurrencyLimit + SoftOverLimit
PlayInv ==
  /\ RangeAssumption /\ LinkInv /\ PlayTyped
  /\ NothingHeld /\ \A s \in Streams : HoldsNothingEarly(s)
  /\ SlotsBounded /\ PlacesBounded

LEMMA NoMoreOf ==
  ASSUME NEW A, NEW B, NEW n \in Nat, IsFiniteSet(A), Cardinality(A) <= n, B \subseteq A
  PROVE  IsFiniteSet(B) /\ Cardinality(B) <= n
<1>1. IsFiniteSet(B) /\ Cardinality(B) <= Cardinality(A)
  BY FS_Subset
<1> QED BY <1>1, FS_CardinalityType

LEMMA OneMoreOf ==
  ASSUME NEW A, NEW B, NEW x, NEW n \in Nat, IsFiniteSet(A), Cardinality(A) < n, B \subseteq A \cup {x}
  PROVE  IsFiniteSet(B) /\ Cardinality(B) <= n
<1>1. /\ IsFiniteSet(A \cup {x})
      /\ Cardinality(A \cup {x}) = Cardinality(A) \/ Cardinality(A \cup {x}) = Cardinality(A) + 1
  BY FS_AddElement
<1>2. Cardinality(A) \in Nat
  BY FS_CardinalityType
<1>3. Cardinality(A \cup {x}) <= n
  BY <1>1, <1>2
<1> QED BY <1>1, <1>3, NoMoreOf

LEMMA PlayLimits == RangeAssumption => RangeLimit \in Nat /\ ConcurrencyLimit + SoftOverLimit \in Nat
BY DEF RangeAssumption, RangeLimit

LEMMA PlayStart == RangeAssumption /\ RangeInit => PlayInv
<1> SUFFICES ASSUME RangeAssumption, RangeInit PROVE PlayInv
  OBVIOUS
<1>0. \A s \in Streams : \A i \in Index(s) : chunk[s][i] = "none" /\ seenSeq[s][i] = 0
  BY DEF RangeInit
<1>1. PlayTyped
  <2>1. \A s \in Streams : Chunks[s] \in Nat \ {0} /\ next[s] = 1 /\ seq[s] = 0
    BY DEF RangeAssumption, RangeInit
  <2>2. \A s \in Streams : next[s] \in Index(s)
    BY <2>1 DEF Index
  <2>3. next \in [Streams -> Nat] /\ streamStage \in [Streams -> StreamStages] /\ asking \in [Streams -> Looks]
    BY DEF RangeInit, StreamStages, Looks
  <2>4. \A s \in Streams : /\ \A i \in Index(s) : chunk[s][i] \in ChunkStates /\ seenSeq[s][i] \in Nat
                           /\ seq[s] \in Nat
    BY <1>0, <2>1 DEF ChunkStates
  <2> QED BY <2>2, <2>3, <2>4 DEF PlayTyped, RangeInit
<1>2. Slots = {} /\ InStage(Placed) = {}
  <2>1. \A s \in Streams : Being(s, HasSlot) = {}
    BY <1>0 DEF Being, HasSlot
  <2>2. InStage(Placed) = {}
    BY DEF RangeInit, InStage, Placed, Connecting
  <2> QED BY <2>1, <2>2 DEF Slots
<1>3. SlotsBounded /\ PlacesBounded
  BY <1>2, PlayLimits, FS_EmptySet DEF SlotsBounded, PlacesBounded
<1>4. NothingHeld /\ \A s \in Streams : HoldsNothingEarly(s)
  BY <1>0 DEF RangeInit, NothingHeld, HoldsNothingEarly, HoldsNothingLate
<1> QED BY <1>1, <1>3, <1>4, NoLinkAsked DEF PlayInv

SlotStates == \A s \in Streams : \A i \in Index(s) : chunk[s][i] \in ChunkStates

\* Slots taken are those of the chunks that have one.
LEMMA FewerSlots ==
  ASSUME PlayInv,
         \A s \in Streams : \A i \in Index(s) : chunk'[s][i] \in HasSlot => chunk[s][i] \in HasSlot
  PROVE  SlotsBounded'
<1>1. Slots' \subseteq Slots
  BY DEF Slots, Being, Index
<1> QED BY <1>1, NoMoreOf, PlayLimits DEF PlayInv, SlotsBounded, RangeLimit

LEMMA FewerPlaces ==
  ASSUME PlayInv, \A s \in Streams : streamStage'[s] \in Placed => streamStage[s] \in Placed
  PROVE  PlacesBounded'
<1>1. InStage(Placed)' \subseteq InStage(Placed)
  BY DEF InStage
<1> QED BY <1>1, NoMoreOf, PlayLimits DEF PlayInv, PlacesBounded

\* A chunk goes on without a new slot.
LEMMA ChunkMoves ==
  ASSUME PlayInv, NEW s \in Streams, NEW x \in Index(s), NEW to \in ChunkStates, Set(s, x, to),
         chunk[s][x] \in HasSlot \/ to \notin HasSlot
  PROVE  /\ SlotsBounded' /\ SlotStates'
         /\ \A t \in Streams \ {s} : \A i \in Index(t) : chunk'[t][i] = chunk[t][i]
<1>1. \A t \in Streams : \A j \in Index(t) : chunk'[t][j] = IF t = s /\ j = x THEN to ELSE chunk[t][j]
  BY ChunkSet DEF PlayInv, LinkInv
<1>2. SlotsBounded'
  BY <1>1, FewerSlots
<1>3. SlotStates'
  BY <1>1 DEF PlayInv, PlayTyped, SlotStates, Index
<1> QED BY <1>1, <1>2, <1>3

SeenTyped == \A s \in Streams : \A i \in Index(s) : seenSeq[s][i] \in Nat
LEMMA SeenMoves ==
  ASSUME PlayInv, NEW s \in Streams, NEW x \in Index(s), NEW n \in Nat, SeenAs(s, x, n)
  PROVE  SeenTyped'
<1>1. \A t \in Streams : \A j \in Index(t) : seenSeq'[t][j] = IF t = s /\ j = x THEN n ELSE seenSeq[t][j]
  BY SeenSet DEF PlayInv, LinkInv
<1> QED BY <1>1 DEF PlayInv, PlayTyped, SeenTyped, Index

\* What a step that leaves the chunks alone keeps.
LEMMA ChunksRest ==
  ASSUME PlayInv, UNCHANGED <<chunk, seenSeq, seq>>
  PROVE  LinkInv' /\ SlotsBounded' /\ SlotStates' /\ SeenTyped' /\ \A s \in Streams : seq'[s] \in Nat
<1>1. SlotsBounded'
  BY FewerSlots
<1>2. LinkInv'
  BY ZenonT(60) DEF PlayInv, LinkInv, ChunkTables, LockHeld, Index
<1>3. SlotStates' /\ SeenTyped' /\ \A s \in Streams : seq'[s] \in Nat
  BY DEF PlayInv, PlayTyped, SlotStates, SeenTyped, Index
<1> QED BY <1>1, <1>2, <1>3

\* The stream s goes on, and no other.
OthersBe(s) ==
  /\ \A t \in Streams \ {s} : streamStage'[t] = streamStage[t] /\ (t \in spawning' => t \in spawning)
  /\ \A t \in Streams \ {s} : \A i \in Index(t) : chunk'[t][i] = chunk[t][i]
LEMMA OthersHold ==
  ASSUME PlayInv, NEW s \in Streams, OthersBe(s), HoldsNothingEarly(s)', HoldsNothingLate(s)'
  PROVE  NothingHeld' /\ \A t \in Streams : HoldsNothingEarly(t)'
<1> SUFFICES ASSUME NEW t \in Streams, t # s PROVE HoldsNothingEarly(t)' /\ HoldsNothingLate(t)'
  BY DEF NothingHeld
<1>1. HoldsNothingEarly(t) /\ HoldsNothingLate(t)
  BY DEF PlayInv, NothingHeld
<1> QED BY <1>1 DEF OthersBe, HoldsNothingEarly, HoldsNothingLate, Being, Index

\* A step of the handler of s before it streams.
LEMMA EarlyStep ==
  ASSUME PlayInv, NEW s \in Streams, NEW to, Goto(s, to), streamStage[s] \notin {"run", "stop", "over"}, to \notin {"run", "stop"},
         UNCHANGED <<chunk, spawning>>
  PROVE  NothingHeld' /\ \A t \in Streams : HoldsNothingEarly(t)'
<1>1. \A t \in Streams : streamStage'[t] = IF t = s THEN to ELSE streamStage[t]
  BY DEF Goto, PlayInv, PlayTyped
<1>2. s \notin spawning /\ \A i \in Index(s) : chunk[s][i] = "none"
  BY DEF PlayInv, HoldsNothingEarly
<1>3. HoldsNothingEarly(s)' /\ HoldsNothingLate(s)'
  BY <1>2 DEF HoldsNothingEarly, HoldsNothingLate, Being, HasSlot, Working, Index
<1>4. OthersBe(s)
  BY <1>1 DEF OthersBe
<1> QED BY <1>3, <1>4, OthersHold

\* The parts of the invariant a step of a chunk may touch.
ChunkKept == SlotsBounded' /\ SlotStates' /\ SeenTyped' /\ NothingHeld' /\ \A t \in Streams : HoldsNothingEarly(t)'

\* A chunk of a stream that streams goes on; the handler stays where it is.
LEMMA ChunkHolds ==
  ASSUME PlayInv, NEW s \in Streams, streamStage[s] \in {"run", "stop"}, UNCHANGED streamStage, spawning' \subseteq spawning,
         \A t \in Streams \ {s} : \A i \in Index(t) : chunk'[t][i] = chunk[t][i]
  PROVE  NothingHeld' /\ \A t \in Streams : HoldsNothingEarly(t)'
<1>1. HoldsNothingEarly(s)' /\ HoldsNothingLate(s)'
  BY DEF HoldsNothingEarly, HoldsNothingLate
<1>2. OthersBe(s)
  BY DEF OthersBe
<1> QED BY <1>1, <1>2, OthersHold

LEMMA WorkingStreams ==
  ASSUME PlayInv, NEW s \in Streams, s \in spawning \/ \E i \in Index(s) : chunk[s][i] \in Working
  PROVE  streamStage[s] \in {"run", "stop"}
BY DEF PlayInv, NothingHeld, HoldsNothingEarly, HoldsNothingLate, Being, Working

LEMMA SeenRests == PlayInv /\ UNCHANGED seenSeq => SeenTyped'
BY DEF PlayInv, PlayTyped, SeenTyped, Index

LEMMA SpawnKeeps ==
  ASSUME PlayInv, NEW s \in Streams, Spawn(s)
  PROVE  ChunkKept
<1>1. streamStage[s] \in {"run", "stop"} /\ UNCHANGED streamStage /\ spawning' \subseteq spawning /\ UNCHANGED <<seenSeq, seq>>
  BY WorkingStreams DEF Spawn
<1>2. CASE UNCHANGED chunk
  BY <1>1, <1>2, ChunksRest, ChunkHolds DEF ChunkKept
<1>3. CASE \E i \in Index(s) : Set(s, i, "slot")
  <2>1. PICK i \in Index(s) : Set(s, i, "slot")
    BY <1>3
  <2>2. "slot" \in ChunkStates /\ "slot" \notin HasSlot
    BY DEF ChunkStates, Working, HasSlot
  <2>3. SlotsBounded' /\ SlotStates' /\ \A t \in Streams \ {s} : \A j \in Index(t) : chunk'[t][j] = chunk[t][j]
    BY <2>1, <2>2, ChunkMoves
  <2> QED BY <1>1, <2>3, ChunkHolds, SeenRests DEF ChunkKept
<1> QED BY <1>2, <1>3 DEF Spawn, Being

\* A slot is taken where one is free.
LEMMA SlotTaken ==
  ASSUME PlayInv, NEW s \in Streams, NEW i \in Index(s), SlotsTaken < RangeLimit, Set(s, i, "asked")
  PROVE  /\ SlotsBounded' /\ SlotStates'
         /\ \A t \in Streams \ {s} : \A j \in Index(t) : chunk'[t][j] = chunk[t][j]
<1>1. \A t \in Streams : \A j \in Index(t) : chunk'[t][j] = IF t = s /\ j = i THEN "asked" ELSE chunk[t][j]
  BY ChunkSet DEF PlayInv, LinkInv
<1>2. Slots' \subseteq Slots \cup {<<s, i>>}
  BY <1>1 DEF Slots, Being, Index
<1>3. IsFiniteSet(Slots) /\ Cardinality(Slots) < RangeLimit /\ RangeLimit \in Nat
  BY PlayLimits DEF PlayInv, SlotsBounded, SlotsTaken, Slots
<1>4. IsFiniteSet(Slots') /\ Cardinality(Slots') <= RangeLimit
  BY <1>2, <1>3, OneMoreOf
<1>5. SlotStates'
  BY <1>1 DEF PlayInv, PlayTyped, SlotStates, Index, ChunkStates, HasSlot
<1> QED BY <1>1, <1>4, <1>5 DEF SlotsBounded, RangeLimit

LEMMA WorkerHolds ==
  ASSUME PlayInv, NEW s \in Streams, NEW i \in Index(s), Worker(s, i)
  PROVE  ChunkKept
<1>1. chunk[s][i] \in Working /\ UNCHANGED <<streamStage, spawning>> /\ streamStage[s] \in {"run", "stop"}
  <2>1. chunk[s][i] \in Working
    BY DEF Worker, Acquire, FetchOnce, RefreshIfStale, Refreshed, FetchAgain, Put, Working
  <2> QED BY <2>1, WorkingStreams DEF Worker
<1>2. SeenTyped'
  <2>1. UNCHANGED seenSeq \/ \E n \in Nat : SeenAs(s, i, n)
    <3>1. seq[s] \in Nat
      BY DEF PlayInv, PlayTyped
    <3> QED BY <3>1 DEF Worker, Acquire, FetchOnce, RefreshIfStale, Refreshed, FetchAgain, Put, Forget, SeenAs
  <2> QED BY <2>1, SeenRests, SeenMoves
<1>3. CASE SlotsTaken < RangeLimit /\ Set(s, i, "asked")
  BY <1>1, <1>2, <1>3, SlotTaken, ChunkHolds DEF ChunkKept
<1>4. CASE \E to \in ChunkStates : (chunk[s][i] \in HasSlot \/ to \notin HasSlot) /\ Set(s, i, to)
  BY <1>1, <1>2, <1>4, ChunkMoves, ChunkHolds DEF ChunkKept
<1>5. \/ SlotsTaken < RangeLimit /\ Set(s, i, "asked")
      \/ \E to \in ChunkStates : (chunk[s][i] \in HasSlot \/ to \notin HasSlot) /\ Set(s, i, to)
  <2>1. CASE Acquire(s, i)
    BY <2>1 DEF Acquire, ChunkStates, HasSlot, Working
  <2>2. CASE FetchOnce(s, i)
    BY <2>2 DEF FetchOnce, ChunkStates, HasSlot, Working
  <2>3. CASE RefreshIfStale(s, i)
    BY <2>3 DEF RefreshIfStale, ChunkStates, HasSlot, Working
  <2>4. CASE Refreshed(s, i)
    BY <2>4 DEF Refreshed, ChunkStates, HasSlot, Working
  <2>5. CASE FetchAgain(s, i)
    BY <2>5 DEF FetchAgain, ChunkStates, HasSlot, Working
  <2>6. CASE Put(s, i)
    BY <2>6 DEF Put, ChunkStates, HasSlot, Working
  <2> QED BY <2>1, <2>2, <2>3, <2>4, <2>5, <2>6 DEF Worker
<1> QED BY <1>3, <1>4, <1>5

LEMMA WriterHolds ==
  ASSUME PlayInv, NEW s \in Streams, StreamRemaining(s)
  PROVE  /\ ChunkKept /\ PlacesBounded' /\ UNCHANGED <<seenSeq, seq, spawning>>
         /\ streamStage' \in [Streams -> StreamStages]
         /\ next' \in [Streams -> Nat] /\ \A t \in Streams : next'[t] \in Index(t)
<1>1. /\ streamStage[s] = "run" /\ UNCHANGED <<seenSeq, seq, spawning>>
      /\ next \in [Streams -> Nat] /\ next[s] \in Index(s) /\ streamStage \in [Streams -> StreamStages]
  BY DEF StreamRemaining, PlayInv, PlayTyped
<1>2. UNCHANGED streamStage \/ Goto(s, "stop")
  BY DEF StreamRemaining, Take, TakePending, CopyChunk
<1>3. \A t \in Streams : streamStage'[t] = IF t = s /\ Goto(s, "stop") THEN "stop" ELSE streamStage[t]
  BY <1>1, <1>2 DEF Goto
<1>4. streamStage' \in [Streams -> StreamStages]
  BY <1>1, <1>2 DEF Goto, StreamStages, Placed
<1>5. PlacesBounded'
  BY <1>1, <1>3, FewerPlaces DEF Placed
<1>6. next' \in [Streams -> Nat] /\ \A t \in Streams : next'[t] \in Index(t)
  <2>1. CASE UNCHANGED next
    BY <2>1 DEF PlayInv, PlayTyped, Index
  <2>2. CASE next[s] < Chunks[s] /\ next' = [next EXCEPT ![s] = @ + 1]
    <3>1. Chunks[s] \in Nat
      BY DEF PlayInv, RangeAssumption
    <3>2. \A t \in Streams : next'[t] = IF t = s THEN next[s] + 1 ELSE next[t]
      BY <1>1, <2>2
    <3>3. next[s] + 1 \in Index(s)
      BY <1>1, <2>2, <3>1 DEF Index
    <3>4. next' \in [Streams -> Nat]
      BY <1>1, <2>2
    <3> QED BY <3>2, <3>3, <3>4 DEF PlayInv, PlayTyped, Index
  <2> QED BY <2>1, <2>2 DEF StreamRemaining, Take, TakePending, CopyChunk
<1>7. UNCHANGED chunk \/ \E x \in Index(s), to \in ChunkStates : Set(s, x, to) /\ (chunk[s][x] \in HasSlot \/ to \notin HasSlot)
  <2>1. ASSUME NEW i \in Index(s), Take(s, i)
        PROVE  \E to \in ChunkStates : Set(s, i, to) /\ (chunk[s][i] \in HasSlot \/ to \notin HasSlot)
    <3>1. chunk[s][i] \in {"queued", "failed"}
      BY <2>1 DEF Take, Being
    <3>2. CASE chunk[s][i] = "queued"
      BY <2>1, <3>2 DEF Take, ChunkStates, HasSlot
    <3>3. CASE chunk[s][i] = "failed"
      BY <2>1, <3>3 DEF Take, ChunkStates, HasSlot, Working
    <3> QED BY <3>1, <3>2, <3>3
  <2>2. CASE TakePending(s)
    BY <1>1, <2>2 DEF TakePending, ChunkStates, HasSlot, Working
  <2>3. CASE CopyChunk(s)
    BY <1>1, <2>3 DEF CopyChunk, ChunkStates, HasSlot, Working
  <2> QED BY <2>1, <2>2, <2>3 DEF StreamRemaining
<1>8. SlotsBounded' /\ SlotStates' /\ \A t \in Streams \ {s} : \A j \in Index(t) : chunk'[t][j] = chunk[t][j]
  <2>1. CASE UNCHANGED chunk
    BY <1>1, <2>1, ChunksRest
  <2> QED BY <1>7, <2>1, ChunkMoves
<1>9. HoldsNothingEarly(s)' /\ HoldsNothingLate(s)'
  BY <1>1, <1>3 DEF HoldsNothingEarly, HoldsNothingLate
<1>10. OthersBe(s)
  BY <1>1, <1>3, <1>8 DEF OthersBe
<1> QED BY <1>1, <1>4, <1>5, <1>6, <1>8, <1>9, <1>10, OthersHold, SeenRests DEF ChunkKept

LEMMA StopHolds ==
  ASSUME PlayInv, NEW s \in Streams, StopStream(s)
  PROVE  ChunkKept /\ PlacesBounded' /\ streamStage' \in [Streams -> StreamStages] /\ UNCHANGED <<seenSeq, seq, spawning>>
<1>1. /\ chunk' = [chunk EXCEPT ![s] = [i \in Index(s) |-> "done"]] /\ UNCHANGED <<seenSeq, seq, spawning>>
      /\ ChunkTables /\ s \notin spawning
      /\ Goto(s, "over") /\ streamStage \in [Streams -> StreamStages]
  BY DEF StopStream, PlayInv, LinkInv, PlayTyped
<1>2. \A t \in Streams : chunk'[t] = IF t = s THEN [i \in Index(s) |-> "done"] ELSE chunk[t]
  BY <1>1 DEF ChunkTables
<1>3. /\ \A t \in Streams \ {s} : \A i \in Index(t) : chunk'[t][i] = chunk[t][i]
      /\ \A i \in Index(s) : chunk'[s][i] = "done"
  BY <1>2
<1>4. SlotsBounded'
  BY <1>3, FewerSlots DEF HasSlot
<1>5. SlotStates'
  BY <1>3 DEF PlayInv, PlayTyped, SlotStates, ChunkStates, Index
<1>6. \A t \in Streams : streamStage'[t] = IF t = s THEN "over" ELSE streamStage[t]
  BY <1>1 DEF Goto
<1>7. streamStage' \in [Streams -> StreamStages]
  BY <1>1 DEF Goto, StreamStages
<1>8. PlacesBounded'
  BY <1>6, FewerPlaces DEF Placed, Connecting
<1>9. HoldsNothingEarly(s)' /\ HoldsNothingLate(s)'
  BY <1>1, <1>3, <1>6 DEF HoldsNothingEarly, HoldsNothingLate, Being, HasSlot, Working, Index
<1>10. OthersBe(s)
  BY <1>1, <1>3, <1>6 DEF OthersBe
<1> QED BY <1>1, <1>4, <1>5, <1>7, <1>8, <1>9, <1>10, OthersHold, SeenRests DEF ChunkKept

\* Before it streams a handler moves from stage to stage, and takes a place only
\* where one is free.
LEMMA EarlyHolds ==
  ASSUME PlayInv, NEW s \in Streams,
         HandleStrm(s) \/ Route(s) \/ Enter(s) \/ LeaveWait(s) \/ Begin(s) \/ FetchUpstreamWithRefresh(s)
  PROVE  /\ ChunkKept /\ PlacesBounded' /\ UNCHANGED <<chunkVars>>
         /\ streamStage' \in [Streams -> StreamStages]
<1>1. UNCHANGED <<chunk, spawning, seenSeq, seq, next>> /\ streamStage \in [Streams -> StreamStages]
  BY DEF HandleStrm, Route, Enter, LeaveWait, Begin, FetchUpstreamWithRefresh, chunkVars, PlayInv, PlayTyped
<1>2. /\ streamStage[s] \notin {"run", "stop", "over"}
      /\ \E to \in StreamStages \ {"run", "stop"} :
           Goto(s, to) /\ (to \in Placed => streamStage[s] \in Placed \/ (to = "enter" /\ ~Full))
  <2>1. CASE HandleStrm(s)
    BY <2>1 DEF HandleStrm, StreamStages, Placed, Connecting
  <2>2. CASE Route(s)
    BY <2>2 DEF Route, StreamStages, Placed, Connecting
  <2>3. CASE Enter(s)
    BY <2>3 DEF Enter, StreamStages, Placed, Connecting
  <2>4. CASE LeaveWait(s)
    BY <2>4 DEF LeaveWait, StreamStages, Placed, Connecting
  <2>5. CASE Begin(s)
    BY <2>5 DEF Begin, Goto, StreamStages, Placed, Connecting
  <2>6. CASE Connect(s)
    BY <2>6 DEF Connect, StreamStages, Placed, Connecting
  <2>7. CASE Renewed(s)
    BY <2>7 DEF Renewed, StreamStages, Placed, Connecting
  <2> QED BY <2>1, <2>2, <2>3, <2>4, <2>5, <2>6, <2>7 DEF FetchUpstreamWithRefresh
<1>3. PICK to \in StreamStages \ {"run", "stop"} :
        Goto(s, to) /\ (to \in Placed => streamStage[s] \in Placed \/ (to = "enter" /\ ~Full))
  BY <1>2
<1>4. \A t \in Streams : streamStage'[t] = IF t = s THEN to ELSE streamStage[t]
  BY <1>1, <1>3 DEF Goto
<1>5. streamStage' \in [Streams -> StreamStages]
  BY <1>1, <1>3 DEF Goto
<1>6. PlacesBounded'
  <2>1. CASE to \in Placed => streamStage[s] \in Placed
    BY <1>4, <2>1, FewerPlaces
  <2>2. CASE ~Full
    <3>1. InStage(Placed)' \subseteq InStage(Placed) \cup {s}
      BY <1>4 DEF InStage
    <3>2. /\ IsFiniteSet(InStage(Placed)) /\ ConcurrencyLimit + SoftOverLimit \in Nat
          /\ Cardinality(InStage(Placed)) < ConcurrencyLimit + SoftOverLimit
      <4>1. IsFiniteSet(InStage(Placed)) /\ ConcurrencyLimit + SoftOverLimit \in Nat
        BY PlayLimits DEF PlayInv, PlacesBounded
      <4>2. Cardinality(InStage(Placed)) \in Nat
        BY <4>1, FS_CardinalityType
      <4> QED BY <2>2, <4>1, <4>2 DEF Full
    <3> QED BY <3>1, <3>2, OneMoreOf DEF PlacesBounded
  <2> QED BY <1>3, <2>1, <2>2
<1>7. NothingHeld' /\ \A t \in Streams : HoldsNothingEarly(t)'
  BY <1>1, <1>2, <1>3, EarlyStep
<1> QED BY <1>1, <1>5, <1>6, <1>7, ChunksRest DEF ChunkKept, chunkVars

\* The first piece is copied: the stream streams, or is over.
LEMMA StreamHolds ==
  ASSUME PlayInv, NEW s \in Streams, StreamRangeProxy(s)
  PROVE  /\ ChunkKept /\ PlacesBounded' /\ UNCHANGED <<chunk, seenSeq, seq, next>>
         /\ streamStage' \in [Streams -> StreamStages] /\ spawning' \subseteq Streams
<1>1. /\ UNCHANGED <<chunk, seenSeq, seq, next>> /\ streamStage \in [Streams -> StreamStages] /\ streamStage[s] = "body"
      /\ s \notin spawning /\ spawning \subseteq Streams
      /\ \A i \in Index(s) : chunk[s][i] = "none"
  BY DEF StreamRangeProxy, PlayInv, PlayTyped, HoldsNothingEarly
<1>2. PICK to \in {"run", "over"} : Goto(s, to) /\ spawning' = IF to = "run" THEN spawning \cup {s} ELSE spawning
  BY DEF StreamRangeProxy
<1>3. \A t \in Streams : streamStage'[t] = IF t = s THEN to ELSE streamStage[t]
  BY <1>1, <1>2 DEF Goto
<1>4. streamStage' \in [Streams -> StreamStages] /\ spawning' \subseteq Streams
  BY <1>1, <1>2 DEF Goto, StreamStages, Placed
<1>5. PlacesBounded'
  BY <1>1, <1>3, FewerPlaces DEF Placed
<1>6. HoldsNothingEarly(s)' /\ HoldsNothingLate(s)'
  BY <1>1, <1>2, <1>3 DEF HoldsNothingEarly, HoldsNothingLate, Being, HasSlot, Working, Index
<1>7. OthersBe(s)
  BY <1>1, <1>2, <1>3 DEF OthersBe
<1> QED BY <1>1, <1>4, <1>5, <1>6, <1>7, OthersHold, ChunksRest DEF ChunkKept

LinksTyped == cached \in BOOLEAN /\ failed \in BOOLEAN /\ asking \in [Streams -> Looks]
LEMMA LinksKeepType ==
  ASSUME PlayInv, [RangeNext]_rangeVars PROVE LinksTyped'
<1>1. LinksTyped
  BY DEF PlayInv, PlayTyped, LinksTyped
<1>2. ASSUME NEW s \in Streams, HandleStrm(s) \/ Route(s) \/ FetchUpstreamWithRefresh(s) PROVE LinksTyped'
  BY <1>1, <1>2 DEF LinksTyped, Looks, HandleStrm, Route, FetchUpstreamWithRefresh, Connect, Renewed, Refresh, InvalidateDownloadURL, Asks, linkVars
<1>3. ASSUME NEW s \in Streams, Resolve(s) PROVE LinksTyped'
  <2>1. CASE Answer(s)
    BY <1>1, <2>1 DEF LinksTyped, Looks, Answer
  <2>2. CASE Look(s) \/ Do(s)
    BY <1>1, <2>2 DEF LinksTyped, Looks, Look, Do, Asks
  <2>3. CASE Keep(s)
    BY <1>1, <2>3 DEF LinksTyped, Looks, Keep, Asks, CacheExpires
  <2> QED BY <1>3, <2>1, <2>2, <2>3 DEF Resolve, ResolveDownloadUrl
<1>4. ASSUME NEW s \in Streams, NEW i \in Index(s), Worker(s, i) PROVE LinksTyped'
  BY <1>1, <1>4 DEF LinksTyped, Looks, Worker, Acquire, FetchOnce, RefreshIfStale, Refreshed, FetchAgain, Put, Refresh, InvalidateDownloadURL, Asks, linkVars
<1>5. ASSUME UNCHANGED linkVars PROVE LinksTyped'
  BY <1>1, <1>5 DEF LinksTyped, linkVars
<1> QED BY <1>2, <1>3, <1>4, <1>5
  DEF RangeNext, Handler, Enter, LeaveWait, Begin, StreamRangeProxy, StreamRemaining, StopStream, Spawn, ClientLeaves, rangeVars

LEMMA PlayStep == PlayInv /\ [RangeNext]_rangeVars => PlayInv'
<1> SUFFICES ASSUME PlayInv, [RangeNext]_rangeVars PROVE PlayInv'
  OBVIOUS
<1>1. LinkInv' /\ LinksTyped' /\ RangeAssumption'
  <2>1. LinkInv'
    BY LinkStep DEF PlayInv
  <2> QED BY <2>1, LinksKeepType DEF PlayInv, RangeAssumption
<1>2. /\ streamStage \in [Streams -> StreamStages] /\ gone \subseteq Streams /\ spawning \subseteq Streams
      /\ next \in [Streams -> Nat] /\ \A s \in Streams : next[s] \in Index(s)
      /\ \A s \in Streams : seq[s] \in Nat
  BY DEF PlayInv, PlayTyped
<1> DEFINE NextTyped == next' \in [Streams -> Nat] /\ \A s \in Streams : next'[s] \in Index(s)
           StageTyped == streamStage' \in [Streams -> StreamStages] /\ spawning' \subseteq Streams
           SeqTyped == \A s \in Streams : seq'[s] \in Nat
           Parts == ChunkKept /\ PlacesBounded' /\ NextTyped /\ StageTyped /\ SeqTyped
<1>3. UNCHANGED next => NextTyped
  BY <1>2 DEF Index
<1>4. gone' \subseteq Streams
  BY <1>2 DEF RangeNext, HandleStrm, Handler, Resolve, Spawn, ClientLeaves, Worker, Route, Enter, LeaveWait, Begin,
              FetchUpstreamWithRefresh, StreamRangeProxy, StreamRemaining, StopStream, rangeVars
<1>5. UNCHANGED streamStage => PlacesBounded'
  BY FewerPlaces
<1>6. ASSUME UNCHANGED <<streamStage, chunkVars>> PROVE Parts
  <2>1. NothingHeld' /\ \A t \in Streams : HoldsNothingEarly(t)'
    BY <1>6 DEF PlayInv, NothingHeld, HoldsNothingEarly, HoldsNothingLate, Being, Index, chunkVars
  <2> QED BY <1>2, <1>3, <1>5, <1>6, <2>1, ChunksRest DEF ChunkKept, chunkVars
<1>7. ASSUME NEW s \in Streams, Resolve(s) \/ ClientLeaves(s) PROVE Parts
  BY <1>6, <1>7 DEF Resolve, ClientLeaves
<1>8. ASSUME NEW s \in Streams, HandleStrm(s) \/ Route(s) \/ Enter(s) \/ LeaveWait(s) \/ Begin(s) \/ FetchUpstreamWithRefresh(s)
      PROVE  Parts
  BY <1>2, <1>3, <1>8, EarlyHolds DEF chunkVars
<1>9. ASSUME NEW s \in Streams, StreamRangeProxy(s) PROVE Parts
  BY <1>2, <1>3, <1>9, StreamHolds
<1>10. ASSUME NEW s \in Streams, StreamRemaining(s) PROVE Parts
  BY <1>2, <1>10, WriterHolds
<1>11. ASSUME NEW s \in Streams, StopStream(s) PROVE Parts
  BY <1>2, <1>3, <1>11, StopHolds DEF StopStream
<1>12. ASSUME NEW s \in Streams, Spawn(s) PROVE Parts
  <2>1. UNCHANGED <<streamStage, next, seq>> /\ spawning' \subseteq Streams
    BY <1>2, <1>12 DEF Spawn
  <2> QED BY <1>2, <1>3, <1>5, <1>12, <2>1, SpawnKeeps
<1>13. ASSUME NEW s \in Streams, NEW i \in Index(s), Worker(s, i) PROVE Parts
  <2>1. UNCHANGED <<streamStage, next, spawning>>
    BY <1>13 DEF Worker
  <2>2. SeqTyped
    <3>1. UNCHANGED seq \/ seq' = [seq EXCEPT ![s] = @ + 1]
      BY <1>13 DEF Worker, Acquire, FetchOnce, RefreshIfStale, Refreshed, FetchAgain, Put
    <3>2. seq = [t \in Streams |-> seq[t]]
      BY DEF PlayInv, LinkInv, ChunkTables
    <3>3. \A t \in Streams : seq'[t] = seq[t] \/ seq'[t] = seq[t] + 1
      BY <3>1, <3>2
    <3> QED BY <1>2, <3>3
  <2> QED BY <1>2, <1>3, <1>5, <1>13, <2>1, <2>2, WorkerHolds
<1>14. Parts
  BY <1>6, <1>7, <1>8, <1>9, <1>10, <1>11, <1>12, <1>13 DEF RangeNext, Handler, rangeVars
<1>15. PlayTyped'
  BY <1>1, <1>4, <1>14 DEF PlayTyped, LinksTyped, ChunkKept, SlotStates, SeenTyped, Index
<1> QED BY <1>1, <1>14, <1>15 DEF PlayInv, ChunkKept

LEMMA PlayAlways == RangeAssumption /\ RangeSpec => []PlayInv
BY PlayStart, PlayStep, PTL DEF RangeSpec

\* The limits of an account hold whatever its players do: no more ranges are asked
\* for at a time than it has slots (range_limiter.go), and no more streams are
\* proxied than it has places, the two more for disc images counted in
\* (service/rate/bottleneck.go).
THEOREM LimitsHold ==
  RangeAssumption /\ RangeSpec =>
    [](SlotsTaken <= RangeLimit /\ Cardinality(InStage(Placed)) <= ConcurrencyLimit + SoftOverLimit)
<1>1. PlayInv => SlotsTaken <= RangeLimit /\ Cardinality(InStage(Placed)) <= ConcurrencyLimit + SoftOverLimit
  BY DEF PlayInv, SlotsBounded, PlacesBounded, SlotsTaken, Slots
<1> QED BY <1>1, PlayAlways, PTL

\* A stream that is over has left nothing behind, whatever failed and whenever its
\* player left: no worker runs, none will be started, and none of its chunks keeps
\* a connection or a slot (the deferred function of streamRemaining, range_proxy.go).
THEOREM StreamHoldsNothing == RangeAssumption /\ RangeSpec => []NothingHeld
<1>1. PlayInv => NothingHeld
  BY DEF PlayInv
<1> QED BY <1>1, PlayAlways, PTL

\* Every stream, every chunk of it and its link keep their types, for any number of
\* players, chunks and workers; the chunk to write next is one the stream has.
THEOREM PlaybackTyped == RangeAssumption /\ RangeSpec => []RangeTypeOK
<1>1. ASSUME PlayInv PROVE RangeTypeOK
  <2>1. ASSUME NEW s \in Streams
        PROVE  /\ chunk[s] \in [Index(s) -> ChunkStates] /\ seenSeq[s] \in [Index(s) -> Nat]
               /\ seq[s] \in Nat /\ next[s] \in 1 .. Chunks[s] + 1
    <3>1. chunk[s] = [i \in Index(s) |-> chunk[s][i]] /\ seenSeq[s] = [i \in Index(s) |-> seenSeq[s][i]]
      BY <1>1, <2>1 DEF PlayInv, LinkInv, ChunkTables
    <3>2. (\A i \in Index(s) : chunk[s][i] \in ChunkStates /\ seenSeq[s][i] \in Nat) /\ seq[s] \in Nat
      BY <1>1, <2>1 DEF PlayInv, PlayTyped
    <3>3. next[s] \in Index(s) /\ Chunks[s] \in Nat
      BY <1>1, <2>1 DEF PlayInv, PlayTyped, RangeAssumption
    <3>4. next[s] \in 1 .. Chunks[s] + 1
      BY <3>3 DEF Index
    <3> QED BY <3>1, <3>2, <3>4
  <2> QED BY <1>1, <2>1 DEF PlayInv, PlayTyped, RangeTypeOK
<1> QED BY <1>1, PlayAlways, PTL
=============================================================================
