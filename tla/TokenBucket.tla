---------------------------- MODULE TokenBucket ----------------------------
(* What a token bucket promises its callers, whatever queues and goroutines *)
(* stand behind it: a token is earned with the time up to the capacity, one *)
(* who asks gets at most one of them, and a token that was given is taken,  *)
(* or lost with a request that has ended.  A token that was taken is kept   *)
(* or given back to this bucket.                                            *)
EXTENDS Integers

CONSTANTS Callers,    \* those who ask
          Size        \* the tokens that can be saved up

VARIABLES level,      \* tokens at hand
          asking,     \* those who ask
          given,      \* those a token waits for
          holding,    \* those who have taken one
          ended       \* those whose request has ended without one

bucketVars == <<level, asking, given, holding, ended>>

BucketInit ==
  /\ level = Size
  /\ asking = {} /\ given = {} /\ holding = {} /\ ended = {}

\* Time has passed.
Earn ==
  /\ level < Size
  /\ level' = level + 1
  /\ UNCHANGED <<asking, given, holding, ended>>

\* A caller asks, and is served at once when there is a token.
New(c) == c \notin asking \cup given \cup holding \cup ended
Ask(c) ==
  /\ New(c)
  /\ asking' = asking \cup {c}
  /\ UNCHANGED <<level, given, holding, ended>>
AskAndGet(c) ==
  /\ New(c) /\ level > 0
  /\ level' = level - 1
  /\ holding' = holding \cup {c}
  /\ UNCHANGED <<asking, given, ended>>

\* One of those who ask is served; who comes first is not promised.
Serve(c) ==
  /\ level > 0 /\ c \in asking
  /\ level' = level - 1
  /\ asking' = asking \ {c}
  /\ given' = given \cup {c}
  /\ UNCHANGED <<holding, ended>>
Take(c) ==
  /\ c \in given
  /\ given' = given \ {c}
  /\ holding' = holding \cup {c}
  /\ UNCHANGED <<level, asking, ended>>

\* A request ends: a token that waits for the caller is lost, one that it has
\* taken is given back.
Leave(c) ==
  /\ c \in asking \cup given
  /\ asking' = asking \ {c}
  /\ given' = given \ {c}
  /\ ended' = ended \cup {c}
  /\ UNCHANGED <<level, holding>>
GiveBack(c) ==
  /\ c \in holding
  /\ level' = IF level < Size THEN level + 1 ELSE level
  /\ holding' = holding \ {c}
  /\ ended' = ended \cup {c}
  /\ UNCHANGED <<asking, given>>

BucketNext ==
  \/ Earn
  \/ \E c \in Callers :
       Ask(c) \/ AskAndGet(c) \/ Serve(c) \/ Take(c) \/ Leave(c) \/ GiveBack(c)

BucketSpec == BucketInit /\ [][BucketNext]_bucketVars
=============================================================================
