---------------------------- MODULE RangeProxy ----------------------------
(* A request of a player for a STRM (handler/strm.go): the direct link of    *)
(* its file (service/strm/router.go), the decision to redirect or to proxy,  *)
(* the places an account has for proxied streams (service/rate/bottleneck.go *)
(* and a count), the connection to the CDN with new links in between, and    *)
(* the rest of the stream in chunks fetched side by side and written in      *)
(* order (handler/range_proxy.go), each under one of the slots an account    *)
(* has for ranges (handler/range_limiter.go). All requests are for one file, *)
(* by one account and one player: they share its link and its slots.         *)
EXTENDS Naturals, FiniteSets

CONSTANTS Streams,       \* requests of players
          Seek,          \* those for a disc image, which must be proxied
          Chunks,        \* per stream, the chunks after the first piece
          ProxyConcurrency, \* the setting, for workers of a stream and slots; one means a single connection
          ConcurrencyLimit, \* places for proxied streams
          SoftOverLimit  \* places more, for disc images only (2)
Parallel == IF ProxyConcurrency > 4 THEN 4 ELSE ProxyConcurrency
RangeLimit == IF ProxyConcurrency > 8 THEN 8 ELSE ProxyConcurrency
RangeAssumption ==
  /\ Seek \subseteq Streams /\ Chunks \in [Streams -> Nat \ {0}]
  /\ ProxyConcurrency \in Nat \ {0, 1} /\ {ConcurrencyLimit, SoftOverLimit} \subseteq Nat
  /\ ConcurrencyLimit + SoftOverLimit > 0

VARIABLES
  streamStage,   \* per stream, where its handler is
  gone,          \* the streams whose player has left
  cached,        \* the cache holds a link
  failed,        \* the cache holds a failure
  asking,        \* per stream, where its look for a link is
  spawning,      \* the streams that still start workers
  chunk,         \* per stream and chunk, where its worker or its answer is
  seenSeq, seq,  \* the generation of the link a chunk used, and the stream's own
  next           \* per stream, the chunk to write next
linkVars == <<cached, failed, asking>>
chunkVars == <<spawning, chunk, seenSeq, seq, next>>
rangeVars == <<streamStage, gone, linkVars, chunkVars>>

Index(s) == 1 .. Chunks[s]
Connecting == {"open", "renew", "retry", "renewLast", "retryLast"}
Placed == Connecting \cup {"enter", "body", "run", "stop"}
Counted == Placed \ {"enter"}
StreamStages == Placed \cup {"idle", "link", "wait", "queue", "over"}
Working == {"slot", "asked", "stale", "lock", "again", "open", "error"}   \* its worker runs
HasSlot == {"asked", "stale", "lock", "again", "open", "queued", "pending", "copy"}
ChunkStates == Working \cup HasSlot \cup {"none", "failed", "pendingError", "done"}
Looks == {"none", "look", "join", "call", "wait", "won", "lost", "link", "error"}

RangeTypeOK ==
  /\ streamStage \in [Streams -> StreamStages] /\ gone \subseteq Streams /\ spawning \subseteq Streams
  /\ cached \in BOOLEAN /\ failed \in BOOLEAN /\ asking \in [Streams -> Looks]
  /\ \A s \in Streams : /\ chunk[s] \in [Index(s) -> ChunkStates]
                        /\ seenSeq[s] \in [Index(s) -> Nat] /\ seq[s] \in Nat
                        /\ next[s] \in 1 .. Chunks[s] + 1

RangeInit ==
  /\ streamStage = [s \in Streams |-> "idle"] /\ gone = {} /\ spawning = {}
  /\ cached = FALSE /\ failed = FALSE /\ asking = [s \in Streams |-> "none"]
  /\ chunk = [s \in Streams |-> [i \in Index(s) |-> "none"]]
  /\ seenSeq = [s \in Streams |-> [i \in Index(s) |-> 0]]
  /\ seq = [s \in Streams |-> 0] /\ next = [s \in Streams |-> 1]

Goto(s, where) == streamStage' = [streamStage EXCEPT ![s] = where]
StreamCancelled(s) == s \in gone \/ streamStage[s] \in {"stop", "over"}
ClientLeaves(s) ==
  /\ streamStage[s] \notin {"idle", "over"} /\ gone' = gone \cup {s}
  /\ UNCHANGED <<streamStage, linkVars, chunkVars>>

-----------------------------------------------------------------------------
(* The direct link: ResolveDownloadUrl.                                      *)

Asks(s, where) == asking' = [asking EXCEPT ![s] = where]
\* What is kept may have ended when it is looked at, and is removed then.
Look(s) ==
  /\ asking[s] = "look"
  /\ \/ cached /\ Asks(s, "link") /\ UNCHANGED <<cached, failed>>
     \/ failed /\ cached' = FALSE /\ Asks(s, "error") /\ UNCHANGED failed
     \/ cached' = FALSE /\ failed' = FALSE /\ Asks(s, "join")
Caller == {s \in Streams : asking[s] = "call"}
\* callGroup.Do: the first one calls, the others wait for its answer.
Do(s) ==
  /\ asking[s] = "join"
  /\ Asks(s, IF Caller = {} THEN "call" ELSE "wait")
  /\ UNCHANGED <<cached, failed>>
\* The call runs under the context of the one who made it.
Answer(s) ==
  /\ asking[s] = "call"
  /\ \E result \in {"won", "lost"} :
       asking' = [t \in Streams |-> IF t = s \/ asking[t] = "wait" THEN result ELSE asking[t]]
  /\ UNCHANGED <<cached, failed>>
\* computeCdnURLCacheExpires: a link that ends within the minute is not kept.
CacheExpires == {cached, TRUE}
Keep(s) ==
  \/ /\ asking[s] = "won" /\ cached' \in CacheExpires
     /\ Asks(s, "link") /\ UNCHANGED failed
  \/ asking[s] = "lost" /\ failed' = TRUE /\ Asks(s, "error") /\ UNCHANGED cached
ResolveDownloadUrl(s) == Look(s) \/ Do(s) \/ Answer(s) \/ Keep(s)
Resolve(s) == ResolveDownloadUrl(s) /\ UNCHANGED <<streamStage, gone, chunkVars>>
InvalidateDownloadURL == cached' = FALSE /\ failed' = FALSE
\* The new link a stream wants: the old one leaves the cache first.
Refresh(s) == InvalidateDownloadURL /\ Asks(s, "look")

-----------------------------------------------------------------------------
(* HandleStrm: route, place, connection.                                     *)

HandleStrm(s) ==
  /\ streamStage[s] = "idle" /\ Goto(s, "link") /\ Asks(s, "look")
  /\ UNCHANGED <<gone, cached, failed, chunkVars>>

InStage(set) == {s \in Streams : streamStage[s] \in set}
Hits == Cardinality(InStage(Counted)) >= ConcurrencyLimit
\* A mode, the client or the format asks for a proxy, or nothing does.
DecideRoute(s) == IF s \in Seek THEN {"proxy"} ELSE {"proxy", "redirect"}
\* A redirect needs a link that answers.
RedirectCheck(route, answers) == IF route = "redirect" /\ ~answers THEN "proxy" ELSE route
\* A disc image queues for a place; anything else is redirected when the
\* places of plain streams are taken.
Route(s) ==
  /\ streamStage[s] = "link" /\ asking[s] \in {"link", "error"} /\ Asks(s, "none")
  /\ \/ asking[s] = "error" /\ Goto(s, "over")
     \/ /\ asking[s] = "link"
        /\ \E route \in DecideRoute(s), answers \in BOOLEAN :
             Goto(s, IF RedirectCheck(route, answers) = "redirect" THEN "over"
                     ELSE IF s \in Seek THEN "queue" ELSE IF Hits THEN "over" ELSE "wait")
  /\ UNCHANGED <<gone, cached, failed, chunkVars>>
Full == Cardinality(InStage(Placed)) >= ConcurrencyLimit + SoftOverLimit
Enter(s) ==
  /\ streamStage[s] \in {"wait", "queue"} /\ ~Full
  /\ Goto(s, "enter") /\ UNCHANGED <<gone, linkVars, chunkVars>>
\* After half a second without a place a plain stream is redirected. The queue
\* of the others ends with the player: what is then fetched fails at once.
LeaveWait(s) ==
  /\ (streamStage[s] = "wait" /\ (Full \/ s \in gone)) \/ (streamStage[s] = "queue" /\ s \in gone)
  /\ Goto(s, "over") /\ UNCHANGED <<gone, linkVars, chunkVars>>
\* A HEAD request is answered without a connection.
Begin(s) ==
  /\ streamStage[s] = "enter" /\ streamStage' \in {[streamStage EXCEPT ![s] = to] : to \in {"open", "over"}}
  /\ UNCHANGED <<gone, linkVars, chunkVars>>

\* fetchUpstreamWithRefresh: a connection that fails gets a new link once, and
\* an answer that says the link has ended gets one more.
Connect(s) ==
  \/ /\ streamStage[s] \in {"open", "retry", "retryLast"} /\ s \notin gone /\ Goto(s, "body")
     /\ UNCHANGED linkVars
  \/ /\ streamStage[s] = "open" /\ s \notin gone /\ Goto(s, "renew") /\ Refresh(s)
  \/ /\ streamStage[s] \in {"open", "retry"} /\ Goto(s, "renewLast") /\ Refresh(s)
  \/ /\ streamStage[s] = "open" => s \in gone
     /\ streamStage[s] \in {"open", "retry", "retryLast"} /\ Goto(s, "over")
     /\ UNCHANGED linkVars
Renewed(s) ==
  /\ streamStage[s] \in {"renew", "renewLast"} /\ asking[s] \in {"link", "error"}
  /\ \/ asking[s] = "link" /\ Goto(s, IF streamStage[s] = "renew" THEN "retry" ELSE "retryLast")
     \/ asking[s] = "error" /\ Goto(s, "over")
  /\ Asks(s, "none") /\ UNCHANGED <<cached, failed>>
FetchUpstreamWithRefresh(s) == (Connect(s) \/ Renewed(s)) /\ UNCHANGED <<gone, chunkVars>>

\* The answer is copied as it comes, or its first piece only and the rest in
\* chunks; the copy fails when the player has left.
StreamRangeProxy(s) ==
  /\ streamStage[s] = "body"
  /\ \/ Goto(s, "over") /\ UNCHANGED spawning
     \/ Goto(s, "run") /\ spawning' = spawning \cup {s}
  /\ UNCHANGED <<gone, linkVars, chunk, seenSeq, seq, next>>

-----------------------------------------------------------------------------
(* The workers of a stream.                                                  *)

Set(s, i, to) == chunk' = [chunk EXCEPT ![s][i] = to]
Being(s, states) == {i \in Index(s) : chunk[s][i] \in states}
SlotsTaken == Cardinality(UNION {{s} \X Being(s, HasSlot) : s \in Streams})

\* A freed place in the semaphore and a cancelled context: either may be taken.
Spawn(s) ==
  /\ s \in spawning
  /\ \/ /\ Cardinality(Being(s, Working)) < Parallel /\ Being(s, {"none"}) # {}
        /\ \E i \in Being(s, {"none"}) :
             (\A j \in Being(s, {"none"}) : i <= j) /\ Set(s, i, "slot")
        /\ UNCHANGED spawning
     \/ /\ StreamCancelled(s) \/ Being(s, {"none"}) = {}
        /\ spawning' = spawning \ {s} /\ UNCHANGED chunk
  /\ UNCHANGED <<streamStage, gone, linkVars, seenSeq, seq, next>>

\* The ten seconds end only where the slots stay taken.
Acquire(s, i) ==
  /\ chunk[s][i] = "slot"
  /\ \/ /\ SlotsTaken < RangeLimit /\ Set(s, i, "asked")
        /\ seenSeq' = [seenSeq EXCEPT ![s][i] = seq[s]]
     \/ /\ SlotsTaken >= RangeLimit \/ StreamCancelled(s)
        /\ Set(s, i, "error") /\ UNCHANGED seenSeq
  /\ UNCHANGED linkVars /\ UNCHANGED seq
\* The answer must be the range asked for; some failures are worth a new link.
\* Once an answer is there, what was seen when it was asked for is of no use.
Forget(s, i) == seenSeq' = [seenSeq EXCEPT ![s][i] = 0]
FetchOnce(s, i) ==
  /\ chunk[s][i] = "asked" /\ UNCHANGED <<linkVars, seq>>
  /\ \/ ~StreamCancelled(s) /\ Set(s, i, "open") /\ Forget(s, i)
     \/ ~StreamCancelled(s) /\ Set(s, i, "stale") /\ UNCHANGED seenSeq
     \/ Set(s, i, "error") /\ Forget(s, i)
\* Mutant: whoever gets the lock asks for a new link.
RefreshIfStaleAlways(s, i) ==
  /\ chunk[s][i] = "stale" /\ Being(s, {"lock"}) = {}
  /\ Refresh(s) /\ Set(s, i, "lock") /\ UNCHANGED <<seenSeq, seq>>
\* One at a time; a link that is newer than the one that failed is used as it is.
RefreshIfStale(s, i) ==
  /\ chunk[s][i] = "stale" /\ Being(s, {"lock"}) = {}
  /\ \/ seq[s] # seenSeq[s][i] /\ Set(s, i, "again") /\ Forget(s, i) /\ UNCHANGED linkVars
     \/ seq[s] = seenSeq[s][i] /\ Set(s, i, "lock") /\ Refresh(s) /\ UNCHANGED seenSeq
  /\ UNCHANGED seq
Refreshed(s, i) ==
  /\ chunk[s][i] = "lock" /\ asking[s] \in {"link", "error"}
  /\ \/ /\ asking[s] = "link" /\ Set(s, i, "again")
        /\ seq' = [seq EXCEPT ![s] = @ + 1]
     \/ asking[s] = "error" /\ Set(s, i, "error") /\ UNCHANGED seq
  /\ Asks(s, "none") /\ Forget(s, i) /\ UNCHANGED <<cached, failed>>
FetchAgain(s, i) ==
  /\ chunk[s][i] = "again"
  /\ (~StreamCancelled(s) /\ Set(s, i, "open")) \/ Set(s, i, "error")
  /\ UNCHANGED <<linkVars, seenSeq, seq>>
\* Mutant: the answer is put into the channel whatever happens to the stream.
PutAlways(s, i) ==
  /\ chunk[s][i] \in {"open", "error"} /\ UNCHANGED <<linkVars, seenSeq, seq>>
  /\ Cardinality(Being(s, {"queued", "failed"})) < Parallel
  /\ Set(s, i, IF chunk[s][i] = "open" THEN "queued" ELSE "failed")
\* The channel of results has room, or the stream ends and the body is closed.
Put(s, i) ==
  /\ chunk[s][i] \in {"open", "error"} /\ UNCHANGED <<linkVars, seenSeq, seq>>
  /\ \/ /\ Cardinality(Being(s, {"queued", "failed"})) < Parallel
        /\ Set(s, i, IF chunk[s][i] = "open" THEN "queued" ELSE "failed")
     \/ StreamCancelled(s) /\ Set(s, i, "done")
Worker(s, i) ==
  /\ \/ Acquire(s, i) \/ FetchOnce(s, i) \/ RefreshIfStale(s, i)
     \/ Refreshed(s, i) \/ FetchAgain(s, i) \/ Put(s, i)
  /\ UNCHANGED <<streamStage, gone, spawning, next>>

-----------------------------------------------------------------------------
(* streamRemaining: the answers are written in order.                        *)

\* An answer out of order waits in the table of pending ones.
Take(s, i) ==
  /\ i \in Being(s, {"queued", "failed"}) /\ Being(s, {"copy"}) = {}
  /\ chunk[s][next[s]] # "pending"
  /\ IF i = next[s]
     THEN IF chunk[s][i] = "queued" THEN Set(s, i, "copy") /\ UNCHANGED streamStage
                                    ELSE Set(s, i, "done") /\ Goto(s, "stop")
     ELSE UNCHANGED streamStage /\ Set(s, i, IF chunk[s][i] = "queued" THEN "pending" ELSE "pendingError")
  /\ UNCHANGED next
TakePending(s) ==
  /\ Being(s, {"copy"}) = {}
  /\ \/ chunk[s][next[s]] = "pending" /\ Set(s, next[s], "copy") /\ UNCHANGED streamStage
     \/ chunk[s][next[s]] = "pendingError" /\ Set(s, next[s], "done") /\ Goto(s, "stop")
  /\ UNCHANGED next
\* copyChunkExactly: what is short, too long or refused ends the stream.
CopyChunk(s) ==
  /\ chunk[s][next[s]] = "copy" /\ Set(s, next[s], "done")
  /\ \/ Goto(s, "stop") /\ UNCHANGED next
     \/ /\ s \notin gone /\ next[s] < Chunks[s]
        /\ next' = [next EXCEPT ![s] = @ + 1] /\ UNCHANGED streamStage
StreamRemaining(s) ==
  /\ streamStage[s] = "run"
  /\ \/ \E i \in Index(s) : Take(s, i)
     \/ TakePending(s)
     \/ CopyChunk(s)
     \/ /\ s \in gone /\ Being(s, {"copy"}) = {}
        /\ chunk[s][next[s]] \notin {"pending", "pendingError"}
        /\ Goto(s, "stop") /\ UNCHANGED <<chunk, next>>
  /\ UNCHANGED <<gone, linkVars, spawning, seenSeq, seq>>
\* Mutant: only the channel is emptied.
StopLeaky(s) ==
  /\ streamStage[s] = "stop" /\ s \notin spawning /\ Being(s, Working) = {}
  /\ chunk' = [chunk EXCEPT ![s] = [i \in Index(s) |->
       IF chunk[s][i] = "pending" THEN "pending" ELSE "done"]]
  /\ Goto(s, "over") /\ UNCHANGED <<gone, linkVars, spawning, seenSeq, seq, next>>
\* The deferred function: the workers first, then whatever they left behind.
StopStream(s) ==
  /\ streamStage[s] = "stop" /\ s \notin spawning /\ Being(s, Working) = {}
  /\ chunk' = [chunk EXCEPT ![s] = [i \in Index(s) |-> "done"]]
  /\ Goto(s, "over") /\ UNCHANGED <<gone, linkVars, spawning, seenSeq, seq, next>>

Handler(s) ==
  \/ Route(s) \/ Enter(s) \/ LeaveWait(s) \/ Begin(s)
  \/ FetchUpstreamWithRefresh(s) \/ StreamRangeProxy(s) \/ StreamRemaining(s) \/ StopStream(s)
RangeNext ==
  \E s \in Streams :
    \/ HandleStrm(s) \/ Handler(s) \/ Resolve(s) \/ Spawn(s) \/ ClientLeaves(s)
    \/ \E i \in Index(s) : Worker(s, i)
\* Every goroutine goes on. That the CDN and the API answer or break off is what
\* the timeouts of the client are for (strm.go:39-60); a body that stalls without
\* an end is not excluded by the code.
RangeFairness ==
  \A s \in Streams : /\ WF_rangeVars(Handler(s)) /\ WF_rangeVars(Resolve(s)) /\ WF_rangeVars(Spawn(s))
                     /\ \A i \in Index(s) : WF_rangeVars(Worker(s, i))
RangeSpec == RangeInit /\ [][RangeNext]_rangeVars /\ RangeFairness

-----------------------------------------------------------------------------
(* Properties.                                                               *)

\* RefreshOnce: chunks of a stream that find its link dead at the same time ask
\* for one new link: a link replaces only the one the asking chunk saw fail
\* (range_proxy.go:37-39, 90-119).
RefreshOnce ==
  [][\A s \in Streams : seq'[s] # seq[s] =>
       \E i \in Being(s, {"lock"}) : seenSeq[s][i] = seq[s]]_rangeVars

\* StreamSettles: whatever fails and whenever the player leaves, a stream comes
\* to its end, and then none of its chunks keeps a connection or a slot of the
\* account (range_proxy.go:236, 251-266; range_limiter.go:62-75).
StreamSettles ==
  \A s \in Streams :
    []<>(\/ streamStage[s] = "idle"
         \/ streamStage[s] = "over" /\ Being(s, HasSlot \cup Working) = {})
=============================================================================
