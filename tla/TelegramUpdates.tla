-------------------------- MODULE TelegramUpdates --------------------------
(* How messages and buttons of Telegram reach the command handler: by long   *)
(* polling (service/notify/polling.go) or by the webhook, and the requests   *)
(* that configure the bot and switch between the two (handler/notify.go),    *)
(* which run side by side, with the start of the service (server.go).        *)
(* Telegram keeps the updates of a bot in order until they are confirmed: by *)
(* a request for later ones, or by the answer to the webhook.                *)
EXTENDS Integers, FiniteSets

CONSTANTS Tokens,          \* the bots
          BotRequests,     \* slots for requests that run at a time
          Managers,        \* polling managers the handlers may come to make
          Pollers,         \* slots for the goroutines that poll
          MaxUpdates,      \* bound: updates of a bot
          MaxBotRequests,  \* bound: requests
          MaxRestarts      \* bound: restarts of the service
NoToken == "none"
Injected == "injected"      \* the manager made at the start, when there is a token
AllManagers == Managers \cup {Injected}
NoManager == "no manager"
UpdatesAssumption ==
  /\ NoToken \notin Tokens /\ {Injected, NoManager} \cap Managers = {}
  /\ {"none", "save", "switch", "delete"} \cap AllManagers = {}
  /\ {MaxUpdates, MaxBotRequests, MaxRestarts} \subseteq Nat

VARIABLES
  saved,              \* the settings: token, webhook, and automatic polling
  hook,               \* the bots that have a webhook at Telegram
  sent, confirmed,    \* per bot, the last update there is, and the last confirmed
  handled,            \* per bot, how often each update was handled
  boot,               \* the settings the start of the service has yet to act on
  botToken,           \* the token of the bot of the injected manager
  shared,             \* the shared manager of the handlers
  manager,            \* of a manager: its token, whether it runs, its stop channel is open
  stops,              \* the managers that were stopped
  poller,             \* of a goroutine: its manager, token, next update and batch
  request,            \* the requests under way
  requests, restarts  \* how many there have been
telegramVars == <<hook, sent, confirmed>>
managerVars == <<botToken, shared, manager, stops>>
updateVars == <<saved, telegramVars, handled, boot, managerVars, poller, request, requests, restarts>>

BotSettings == [token : Tokens \cup {NoToken}, hook : BOOLEAN, auto : BOOLEAN]
NoSettings == [token |-> NoToken, hook |-> FALSE, auto |-> FALSE]
NoPoller == [at |-> "none", of |-> Injected, token |-> NoToken, next |-> 1, batch |-> {}]
NoBotRequest == [op |-> "none", with |-> NoSettings]
FreshManager(token) == [token |-> token, running |-> FALSE, open |-> TRUE]
Unmade == FreshManager(NoToken)
Live(p) == poller[p].at # "none"
UpdateIds == 1 .. MaxUpdates

UpdatesTypeOK ==
  /\ saved \in BotSettings /\ boot \in BotSettings
  /\ hook \subseteq Tokens
  /\ sent \in [Tokens -> 0 .. MaxUpdates] /\ confirmed \in [Tokens -> 0 .. MaxUpdates]
  /\ handled \in [Tokens \X UpdateIds -> Nat]
  /\ botToken \in Tokens \cup {NoToken} /\ shared \in Managers \cup {NoManager}
  /\ \A m \in AllManagers : manager[m] \in [token : Tokens \cup {NoToken}, running : BOOLEAN, open : BOOLEAN]
  /\ stops \subseteq AllManagers
  /\ \A p \in Pollers : poller[p].at \in {"none", "loop", "asks", "handles", "leaves"}
  /\ \A r \in BotRequests : request[r].with \in BotSettings
  /\ requests \in 0 .. MaxBotRequests /\ restarts \in 0 .. MaxRestarts

\* A webhook needs no polling: the handler that saves the settings sees to it.
Consistent == {s \in BotSettings : (s.hook => ~s.auto) /\ (s.token = NoToken => s = NoSettings)}
UpdatesInit ==
  /\ saved \in Consistent /\ boot = saved
  /\ hook = IF saved.hook THEN {saved.token} ELSE {}
  /\ sent = [t \in Tokens |-> 0] /\ confirmed = [t \in Tokens |-> 0]
  /\ handled = [u \in Tokens \X UpdateIds |-> 0]
  /\ botToken = saved.token /\ shared = NoManager
  /\ manager = [m \in AllManagers |-> IF m = Injected THEN FreshManager(saved.token) ELSE Unmade]
  /\ stops = {}
  /\ poller = [p \in Pollers |-> NoPoller] /\ request = [r \in BotRequests |-> NoBotRequest]
  /\ requests = 0 /\ restarts = 0

-----------------------------------------------------------------------------
(* Telegram                                                                 *)
Send(t) ==
  /\ sent[t] < MaxUpdates
  /\ sent' = [sent EXCEPT ![t] = @ + 1]
  /\ UNCHANGED <<saved, hook, confirmed, handled, boot, managerVars, poller, request, requests, restarts>>
\* The update is posted to the webhook, handled and answered.
HandleTelegramWebhook(t) ==
  LET u == confirmed[t] + 1 IN
  /\ t \in hook /\ confirmed[t] < sent[t]
  /\ saved.token = t
  /\ handled' = [handled EXCEPT ![<<t, u>>] = @ + 1]
  /\ confirmed' = [confirmed EXCEPT ![t] = u]
  /\ UNCHANGED <<saved, hook, sent, boot, managerVars, poller, request, requests, restarts>>

-----------------------------------------------------------------------------
(* The polling manager                                                      *)

\* Start: under the lock the manager is found idle and marked running, with a
\* new stop channel; the goroutine takes the client its bot has now.
\* Mutant: it is not looked at whether the manager runs.
StartAnyway(m) == TRUE
MayStart(m) == ~manager[m].running
StartPoller(m, token) ==
  /\ \E p \in Pollers : ~Live(p)
  /\ LET p == CHOOSE q \in Pollers : ~Live(q) IN
    /\ manager' = [manager EXCEPT ![m] = [token |-> token, running |-> TRUE, open |-> TRUE]]
    /\ poller' = [poller EXCEPT ![p] = [at |-> "loop", of |-> m, token |-> token, next |-> 1, batch |-> {}]]
StartManager(m, token) ==
  IF MayStart(m) THEN StartPoller(m, token) ELSE UNCHANGED <<manager, poller>>

\* Stop: the stop channel is closed; the goroutine looks at it between requests.
StoppedManager(m) == [manager[m] EXCEPT !.open = @ /\ ~manager[m].running, !.running = FALSE]
Running(M) == {m \in M : manager[m].running}
StopManagers(M) ==
  /\ manager' = [m \in AllManagers |-> IF m \in M THEN StoppedManager(m) ELSE manager[m]]
  /\ stops' = stops \cup Running(M)

\* consume: at the head of the loop it sees the channel the manager has now.
Look(p) ==
  /\ poller[p].at = "loop"
  /\ poller' = [poller EXCEPT ![p].at = IF manager[poller[p].of].open THEN "asks" ELSE "leaves"]
  /\ UNCHANGED <<saved, telegramVars, handled, boot, managerVars, request, requests, restarts>>
Batch(p) == {u \in UpdateIds : poller[p].next <= u /\ u <= sent[poller[p].token]}
\* The request confirms what precedes the offset; it fails where there is a webhook.
\* Mutant: the offset is that of the batch to come.
ConfirmBatch(p) == sent[poller[p].token]
ConfirmBefore(p) == poller[p].next - 1
Largest(a, b) == IF a >= b THEN a ELSE b
GetUpdates(p) ==
  LET t == poller[p].token
      seen == Largest(confirmed[t], ConfirmBefore(p)) IN
  /\ poller[p].at = "asks" /\ t \notin hook
  /\ confirmed' = [confirmed EXCEPT ![t] = seen]
  /\ LET batch == {u \in Batch(p) : u > confirmed[t]} IN
     /\ batch # {}
     /\ poller' = [poller EXCEPT ![p].at = "handles", ![p].batch = batch]
  /\ UNCHANGED <<saved, hook, sent, handled, boot, managerVars, request, requests, restarts>>
\* No update in thirty seconds, a failure or a conflict: back to the loop.
GetNothing(p) ==
  /\ poller[p].at = "asks"
  /\ poller' = [poller EXCEPT ![p].at = "loop"]
  /\ UNCHANGED <<saved, telegramVars, handled, boot, managerVars, request, requests, restarts>>
HandleUpdate(p) ==
  LET u == CHOOSE v \in poller[p].batch : \A w \in poller[p].batch : v <= w
      rest == poller[p].batch \ {u} IN
  /\ poller[p].at = "handles"
  /\ handled' = [handled EXCEPT ![<<poller[p].token, u>>] = @ + 1]
  /\ poller' = [poller EXCEPT ![p] = [@ EXCEPT !.at = IF rest = {} THEN "loop" ELSE "handles",
                                               !.next = u + 1, !.batch = rest]]
  /\ UNCHANGED <<saved, telegramVars, boot, managerVars, request, requests, restarts>>
\* markStopped, whoever runs by then.
MarkStopped(p) ==
  /\ poller[p].at = "leaves"
  /\ manager' = [manager EXCEPT ![poller[p].of] = [@ EXCEPT !.running = FALSE]]
  /\ poller' = [poller EXCEPT ![p] = NoPoller]
  /\ UNCHANGED <<saved, telegramVars, handled, boot, botToken, shared, stops, request, requests, restarts>>

-----------------------------------------------------------------------------
(* The start of the service                                                 *)
AutoPolling ==
  LET t == boot.token IN
  /\ boot # NoSettings /\ boot' = NoSettings
  /\ IF boot.auto /\ ~boot.hook
     THEN /\ hook' \in {hook, hook \ {t}}
          /\ StartManager(Injected, botToken)
     ELSE UNCHANGED <<hook, manager, poller>>
  /\ UNCHANGED <<saved, sent, confirmed, handled, botToken, shared, stops, request, requests, restarts>>
Restart ==
  /\ restarts < MaxRestarts /\ restarts' = restarts + 1
  /\ boot' = saved /\ botToken' = saved.token /\ shared' = NoManager
  /\ manager' = [m \in AllManagers |-> IF m = Injected THEN FreshManager(saved.token) ELSE Unmade]
  /\ poller' = [p \in Pollers |-> NoPoller] /\ request' = [r \in BotRequests |-> NoBotRequest]
  /\ stops' = {}
  /\ UNCHANGED <<saved, telegramVars, handled, requests>>

-----------------------------------------------------------------------------
(* The requests.  deps.PollingManager is there when the service started with *)
(* a token; otherwise one is shared, made with the bot of the settings.      *)
HasInjected == manager[Injected].token # NoToken
NextOp(r, op, with) == request' = [request EXCEPT ![r] = [op |-> op, with |-> with]]
Arrive(r) ==
  /\ request[r] = NoBotRequest /\ r = CHOOSE q \in BotRequests : request[q] = NoBotRequest
  /\ requests < MaxBotRequests /\ requests' = requests + 1
EndRequest(r) == request' = [request EXCEPT ![r] = NoBotRequest]

\* getPollingMgr
Chosen ==
  IF HasInjected THEN {Injected}
  ELSE IF shared # NoManager THEN {shared}
  ELSE {m \in Managers : manager[m] = Unmade}

\* HandleNotifyBotPOST, when Telegram knows the token: the settings first.
SaveBot(r, with) ==
  /\ Arrive(r) /\ with.token # NoToken
  /\ saved' = with
  /\ NextOp(r, "save", with)
  /\ UNCHANGED <<telegramVars, handled, boot, managerVars, poller, restarts>>
\* resetSharedPolling and applyTelegramHotUpdates
ResetShared ==
  /\ StopManagers(IF shared = NoManager THEN {} ELSE {shared})
  /\ shared' = NoManager
HotUpdate(r) ==
  /\ request[r].op = "save"
  /\ ResetShared
  /\ botToken' = IF HasInjected THEN request[r].with.token ELSE botToken
  /\ NextOp(r, "switch", request[r].with)
  /\ UNCHANGED <<saved, telegramVars, handled, boot, poller, requests, restarts>>
\* switchTelegramWebhookOrPolling; Telegram may not answer.
SwitchTelegramWebhookOrPolling(r) ==
  LET with == request[r].with IN
  /\ request[r].op = "switch"
  /\ IF with.hook
     THEN StopManagers({Injected}) /\ hook' \in {hook, hook \cup {with.token}}
     ELSE /\ hook' \in IF with.auto THEN {hook, hook \ {with.token}} ELSE {hook}
          /\ UNCHANGED <<manager, stops>>
  /\ EndRequest(r)
  /\ UNCHANGED <<saved, sent, confirmed, handled, boot, botToken, shared, poller, requests, restarts>>

\* HandleNotifyBotDELETE: the webhook goes, polling stops, the settings go.
DeleteBot(r) ==
  /\ Arrive(r) /\ saved.token # NoToken
  /\ hook' \in {hook, hook \ {saved.token}}
  /\ NextOp(r, "delete", saved)
  /\ UNCHANGED <<saved, sent, confirmed, handled, boot, managerVars, poller, restarts>>
StopAllPolling(r) ==
  /\ request[r].op = "delete"
  /\ StopManagers({Injected} \cup (IF shared = NoManager THEN {} ELSE {shared})) /\ shared' = NoManager
  /\ saved' = NoSettings
  /\ EndRequest(r)
  /\ UNCHANGED <<telegramVars, handled, boot, botToken, poller, requests, restarts>>

\* HandleNotifyPollingPOST: the manager is chosen, the webhook goes, then Start.
ChooseManager(r) ==
  \E m \in Chosen :
    /\ shared' = IF m = Injected THEN shared ELSE m
    /\ manager' = IF manager[m] = Unmade THEN [manager EXCEPT ![m] = FreshManager(saved.token)] ELSE manager
    /\ NextOp(r, m, saved)
PollingPOST(r) ==
  /\ Arrive(r) /\ saved.token # NoToken
  /\ ChooseManager(r)
  /\ hook' \in {hook, hook \ {saved.token}}
  /\ UNCHANGED <<saved, sent, confirmed, handled, boot, botToken, stops, poller, restarts>>
StartPolling(r) ==
  /\ request[r].op \in AllManagers
  /\ LET m == request[r].op IN StartManager(m, IF m = Injected THEN botToken ELSE manager[m].token)
  /\ EndRequest(r)
  /\ UNCHANGED <<saved, telegramVars, handled, boot, botToken, shared, stops, requests, restarts>>
\* HandleNotifyPollingDELETE: Stop, and the webhook of the settings comes back.
PollingDELETE(r) ==
  /\ Arrive(r) /\ saved.token # NoToken
  /\ StopManagers(IF HasInjected THEN {Injected} ELSE IF shared = NoManager THEN {} ELSE {shared})
  /\ hook' \in IF saved.hook THEN {hook, hook \cup {saved.token}} ELSE {hook}
  /\ UNCHANGED <<saved, sent, confirmed, handled, boot, botToken, shared, poller, request, restarts>>

UpdatesNext ==
  \/ \E t \in Tokens : Send(t) \/ HandleTelegramWebhook(t)
  \/ \E p \in Pollers : Look(p) \/ GetUpdates(p) \/ GetNothing(p) \/ HandleUpdate(p) \/ MarkStopped(p)
  \/ AutoPolling \/ Restart
  \/ \E r \in BotRequests :
       \/ \E with \in Consistent : SaveBot(r, with)
       \/ HotUpdate(r) \/ SwitchTelegramWebhookOrPolling(r)
       \/ DeleteBot(r) \/ StopAllPolling(r)
       \/ PollingPOST(r) \/ StartPolling(r) \/ PollingDELETE(r)
UpdatesSpec == UpdatesInit /\ [][UpdatesNext]_updateVars

-----------------------------------------------------------------------------
(* Properties                                                               *)

\* Telegram forgets only updates that were handled, whatever polls, is stopped,
\* switched to the webhook or restarted (the offset of consume).
UpdatesKept ==
  \A t \in Tokens : \A u \in 1 .. confirmed[t] : handled[<<t, u>>] > 0

\* A manager that was never stopped has one goroutine when it runs and none when
\* it does not: the start of the service and requests to start do not add one.
OnePoller ==
  \A m \in AllManagers \ stops :
    Cardinality({p \in Pollers : Live(p) /\ poller[p].of = m}) = IF manager[m].running THEN 1 ELSE 0
=============================================================================
