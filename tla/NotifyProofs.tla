---------------------------- MODULE NotifyProofs ----------------------------
(***************************************************************************)
(* What TLAPS proves of the dealings with Telegram: of the updates it has  *)
(* for the service (TelegramUpdates) and of the notifications the service  *)
(* has for it (Notifications), for any number of bots, requests, polling   *)
(* goroutines, notes and buckets.                                          *)
(***************************************************************************)
EXTENDS TelegramUpdates, Notifications, FiniteSetTheorems, SequenceTheorems, WellFoundedInduction, TLAPS

\* A set of natural numbers has a least element.
LEMMA LeastOf ==
  ASSUME NEW T \in SUBSET Nat, T # {}
  PROVE  \E x \in T : \A y \in T : x <= y
<1> DEFINE R == OpToRel(<, Nat)
<1>1. IsWellFoundedOn(R, Nat)
  BY NatLessThanWellFounded
<1>2. \A x, y \in Nat : x < y => <<x, y>> \in R
  BY DEF OpToRel
<1> HIDE DEF R
<1>3. \E x \in T : \A y \in T : ~(<<y, x>> \in R)
  BY <1>1, WFMin
<1>4. PICK x \in T : \A y \in T : ~(<<y, x>> \in R)
  BY <1>3
<1>5. ASSUME NEW y \in T PROVE x <= y
  <2>1. ~(y < x)
    BY <1>2, <1>4
  <2> QED BY <2>1
<1> QED BY <1>5

-----------------------------------------------------------------------------
(***************************************************************************)
(* Updates: what was confirmed has been handled.  A goroutine that polls   *)
(* has handled everything below its next offset and, in its batch,         *)
(* everything below what is left of it.  That it polls a bot at all needs  *)
(* the tokens: whoever starts a manager has one.                           *)
(***************************************************************************)
Poller == [at : {"none", "loop", "asks", "handles", "leaves"}, of : AllManagers, token : Tokens \cup {NoToken},
           next : 1 .. MaxUpdates + 1, batch : SUBSET UpdateIds]
Manager == [token : Tokens \cup {NoToken}, running : BOOLEAN, open : BOOLEAN]
BotRequest == [op : {"none", "save", "switch", "delete"} \cup AllManagers, with : BotSettings]

BotTyped ==
  /\ saved \in Consistent /\ boot \in Consistent /\ hook \subseteq Tokens
  /\ sent \in [Tokens -> 0 .. MaxUpdates] /\ confirmed \in [Tokens -> 0 .. MaxUpdates]
  /\ handled \in [Tokens \X UpdateIds -> Nat]
  /\ botToken \in Tokens \cup {NoToken} /\ shared \in Managers \cup {NoManager}
  /\ manager \in [AllManagers -> Manager] /\ stops \subseteq AllManagers
  /\ poller \in [Pollers -> Poller] /\ request \in [BotRequests -> BotRequest]
  /\ requests \in 0 .. MaxBotRequests /\ restarts \in 0 .. MaxRestarts

\* Whatever may be started has the token of a bot.
TokensThere ==
  /\ boot # NoSettings \/ manager[Injected].token # NoToken => botToken # NoToken
  /\ shared # NoManager => manager[shared].token # NoToken
  /\ \A r \in BotRequests : /\ request[r].op # "none" => request[r].with.token # NoToken
                            /\ request[r].op \in AllManagers => manager[request[r].op].token # NoToken
Handled(t, u) == handled[<<t, u>>] > 0
PollersKeep ==
  \A p \in Pollers : Live(p) =>
    /\ poller[p].token \in Tokens
    /\ \A u \in UpdateIds : u < poller[p].next => Handled(poller[p].token, u)
    /\ poller[p].at = "handles" => poller[p].batch # {}
    /\ \A u \in UpdateIds \ poller[p].batch :
         poller[p].at = "handles" /\ (\E v \in poller[p].batch : u < v) => Handled(poller[p].token, u)
UpdatesInv == UpdatesAssumption /\ BotTyped /\ TokensThere /\ PollersKeep /\ UpdatesKept

LEMMA UpdatesStart == UpdatesAssumption /\ UpdatesInit => UpdatesInv
<1> SUFFICES ASSUME UpdatesAssumption, UpdatesInit PROVE UpdatesInv
  OBVIOUS
<1>1. saved \in BotSettings /\ (saved.token = NoToken => saved = NoSettings) /\ saved.token \in Tokens \cup {NoToken}
  BY DEF UpdatesInit, Consistent, BotSettings
<1>2. saved \in Consistent /\ boot \in Consistent /\ hook \subseteq Tokens
  BY <1>1 DEF UpdatesInit, Consistent, BotSettings, NoSettings
<1>3. /\ sent \in [Tokens -> 0 .. MaxUpdates] /\ confirmed \in [Tokens -> 0 .. MaxUpdates]
      /\ handled \in [Tokens \X UpdateIds -> Nat] /\ requests \in 0 .. MaxBotRequests /\ restarts \in 0 .. MaxRestarts
  BY DEF UpdatesInit, UpdatesAssumption
<1>4. manager \in [AllManagers -> Manager] /\ stops \subseteq AllManagers
  BY <1>1 DEF UpdatesInit, Manager, FreshManager, Unmade
<1>5. poller \in [Pollers -> Poller]
  BY DEF UpdatesInit, UpdatesAssumption, Poller, NoPoller, AllManagers
<1>6. request \in [BotRequests -> BotRequest]
  BY DEF UpdatesInit, BotRequest, NoBotRequest, NoSettings, BotSettings
<1>7. BotTyped
  BY <1>1, <1>2, <1>3, <1>4, <1>5, <1>6 DEF UpdatesInit, BotTyped
<1>8. TokensThere
  BY <1>1 DEF UpdatesInit, UpdatesAssumption, TokensThere, FreshManager, AllManagers, NoBotRequest, NoSettings
<1>9. PollersKeep
  BY DEF UpdatesInit, PollersKeep, Live, NoPoller
<1>10. UpdatesKept
  BY DEF UpdatesInit, UpdatesKept
<1> QED BY <1>7, <1>8, <1>9, <1>10 DEF UpdatesInv

-----------------------------------------------------------------------------
(* What the polling manager's operations do                                 *)

LEMMA Started ==
  ASSUME UpdatesInv, NEW m \in AllManagers, NEW token \in Tokens, StartManager(m, token), UNCHANGED handled
  PROVE  /\ manager' \in [AllManagers -> Manager] /\ poller' \in [Pollers -> Poller]
         /\ \A n \in AllManagers \ {m} : manager'[n] = manager[n]
         /\ manager[m].token # NoToken => manager'[m].token # NoToken
         /\ PollersKeep'
<1>1. manager \in [AllManagers -> Manager] /\ poller \in [Pollers -> Poller]
  BY DEF UpdatesInv, BotTyped
<1>2. token # NoToken /\ 1 \in 1 .. MaxUpdates + 1
  BY DEF UpdatesInv, UpdatesAssumption
<1>3. CASE UNCHANGED <<manager, poller>>
  BY <1>1, <1>3 DEF UpdatesInv, PollersKeep, Live, Handled, UpdateIds
<1>4. CASE StartPoller(m, token)
  <2> DEFINE p == CHOOSE q \in Pollers : ~Live(q)
             started == [at |-> "loop", of |-> m, token |-> token, next |-> 1, batch |-> {}]
  <2>1. p \in Pollers
    BY <1>4 DEF StartPoller
  <2>2. manager' = [manager EXCEPT ![m] = [token |-> token, running |-> TRUE, open |-> TRUE]]
    BY <1>4 DEF StartPoller
  <2>3. poller' = [poller EXCEPT ![p] = started]
    BY <1>4 DEF StartPoller
  <2>4. started \in Poller
    BY <1>2 DEF Poller
  <2>5. started.at = "loop" /\ started.token = token /\ started.next = 1
    OBVIOUS
  <2> HIDE DEF p, started
  <2>6. manager' \in [AllManagers -> Manager] /\ poller' \in [Pollers -> Poller]
    BY <1>1, <2>1, <2>2, <2>3, <2>4 DEF Manager
  <2>7. PollersKeep'
    <3> SUFFICES ASSUME NEW q \in Pollers, poller'[q].at # "none"
                 PROVE  /\ poller'[q].token \in Tokens
                        /\ \A u \in UpdateIds : u < poller'[q].next => Handled(poller'[q].token, u)
                        /\ poller'[q].at = "handles" => poller'[q].batch # {}
                        /\ \A u \in UpdateIds \ poller'[q].batch :
                             poller'[q].at = "handles" /\ (\E v \in poller'[q].batch : u < v) => Handled(poller'[q].token, u)
      BY DEF PollersKeep, Live, Handled, UpdateIds
    <3>1. CASE q = p
      BY <1>1, <2>1, <2>3, <2>5, <3>1 DEF UpdateIds
    <3>2. CASE q # p
      BY <1>1, <2>3, <3>2 DEF UpdatesInv, PollersKeep, Live
    <3> QED BY <3>1, <3>2
  <2> QED BY <1>1, <1>2, <2>2, <2>6, <2>7
<1> QED BY <1>3, <1>4 DEF StartManager

LEMMA Stopped ==
  ASSUME UpdatesInv, NEW M \in SUBSET AllManagers, StopManagers(M)
  PROVE  /\ manager' \in [AllManagers -> Manager] /\ stops' \subseteq AllManagers
         /\ \A n \in AllManagers : manager'[n].token = manager[n].token
<1>1. manager \in [AllManagers -> Manager] /\ stops \subseteq AllManagers
  BY DEF UpdatesInv, BotTyped
<1>2. \A n \in M : StoppedManager(n) \in Manager /\ StoppedManager(n).token = manager[n].token
  BY <1>1 DEF StoppedManager, Manager
<1> QED BY <1>1, <1>2 DEF StopManagers, Running

\* What was handled stays so, and so does what the goroutines know of it.
LEMMA PollersStay ==
  ASSUME UpdatesInv, UNCHANGED poller, \A t \in Tokens, u \in UpdateIds : Handled(t, u) => Handled(t, u)'
  PROVE  PollersKeep'
<1>1. poller \in [Pollers -> Poller]
  BY DEF UpdatesInv, BotTyped
<1> QED BY <1>1 DEF UpdatesInv, PollersKeep, Live, UpdateIds, Poller

LEMMA SameTokens ==
  ASSUME TokensThere, shared \in Managers \cup {NoManager}, UNCHANGED <<boot, botToken, shared, request>>,
         \A n \in AllManagers : manager'[n].token = manager[n].token
  PROVE  TokensThere'
BY DEF TokensThere, AllManagers

-----------------------------------------------------------------------------
(* Telegram, and the goroutines that poll                                   *)

LEMMA UpdateSent ==
  ASSUME UpdatesInv, NEW t \in Tokens, Send(t)
  PROVE  UpdatesInv'
<1>1. BotTyped'
  BY DEF Send, managerVars, UpdatesInv, UpdatesAssumption, BotTyped, Consistent, BotSettings, UpdateIds, Manager, Poller, BotRequest
<1>2. TokensThere'
  BY SameTokens DEF Send, managerVars, UpdatesInv, BotTyped
<1>3. PollersKeep' /\ UpdatesKept'
  BY PollersStay DEF Send, UpdatesInv, UpdatesKept, Handled
<1> QED BY <1>1, <1>2, <1>3 DEF UpdatesInv, UpdatesAssumption

LEMMA WebhookStep ==
  ASSUME UpdatesInv, NEW t \in Tokens, HandleTelegramWebhook(t)
  PROVE  UpdatesInv'
<1> DEFINE u == confirmed[t] + 1
<1>1. /\ confirmed[t] < sent[t] /\ handled' = [handled EXCEPT ![<<t, u>>] = @ + 1]
      /\ confirmed' = [confirmed EXCEPT ![t] = u]
      /\ UNCHANGED <<saved, hook, sent, boot, managerVars, poller, request, requests, restarts>>
  BY DEF HandleTelegramWebhook
<1>2. /\ sent \in [Tokens -> 0 .. MaxUpdates] /\ confirmed \in [Tokens -> 0 .. MaxUpdates]
      /\ handled \in [Tokens \X UpdateIds -> Nat] /\ MaxUpdates \in Nat
  BY DEF UpdatesInv, BotTyped, UpdatesAssumption
<1>3. u \in UpdateIds /\ <<t, u>> \in Tokens \X UpdateIds
  BY <1>1, <1>2 DEF UpdateIds
<1>4. \A s \in Tokens, v \in UpdateIds : Handled(s, v) => Handled(s, v)'
  BY <1>1, <1>2, <1>3 DEF Handled
<1>5. handled'[<<t, u>>] > 0
  BY <1>1, <1>2, <1>3 DEF Handled
<1>6. BotTyped'
  <2>1. handled' \in [Tokens \X UpdateIds -> Nat] /\ confirmed' \in [Tokens -> 0 .. MaxUpdates]
    BY <1>1, <1>2, <1>3 DEF UpdateIds
  <2> QED BY <1>1, <2>1 DEF managerVars, UpdatesInv, BotTyped
<1>7. TokensThere'
  BY <1>1, SameTokens DEF managerVars, UpdatesInv, BotTyped
<1>8. PollersKeep'
  BY <1>1, <1>4, PollersStay
<1>9. UpdatesKept'
  <2> SUFFICES ASSUME NEW s \in Tokens, NEW v \in 1 .. confirmed'[s] PROVE Handled(s, v)'
    BY DEF UpdatesKept, Handled
  <2>1. CASE s = t /\ v = u
    BY <1>5, <2>1 DEF Handled
  <2>2. CASE ~(s = t /\ v = u)
    <3>1. v \in 1 .. confirmed[s] /\ v \in UpdateIds
      BY <1>1, <1>2, <1>3, <2>2 DEF UpdateIds
    <3>2. Handled(s, v)
      BY <3>1 DEF UpdatesInv, UpdatesKept, Handled
    <3> QED BY <1>4, <3>1, <3>2
  <2> QED BY <2>1, <2>2
<1> QED BY <1>6, <1>7, <1>8, <1>9 DEF UpdatesInv, UpdatesAssumption

\* A goroutine that moves on without a batch.
LEMMA PollerMoves ==
  ASSUME UpdatesInv, NEW p \in Pollers, Live(p), NEW at \in {"loop", "asks", "leaves"},
         poller' = [poller EXCEPT ![p].at = at],
         UNCHANGED <<saved, telegramVars, handled, boot, managerVars, request, requests, restarts>>
  PROVE  UpdatesInv'
<1>1. poller \in [Pollers -> Poller]
  BY DEF UpdatesInv, BotTyped
<1>2. BotTyped'
  <2>1. poller' \in [Pollers -> Poller]
    BY <1>1 DEF Poller
  <2> QED BY <2>1 DEF telegramVars, managerVars, UpdatesInv, BotTyped
<1>3. TokensThere'
  BY SameTokens DEF managerVars, UpdatesInv, BotTyped
<1>4. PollersKeep'
  <2> SUFFICES ASSUME NEW q \in Pollers, poller'[q].at # "none"
               PROVE  /\ poller'[q].token \in Tokens
                      /\ \A u \in UpdateIds : u < poller'[q].next => Handled(poller'[q].token, u)
                      /\ poller'[q].at = "handles" => poller'[q].batch # {}
                      /\ \A u \in UpdateIds \ poller'[q].batch :
                           poller'[q].at = "handles" /\ (\E v \in poller'[q].batch : u < v) => Handled(poller'[q].token, u)
    BY DEF PollersKeep, Live, Handled, UpdateIds
  <2>1. CASE q = p
    <3>1. poller'[q].at = at /\ poller'[q].token = poller[q].token /\ poller'[q].next = poller[q].next
      BY <1>1, <2>1 DEF Poller
    <3> QED BY <3>1, <2>1 DEF UpdatesInv, PollersKeep
  <2>2. CASE q # p
    BY <1>1, <2>2 DEF UpdatesInv, PollersKeep, Live
  <2> QED BY <2>1, <2>2
<1>5. UpdatesKept'
  BY DEF telegramVars, UpdatesInv, UpdatesKept
<1> QED BY <1>2, <1>3, <1>4, <1>5 DEF UpdatesInv, UpdatesAssumption

\* Telegram confirms what precedes the offset and gives what is not confirmed.
LEMMA GetUpdatesStep ==
  ASSUME UpdatesInv, NEW p \in Pollers, GetUpdates(p)
  PROVE  UpdatesInv'
<1> DEFINE t == poller[p].token
           seen == Largest(confirmed[t], ConfirmBefore(p))
           batch == {u \in Batch(p) : u > confirmed[t]}
<1>1. /\ poller[p].at = "asks" /\ confirmed' = [confirmed EXCEPT ![t] = seen] /\ batch # {}
      /\ poller' = [poller EXCEPT ![p].at = "handles", ![p].batch = batch]
      /\ UNCHANGED <<saved, hook, sent, handled, boot, managerVars, request, requests, restarts>>
  BY DEF GetUpdates
<1>2. /\ poller \in [Pollers -> Poller] /\ confirmed \in [Tokens -> 0 .. MaxUpdates] /\ MaxUpdates \in Nat
      /\ sent \in [Tokens -> 0 .. MaxUpdates]
  BY DEF UpdatesInv, BotTyped, UpdatesAssumption
<1>3. t \in Tokens /\ poller[p].next \in 1 .. MaxUpdates + 1
  BY <1>1, <1>2 DEF UpdatesInv, PollersKeep, Live, Poller
<1>4. seen \in 0 .. MaxUpdates /\ (seen = confirmed[t] \/ seen = poller[p].next - 1)
  BY <1>2, <1>3 DEF Largest, ConfirmBefore
<1>5. batch \subseteq UpdateIds
  BY DEF Batch
<1>6. \A u \in UpdateIds : u < poller[p].next => Handled(t, u)
  BY <1>1 DEF UpdatesInv, PollersKeep, Live
<1>7. \A u \in UpdateIds : u <= confirmed[t] => Handled(t, u)
  BY <1>2, <1>3 DEF UpdatesInv, UpdatesKept, Handled, UpdateIds
<1>8. \A u \in UpdateIds \ batch : (\E v \in batch : u < v) => Handled(t, u)
  BY <1>2, <1>3, <1>6, <1>7 DEF Batch, UpdateIds
<1> HIDE DEF t, seen, batch
<1>9. BotTyped'
  <2>1. poller' \in [Pollers -> Poller]
    BY <1>1, <1>2, <1>5, ZenonT(60) DEF Poller
  <2>2. confirmed' \in [Tokens -> 0 .. MaxUpdates]
    BY <1>1, <1>2, <1>3, <1>4
  <2> QED BY <1>1, <2>1, <2>2 DEF managerVars, UpdatesInv, BotTyped
<1>10. TokensThere'
  BY <1>1, SameTokens DEF managerVars, UpdatesInv, BotTyped
<1>11. PollersKeep'
  <2> SUFFICES ASSUME NEW q \in Pollers, poller'[q].at # "none"
               PROVE  /\ poller'[q].token \in Tokens
                      /\ \A u \in UpdateIds : u < poller'[q].next => Handled(poller'[q].token, u)
                      /\ poller'[q].at = "handles" => poller'[q].batch # {}
                      /\ \A u \in UpdateIds \ poller'[q].batch :
                           poller'[q].at = "handles" /\ (\E v \in poller'[q].batch : u < v) => Handled(poller'[q].token, u)
    BY <1>1 DEF PollersKeep, Live, Handled, UpdateIds
  <2>1. CASE q = p
    <3>1. poller'[q].at = "handles" /\ poller'[q].token = t /\ poller'[q].next = poller[p].next /\ poller'[q].batch = batch
      BY <1>1, <1>2, <2>1 DEF Poller, t
    <3> QED BY <1>1, <1>3, <1>6, <1>8, <3>1
  <2>2. CASE q # p
    BY <1>1, <1>2, <2>2 DEF UpdatesInv, PollersKeep, Live
  <2> QED BY <2>1, <2>2
<1>12. UpdatesKept'
  <2> SUFFICES ASSUME NEW s \in Tokens, NEW v \in 1 .. confirmed'[s] PROVE Handled(s, v)
    BY <1>1 DEF UpdatesKept, Handled
  <2>1. CASE s # t
    BY <1>1, <1>2, <2>1 DEF UpdatesInv, UpdatesKept, Handled
  <2>2. CASE s = t
    BY <1>1, <1>2, <1>3, <1>4, <1>6, <1>7, <2>2 DEF UpdateIds
  <2> QED BY <2>1, <2>2
<1> QED BY <1>9, <1>10, <1>11, <1>12 DEF UpdatesInv, UpdatesAssumption

\* The update handled is the least of the batch, so all below it are handled.
LEMMA HandleStep ==
  ASSUME UpdatesInv, NEW p \in Pollers, HandleUpdate(p)
  PROVE  UpdatesInv'
<1> DEFINE u == CHOOSE v \in poller[p].batch : \A w \in poller[p].batch : v <= w
           rest == poller[p].batch \ {u}
           t == poller[p].token
           at == IF rest = {} THEN "loop" ELSE "handles"
<1>1. /\ poller[p].at = "handles" /\ handled' = [handled EXCEPT ![<<t, u>>] = @ + 1]
      /\ poller' = [poller EXCEPT ![p] = [poller[p] EXCEPT !.at = at, !.next = u + 1, !.batch = rest]]
      /\ UNCHANGED <<saved, telegramVars, boot, managerVars, request, requests, restarts>>
  BY DEF HandleUpdate
<1>2. poller \in [Pollers -> Poller] /\ handled \in [Tokens \X UpdateIds -> Nat] /\ MaxUpdates \in Nat
  BY DEF UpdatesInv, BotTyped, UpdatesAssumption
<1>3. /\ poller[p].batch \subseteq UpdateIds /\ poller[p].batch # {} /\ t \in Tokens
      /\ \A v \in UpdateIds \ poller[p].batch : (\E w \in poller[p].batch : v < w) => Handled(t, v)
  BY <1>1, <1>2 DEF UpdatesInv, PollersKeep, Live, Poller
<1>4. u \in poller[p].batch /\ \A w \in poller[p].batch : u <= w
  <2>1. poller[p].batch \in SUBSET Nat
    BY <1>2, <1>3 DEF UpdateIds
  <2>2. \E v \in poller[p].batch : \A w \in poller[p].batch : v <= w
    BY <1>3, <2>1, LeastOf
  <2> QED BY <2>2
<1>5. u \in UpdateIds /\ <<t, u>> \in Tokens \X UpdateIds
  BY <1>3, <1>4
<1> HIDE DEF u
<1>6. \A v \in UpdateIds : v < u => Handled(t, v)
  BY <1>2, <1>3, <1>4, <1>5 DEF UpdateIds
<1>7. /\ \A s \in Tokens, v \in UpdateIds : handled[<<s, v>>] > 0 => handled'[<<s, v>>] > 0
      /\ handled'[<<t, u>>] > 0
  BY <1>1, <1>2, <1>5
<1>8. \A v \in UpdateIds : v < u + 1 => handled'[<<t, v>>] > 0
  <2> SUFFICES ASSUME NEW v \in UpdateIds, v < u + 1 PROVE handled'[<<t, v>>] > 0
    OBVIOUS
  <2>1. v < u \/ v = u
    BY <1>5 DEF UpdateIds
  <2> QED BY <1>3, <1>6, <1>7, <2>1 DEF Handled
<1>9. \A v \in UpdateIds \ rest : (\E w \in rest : v < w) => handled'[<<t, v>>] > 0
  <2> SUFFICES ASSUME NEW v \in UpdateIds \ rest, NEW w \in rest, v < w PROVE handled'[<<t, v>>] > 0
    OBVIOUS
  <2>1. CASE v = u
    BY <1>7, <2>1
  <2>2. CASE v # u
    BY <1>3, <1>7, <2>2 DEF Handled
  <2> QED BY <2>1, <2>2
<1>10. [poller[p] EXCEPT !.at = at, !.next = u + 1, !.batch = rest] \in Poller
  <2>1. u + 1 \in 1 .. MaxUpdates + 1 /\ rest \in SUBSET UpdateIds /\ at \in {"loop", "handles"}
    BY <1>2, <1>3, <1>5 DEF UpdateIds
  <2>2. poller[p] \in Poller
    BY <1>2
  <2> HIDE DEF rest, at
  <2> QED BY <2>1, <2>2 DEF Poller
<1> DEFINE new == [poller[p] EXCEPT !.at = at, !.next = u + 1, !.batch = rest]
<1>11. new.token = t /\ new.next = u + 1 /\ new.batch = rest /\ (new.at = "handles" => rest # {})
  BY <1>2 DEF Poller
<1> HIDE DEF rest, t, at, new
<1>12. BotTyped'
  <2>1. poller' \in [Pollers -> Poller] /\ handled' \in [Tokens \X UpdateIds -> Nat]
    BY <1>1, <1>2, <1>5, <1>10
  <2> QED BY <1>1, <2>1 DEF telegramVars, managerVars, UpdatesInv, BotTyped
<1>13. TokensThere'
  BY <1>1, SameTokens DEF managerVars, UpdatesInv, BotTyped
<1>14. PollersKeep'
  <2> SUFFICES ASSUME NEW q \in Pollers, poller'[q].at # "none"
               PROVE  /\ poller'[q].token \in Tokens
                      /\ \A v \in UpdateIds : v < poller'[q].next => handled'[<<poller'[q].token, v>>] > 0
                      /\ poller'[q].at = "handles" => poller'[q].batch # {}
                      /\ \A v \in UpdateIds \ poller'[q].batch :
                           poller'[q].at = "handles" /\ (\E w \in poller'[q].batch : v < w) => handled'[<<poller'[q].token, v>>] > 0
    BY DEF PollersKeep, Live, Handled, UpdateIds
  <2>1. CASE q = p
    <3>1. poller'[q] = new
      BY <1>1, <1>2, <2>1 DEF new
    <3> QED BY <1>3, <1>8, <1>9, <1>11, <3>1
  <2>2. CASE q # p
    <3>1. poller'[q] = poller[q]
      BY <1>1, <1>2, <2>2
    <3> QED BY <1>2, <1>7, <2>2, <3>1 DEF UpdatesInv, PollersKeep, Live, Handled
  <2> QED BY <2>1, <2>2
<1>15. UpdatesKept'
  <2> SUFFICES ASSUME NEW s \in Tokens, NEW v \in 1 .. confirmed[s] PROVE Handled(s, v)'
    BY <1>1 DEF telegramVars, UpdatesKept, Handled
  <2>1. v \in UpdateIds
    BY <1>2 DEF UpdatesInv, BotTyped, UpdateIds
  <2>2. handled[<<s, v>>] > 0
    BY DEF UpdatesInv, UpdatesKept
  <2> QED BY <1>7, <2>1, <2>2 DEF Handled
<1> QED BY <1>12, <1>13, <1>14, <1>15 DEF UpdatesInv, UpdatesAssumption

LEMMA MarkStep ==
  ASSUME UpdatesInv, NEW p \in Pollers, MarkStopped(p)
  PROVE  UpdatesInv'
<1>1. /\ poller' = [poller EXCEPT ![p] = NoPoller]
      /\ manager' = [manager EXCEPT ![poller[p].of] = [@ EXCEPT !.running = FALSE]]
      /\ UNCHANGED <<saved, telegramVars, handled, boot, botToken, shared, stops, request, requests, restarts>>
  BY DEF MarkStopped
<1>2. poller \in [Pollers -> Poller] /\ manager \in [AllManagers -> Manager] /\ MaxUpdates \in Nat
  BY DEF UpdatesInv, BotTyped, UpdatesAssumption
<1>3. NoPoller \in Poller /\ NoPoller.at = "none"
  BY <1>2 DEF NoPoller, Poller, AllManagers
<1>4. manager' \in [AllManagers -> Manager] /\ \A n \in AllManagers : manager'[n].token = manager[n].token
  BY <1>1, <1>2 DEF Manager
<1>5. BotTyped'
  <2>1. poller' \in [Pollers -> Poller]
    BY <1>1, <1>2, <1>3
  <2> QED BY <1>1, <1>4, <2>1 DEF telegramVars, UpdatesInv, BotTyped
<1>6. TokensThere'
  BY <1>1, <1>4, SameTokens DEF UpdatesInv, BotTyped
<1>7. PollersKeep'
  <2> SUFFICES ASSUME NEW q \in Pollers, poller'[q].at # "none" PROVE q # p
    BY <1>1, <1>2 DEF UpdatesInv, PollersKeep, Live, Handled, UpdateIds
  <2> QED BY <1>1, <1>2, <1>3
<1>8. UpdatesKept'
  BY <1>1 DEF telegramVars, UpdatesInv, UpdatesKept
<1> QED BY <1>5, <1>6, <1>7, <1>8 DEF UpdatesInv, UpdatesAssumption

-----------------------------------------------------------------------------
(* The start of the service                                                 *)

LEMMA AutoStep ==
  ASSUME UpdatesInv, AutoPolling
  PROVE  UpdatesInv'
<1>1. /\ boot # NoSettings /\ boot' = NoSettings
      /\ UNCHANGED <<saved, sent, confirmed, handled, botToken, shared, stops, request, requests, restarts>>
  BY DEF AutoPolling
<1>2. botToken \in Tokens /\ boot.token \in Tokens \cup {NoToken} /\ Injected \in AllManagers
  BY <1>1 DEF UpdatesInv, BotTyped, TokensThere, Consistent, BotSettings, AllManagers
<1>3. hook' \subseteq Tokens
  BY <1>2 DEF AutoPolling, UpdatesInv, BotTyped
<1>4. NoSettings \in Consistent
  BY DEF Consistent, BotSettings, NoSettings
<1>5. UNCHANGED <<manager, poller>> \/ StartManager(Injected, botToken)
  BY DEF AutoPolling
<1>6. /\ manager' \in [AllManagers -> Manager] /\ poller' \in [Pollers -> Poller]
      /\ \A n \in AllManagers \ {Injected} : manager'[n] = manager[n]
      /\ PollersKeep'
  <2>1. CASE UNCHANGED <<manager, poller>>
    BY <1>1, <2>1, PollersStay DEF UpdatesInv, BotTyped, Handled
  <2>2. CASE StartManager(Injected, botToken)
    BY <1>1, <1>2, <2>2, Started
  <2> QED BY <1>5, <2>1, <2>2
<1>7. BotTyped'
  BY <1>1, <1>3, <1>4, <1>6 DEF UpdatesInv, BotTyped
<1>8. TokensThere'
  <2>1. botToken # NoToken /\ \A r \in BotRequests : request[r].op = Injected => TRUE
    BY <1>1 DEF UpdatesInv, TokensThere
  <2>2. manager[Injected].token # NoToken => manager'[Injected].token # NoToken
    <3>1. CASE UNCHANGED <<manager, poller>>
      BY <3>1
    <3>2. CASE StartManager(Injected, botToken)
      BY <1>1, <1>2, <3>2, Started
    <3> QED BY <1>5, <3>1, <3>2
  <2>3. \A n \in AllManagers : manager[n].token # NoToken => manager'[n].token # NoToken
    BY <1>6, <2>2
  <2> QED BY <1>1, <2>1, <2>3 DEF UpdatesInv, BotTyped, TokensThere, AllManagers
<1>9. UpdatesKept'
  BY <1>1 DEF UpdatesInv, UpdatesKept
<1> QED BY <1>6, <1>7, <1>8, <1>9 DEF UpdatesInv, UpdatesAssumption

LEMMA RestartStep ==
  ASSUME UpdatesInv, Restart
  PROVE  UpdatesInv'
<1>1. /\ restarts < MaxRestarts /\ restarts' = restarts + 1
      /\ boot' = saved /\ botToken' = saved.token /\ shared' = NoManager
      /\ manager' = [m \in AllManagers |-> IF m = Injected THEN FreshManager(saved.token) ELSE Unmade]
      /\ poller' = [p \in Pollers |-> NoPoller] /\ request' = [r \in BotRequests |-> NoBotRequest]
      /\ stops' = {} /\ UNCHANGED <<saved, telegramVars, handled, requests>>
  BY DEF Restart
<1>2. /\ saved \in Consistent /\ saved.token \in Tokens \cup {NoToken} /\ (saved.token = NoToken => saved = NoSettings)
      /\ MaxUpdates \in Nat /\ MaxRestarts \in Nat /\ restarts \in 0 .. MaxRestarts
  BY DEF UpdatesInv, BotTyped, Consistent, BotSettings, UpdatesAssumption
<1>3. manager' \in [AllManagers -> Manager]
  BY <1>1, <1>2 DEF Manager, FreshManager, Unmade
<1>4. poller' \in [Pollers -> Poller]
  BY <1>1, <1>2 DEF Poller, NoPoller, AllManagers
<1>5. request' \in [BotRequests -> BotRequest]
  BY <1>1 DEF BotRequest, NoBotRequest, NoSettings, BotSettings
<1>6. BotTyped'
  BY <1>1, <1>2, <1>3, <1>4, <1>5 DEF telegramVars, UpdatesInv, BotTyped
<1>7. TokensThere'
  BY <1>1, <1>2 DEF UpdatesInv, UpdatesAssumption, TokensThere, FreshManager, AllManagers, NoBotRequest
<1>8. PollersKeep'
  BY <1>1 DEF PollersKeep, Live, NoPoller
<1>9. UpdatesKept'
  BY <1>1 DEF telegramVars, UpdatesInv, UpdatesKept
<1> QED BY <1>6, <1>7, <1>8, <1>9 DEF UpdatesInv, UpdatesAssumption

-----------------------------------------------------------------------------
(* The requests                                                             *)

\* A request goes on or ends, with what it carries the token of a bot.
LEMMA RequestStep ==
  ASSUME UpdatesInv, NEW r \in BotRequests, NEW q \in BotRequest, request' = [request EXCEPT ![r] = q],
         q.op # "none" => q.with.token # NoToken,
         q.op \in AllManagers => manager'[q.op].token # NoToken,
         manager' \in [AllManagers -> Manager], \A n \in AllManagers : manager[n].token # NoToken => manager'[n].token # NoToken,
         manager'[Injected].token # NoToken => botToken' # NoToken,
         shared' \in Managers \cup {NoManager}, shared' # NoManager => manager'[shared'].token # NoToken,
         saved' \in Consistent, hook' \subseteq Tokens, stops' \subseteq AllManagers, requests' \in 0 .. MaxBotRequests,
         botToken' \in Tokens \cup {NoToken}, botToken # NoToken => botToken' # NoToken,
         PollersKeep', poller' \in [Pollers -> Poller],
         UNCHANGED <<sent, confirmed, handled, boot, restarts>>
  PROVE  UpdatesInv'
<1>1. request \in [BotRequests -> BotRequest]
  BY DEF UpdatesInv, BotTyped
<1>2. BotTyped'
  <2>1. request' \in [BotRequests -> BotRequest]
    BY <1>1
  <2> QED BY <2>1 DEF UpdatesInv, BotTyped
<1>3. TokensThere'
  <2>1. ASSUME NEW s \in BotRequests
        PROVE  /\ request'[s].op # "none" => request'[s].with.token # NoToken
               /\ request'[s].op \in AllManagers => manager'[request'[s].op].token # NoToken
    BY <1>1 DEF UpdatesInv, TokensThere
  <2> QED BY <2>1 DEF UpdatesInv, TokensThere, AllManagers
<1>4. UpdatesKept'
  BY DEF UpdatesInv, UpdatesKept
<1> QED BY <1>2, <1>3, <1>4 DEF UpdatesInv, UpdatesAssumption

LEMMA RequestEnds == NoBotRequest \in BotRequest /\ NoBotRequest.op = "none"
BY DEF BotRequest, NoBotRequest, NoSettings, BotSettings

LEMMA ArrivalCounted ==
  ASSUME UpdatesInv, NEW r \in BotRequests, Arrive(r)
  PROVE  requests' \in 0 .. MaxBotRequests
BY DEF Arrive, UpdatesInv, BotTyped, UpdatesAssumption

LEMMA SaveStep ==
  ASSUME UpdatesInv, NEW r \in BotRequests, NEW with \in Consistent, SaveBot(r, with)
  PROVE  UpdatesInv'
<1> DEFINE q == [op |-> "save", with |-> with]
<1>1. /\ with.token # NoToken /\ saved' = with /\ request' = [request EXCEPT ![r] = q] /\ Arrive(r)
      /\ UNCHANGED <<hook, sent, confirmed, handled, boot, botToken, shared, manager, stops, poller, restarts>>
  BY DEF SaveBot, NextOp, telegramVars, managerVars
<1>2. q \in BotRequest /\ q.op = "save" /\ q.with = with /\ "save" \notin AllManagers
  BY DEF BotRequest, Consistent, UpdatesInv, UpdatesAssumption
<1> HIDE DEF q
<1>3. PollersKeep'
  BY <1>1, PollersStay DEF Handled
<1> QED BY <1>1, <1>2, <1>3, ArrivalCounted, RequestStep DEF UpdatesInv, BotTyped, TokensThere

LEMMA HotStep ==
  ASSUME UpdatesInv, NEW r \in BotRequests, HotUpdate(r)
  PROVE  UpdatesInv'
<1> DEFINE q == [op |-> "switch", with |-> request[r].with]
           M == IF shared = NoManager THEN {} ELSE {shared}
<1>1. /\ request[r].op = "save" /\ request' = [request EXCEPT ![r] = q] /\ StopManagers(M) /\ shared' = NoManager
      /\ botToken' = IF HasInjected THEN request[r].with.token ELSE botToken
      /\ UNCHANGED <<saved, hook, sent, confirmed, handled, boot, poller, requests, restarts>>
  BY DEF HotUpdate, ResetShared, NextOp, telegramVars
<1>2. /\ request[r] \in BotRequest /\ request[r].with.token # NoToken /\ shared \in Managers \cup {NoManager}
  BY <1>1 DEF UpdatesInv, BotTyped, TokensThere
<1>3. q \in BotRequest /\ q.op = "switch" /\ q.with = request[r].with /\ "switch" \notin AllManagers
  BY <1>2 DEF BotRequest, UpdatesInv, UpdatesAssumption
<1>4. M \in SUBSET AllManagers
  BY <1>2 DEF AllManagers
<1>5. /\ manager' \in [AllManagers -> Manager] /\ stops' \subseteq AllManagers
      /\ \A n \in AllManagers : manager'[n].token = manager[n].token
  BY <1>1, <1>4, Stopped
<1>6. request[r].with.token \in Tokens
  BY <1>2 DEF BotRequest, BotSettings
<1> HIDE DEF q, M
<1>7. PollersKeep'
  BY <1>1, PollersStay DEF Handled
<1>8. /\ botToken' \in Tokens \cup {NoToken} /\ (botToken # NoToken => botToken' # NoToken)
      /\ (manager'[Injected].token # NoToken => botToken' # NoToken)
  BY <1>1, <1>2, <1>5, <1>6 DEF HasInjected, AllManagers, UpdatesInv, BotTyped, TokensThere
<1> QED BY <1>1, <1>2, <1>3, <1>5, <1>7, <1>8, RequestStep DEF UpdatesInv, BotTyped

LEMMA SwitchStep ==
  ASSUME UpdatesInv, NEW r \in BotRequests, SwitchTelegramWebhookOrPolling(r)
  PROVE  UpdatesInv'
<1>1. /\ request[r].op = "switch" /\ request' = [request EXCEPT ![r] = NoBotRequest]
      /\ UNCHANGED <<saved, sent, confirmed, handled, boot, botToken, shared, poller, requests, restarts>>
      /\ StopManagers({Injected}) \/ UNCHANGED <<manager, stops>>
      /\ hook' \subseteq hook \cup {request[r].with.token}
  BY DEF SwitchTelegramWebhookOrPolling, EndRequest
<1>2. request[r] \in BotRequest /\ request[r].with.token # NoToken
  BY <1>1 DEF UpdatesInv, BotTyped, TokensThere
<1>3. hook' \subseteq Tokens
  BY <1>1, <1>2 DEF BotRequest, BotSettings, UpdatesInv, BotTyped
<1>4. /\ manager' \in [AllManagers -> Manager] /\ stops' \subseteq AllManagers
      /\ \A n \in AllManagers : manager'[n].token = manager[n].token
  <2>1. CASE StopManagers({Injected})
    BY <2>1, Stopped DEF AllManagers
  <2>2. CASE UNCHANGED <<manager, stops>>
    BY <2>2 DEF UpdatesInv, BotTyped
  <2> QED BY <1>1, <2>1, <2>2
<1>5. PollersKeep'
  BY <1>1, PollersStay DEF Handled
<1>6. "none" \notin AllManagers
  BY DEF UpdatesInv, UpdatesAssumption
<1> QED BY <1>1, <1>3, <1>4, <1>5, <1>6, RequestEnds, RequestStep DEF UpdatesInv, BotTyped, TokensThere, AllManagers


LEMMA DeleteStep ==
  ASSUME UpdatesInv, NEW r \in BotRequests, DeleteBot(r)
  PROVE  UpdatesInv'
<1> DEFINE q == [op |-> "delete", with |-> saved]
<1>1. /\ saved.token # NoToken /\ request' = [request EXCEPT ![r] = q] /\ Arrive(r)
      /\ hook' \subseteq hook
      /\ UNCHANGED <<saved, sent, confirmed, handled, boot, botToken, shared, manager, stops, poller, restarts>>
  BY DEF DeleteBot, NextOp, managerVars
<1>2. q \in BotRequest /\ q.op = "delete" /\ q.with = saved /\ "delete" \notin AllManagers
  BY DEF BotRequest, Consistent, UpdatesInv, BotTyped, UpdatesAssumption
<1> HIDE DEF q
<1>3. PollersKeep'
  BY <1>1, PollersStay DEF Handled
<1> QED BY <1>1, <1>2, <1>3, ArrivalCounted, RequestStep DEF UpdatesInv, BotTyped, TokensThere

LEMMA StopAllStep ==
  ASSUME UpdatesInv, NEW r \in BotRequests, StopAllPolling(r)
  PROVE  UpdatesInv'
<1> DEFINE M == {Injected} \cup (IF shared = NoManager THEN {} ELSE {shared})
<1>1. /\ request' = [request EXCEPT ![r] = NoBotRequest] /\ StopManagers(M) /\ shared' = NoManager
      /\ saved' = NoSettings
      /\ UNCHANGED <<hook, sent, confirmed, handled, boot, botToken, poller, requests, restarts>>
  BY DEF StopAllPolling, EndRequest, telegramVars
<1>2. M \in SUBSET AllManagers
  BY DEF AllManagers, UpdatesInv, BotTyped
<1>3. /\ manager' \in [AllManagers -> Manager] /\ stops' \subseteq AllManagers
      /\ \A n \in AllManagers : manager'[n].token = manager[n].token
  BY <1>1, <1>2, Stopped
<1> HIDE DEF M
<1>4. PollersKeep'
  BY <1>1, PollersStay DEF Handled
<1>5. NoSettings \in Consistent /\ "none" \notin AllManagers
  BY DEF Consistent, BotSettings, NoSettings, UpdatesInv, UpdatesAssumption
<1> QED BY <1>1, <1>3, <1>4, <1>5, RequestEnds, RequestStep DEF UpdatesInv, BotTyped, TokensThere, AllManagers

\* The manager chosen has a token, if need be that of the settings.
LEMMA PostStep ==
  ASSUME UpdatesInv, NEW r \in BotRequests, PollingPOST(r)
  PROVE  UpdatesInv'
<1>1. /\ saved.token # NoToken /\ Arrive(r) /\ ChooseManager(r) /\ hook' \subseteq hook
      /\ UNCHANGED <<saved, sent, confirmed, handled, boot, botToken, stops, poller, restarts>>
  BY DEF PollingPOST
<1>2. PICK m \in Chosen :
        /\ shared' = IF m = Injected THEN shared ELSE m
        /\ manager' = IF manager[m] = Unmade THEN [manager EXCEPT ![m] = FreshManager(saved.token)] ELSE manager
        /\ NextOp(r, m, saved)
  BY <1>1 DEF ChooseManager
<1>3. /\ manager \in [AllManagers -> Manager] /\ saved \in BotSettings /\ saved.token \in Tokens \cup {NoToken}
      /\ shared \in Managers \cup {NoManager} /\ Injected \notin Managers /\ Injected \in AllManagers
  BY DEF UpdatesInv, BotTyped, UpdatesAssumption, Consistent, BotSettings, AllManagers
<1>4. /\ m \in AllManagers /\ (m = Injected => manager[m].token # NoToken)
      /\ (m # Injected => m \in Managers /\ (manager[m] = Unmade \/ manager[m].token # NoToken))
  BY <1>3 DEF Chosen, HasInjected, AllManagers, UpdatesInv, TokensThere
<1>5. Unmade.token = NoToken /\ FreshManager(saved.token).token = saved.token /\ FreshManager(saved.token) \in Manager
  BY <1>3 DEF Unmade, FreshManager, Manager
<1>6. /\ manager' \in [AllManagers -> Manager] /\ manager'[m].token # NoToken /\ manager'[Injected] = manager[Injected]
      /\ \A n \in AllManagers : manager[n].token # NoToken => manager'[n].token # NoToken
  BY <1>1, <1>2, <1>3, <1>4, <1>5
<1> DEFINE q == [op |-> m, with |-> saved]
<1>7. q \in BotRequest /\ q.op = m /\ q.with = saved /\ request' = [request EXCEPT ![r] = q]
  BY <1>2, <1>3, <1>4 DEF BotRequest, NextOp
<1> HIDE DEF q
<1>8. shared' \in Managers \cup {NoManager} /\ (shared' # NoManager => manager'[shared'].token # NoToken)
  BY <1>2, <1>3, <1>4, <1>6 DEF UpdatesInv, TokensThere, AllManagers
<1>9. PollersKeep'
  BY <1>1, PollersStay DEF Handled
<1> QED BY <1>1, <1>6, <1>7, <1>8, <1>9, ArrivalCounted, RequestStep DEF UpdatesInv, BotTyped, TokensThere

LEMMA StartPollingStep ==
  ASSUME UpdatesInv, NEW r \in BotRequests, StartPolling(r)
  PROVE  UpdatesInv'
<1> DEFINE m == request[r].op
           token == IF m = Injected THEN botToken ELSE manager[m].token
<1>1. /\ m \in AllManagers /\ StartManager(m, token) /\ request' = [request EXCEPT ![r] = NoBotRequest]
      /\ UNCHANGED <<saved, hook, sent, confirmed, handled, boot, botToken, shared, stops, requests, restarts>>
  BY DEF StartPolling, EndRequest, telegramVars
<1>2. manager[m].token # NoToken /\ manager[m] \in Manager
  BY <1>1 DEF UpdatesInv, BotTyped, TokensThere
<1>3. token \in Tokens
  BY <1>2 DEF UpdatesInv, BotTyped, TokensThere, Manager
<1>4. /\ manager' \in [AllManagers -> Manager] /\ poller' \in [Pollers -> Poller]
      /\ \A n \in AllManagers \ {m} : manager'[n] = manager[n]
      /\ manager'[m].token # NoToken /\ PollersKeep'
  BY <1>1, <1>2, <1>3, Started
<1>5. \A n \in AllManagers : manager[n].token # NoToken => manager'[n].token # NoToken
  BY <1>4
<1>6. manager'[Injected].token # NoToken => botToken # NoToken
  BY <1>2, <1>4 DEF AllManagers, UpdatesInv, TokensThere
<1>7. "none" \notin AllManagers
  BY DEF UpdatesInv, UpdatesAssumption
<1> HIDE DEF token
<1> QED BY <1>1, <1>4, <1>5, <1>6, <1>7, RequestEnds, RequestStep DEF UpdatesInv, BotTyped, TokensThere, AllManagers

LEMMA PollingDeleteStep ==
  ASSUME UpdatesInv, NEW r \in BotRequests, PollingDELETE(r)
  PROVE  UpdatesInv'
<1> DEFINE M == IF HasInjected THEN {Injected} ELSE IF shared = NoManager THEN {} ELSE {shared}
<1>1. /\ Arrive(r) /\ saved.token # NoToken /\ StopManagers(M) /\ hook' \subseteq hook \cup {saved.token}
      /\ UNCHANGED <<saved, sent, confirmed, handled, boot, botToken, shared, poller, request, restarts>>
  BY DEF PollingDELETE
<1>2. M \in SUBSET AllManagers
  BY DEF AllManagers, UpdatesInv, BotTyped
<1>3. /\ manager' \in [AllManagers -> Manager] /\ stops' \subseteq AllManagers
      /\ \A n \in AllManagers : manager'[n].token = manager[n].token
  BY <1>1, <1>2, Stopped
<1> HIDE DEF M
<1>4. hook' \subseteq Tokens
  BY <1>1 DEF UpdatesInv, BotTyped, Consistent, BotSettings
<1>5. PollersKeep'
  BY <1>1, PollersStay DEF Handled
<1> DEFINE q == request[r]
<1>6. /\ q \in BotRequest /\ request' = [request EXCEPT ![r] = q] /\ (q.op # "none" => q.with.token # NoToken)
      /\ (q.op \in AllManagers => manager'[q.op].token # NoToken)
  BY <1>1, <1>3 DEF UpdatesInv, BotTyped, TokensThere
<1> HIDE DEF q
<1>7. requests' \in 0 .. MaxBotRequests
  BY <1>1, ArrivalCounted
<1>8. manager[Injected].token # NoToken => botToken # NoToken
  BY DEF UpdatesInv, TokensThere
<1>9. /\ shared \in Managers \cup {NoManager} /\ saved \in Consistent /\ botToken \in Tokens \cup {NoToken}
      /\ poller \in [Pollers -> Poller] /\ (shared # NoManager => manager[shared].token # NoToken)
  BY DEF UpdatesInv, BotTyped, TokensThere
<1>10. Injected \in AllManagers /\ (shared # NoManager => shared \in AllManagers)
  BY <1>9 DEF AllManagers
<1>11. /\ \A n \in AllManagers : manager[n].token # NoToken => manager'[n].token # NoToken
       /\ manager'[Injected].token # NoToken => botToken' # NoToken
       /\ shared' \in Managers \cup {NoManager} /\ (shared' # NoManager => manager'[shared'].token # NoToken)
  BY <1>1, <1>3, <1>8, <1>9, <1>10
<1>12. /\ saved' \in Consistent /\ botToken' \in Tokens \cup {NoToken} /\ (botToken # NoToken => botToken' # NoToken)
       /\ poller' \in [Pollers -> Poller] /\ UNCHANGED <<sent, confirmed, handled, boot, restarts>>
  BY <1>1, <1>9
<1> QED BY <1>3, <1>4, <1>5, <1>6, <1>7, <1>11, <1>12, RequestStep

LEMMA UpdatesStep == UpdatesInv /\ [UpdatesNext]_updateVars => UpdatesInv'
<1> SUFFICES ASSUME UpdatesInv, [UpdatesNext]_updateVars PROVE UpdatesInv'
  OBVIOUS
<1>1. CASE UNCHANGED updateVars
  BY <1>1 DEF updateVars, telegramVars, managerVars, UpdatesInv, UpdatesAssumption, BotTyped, TokensThere, PollersKeep,
              UpdatesKept, Live, Handled, UpdateIds, Poller, Manager, BotRequest
<1>2. ASSUME NEW t \in Tokens, Send(t) \/ HandleTelegramWebhook(t) PROVE UpdatesInv'
  BY <1>2, UpdateSent, WebhookStep
<1>3. ASSUME NEW p \in Pollers, Look(p) \/ GetUpdates(p) \/ GetNothing(p) \/ HandleUpdate(p) \/ MarkStopped(p)
      PROVE  UpdatesInv'
  <2>1. CASE Look(p)
    BY <2>1, PollerMoves DEF Look, Live
  <2>2. CASE GetNothing(p)
    BY <2>2, PollerMoves DEF GetNothing, Live
  <2> QED BY <1>3, <2>1, <2>2, GetUpdatesStep, HandleStep, MarkStep
<1>4. ASSUME NEW r \in BotRequests,
             \/ \E with \in Consistent : SaveBot(r, with)
             \/ HotUpdate(r) \/ SwitchTelegramWebhookOrPolling(r)
             \/ DeleteBot(r) \/ StopAllPolling(r)
             \/ PollingPOST(r) \/ StartPolling(r) \/ PollingDELETE(r)
      PROVE  UpdatesInv'
  BY <1>4, SaveStep, HotStep, SwitchStep, DeleteStep, StopAllStep, PostStep, StartPollingStep, PollingDeleteStep
<1> QED BY <1>1, <1>2, <1>3, <1>4, AutoStep, RestartStep DEF UpdatesNext

\* Telegram forgets only updates that were handled, whatever polls, is stopped,
\* switched to the webhook or restarted (the offset of consume in polling.go).
THEOREM NoUpdateForgotten == UpdatesAssumption /\ UpdatesSpec => []UpdatesKept
<1>1. UpdatesInv => UpdatesKept
  BY DEF UpdatesInv
<1> QED BY <1>1, UpdatesStart, UpdatesStep, PTL DEF UpdatesSpec

\* The settings, the managers, the goroutines and the requests have their types.
THEOREM UpdatesTyped == UpdatesAssumption /\ UpdatesSpec => []UpdatesTypeOK
<1>1. UpdatesInv => UpdatesTypeOK
  BY DEF UpdatesInv, BotTyped, UpdatesTypeOK, Consistent, Poller, Manager, BotRequest
<1> QED BY <1>1, UpdatesStart, UpdatesStep, PTL DEF UpdatesSpec

-----------------------------------------------------------------------------
(***************************************************************************)
(* One goroutine per manager: the stop channel of a manager nobody stopped *)
(* is open, none of its goroutines is on its way out, and it has one when  *)
(* it runs and none otherwise.                                             *)
(***************************************************************************)
PollersOf(m) == {p \in Pollers : Live(p) /\ poller[p].of = m}
OneEach ==
  \A m \in AllManagers \ stops :
    /\ manager[m].open
    /\ \A p \in PollersOf(m) : poller[p].at # "leaves"
    /\ manager[m].running => \E p \in Pollers : PollersOf(m) = {p}
    /\ ~manager[m].running => PollersOf(m) = {}

\* A step that neither starts a goroutine nor ends one.
LEMMA NobodyStarts ==
  ASSUME OneEach,
         \A m \in AllManagers \ stops' :
           m \notin stops /\ manager'[m].open /\ manager'[m].running = manager[m].running,
         \A p \in Pollers :
           /\ poller'[p].at # "none" <=> poller[p].at # "none"
           /\ poller'[p].of = poller[p].of
           /\ poller'[p].at = "leaves" => poller[p].at = "leaves" \/ ~manager[poller[p].of].open
  PROVE  OneEach'
<1> SUFFICES ASSUME NEW m \in AllManagers \ stops'
             PROVE  /\ manager'[m].open
                    /\ \A p \in PollersOf(m)' : poller'[p].at # "leaves"
                    /\ manager'[m].running => \E p \in Pollers : PollersOf(m)' = {p}
                    /\ ~manager'[m].running => PollersOf(m)' = {}
  BY DEF OneEach, AllManagers
<1>1. m \in AllManagers \ stops
  OBVIOUS
<1>2. /\ manager[m].open /\ \A p \in PollersOf(m) : poller[p].at # "leaves"
      /\ manager[m].running => \E p \in Pollers : PollersOf(m) = {p}
      /\ ~manager[m].running => PollersOf(m) = {}
  BY <1>1 DEF OneEach
<1>3. PollersOf(m)' = PollersOf(m)
  BY DEF PollersOf, Live
<1>4. \A p \in PollersOf(m) : poller'[p].at # "leaves"
  BY <1>2 DEF PollersOf
<1> QED BY <1>2, <1>3, <1>4

LEMMA PollerStarts ==
  ASSUME UpdatesInv, OneEach, NEW m \in AllManagers, NEW token, StartManager(m, token), UNCHANGED stops
  PROVE  OneEach'
<1>1. poller \in [Pollers -> Poller] /\ manager \in [AllManagers -> Manager]
  BY DEF UpdatesInv, BotTyped
<1>2. CASE UNCHANGED <<manager, poller>>
  BY <1>2 DEF OneEach, PollersOf, Live, AllManagers
<1>3. CASE ~manager[m].running /\ StartPoller(m, token)
  <2> DEFINE p == CHOOSE q \in Pollers : ~Live(q)
             started == [at |-> "loop", of |-> m, token |-> token, next |-> 1, batch |-> {}]
  <2>1. p \in Pollers /\ ~Live(p)
    BY <1>3 DEF StartPoller
  <2>2. manager' = [manager EXCEPT ![m] = [token |-> token, running |-> TRUE, open |-> TRUE]]
    BY <1>3 DEF StartPoller
  <2>3. poller' = [poller EXCEPT ![p] = started]
    BY <1>3 DEF StartPoller
  <2>4. started.at = "loop" /\ started.of = m
    OBVIOUS
  <2> HIDE DEF p, started
  <2>5. \A n \in AllManagers \ {m} : PollersOf(n)' = PollersOf(n)
    BY <1>1, <2>1, <2>3, <2>4 DEF PollersOf, Live
  <2>6. m \notin stops => PollersOf(m)' = {p}
    <3> SUFFICES ASSUME m \notin stops PROVE PollersOf(m)' = {p}
      OBVIOUS
    <3>1. PollersOf(m) = {}
      BY <1>3 DEF OneEach
    <3> QED BY <1>1, <2>1, <2>3, <2>4, <3>1 DEF PollersOf, Live
  <2> SUFFICES ASSUME NEW n \in AllManagers \ stops
               PROVE  /\ manager'[n].open
                      /\ \A q \in PollersOf(n)' : poller'[q].at # "leaves"
                      /\ manager'[n].running => \E q \in Pollers : PollersOf(n)' = {q}
                      /\ ~manager'[n].running => PollersOf(n)' = {}
    BY DEF OneEach, AllManagers
  <2>7. CASE n = m
    <3>1. PollersOf(n)' = {p} /\ poller'[p].at # "leaves" /\ manager'[n].open /\ manager'[n].running
      BY <1>1, <2>1, <2>2, <2>3, <2>4, <2>6, <2>7
    <3> QED BY <2>1, <3>1
  <2>8. CASE n # m
    <3>1. PollersOf(n)' = PollersOf(n) /\ manager'[n] = manager[n]
      BY <1>1, <2>2, <2>5, <2>8
    <3>2. \A q \in PollersOf(n) : poller'[q] = poller[q]
      BY <1>1, <2>1, <2>3 DEF PollersOf
    <3> QED BY <3>1, <3>2 DEF OneEach
  <2> QED BY <2>7, <2>8
<1> QED BY <1>2, <1>3 DEF StartManager, MayStart

LEMMA ManagersStop ==
  ASSUME UpdatesInv, OneEach, NEW M \in SUBSET AllManagers, StopManagers(M), UNCHANGED poller
  PROVE  OneEach'
<1>1. manager \in [AllManagers -> Manager] /\ stops \subseteq AllManagers
  BY DEF UpdatesInv, BotTyped
<1>2. ASSUME NEW m \in AllManagers \ stops'
      PROVE  m \notin stops /\ manager'[m].open /\ manager'[m].running = manager[m].running
  <2>1. m \notin stops /\ m \notin Running(M) /\ manager[m].open
    BY <1>1 DEF StopManagers, OneEach
  <2>2. CASE m \in M
    <3>1. ~manager[m].running /\ manager'[m] = StoppedManager(m)
      BY <2>1, <2>2 DEF StopManagers, Running
    <3> QED BY <1>1, <2>1, <3>1 DEF StoppedManager, Manager
  <2>3. CASE m \notin M
    BY <2>1, <2>3 DEF StopManagers
  <2> QED BY <2>2, <2>3
<1> QED BY <1>2, NobodyStarts

LEMMA OneEachStart == UpdatesInit => OneEach
BY DEF UpdatesInit, OneEach, PollersOf, Live, NoPoller, FreshManager, Unmade

LEMMA OneEachPollers ==
  ASSUME UpdatesInv, OneEach, NEW p \in Pollers,
         Look(p) \/ GetUpdates(p) \/ GetNothing(p) \/ HandleUpdate(p) \/ MarkStopped(p)
  PROVE  OneEach'
<1>1. poller \in [Pollers -> Poller] /\ manager \in [AllManagers -> Manager]
  BY DEF UpdatesInv, BotTyped
<1>2. CASE Look(p) \/ GetUpdates(p) \/ GetNothing(p) \/ HandleUpdate(p)
  <2>1. UNCHANGED <<manager, stops>>
    BY <1>2 DEF Look, GetUpdates, GetNothing, HandleUpdate, managerVars
  <2>2. \A q \in Pollers :
          /\ poller'[q].at # "none" <=> poller[q].at # "none"
          /\ poller'[q].of = poller[q].of
          /\ poller'[q].at = "leaves" => poller[q].at = "leaves" \/ ~manager[poller[q].of].open
    <3>1. CASE Look(p)
      BY <1>1, <3>1 DEF Look, Poller, Manager
    <3>2. CASE GetUpdates(p)
      <4> DEFINE batch == {u \in Batch(p) : u > confirmed[poller[p].token]}
      <4>1. poller[p].at = "asks" /\ poller' = [poller EXCEPT ![p].at = "handles", ![p].batch = batch]
        BY <3>2 DEF GetUpdates
      <4> HIDE DEF batch
      <4> QED BY <1>1, <4>1 DEF Poller
    <3>3. CASE GetNothing(p)
      BY <1>1, <3>3 DEF GetNothing, Poller
    <3>4. CASE HandleUpdate(p)
      <4> DEFINE u == CHOOSE v \in poller[p].batch : \A w \in poller[p].batch : v <= w
                 rest == poller[p].batch \ {u}
                 at == IF rest = {} THEN "loop" ELSE "handles"
      <4>1. /\ poller[p].at = "handles"
            /\ poller' = [poller EXCEPT ![p] = [poller[p] EXCEPT !.at = at, !.next = u + 1, !.batch = rest]]
        BY <3>4 DEF HandleUpdate
      <4>2. at \in {"loop", "handles"}
        OBVIOUS
      <4> HIDE DEF u, rest, at
      <4> QED BY <1>1, <4>1, <4>2 DEF Poller
    <3> QED BY <1>2, <3>1, <3>2, <3>3, <3>4
  <2>3. \A m \in AllManagers \ stops' : m \notin stops /\ manager'[m].open /\ manager'[m].running = manager[m].running
    BY <2>1 DEF OneEach
  <2> QED BY <2>2, <2>3, NobodyStarts
<1>3. CASE MarkStopped(p)
  <2>1. /\ poller[p].at = "leaves" /\ poller' = [poller EXCEPT ![p] = NoPoller] /\ UNCHANGED stops
        /\ manager' = [manager EXCEPT ![poller[p].of] = [@ EXCEPT !.running = FALSE]]
    BY <1>3 DEF MarkStopped
  <2>2. poller[p].of \in AllManagers
    BY <1>1 DEF Poller
  <2>3. poller[p].of \in stops
    BY <2>1, <2>2 DEF OneEach, PollersOf, Live
  <2>4. NoPoller.at = "none"
    BY DEF NoPoller
  <2>5. \A m \in AllManagers \ stops : PollersOf(m)' = PollersOf(m) /\ manager'[m] = manager[m] /\ p \notin PollersOf(m)
    BY <1>1, <2>1, <2>3, <2>4 DEF PollersOf, Live
  <2>6. \A q \in Pollers \ {p} : poller'[q] = poller[q]
    BY <1>1, <2>1
  <2>7. \A m \in AllManagers \ stops : \A q \in PollersOf(m) : poller'[q] = poller[q]
    BY <2>5, <2>6 DEF PollersOf
  <2> SUFFICES ASSUME NEW m \in AllManagers \ stops
               PROVE  /\ manager'[m].open
                      /\ \A q \in PollersOf(m)' : poller'[q].at # "leaves"
                      /\ manager'[m].running => \E q \in Pollers : PollersOf(m)' = {q}
                      /\ ~manager'[m].running => PollersOf(m)' = {}
    BY <2>1 DEF OneEach, AllManagers
  <2> QED BY <2>5, <2>7 DEF OneEach
<1> QED BY <1>2, <1>3

LEMMA OneEachRestart == Restart => OneEach'
BY DEF Restart, OneEach, PollersOf, Live, NoPoller, FreshManager, Unmade, AllManagers

\* Choosing a manager for a request leaves it idle if it is new.
LEMMA ManagerChosen ==
  ASSUME UpdatesInv, OneEach, NEW r \in BotRequests, PollingPOST(r)
  PROVE  OneEach'
<1>1. PICK m \in Chosen :
        manager' = IF manager[m] = Unmade THEN [manager EXCEPT ![m] = FreshManager(saved.token)] ELSE manager
  BY DEF PollingPOST, ChooseManager
<1>2. UNCHANGED <<stops, poller>> /\ manager \in [AllManagers -> Manager]
  BY DEF PollingPOST, UpdatesInv, BotTyped
<1>3. \A n \in AllManagers : manager'[n] = manager[n] \/ (manager[n] = Unmade /\ manager'[n] = FreshManager(saved.token))
  <2>1. CASE manager[m] = Unmade
    <3> DEFINE fresh == FreshManager(saved.token)
    <3>1. manager' = [manager EXCEPT ![m] = fresh]
      BY <1>1, <2>1
    <3> HIDE DEF fresh
    <3>2. \A n \in AllManagers : manager'[n] = manager[n] \/ (manager[n] = Unmade /\ manager'[n] = fresh)
      BY <1>2, <2>1, <3>1
    <3> QED BY <3>2 DEF fresh
  <2>2. CASE manager[m] # Unmade
    BY <1>1, <2>2
  <2> QED BY <2>1, <2>2
<1>4. \A n \in AllManagers \ stops' : n \notin stops /\ manager'[n].open /\ manager'[n].running = manager[n].running
  <2>1. Unmade.running = FALSE /\ FreshManager(saved.token).running = FALSE /\ FreshManager(saved.token).open = TRUE
    BY DEF Unmade, FreshManager
  <2>2. stops' = stops /\ \A n \in AllManagers \ stops : manager[n].open
    BY <1>2 DEF OneEach
  <2> QED BY <1>3, <2>1, <2>2
<1>5. \A p \in Pollers : poller'[p] = poller[p]
  BY <1>2
<1> QED BY <1>4, <1>5, NobodyStarts

LEMMA OneEachRequests ==
  ASSUME UpdatesInv, OneEach, NEW r \in BotRequests,
         \/ \E with \in Consistent : SaveBot(r, with)
         \/ HotUpdate(r) \/ SwitchTelegramWebhookOrPolling(r)
         \/ DeleteBot(r) \/ StopAllPolling(r)
         \/ PollingPOST(r) \/ StartPolling(r) \/ PollingDELETE(r)
  PROVE  OneEach'
<1>1. shared \in Managers \cup {NoManager} /\ request \in [BotRequests -> BotRequest]
  BY DEF UpdatesInv, BotTyped
<1> DEFINE S == IF shared = NoManager THEN {} ELSE {shared}
<1>2. S \in SUBSET AllManagers /\ Injected \in AllManagers
  BY <1>1 DEF AllManagers
<1>3. CASE (\E with \in Consistent : SaveBot(r, with)) \/ DeleteBot(r)
  <2>1. UNCHANGED <<manager, stops, poller>>
    BY <1>3 DEF SaveBot, DeleteBot, managerVars
  <2> QED BY <2>1 DEF OneEach, PollersOf, Live, AllManagers
<1>4. CASE HotUpdate(r)
  <2>1. StopManagers(S) /\ UNCHANGED poller
    BY <1>4 DEF HotUpdate, ResetShared
  <2> QED BY <1>2, <2>1, ManagersStop
<1>5. CASE SwitchTelegramWebhookOrPolling(r)
  <2>1. UNCHANGED poller /\ (StopManagers({Injected}) \/ UNCHANGED <<manager, stops>>)
    BY <1>5 DEF SwitchTelegramWebhookOrPolling
  <2>2. CASE StopManagers({Injected})
    BY <1>2, <2>1, <2>2, ManagersStop
  <2>3. CASE UNCHANGED <<manager, stops>>
    BY <2>1, <2>3 DEF OneEach, PollersOf, Live, AllManagers
  <2> QED BY <2>1, <2>2, <2>3
<1>6. CASE StopAllPolling(r)
  <2>1. StopManagers({Injected} \cup S) /\ UNCHANGED poller /\ {Injected} \cup S \in SUBSET AllManagers
    BY <1>2, <1>6 DEF StopAllPolling
  <2> QED BY <2>1, ManagersStop
<1>7. CASE PollingPOST(r)
  BY <1>7, ManagerChosen
<1>8. CASE StartPolling(r)
  <2> DEFINE m == request[r].op
             token == IF m = Injected THEN botToken ELSE manager[m].token
  <2>1. m \in AllManagers /\ StartManager(m, token) /\ UNCHANGED stops
    BY <1>8 DEF StartPolling
  <2> HIDE DEF token
  <2> QED BY <2>1, PollerStarts
<1>9. CASE PollingDELETE(r)
  <2> DEFINE M == IF HasInjected THEN {Injected} ELSE S
  <2>1. StopManagers(M) /\ UNCHANGED poller /\ M \in SUBSET AllManagers
    BY <1>2, <1>9 DEF PollingDELETE
  <2> HIDE DEF M
  <2> QED BY <2>1, ManagersStop
<1> QED BY <1>3, <1>4, <1>5, <1>6, <1>7, <1>8, <1>9

LEMMA OneEachStep == UpdatesInv /\ OneEach /\ [UpdatesNext]_updateVars => OneEach'
<1> SUFFICES ASSUME UpdatesInv, OneEach, [UpdatesNext]_updateVars PROVE OneEach'
  OBVIOUS
<1>1. ASSUME UNCHANGED <<manager, stops, poller>> PROVE OneEach'
  BY <1>1 DEF OneEach, PollersOf, Live, AllManagers
<1>2. CASE UNCHANGED updateVars
  BY <1>1, <1>2 DEF updateVars, managerVars
<1>3. ASSUME NEW t \in Tokens, Send(t) \/ HandleTelegramWebhook(t) PROVE OneEach'
  BY <1>1, <1>3 DEF Send, HandleTelegramWebhook, managerVars
<1>4. CASE AutoPolling
  <2>1. UNCHANGED stops /\ Injected \in AllManagers
    BY <1>4 DEF AutoPolling, AllManagers
  <2>2. StartManager(Injected, botToken) \/ UNCHANGED <<manager, poller>>
    BY <1>4 DEF AutoPolling
  <2> QED BY <1>1, <2>1, <2>2, PollerStarts
<1> QED BY <1>2, <1>3, <1>4, OneEachPollers, OneEachRequests, OneEachRestart DEF UpdatesNext

\* A manager that was never stopped has one goroutine when it runs and none when
\* it does not, whichever of the start of the service and the requests start it.
THEOREM OnePollerEach == UpdatesAssumption /\ UpdatesSpec => []OnePoller
<1>1. OneEach => OnePoller
  <2> SUFFICES ASSUME OneEach, NEW m \in AllManagers \ stops
               PROVE  Cardinality(PollersOf(m)) = IF manager[m].running THEN 1 ELSE 0
    BY DEF OnePoller, PollersOf
  <2>1. CASE manager[m].running
    <3>1. PICK p \in Pollers : PollersOf(m) = {p}
      BY <2>1 DEF OneEach
    <3> QED BY <2>1, <3>1, FS_Singleton
  <2>2. CASE ~manager[m].running
    <3>1. PollersOf(m) = {}
      BY <2>2 DEF OneEach
    <3> QED BY <2>2, <3>1, FS_EmptySet
  <2> QED BY <2>1, <2>2
<1> QED BY <1>1, UpdatesStart, UpdatesStep, OneEachStart, OneEachStep, PTL DEF UpdatesSpec


-----------------------------------------------------------------------------
(***************************************************************************)
(* Notifications: a note is in at most one cell.  The cells are the        *)
(* buckets, the hands of the flushers, the places of the send queue, the   *)
(* senders, the notes that are settled and those that a process took with  *)
(* it; a step moves what one cell holds to another, or shifts the queue,   *)
(* and the end of a process moves what all of them hold to the last one.   *)
(***************************************************************************)
Cells ==
  ({"bucket"} \X BatchKeys) \cup ({"hand"} \X Flushers) \cup ({"queue"} \X (Nat \ {0}))
  \cup ({"sender"} \X Senders) \cup {<<"settled">>, <<"lost">>}
Queued(i) == IF i \in DOMAIN sendQueue THEN ToSet(sendQueue[i]) ELSE {}
In(c) ==
  CASE c[1] = "bucket" -> ToSet(batches[c[2]])
    [] c[1] = "hand" -> ToSet(hand[c[2]])
    [] c[1] = "queue" -> Queued(c[2])
    [] c[1] = "sender" -> ToSet(sending[c[2]].msg)
    [] c[1] = "settled" -> settled
    [] OTHER -> lost

Sending == [msg : Seq(Notes), at : SendStages, tries : Nat]
NotesTyped ==
  /\ producer \in [Notes -> {"new", "checked", "full", "send", "done"}]
  /\ batches \in [BatchKeys -> Seq(Notes)] /\ hand \in [Flushers -> Seq(Notes)]
  /\ keysLeft \subseteq BatchKeys
  /\ sendQueue \in Seq(Seq(Notes)) /\ sending \in [Senders -> Sending]
  /\ worker \in {"none", "runs"}
  /\ settled \subseteq Notes /\ lost \subseteq Notes
NotesApart == \A c, d \in Cells : c # d => In(c) \cap In(d) = {}
NotesSomewhere ==
  \A n \in Notes : producer[n] \in {"new", "checked"} <=> \A c \in Cells : n \notin In(c)
ProducersAhead ==
  \A n \in Notes : /\ producer[n] \in {"checked", "full"} => BatchKeyOf[n] \in BatchKeys
                   /\ producer[n] # "send" => hand[n] = <<>>
NotesInv == NotifyAssumption /\ NotesTyped /\ NotesApart /\ NotesSomewhere /\ ProducersAhead

LEMMA SetsOf ==
  ASSUME NEW S, NEW s \in Seq(S), NEW x \in S
  PROVE  ToSet(<<x>>) = {x} /\ ToSet(s) \subseteq S
BY DEF ToSet

\* What a longer sequence has, in its order (Append by what it does).
LEMMA LongerSet ==
  ASSUME NEW s \in Seq(Notes), NEW n \in Notes, NEW t \in Seq(Notes),
         Len(t) = Len(s) + 1, t[Len(s) + 1] = n, \A i \in 1 .. Len(s) : t[i] = s[i]
  PROVE  ToSet(t) = ToSet(s) \cup {n}
<1>1. DOMAIN t = 1 .. Len(s) + 1 /\ DOMAIN s = 1 .. Len(s) /\ Len(s) \in Nat
  OBVIOUS
<1> QED BY <1>1 DEF ToSet

LEMMA NothingIn == ToSet(<<>>) = {}
BY DEF ToSet

\* What a cell of each kind holds.
LEMMA CellsHold ==
  /\ \A k \in BatchKeys : <<"bucket", k>> \in Cells /\ In(<<"bucket", k>>) = ToSet(batches[k])
  /\ \A f \in Flushers : <<"hand", f>> \in Cells /\ In(<<"hand", f>>) = ToSet(hand[f])
  /\ \A i \in Nat \ {0} : <<"queue", i>> \in Cells /\ In(<<"queue", i>>) = Queued(i)
  /\ \A s \in Senders : <<"sender", s>> \in Cells /\ In(<<"sender", s>>) = ToSet(sending[s].msg)
  /\ <<"settled">> \in Cells /\ In(<<"settled">>) = settled
  /\ <<"lost">> \in Cells /\ In(<<"lost">>) = lost
BY DEF Cells, In

\* The same after a step.
LEMMA CellsWillHold ==
  /\ \A k \in BatchKeys : In(<<"bucket", k>>)' = ToSet(batches'[k])
  /\ \A f \in Flushers : In(<<"hand", f>>)' = ToSet(hand'[f])
  /\ \A i \in Nat \ {0} : In(<<"queue", i>>)' = IF i \in DOMAIN sendQueue' THEN ToSet(sendQueue'[i]) ELSE {}
  /\ \A s \in Senders : In(<<"sender", s>>)' = ToSet(sending'[s].msg)
  /\ In(<<"settled">>)' = settled' /\ In(<<"lost">>)' = lost'
BY DEF In, Queued

LEMMA CellKinds ==
  ASSUME NEW c \in Cells
  PROVE  \/ \E k \in BatchKeys : c = <<"bucket", k>>
         \/ \E f \in Flushers : c = <<"hand", f>>
         \/ \E i \in Nat \ {0} : c = <<"queue", i>>
         \/ \E s \in Senders : c = <<"sender", s>>
         \/ c = <<"settled">> \/ c = <<"lost">>
BY DEF Cells

\* A step after which every cell but a and b holds what it held.
LEMMA CellsStay ==
  ASSUME NEW a, NEW b,
         \A k \in BatchKeys : <<"bucket", k>> \notin {a, b} => ToSet(batches'[k]) = ToSet(batches[k]),
         \A f \in Flushers : <<"hand", f>> \notin {a, b} => ToSet(hand'[f]) = ToSet(hand[f]),
         \A i \in Nat \ {0} : <<"queue", i>> \notin {a, b} => Queued(i)' = Queued(i),
         \A s \in Senders : <<"sender", s>> \notin {a, b} => ToSet(sending'[s].msg) = ToSet(sending[s].msg),
         <<"settled">> \notin {a, b} => settled' = settled, lost' = lost
  PROVE  \A c \in Cells \ {a, b} : In(c)' = In(c)
<1> SUFFICES ASSUME NEW c \in Cells \ {a, b} PROVE In(c)' = In(c)
  OBVIOUS
<1>1. CASE \E k \in BatchKeys : c = <<"bucket", k>>
  BY <1>1 DEF In
<1>2. CASE \E f \in Flushers : c = <<"hand", f>>
  BY <1>2 DEF In
<1>3. CASE \E i \in Nat \ {0} : c = <<"queue", i>>
  BY <1>3 DEF In
<1>4. CASE \E s \in Senders : c = <<"sender", s>>
  BY <1>4 DEF In
<1>5. CASE c = <<"settled">> \/ c = <<"lost">>
  BY <1>5 DEF In
<1> QED BY <1>1, <1>2, <1>3, <1>4, <1>5, CellKinds

Nowhere(n) == \A c \in Cells : n \notin In(c)

\* What was in one cell goes to another: no note is lost, none doubled.
LEMMA NotesMove ==
  ASSUME NotesApart, NEW a \in Cells, NEW b \in Cells, a # b,
         In(a)' = {}, In(b)' = In(b) \cup In(a), \A c \in Cells \ {a, b} : In(c)' = In(c)
  PROVE  NotesApart' /\ \A n \in Notes : Nowhere(n)' <=> Nowhere(n)
<1>1. \A c \in Cells \ {a, b} : In(c)' \cap In(b)' = {}
  BY DEF NotesApart
<1>2. ASSUME NEW c \in Cells, NEW d \in Cells, c # d PROVE In(c)' \cap In(d)' = {}
  <2>1. CASE c = a \/ d = a
    BY <2>1
  <2>2. CASE c # a /\ d # a /\ c # b /\ d # b
    BY <1>2, <2>2 DEF NotesApart
  <2>3. CASE c # a /\ d # a /\ (c = b \/ d = b)
    BY <1>1, <1>2, <2>3
  <2> QED BY <2>1, <2>2, <2>3
<1>3. \A n \in Notes : (\A c \in Cells : n \notin In(c)') <=> (\A c \in Cells : n \notin In(c))
  OBVIOUS
<1> QED BY <1>2, <1>3 DEF NotesApart, Nowhere, Cells

\* A note that is nowhere comes to a cell.
LEMMA NoteComes ==
  ASSUME NotesApart, NEW n \in Notes, Nowhere(n), NEW b \in Cells,
         In(b)' = In(b) \cup {n}, \A c \in Cells \ {b} : In(c)' = In(c)
  PROVE  NotesApart' /\ \A m \in Notes : Nowhere(m)' <=> Nowhere(m) /\ m # n
<1>1. \A c \in Cells \ {b} : In(c)' \cap In(b)' = {}
  BY DEF NotesApart, Nowhere
<1>2. ASSUME NEW c \in Cells, NEW d \in Cells, c # d PROVE In(c)' \cap In(d)' = {}
  <2>1. CASE c # b /\ d # b
    BY <1>2, <2>1 DEF NotesApart
  <2>2. CASE c = b \/ d = b
    BY <1>1, <1>2, <2>2
  <2> QED BY <2>1, <2>2
<1>3. \A m \in Notes : (\A c \in Cells : m \notin In(c)') <=> (\A c \in Cells : m \notin In(c)) /\ m # n
  BY DEF Nowhere
<1> QED BY <1>2, <1>3 DEF NotesApart, Nowhere, Cells

\* A step after which the cells hold what they held.
LEMMA NotesRest ==
  ASSUME NotesApart, \A c \in Cells : In(c)' = In(c)
  PROVE  NotesApart' /\ \A n \in Notes : Nowhere(n)' <=> Nowhere(n)
<1>1. \A c, d \in Cells : c # d => In(c)' \cap In(d)' = {}
  BY DEF NotesApart
<1>2. \A n \in Notes : (\A c \in Cells : n \notin In(c)') <=> (\A c \in Cells : n \notin In(c))
  OBVIOUS
<1> QED BY <1>1, <1>2 DEF NotesApart, Nowhere, Cells

LEMMA NotesStart == NotifyAssumption /\ NotifyInit => NotesInv
<1> SUFFICES ASSUME NotifyAssumption, NotifyInit PROVE NotesInv
  OBVIOUS
<1>1. <<>> \in Seq(Notes) /\ <<>> \in Seq(Seq(Notes)) /\ Idle \in Sending /\ Idle.msg = <<>>
  BY DEF Idle, Sending, SendStages
<1>2. NotesTyped
  BY <1>1 DEF NotifyInit, NotesTyped, NotifyAssumption
<1>3. \A c \in Cells : In(c) = {}
  <2> TAKE c \in Cells
  <2>1. /\ \A k \in BatchKeys : batches[k] = <<>>
        /\ \A f \in Flushers : hand[f] = <<>>
        /\ \A s \in Senders : sending[s].msg = <<>>
        /\ sendQueue = <<>> /\ settled = {} /\ lost = {}
    BY <1>1 DEF NotifyInit
  <2>2. \A i \in Nat \ {0} : Queued(i) = {}
    BY <2>1 DEF Queued
  <2> QED BY <2>1, <2>2, CellKinds, CellsHold, NothingIn
<1>4. NotesApart /\ NotesSomewhere
  BY <1>3 DEF NotesApart, NotesSomewhere, NotifyInit
<1>5. ProducersAhead
  BY DEF NotifyInit, ProducersAhead, Flushers
<1> QED BY <1>2, <1>4, <1>5 DEF NotesInv

-----------------------------------------------------------------------------
(* The batcher's steps                                                      *)

LEMMA DispatchStep ==
  ASSUME NotesInv, NEW n \in Notes, Dispatch(n)
  PROVE  NotesInv'
<1>1. /\ producer[n] = "new"
      /\ UNCHANGED <<batches, keysLeft, timer, sendQueue, sending, worker, guardVars, configured, lost, errors>>
  BY DEF Dispatch
<1>2. /\ producer \in [Notes -> {"new", "checked", "full", "send", "done"}] /\ hand \in [Flushers -> Seq(Notes)]
      /\ n \in Flushers /\ hand[n] = <<>> /\ Nowhere(n) /\ settled \subseteq Notes
  BY <1>1 DEF NotesInv, NotesTyped, NotesSomewhere, ProducersAhead, Flushers, Nowhere
<1>3. \A i \in Nat \ {0} : Queued(i)' = Queued(i)
  BY <1>1 DEF Queued
<1>4. CASE producer' = [producer EXCEPT ![n] = "done"] /\ settled' = settled \cup {n} /\ UNCHANGED hand
  <2> DEFINE b == <<"settled">>
  <2>1. \A c \in Cells \ {b, b} : In(c)' = In(c)
    BY <1>1, <1>3, <1>4, CellsStay
  <2>2. b \in Cells /\ In(b)' = In(b) \cup {n}
    BY <1>4, CellsHold, CellsWillHold
  <2> HIDE DEF b
  <2>3. NotesApart' /\ \A m \in Notes : Nowhere(m)' <=> Nowhere(m) /\ m # n
    BY <1>2, <2>1, <2>2, NoteComes DEF NotesInv
  <2>4. NotesSomewhere'
    BY <1>1, <1>2, <1>4, <2>3 DEF NotesInv, NotesSomewhere, Nowhere, Cells
  <2>5. NotesTyped' /\ ProducersAhead'
    BY <1>1, <1>2, <1>4 DEF NotesInv, NotesTyped, ProducersAhead
  <2> QED BY <2>3, <2>4, <2>5 DEF NotesInv, NotifyAssumption
<1>5. CASE producer' = [producer EXCEPT ![n] = "send"] /\ hand' = [hand EXCEPT ![n] = <<n>>] /\ UNCHANGED settled
  <2> DEFINE b == <<"hand", n>>
  <2>1. \A f \in Flushers : <<"hand", f>> \notin {b, b} => ToSet(hand'[f]) = ToSet(hand[f])
    BY <1>2, <1>5
  <2>2. \A c \in Cells \ {b, b} : In(c)' = In(c)
    BY <1>1, <1>3, <1>5, <2>1, CellsStay
  <2>3. hand'[n] = <<n>> /\ <<n>> \in Seq(Notes) /\ ToSet(<<n>>) = {n}
    BY <1>2, <1>5, SetsOf
  <2>4. b \in Cells /\ In(b)' = In(b) \cup {n}
    <3>1. In(b)' = {n}
      BY <1>2, <2>3, CellsWillHold
    <3>2. b \in Cells /\ In(b) = {}
      BY <1>2, CellsHold, NothingIn
    <3> QED BY <3>1, <3>2
  <2> HIDE DEF b
  <2>5. NotesApart' /\ \A m \in Notes : Nowhere(m)' <=> Nowhere(m) /\ m # n
    BY <1>2, <2>2, <2>4, NoteComes DEF NotesInv
  <2>6. NotesSomewhere'
    BY <1>1, <1>2, <1>5, <2>5 DEF NotesInv, NotesSomewhere, Nowhere, Cells
  <2>7. hand' \in [Flushers -> Seq(Notes)]
    BY <1>2, <1>5, <2>3
  <2>8. NotesTyped' /\ ProducersAhead'
    BY <1>1, <1>2, <1>5, <2>7 DEF NotesInv, NotesTyped, ProducersAhead
  <2> QED BY <2>5, <2>6, <2>8 DEF NotesInv, NotifyAssumption
<1>6. CASE BatchKeyOf[n] # Direct /\ producer' = [producer EXCEPT ![n] = "checked"] /\ UNCHANGED <<hand, settled>>
  <2>1. \A c \in Cells \ {<<"settled">>, <<"settled">>} : In(c)' = In(c)
    BY <1>1, <1>3, <1>6, CellsStay
  <2>2. \A c \in Cells : In(c)' = In(c)
    BY <1>6, <2>1, CellsHold, CellsWillHold
  <2>3. NotesApart' /\ \A m \in Notes : Nowhere(m)' <=> Nowhere(m)
    BY <2>2, NotesRest DEF NotesInv
  <2>4. NotesSomewhere'
    BY <1>1, <1>2, <1>6, <2>3 DEF NotesInv, NotesSomewhere, Nowhere, Cells
  <2>5. BatchKeyOf[n] \in BatchKeys
    BY <1>6 DEF NotesInv, NotifyAssumption
  <2>6. NotesTyped' /\ ProducersAhead'
    BY <1>1, <1>2, <1>6, <2>5 DEF NotesInv, NotesTyped, ProducersAhead
  <2> QED BY <2>3, <2>4, <2>6 DEF NotesInv, NotifyAssumption
<1> QED BY <1>4, <1>5, <1>6 DEF Dispatch

LEMMA EnqueueStep ==
  ASSUME NotesInv, NEW n \in Notes, Enqueue(n)
  PROVE  NotesInv'
<1> DEFINE k == BatchKeyOf[n]
           bucket == Append(batches[k], n)
           at == IF Len(bucket) >= MaxPer THEN "full" ELSE "done"
           b == <<"bucket", k>>
<1>1. /\ producer[n] = "checked" /\ batches' = [batches EXCEPT ![k] = bucket]
      /\ producer' = [producer EXCEPT ![n] = at]
      /\ UNCHANGED <<hand, keysLeft, timer, sendQueue, sending, worker, guardVars, configured, settled, lost, errors>>
  BY DEF Enqueue
<1>2. /\ producer \in [Notes -> {"new", "checked", "full", "send", "done"}] /\ batches \in [BatchKeys -> Seq(Notes)]
      /\ k \in BatchKeys /\ Nowhere(n) /\ hand[n] = <<>>
  BY <1>1 DEF NotesInv, NotesTyped, NotesSomewhere, ProducersAhead, Nowhere
<1>3. bucket \in Seq(Notes) /\ ToSet(bucket) = ToSet(batches[k]) \cup {n} /\ at \in {"full", "done"}
  <2>1. batches[k] \in Seq(Notes)
    BY <1>2
  <2>2. bucket \in Seq(Notes)
    BY <2>1
  <2>3. ToSet(Append(batches[k], n)) = ToSet(batches[k]) \cup {n}
    <3> DEFINE s == batches[k]
               t == Append(s, n)
    <3>1. s \in Seq(Notes) /\ t = Append(s, n)
      BY <2>1
    <3> HIDE DEF s
    <3>2. t \in Seq(Notes) /\ Len(t) = Len(s) + 1 /\ t[Len(s) + 1] = n /\ \A i \in 1 .. Len(s) : t[i] = s[i]
      BY <3>1
    <3> HIDE DEF t
    <3>3. ToSet(t) = ToSet(s) \cup {n}
      BY <3>1, <3>2, LongerSet
    <3> QED BY <3>3 DEF s, t
  <2>4. at \in {"full", "done"}
    OBVIOUS
  <2> HIDE DEF at, k
  <2> QED BY <2>2, <2>3, <2>4
<1> HIDE DEF bucket, at, k
<1>4. \A j \in BatchKeys : <<"bucket", j>> \notin {b, b} => ToSet(batches'[j]) = ToSet(batches[j])
  BY <1>1, <1>2
<1>5. \A i \in Nat \ {0} : Queued(i)' = Queued(i)
  BY <1>1 DEF Queued
<1>6. \A c \in Cells \ {b, b} : In(c)' = In(c)
  BY <1>1, <1>4, <1>5, CellsStay
<1>7. b \in Cells /\ In(b)' = In(b) \cup {n}
  BY <1>1, <1>2, <1>3, CellsHold, CellsWillHold
<1> HIDE DEF b
<1>8. NotesApart' /\ \A m \in Notes : Nowhere(m)' <=> Nowhere(m) /\ m # n
  BY <1>2, <1>6, <1>7, NoteComes DEF NotesInv
<1>9. NotesSomewhere'
  BY <1>1, <1>2, <1>3, <1>8 DEF NotesInv, NotesSomewhere, Nowhere, Cells
<1>10. NotesTyped'
  BY <1>1, <1>2, <1>3 DEF NotesInv, NotesTyped
<1>11. ProducersAhead'
  BY <1>1, <1>2, <1>3 DEF NotesInv, ProducersAhead, k
<1> QED BY <1>8, <1>9, <1>10, <1>11 DEF NotesInv, NotifyAssumption

\* A flusher with an empty hand takes a bucket.
LEMMA BucketTaken ==
  ASSUME NotesInv, NEW f \in Flushers, NEW k \in BatchKeys, hand[f] = <<>>, TakeBucket(f, k),
         UNCHANGED <<sendQueue, sending, settled, lost>>
  PROVE  /\ NotesApart' /\ \A m \in Notes : Nowhere(m)' <=> Nowhere(m)
         /\ hand' \in [Flushers -> Seq(Notes)] /\ batches' \in [BatchKeys -> Seq(Notes)]
         /\ hand' = [hand EXCEPT ![f] = batches[k]] /\ batches' = [batches EXCEPT ![k] = <<>>]
<1> DEFINE a == <<"bucket", k>>
           b == <<"hand", f>>
<1>1. /\ hand' = [hand EXCEPT ![f] = batches[k]] /\ batches' = [batches EXCEPT ![k] = <<>>]
  BY DEF TakeBucket
<1>2. hand \in [Flushers -> Seq(Notes)] /\ batches \in [BatchKeys -> Seq(Notes)]
  BY DEF NotesInv, NotesTyped
<1>3. <<>> \in Seq(Notes)
  OBVIOUS
<1>4. hand' \in [Flushers -> Seq(Notes)] /\ batches' \in [BatchKeys -> Seq(Notes)]
  BY <1>1, <1>2, <1>3
<1>5. \A j \in BatchKeys : <<"bucket", j>> \notin {a, b} => ToSet(batches'[j]) = ToSet(batches[j])
  BY <1>1, <1>2
<1>6. \A g \in Flushers : <<"hand", g>> \notin {a, b} => ToSet(hand'[g]) = ToSet(hand[g])
  BY <1>1, <1>2
<1>7. \A i \in Nat \ {0} : Queued(i)' = Queued(i)
  BY DEF Queued
<1>8. \A c \in Cells \ {a, b} : In(c)' = In(c)
  BY <1>5, <1>6, <1>7, CellsStay
<1>9. a \in Cells /\ b \in Cells /\ a # b /\ In(a)' = {} /\ In(b)' = In(b) \cup In(a)
  <2>1. batches'[k] = <<>> /\ hand'[f] = batches[k]
    BY <1>1, <1>2
  <2> QED BY <2>1, CellsHold, CellsWillHold, NothingIn
<1> HIDE DEF a, b
<1>10. NotesApart' /\ \A m \in Notes : Nowhere(m)' <=> Nowhere(m)
  BY <1>8, <1>9, NotesMove DEF NotesInv
<1> QED BY <1>1, <1>4, <1>10

LEMMA FlushFullStep ==
  ASSUME NotesInv, NEW n \in Notes, FlushFull(n)
  PROVE  NotesInv'
<1> DEFINE k == BatchKeyOf[n]
           at == IF batches[k] = <<>> THEN "done" ELSE "send"
<1>1. /\ producer[n] = "full" /\ TakeBucket(n, k) /\ producer' = [producer EXCEPT ![n] = at]
      /\ UNCHANGED <<keysLeft, timer, sendQueue, sending, worker, guardVars, configured, settled, lost, errors>>
  BY DEF FlushFull
<1>2. /\ producer \in [Notes -> {"new", "checked", "full", "send", "done"}]
      /\ k \in BatchKeys /\ hand[n] = <<>> /\ n \in Flushers
      /\ hand \in [Flushers -> Seq(Notes)]
  BY <1>1 DEF NotesInv, NotesTyped, ProducersAhead, Flushers
<1>3. /\ NotesApart' /\ \A m \in Notes : Nowhere(m)' <=> Nowhere(m)
      /\ hand' \in [Flushers -> Seq(Notes)] /\ batches' \in [BatchKeys -> Seq(Notes)]
      /\ hand' = [hand EXCEPT ![n] = batches[k]]
  BY <1>1, <1>2, BucketTaken
<1>4. at \in {"done", "send"} /\ (at # "send" => batches[k] = <<>>)
  OBVIOUS
<1> HIDE DEF k, at
<1>5. NotesSomewhere'
  BY <1>1, <1>2, <1>3, <1>4 DEF NotesInv, NotesSomewhere, Nowhere, Cells
<1>6. NotesTyped'
  BY <1>1, <1>2, <1>3, <1>4 DEF NotesInv, NotesTyped
<1>7. ProducersAhead'
  BY <1>1, <1>2, <1>3, <1>4 DEF NotesInv, ProducersAhead, Flushers
<1> QED BY <1>3, <1>5, <1>6, <1>7 DEF NotesInv, NotifyAssumption

LEMMA FlushNextStep ==
  ASSUME NotesInv, NEW k \in BatchKeys, FlushNext(k)
  PROVE  NotesInv'
<1>1. /\ hand["timer"] = <<>> /\ TakeBucket("timer", k) /\ keysLeft' = keysLeft \ {k}
      /\ UNCHANGED <<producer, timer, sendQueue, sending, worker, guardVars, configured, settled, lost, errors>>
  BY DEF FlushNext
<1>2. "timer" \in Flushers /\ "timer" \notin Notes /\ hand \in [Flushers -> Seq(Notes)] /\ keysLeft \subseteq BatchKeys
  BY DEF NotesInv, NotifyAssumption, NotesTyped, Flushers
<1>3. /\ NotesApart' /\ \A m \in Notes : Nowhere(m)' <=> Nowhere(m)
      /\ hand' \in [Flushers -> Seq(Notes)] /\ batches' \in [BatchKeys -> Seq(Notes)]
      /\ hand' = [hand EXCEPT !["timer"] = batches[k]]
  BY <1>1, <1>2, BucketTaken
<1>4. NotesSomewhere'
  BY <1>1, <1>3 DEF NotesInv, NotesSomewhere, Nowhere, Cells
<1>5. NotesTyped'
  BY <1>1, <1>2, <1>3 DEF NotesInv, NotesTyped
<1>6. ProducersAhead'
  BY <1>1, <1>2, <1>3 DEF NotesInv, ProducersAhead, Flushers
<1> QED BY <1>3, <1>4, <1>5, <1>6 DEF NotesInv, NotifyAssumption

\* A flusher that gives its message away is done, if it is a note's Dispatch.
LEMMA HandGiven ==
  ASSUME NotesInv, NEW f \in Flushers, hand[f] # <<>>, hand' = [hand EXCEPT ![f] = <<>>],
         producer' = [n \in Notes |-> IF n = f THEN "done" ELSE producer[n]]
  PROVE  /\ \A n \in Notes : producer'[n] \in {"new", "checked"} <=> producer[n] \in {"new", "checked"}
         /\ producer' \in [Notes -> {"new", "checked", "full", "send", "done"}]
         /\ hand' \in [Flushers -> Seq(Notes)]
         /\ ProducersAhead'
<1>1. /\ producer \in [Notes -> {"new", "checked", "full", "send", "done"}] /\ hand \in [Flushers -> Seq(Notes)]
      /\ <<>> \in Seq(Notes)
  BY DEF NotesInv, NotesTyped
<1>2. f \in Notes => producer[f] = "send"
  BY DEF NotesInv, ProducersAhead
<1>3. ProducersAhead'
  BY <1>1 DEF NotesInv, ProducersAhead, Flushers
<1> QED BY <1>1, <1>2, <1>3

LEMMA EnqueueSendStep ==
  ASSUME NotesInv, NEW f \in Flushers, EnqueueSend(f)
  PROVE  NotesInv'
<1> DEFINE a == <<"hand", f>>
<1>1. /\ hand[f] # <<>> /\ sending[f] = Idle /\ hand' = [hand EXCEPT ![f] = <<>>]
      /\ producer' = [n \in Notes |-> IF n = f THEN "done" ELSE producer[n]]
      /\ UNCHANGED <<batches, keysLeft, timer, worker, guardVars, configured, lost, errors>>
  BY DEF EnqueueSend
<1>2. /\ hand \in [Flushers -> Seq(Notes)] /\ sending \in [Senders -> Sending] /\ sendQueue \in Seq(Seq(Notes))
      /\ settled \subseteq Notes /\ f \in Senders /\ hand[f] \in Seq(Notes)
  BY DEF NotesInv, NotesTyped, Senders
<1>3. /\ \A n \in Notes : producer'[n] \in {"new", "checked"} <=> producer[n] \in {"new", "checked"}
      /\ producer' \in [Notes -> {"new", "checked", "full", "send", "done"}]
      /\ hand' \in [Flushers -> Seq(Notes)] /\ ProducersAhead'
  BY <1>1, HandGiven
<1>4. a \in Cells /\ In(a)' = {} /\ In(a) = ToSet(hand[f])
  <2>1. hand'[f] = <<>>
    BY <1>1, <1>2
  <2> QED BY <2>1, CellsHold, CellsWillHold, NothingIn
<1>5. ToSet(hand[f]) \subseteq Notes /\ \A g \in Flushers \ {f} : hand'[g] = hand[g]
  BY <1>1, <1>2 DEF ToSet
<1>6. CASE settled' = settled \cup Held(f) /\ UNCHANGED <<sendQueue, sending>>
  <2> DEFINE b == <<"settled">>
  <2>1. Held(f) = ToSet(hand[f])
    BY <1>1, NothingIn DEF Held, Idle
  <2>2. \A i \in Nat \ {0} : Queued(i)' = Queued(i)
    BY <1>6 DEF Queued
  <2>3. \A c \in Cells \ {a, b} : In(c)' = In(c)
    BY <1>1, <1>5, <1>6, <2>2, CellsStay
  <2>4. a # b /\ b \in Cells /\ In(b)' = In(b) \cup In(a)
    BY <1>4, <1>6, <2>1, CellsHold, CellsWillHold
  <2> HIDE DEF a, b
  <2>5. NotesApart' /\ \A n \in Notes : Nowhere(n)' <=> Nowhere(n)
    BY <1>4, <2>3, <2>4, NotesMove DEF NotesInv
  <2>6. NotesTyped'
    BY <1>1, <1>2, <1>3, <1>5, <1>6, <2>1 DEF NotesInv, NotesTyped
  <2> QED BY <1>3, <2>5, <2>6 DEF NotesInv, NotifyAssumption, NotesSomewhere, Nowhere, Cells
<1>7. CASE sendQueue' = Append(sendQueue, hand[f]) /\ UNCHANGED <<settled, sending>>
  <2>0. PICK last \in Nat \ {0} : last = Len(sendQueue) + 1
    BY <1>2
  <2> DEFINE b == <<"queue", last>>
  <2>1. /\ sendQueue' \in Seq(Seq(Notes)) /\ last \in Nat \ {0} /\ last \notin DOMAIN sendQueue
        /\ DOMAIN sendQueue' = 1 .. last /\ DOMAIN sendQueue = 1 .. Len(sendQueue)
        /\ sendQueue'[last] = hand[f] /\ \A i \in 1 .. Len(sendQueue) : sendQueue'[i] = sendQueue[i]
    BY <1>2, <1>7, <2>0
  <2>2. \A i \in Nat \ {0} : i # last => Queued(i)' = Queued(i)
    BY <1>2, <2>0, <2>1 DEF Queued
  <2>3. \A i \in Nat \ {0} : <<"queue", i>> \notin {a, b} => Queued(i)' = Queued(i)
    BY <2>2
  <2>4. \A c \in Cells \ {a, b} : In(c)' = In(c)
    BY <1>1, <1>5, <1>7, <2>3, CellsStay
  <2>5. Queued(last) = {} /\ last \in DOMAIN sendQueue'
    BY <2>1 DEF Queued
  <2>6. a # b /\ b \in Cells /\ In(b)' = In(b) \cup In(a)
    <3>1. b \in Cells /\ In(b) = {}
      BY <2>5, CellsHold
    <3>2. In(b)' = ToSet(hand[f])
      BY <2>1, <2>5, CellsWillHold
    <3> QED BY <1>4, <3>1, <3>2
  <2> HIDE DEF a, b
  <2>7. NotesApart' /\ \A n \in Notes : Nowhere(n)' <=> Nowhere(n)
    BY <1>4, <2>4, <2>6, NotesMove DEF NotesInv
  <2>8. NotesTyped'
    BY <1>1, <1>3, <1>7, <2>1 DEF NotesInv, NotesTyped
  <2> QED BY <1>3, <2>7, <2>8 DEF NotesInv, NotifyAssumption, NotesSomewhere, Nowhere, Cells
<1>8. CASE /\ sending' = [sending EXCEPT ![f] = [msg |-> hand[f], at |-> FirstStage(hand[f]), tries |-> 0]]
           /\ UNCHANGED <<settled, sendQueue>>
  <2> DEFINE b == <<"sender", f>>
             msg == hand[f]
             at == FirstStage(hand[f])
  <2>1. at \in SendStages
    BY DEF FirstStage, SendStages
  <2>2. sending' = [sending EXCEPT ![f] = [msg |-> msg, at |-> at, tries |-> 0]] /\ msg \in Seq(Notes)
    BY <1>2, <1>8
  <2> HIDE DEF at, msg
  <2>3. sending' \in [Senders -> Sending] /\ sending'[f].msg = msg
    BY <1>2, <2>1, <2>2 DEF Sending
  <2>4. \A s \in Senders : <<"sender", s>> \notin {a, b} => ToSet(sending'[s].msg) = ToSet(sending[s].msg)
    BY <1>2, <2>2
  <2>5. \A i \in Nat \ {0} : Queued(i)' = Queued(i)
    BY <1>8 DEF Queued
  <2>6. \A c \in Cells \ {a, b} : In(c)' = In(c)
    BY <1>1, <1>5, <1>8, <2>4, <2>5, CellsStay
  <2>7. sending[f].msg = <<>>
    BY <1>1 DEF Idle
  <2>8. a # b /\ b \in Cells /\ In(b)' = In(b) \cup In(a)
    <3>1. In(b) = {} /\ b \in Cells
      BY <1>2, <2>7, CellsHold, NothingIn
    <3>2. In(b)' = ToSet(hand[f])
      BY <1>2, <2>3, CellsWillHold DEF msg
    <3> QED BY <1>4, <3>1, <3>2
  <2> HIDE DEF a, b
  <2>9. NotesApart' /\ \A n \in Notes : Nowhere(n)' <=> Nowhere(n)
    BY <1>4, <2>6, <2>8, NotesMove DEF NotesInv
  <2>10. NotesTyped'
    BY <1>1, <1>3, <1>8, <2>3 DEF NotesInv, NotesTyped
  <2> QED BY <1>3, <2>9, <2>10 DEF NotesInv, NotifyAssumption, NotesSomewhere, Nowhere, Cells
<1> QED BY <1>6, <1>7, <1>8 DEF EnqueueSend

-----------------------------------------------------------------------------
(* The worker and the sending of a message                                  *)

\* The cells hold what others held, each of them another's.
LEMMA NotesShift ==
  ASSUME NotesApart, NEW from \in [Cells -> Cells], \A c, d \in Cells : c # d => from[c] # from[d],
         \A c \in Cells : In(c)' = In(from[c]),
         \A c \in Cells : In(c) = {} \/ \E d \in Cells : from[d] = c
  PROVE  NotesApart' /\ \A n \in Notes : Nowhere(n)' <=> Nowhere(n)
<1>1. \A c, d \in Cells : c # d => In(c)' \cap In(d)' = {}
  BY DEF NotesApart
<1>2. \A n \in Notes : (\A c \in Cells : n \notin In(c)') <=> (\A c \in Cells : n \notin In(c))
  OBVIOUS
<1> QED BY <1>1, <1>2 DEF NotesApart, Nowhere, Cells

LEMMA TakeMessageStep ==
  ASSUME NotesInv, TakeMessage
  PROVE  NotesInv'
<1> DEFINE msg == Head(sendQueue)
           at == FirstStage(Head(sendQueue))
           w == <<"sender", "worker">>
           first == <<"queue", 1>>
           from == [c \in Cells |-> IF c = w THEN first ELSE IF c[1] = "queue" THEN <<"queue", c[2] + 1>> ELSE c]
<1>1. /\ sending["worker"] = Idle /\ sendQueue # <<>> /\ sendQueue' = Tail(sendQueue)
      /\ sending' = [sending EXCEPT !["worker"] = [msg |-> msg, at |-> at, tries |-> 0]]
      /\ UNCHANGED <<producer, batches, hand, keysLeft, worker, settled, lost>>
  BY DEF TakeMessage, batchVars
<1>2. sending \in [Senders -> Sending] /\ sendQueue \in Seq(Seq(Notes)) /\ "worker" \in Senders
  BY DEF NotesInv, NotesTyped, Senders
<1>3. /\ sendQueue' \in Seq(Seq(Notes)) /\ Len(sendQueue) \in Nat \ {0} /\ msg = sendQueue[1] /\ msg \in Seq(Notes)
      /\ DOMAIN sendQueue = 1 .. Len(sendQueue) /\ DOMAIN sendQueue' = 1 .. Len(sendQueue) - 1
      /\ \A i \in 1 .. Len(sendQueue) - 1 : sendQueue'[i] = sendQueue[i + 1]
  BY <1>1, <1>2
<1>4. at \in SendStages
  BY DEF FirstStage, SendStages
<1> HIDE DEF msg, at
<1>5. sending' \in [Senders -> Sending] /\ sending'["worker"].msg = msg
  BY <1>1, <1>2, <1>3, <1>4 DEF Sending
<1>6. \A s \in Senders \ {"worker"} : sending'[s] = sending[s]
  BY <1>1, <1>2
<1>7. \A i \in Nat \ {0} : In(<<"queue", i>>)' = Queued(i + 1)
  <2> SUFFICES ASSUME NEW i \in Nat \ {0} PROVE In(<<"queue", i>>)' = Queued(i + 1)
    OBVIOUS
  <2>1. In(<<"queue", i>>)' = IF i \in DOMAIN sendQueue' THEN ToSet(sendQueue'[i]) ELSE {}
    BY CellsWillHold
  <2>2. i \in DOMAIN sendQueue' <=> i + 1 \in DOMAIN sendQueue
    BY <1>3
  <2>3. i \in DOMAIN sendQueue' => sendQueue'[i] = sendQueue[i + 1]
    BY <1>3
  <2> QED BY <2>1, <2>2, <2>3 DEF Queued
<1>8. In(w)' = Queued(1) /\ w \in Cells /\ In(w) = {}
  <2>1. Queued(1) = ToSet(msg)
    BY <1>3 DEF Queued
  <2>2. sending["worker"].msg = <<>>
    BY <1>1 DEF Idle
  <2> QED BY <1>2, <1>5, <2>1, <2>2, CellsHold, CellsWillHold, NothingIn
<1>9. \A c \in Cells : c # w /\ c[1] # "queue" => In(c)' = In(c)
  <2> SUFFICES ASSUME NEW c \in Cells, c # w, c[1] # "queue" PROVE In(c)' = In(c)
    OBVIOUS
  <2>1. CASE \E k \in BatchKeys : c = <<"bucket", k>>
    BY <1>1, <2>1 DEF In
  <2>2. CASE \E f \in Flushers : c = <<"hand", f>>
    BY <1>1, <2>2 DEF In
  <2>3. CASE \E s \in Senders : c = <<"sender", s>>
    BY <1>6, <2>3 DEF In
  <2>4. CASE c = <<"settled">> \/ c = <<"lost">>
    BY <1>1, <2>4 DEF In
  <2> QED BY <2>1, <2>2, <2>3, <2>4, CellKinds
<1>10. \A c \in Cells : c[1] = "queue" => c = <<"queue", c[2]>> /\ c[2] \in Nat \ {0}
  BY DEF Cells
<1>11. \A i \in Nat \ {0} : <<"queue", i>> \in Cells /\ <<"queue", i + 1>> \in Cells /\ In(<<"queue", i + 1>>) = Queued(i + 1)
  <2> SUFFICES ASSUME NEW i \in Nat \ {0}
               PROVE  <<"queue", i>> \in Cells /\ <<"queue", i + 1>> \in Cells /\ In(<<"queue", i + 1>>) = Queued(i + 1)
    OBVIOUS
  <2>1. i + 1 \in Nat \ {0}
    OBVIOUS
  <2> QED BY <2>1, CellsHold
<1>12. first \in Cells /\ In(first) = Queued(1)
  BY CellsHold
<1>13. from \in [Cells -> Cells]
  BY <1>10, <1>11, <1>12
<1>14. \A c, d \in Cells : c # d => from[c] # from[d]
  <2> SUFFICES ASSUME NEW c \in Cells, NEW d \in Cells, c # d PROVE from[c] # from[d]
    OBVIOUS
  <2>1. CASE c[1] = "queue" /\ d[1] = "queue"
    BY <1>10, <2>1
  <2>2. CASE c[1] = "queue" /\ d[1] # "queue"
    BY <1>10, <2>2
  <2>3. CASE c[1] # "queue" /\ d[1] = "queue"
    BY <1>10, <2>3
  <2>4. CASE c[1] # "queue" /\ d[1] # "queue"
    BY <2>4
  <2> QED BY <2>1, <2>2, <2>3, <2>4
<1>15. \A c \in Cells : In(c)' = In(from[c])
  <2> SUFFICES ASSUME NEW c \in Cells PROVE In(c)' = In(from[c])
    OBVIOUS
  <2>1. CASE c = w
    BY <1>8, <1>12, <2>1
  <2>2. CASE c # w /\ c[1] = "queue"
    BY <1>7, <1>10, <1>11, <2>2
  <2>3. CASE c # w /\ c[1] # "queue"
    BY <1>9, <2>3
  <2> QED BY <2>1, <2>2, <2>3
<1>16. \A c \in Cells : In(c) = {} \/ \E d \in Cells : from[d] = c
  <2> SUFFICES ASSUME NEW c \in Cells PROVE In(c) = {} \/ \E d \in Cells : from[d] = c
    OBVIOUS
  <2>1. CASE c = w
    BY <1>8, <2>1
  <2>2. CASE c = first
    BY <1>8, <2>2
  <2>3. CASE c # first /\ c[1] = "queue"
    <3>1. c[2] - 1 \in Nat \ {0} /\ c = <<"queue", (c[2] - 1) + 1>>
      BY <1>10, <2>3
    <3>2. <<"queue", c[2] - 1>> \in Cells /\ from[<<"queue", c[2] - 1>>] = c
      BY <1>11, <3>1
    <3> QED BY <3>2
  <2>4. CASE c # w /\ c[1] # "queue"
    BY <2>4
  <2> QED BY <2>1, <2>2, <2>3, <2>4
<1> HIDE DEF from
<1>17. NotesApart' /\ \A n \in Notes : Nowhere(n)' <=> Nowhere(n)
  BY <1>13, <1>14, <1>15, <1>16, NotesShift DEF NotesInv
<1>18. NotesTyped' /\ ProducersAhead'
  BY <1>1, <1>3, <1>5 DEF NotesInv, NotesTyped, ProducersAhead
<1> QED BY <1>1, <1>17, <1>18 DEF NotesInv, NotifyAssumption, NotesSomewhere, Nowhere, Cells

\* The message of a sender is settled, or goes on at another stage.
LEMMA SendingMoves ==
  ASSUME NotesInv, NEW s \in Senders, sending[s] # Idle,
         Settle(s) \/ \E stage \in SendStages, tries \in Nat : GoOn(s, stage, tries),
         UNCHANGED <<batchVars, sendQueue, worker, lost>>
  PROVE  NotesInv'
<1>1. sending \in [Senders -> Sending] /\ settled \subseteq Notes /\ UNCHANGED <<producer, batches, hand, keysLeft>>
  BY DEF NotesInv, NotesTyped, batchVars
<1>2. \A i \in Nat \ {0} : Queued(i)' = Queued(i)
  BY DEF Queued
<1>3. CASE Settle(s)
  <2> DEFINE a == <<"sender", s>>
             b == <<"settled">>
  <2>1. settled' = settled \cup ToSet(sending[s].msg) /\ sending' = [sending EXCEPT ![s] = Idle]
    BY <1>3 DEF Settle
  <2>2. Idle \in Sending /\ Idle.msg = <<>> /\ ToSet(sending[s].msg) \subseteq Notes
    BY <1>1 DEF Idle, Sending, SendStages, ToSet
  <2>3. sending' \in [Senders -> Sending] /\ sending'[s].msg = <<>>
    BY <1>1, <2>1, <2>2
  <2>4. \A q \in Senders : <<"sender", q>> \notin {a, b} => ToSet(sending'[q].msg) = ToSet(sending[q].msg)
    BY <1>1, <2>1
  <2>5. \A c \in Cells \ {a, b} : In(c)' = In(c)
    BY <1>1, <1>2, <2>4, CellsStay
  <2>6. a # b /\ a \in Cells /\ b \in Cells /\ In(a)' = {} /\ In(b)' = In(b) \cup In(a)
    <3>1. In(a)' = {} /\ In(b)' = settled'
      BY <2>3, CellsWillHold, NothingIn
    <3>2. a \in Cells /\ b \in Cells /\ In(a) = ToSet(sending[s].msg) /\ In(b) = settled
      BY CellsHold
    <3> QED BY <2>1, <3>1, <3>2
  <2> HIDE DEF a, b
  <2>7. NotesApart' /\ \A n \in Notes : Nowhere(n)' <=> Nowhere(n)
    BY <2>5, <2>6, NotesMove DEF NotesInv
  <2>8. NotesTyped' /\ ProducersAhead'
    BY <1>1, <2>1, <2>2, <2>3 DEF NotesInv, NotesTyped, ProducersAhead
  <2> QED BY <1>1, <2>7, <2>8 DEF NotesInv, NotifyAssumption, NotesSomewhere, Nowhere, Cells
<1>4. CASE \E stage \in SendStages, tries \in Nat : GoOn(s, stage, tries)
  <2>1. PICK stage \in SendStages, tries \in Nat : GoOn(s, stage, tries)
    BY <1>4
  <2>2. UNCHANGED settled /\ sending' = [sending EXCEPT ![s] = [msg |-> sending[s].msg, at |-> stage, tries |-> tries]]
    BY <2>1 DEF GoOn
  <2>3. sending' \in [Senders -> Sending] /\ \A q \in Senders : sending'[q].msg = sending[q].msg
    BY <1>1, <2>2 DEF Sending
  <2>4. \A c \in Cells \ {<<"settled">>, <<"settled">>} : In(c)' = In(c)
    BY <1>1, <1>2, <2>3, CellsStay
  <2>5. \A c \in Cells : In(c)' = In(c)
    BY <2>2, <2>4, CellsHold, CellsWillHold
  <2>6. NotesApart' /\ \A n \in Notes : Nowhere(n)' <=> Nowhere(n)
    BY <2>5, NotesRest DEF NotesInv
  <2>7. NotesTyped' /\ ProducersAhead'
    BY <1>1, <2>2, <2>3 DEF NotesInv, NotesTyped, ProducersAhead
  <2> QED BY <1>1, <2>6, <2>7 DEF NotesInv, NotifyAssumption, NotesSomewhere, Nowhere, Cells
<1> QED BY <1>3, <1>4

\* What a sender does leaves the batcher and the queue alone.
LEMMA SenderMoves ==
  ASSUME NotesInv, NEW s \in Senders, SendButtons(s) \/ Allow(s) \/ Attempt(s)
  PROVE  /\ sending[s] # Idle /\ UNCHANGED <<batchVars, sendQueue, worker, lost>>
         /\ Settle(s) \/ \E stage \in SendStages, tries \in Nat : GoOn(s, stage, tries)
<1>1. sending[s].at # "idle" => sending[s] # Idle
  BY DEF Idle
<1>2. {"allow", "attempt"} \subseteq SendStages /\ 0 \in Nat /\ sending[s].tries \in Nat
  BY DEF SendStages, NotesInv, NotesTyped, Sending
<1>3. CASE SendButtons(s)
  BY <1>1, <1>2, <1>3 DEF SendButtons
<1>4. CASE Allow(s)
  BY <1>1, <1>2, <1>4 DEF Allow
<1>5. CASE Attempt(s)
  <2>1. sending[s].tries + 1 \in Nat
    BY <1>2
  <2> QED BY <1>1, <1>2, <1>5, <2>1 DEF Attempt
<1> QED BY <1>3, <1>4, <1>5

-----------------------------------------------------------------------------
(* The whole                                                                *)

\* What touches no note.
LEMMA NotesUntouched ==
  ASSUME NotesInv, UNCHANGED <<producer, batches, hand, sendQueue, sending, settled, lost>>,
         keysLeft' \subseteq BatchKeys, worker' \in {"none", "runs"}
  PROVE  NotesInv'
<1>1. \A i \in Nat \ {0} : Queued(i)' = Queued(i)
  BY DEF Queued
<1>2. \A c \in Cells \ {<<"settled">>, <<"settled">>} : In(c)' = In(c)
  BY <1>1, CellsStay
<1>3. \A c \in Cells : In(c)' = In(c)
  BY <1>2, CellsHold, CellsWillHold
<1>4. NotesApart' /\ \A n \in Notes : Nowhere(n)' <=> Nowhere(n)
  BY <1>3, NotesRest DEF NotesInv
<1>5. NotesTyped' /\ ProducersAhead'
  BY DEF NotesInv, NotesTyped, ProducersAhead
<1> QED BY <1>4, <1>5 DEF NotesInv, NotifyAssumption, NotesSomewhere, Nowhere, Cells

\* What a process had under way is lost with it, and lies nowhere else.
LEMMA ProcessEndsStep ==
  ASSUME NotesInv, ProcessEnds
  PROVE  NotesInv'
<1>1. /\ producer' = [n \in Notes |-> IF producer[n] = "new" THEN "new" ELSE "done"]
      /\ batches' = [k \in BatchKeys |-> <<>>] /\ hand' = [f \in Flushers |-> <<>>] /\ keysLeft' = {}
      /\ sendQueue' = <<>> /\ sending' = [s \in Senders |-> Idle] /\ worker' = "none"
      /\ lost' = lost \cup {n \in Notes : producer[n] # "new" /\ n \notin settled} /\ settled' = settled
  BY DEF ProcessEnds
<1>2. <<>> \in Seq(Notes) /\ <<>> \in Seq(Seq(Notes)) /\ Idle \in Sending /\ Idle.msg = <<>>
  BY DEF Idle, Sending, SendStages
<1>3. NotesTyped'
  BY <1>1, <1>2 DEF NotesInv, NotesTyped
<1>4. In(<<"settled">>)' = settled /\ In(<<"lost">>)' = lost'
  BY <1>1, CellsWillHold
<1>5. \A c \in Cells \ {<<"settled">>, <<"lost">>} : In(c)' = {}
  <2> SUFFICES ASSUME NEW c \in Cells \ {<<"settled">>, <<"lost">>} PROVE In(c)' = {}
    OBVIOUS
  <2>1. /\ \A k \in BatchKeys : batches'[k] = <<>>
        /\ \A f \in Flushers : hand'[f] = <<>>
        /\ \A s \in Senders : sending'[s].msg = <<>>
        /\ DOMAIN sendQueue' = {}
    BY <1>1, <1>2
  <2> QED BY <2>1, CellKinds, CellsWillHold, NothingIn
<1>6. settled \cap lost = {}
  <2>1. <<"settled">> \in Cells /\ <<"lost">> \in Cells /\ <<"settled">> # <<"lost">>
    BY CellsHold
  <2> QED BY <2>1, CellsHold DEF NotesInv, NotesApart
<1>7. settled \cap lost' = {}
  BY <1>1, <1>6
<1>8. NotesApart'
  <2>1. \A c, d \in Cells : c # d => In(c)' \cap In(d)' = {}
    BY <1>4, <1>5, <1>7
  <2> QED BY <2>1 DEF NotesApart, Cells
<1>9. NotesSomewhere'
  <2>1. \A n \in Notes : (\A c \in Cells : n \notin In(c)') <=> n \notin settled /\ n \notin lost'
    BY <1>4, <1>5, CellsHold
  <2>2. \A n \in Notes : producer[n] = "new" => n \notin settled /\ n \notin lost
    BY CellsHold DEF NotesInv, NotesSomewhere
  <2>3. \A n \in Notes : producer'[n] \in {"new", "checked"} <=> producer[n] = "new"
    BY <1>1
  <2>4. \A n \in Notes : producer[n] = "new" <=> n \notin settled /\ n \notin lost'
    BY <1>1, <2>2
  <2> QED BY <2>1, <2>3, <2>4 DEF NotesSomewhere, Cells
<1>10. ProducersAhead'
  BY <1>1 DEF ProducersAhead, Flushers
<1> QED BY <1>3, <1>8, <1>9, <1>10 DEF NotesInv, NotifyAssumption

LEMMA NotesStep == NotesInv /\ [NotifyNext]_notifyVars => NotesInv'
<1> SUFFICES ASSUME NotesInv, [NotifyNext]_notifyVars PROVE NotesInv'
  OBVIOUS
<1>1. keysLeft \subseteq BatchKeys /\ worker \in {"none", "runs"}
  BY DEF NotesInv, NotesTyped
<1>2. CASE UNCHANGED notifyVars
  BY <1>1, <1>2, NotesUntouched DEF notifyVars, batchVars
<1>3. CASE NewDispatcher
  BY <1>1, <1>3, NotesUntouched DEF NewDispatcher
<1>4. ASSUME NEW n \in Notes, Dispatch(n) \/ Enqueue(n) \/ FlushFull(n) PROVE NotesInv'
  BY <1>4, DispatchStep, EnqueueStep, FlushFullStep
<1>5. ASSUME NEW k \in BatchKeys, FlushNext(k) PROVE NotesInv'
  BY <1>5, FlushNextStep
<1>6. NonEmpty \subseteq BatchKeys
  BY DEF NonEmpty
<1>7. CASE Fire
  BY <1>1, <1>6, <1>7, NotesUntouched DEF Fire
<1>8. CASE TimerFlushed
  BY <1>1, <1>8, NotesUntouched DEF TimerFlushed
<1>9. ASSUME NEW f \in Flushers, EnqueueSend(f) PROVE NotesInv'
  BY <1>9, EnqueueSendStep
<1>10. CASE ProcessEnds
  BY <1>10, ProcessEndsStep
<1>11. ASSUME NEW s \in Senders, SendButtons(s) \/ Allow(s) \/ Attempt(s) PROVE NotesInv'
  BY <1>11, SenderMoves, SendingMoves
<1>12. CASE PauseEnds \/ ApplySettings
  BY <1>1, <1>12, NotesUntouched DEF PauseEnds, ApplySettings, batchVars
<1> QED BY <1>2, <1>3, <1>4, <1>5, <1>7, <1>8, <1>9, <1>10, <1>11, <1>12, TakeMessageStep DEF NotifyNext

-----------------------------------------------------------------------------
\* A note the dispatcher took is in one place until its process ends, whichever of
\* the timer and full buckets flush at the same time: none is dropped between the
\* batcher and the queue, none comes in two messages (flushBucket, enqueueSend).
THEOREM NoNoteLostOrDoubled == NotifyAssumption /\ NotifySpec => []NotesKept
<1>1. NotesInv => NotesKept
  <2> SUFFICES ASSUME NotesInv, NEW n \in Notes
               PROVE  Cardinality(Places(n)) = IF producer[n] \in {"new", "checked"} THEN 0 ELSE 1
    BY DEF NotesKept
  <2>1. \A c \in Places(n) : c \in Cells /\ n \in In(c)
    <3>1. sendQueue \in Seq(Seq(Notes)) /\ DOMAIN sendQueue \subseteq Nat \ {0}
      BY DEF NotesInv, NotesTyped
    <3> SUFFICES ASSUME NEW c \in Places(n) PROVE c \in Cells /\ n \in In(c)
      OBVIOUS
    <3>2. CASE \E k \in BatchKeys : c = <<"bucket", k>> /\ n \in ToSet(batches[k])
      BY <3>2, CellsHold
    <3>3. CASE \E f \in Flushers : c = <<"hand", f>> /\ n \in ToSet(hand[f])
      BY <3>3, CellsHold
    <3>4. CASE \E i \in DOMAIN sendQueue : c = <<"queue", i>> /\ n \in ToSet(sendQueue[i])
      BY <3>1, <3>4, CellsHold DEF Queued
    <3>5. CASE \E s \in Senders : c = <<"sender", s>> /\ n \in ToSet(sending[s].msg)
      BY <3>5, CellsHold
    <3>6. CASE (c = <<"settled">> /\ n \in settled) \/ (c = <<"lost">> /\ n \in lost)
      BY <3>6, CellsHold
    <3> QED BY <3>2, <3>3, <3>4, <3>5, <3>6 DEF Places, Occurs
  <2>2. \A c \in Cells : n \in In(c) => c \in Places(n)
    <3> SUFFICES ASSUME NEW c \in Cells, n \in In(c) PROVE c \in Places(n)
      OBVIOUS
    <3>1. CASE \E k \in BatchKeys : c = <<"bucket", k>>
      BY <3>1, CellsHold DEF Places, Occurs
    <3>2. CASE \E f \in Flushers : c = <<"hand", f>>
      BY <3>2, CellsHold DEF Places, Occurs
    <3>3. CASE \E i \in Nat \ {0} : c = <<"queue", i>>
      BY <3>3, CellsHold DEF Places, Occurs, Queued
    <3>4. CASE \E s \in Senders : c = <<"sender", s>>
      BY <3>4, CellsHold DEF Places, Occurs
    <3>5. CASE c = <<"settled">> \/ c = <<"lost">>
      BY <3>5, CellsHold DEF Places
    <3> QED BY <3>1, <3>2, <3>3, <3>4, <3>5, CellKinds
  <2>3. CASE producer[n] \in {"new", "checked"}
    <3>1. Places(n) = {}
      BY <2>1, <2>3 DEF NotesInv, NotesSomewhere
    <3> QED BY <2>3, <3>1, FS_EmptySet
  <2>4. CASE producer[n] \notin {"new", "checked"}
    <3>1. PICK c \in Cells : n \in In(c)
      BY <2>4 DEF NotesInv, NotesSomewhere
    <3>2. Places(n) = {c}
      BY <2>1, <2>2, <3>1 DEF NotesInv, NotesApart
    <3> QED BY <2>4, <3>2, FS_Singleton
  <2> QED BY <2>3, <2>4
<1>2. NotifyAssumption /\ NotifyInit => NotesInv
  BY NotesStart
<1> QED BY <1>1, <1>2, NotesStep, PTL DEF NotifySpec

-----------------------------------------------------------------------------
(* The bounds of buckets, queue, attempts and failures.  A bucket has no note *)
(* twice: as many places as notes, which are no more than there are.        *)
NoneTwice == \A k \in BatchKeys : Len(batches[k]) = Cardinality(ToSet(batches[k]))
Attempts == \A s \in Senders : sending[s].tries \in 0 .. Retries
BoundsInv ==
  /\ IsFiniteSet(Notes) /\ NoneTwice /\ Attempts
  /\ timer \in [armed : BOOLEAN, flushing : BOOLEAN]
  /\ Len(sendQueue) <= QueueSize
  /\ errors \in 0 .. MaxErrors /\ sendFailures \in 0 .. errors /\ {paused, configured} \subseteq BOOLEAN

LEMMA BoundsStart == IsFiniteSet(Notes) /\ NotifyAssumption /\ NotifyInit => BoundsInv
<1> SUFFICES ASSUME IsFiniteSet(Notes), NotifyAssumption, NotifyInit PROVE BoundsInv
  OBVIOUS
<1>1. NoneTwice
  BY NothingIn, FS_EmptySet DEF NotifyInit, NoneTwice
<1>2. Attempts
  BY DEF NotifyInit, Attempts, Idle, NotifyAssumption
<1>3. timer \in [armed : BOOLEAN, flushing : BOOLEAN] /\ {paused, configured} \subseteq BOOLEAN
  BY DEF NotifyInit
<1>4. Len(sendQueue) <= QueueSize
  BY DEF NotifyInit, NotifyAssumption
<1>5. errors \in 0 .. MaxErrors /\ sendFailures \in 0 .. errors
  BY DEF NotifyInit, NotifyAssumption
<1> QED BY <1>1, <1>2, <1>3, <1>4, <1>5 DEF BoundsInv

\* A note that comes is in no bucket yet.
LEMMA EnqueueBounds ==
  ASSUME NotesInv, IsFiniteSet(Notes), NoneTwice, NEW n \in Notes, Enqueue(n)
  PROVE  NoneTwice'
<1> DEFINE k == BatchKeyOf[n]
<1>1. producer[n] = "checked" /\ batches' = [batches EXCEPT ![k] = Append(batches[k], n)]
  BY DEF Enqueue
<1>2. k \in BatchKeys /\ batches \in [BatchKeys -> Seq(Notes)] /\ Nowhere(n)
  BY <1>1 DEF NotesInv, NotesTyped, NotesSomewhere, ProducersAhead, Nowhere
<1> HIDE DEF k
<1>3. PICK old, new : old \in Seq(Notes) /\ old = batches[k] /\ new = Append(old, n)
  BY <1>2
<1>4. n \notin ToSet(old)
  BY <1>2, <1>3, CellsHold DEF Nowhere
<1>5. /\ old \in Seq(Notes) /\ new \in Seq(Notes) /\ Len(new) = Len(old) + 1
      /\ new[Len(old) + 1] = n /\ \A i \in 1 .. Len(old) : new[i] = old[i]
  BY <1>3, AppendProperties
<1>6. ToSet(new) = ToSet(old) \cup {n}
  BY <1>5, LongerSet
<1>7. IsFiniteSet(ToSet(old))
  <2>1. ToSet(old) \in SUBSET Notes
    BY <1>3 DEF ToSet
  <2> QED BY <2>1, FS_Subset
<1>8. Cardinality(ToSet(new)) = Cardinality(ToSet(old)) + 1
  BY <1>4, <1>6, <1>7, FS_AddElement
<1>9. Len(old) = Cardinality(ToSet(old))
  BY <1>2, <1>3 DEF NoneTwice
<1>10. batches'[k] = new /\ \A j \in BatchKeys \ {k} : batches'[j] = batches[j]
  BY <1>1, <1>2, <1>3
<1> QED BY <1>2, <1>5, <1>8, <1>9, <1>10 DEF NoneTwice

LEMMA TakenBounds ==
  ASSUME NotesInv, NoneTwice, NEW f, NEW k \in BatchKeys, TakeBucket(f, k)
  PROVE  NoneTwice'
<1>1. batches' = [batches EXCEPT ![k] = <<>>] /\ batches \in [BatchKeys -> Seq(Notes)]
  BY DEF TakeBucket, NotesInv, NotesTyped
<1>2. batches'[k] = <<>> /\ \A j \in BatchKeys \ {k} : batches'[j] = batches[j]
  BY <1>1
<1>3. Len(batches'[k]) = 0 /\ ToSet(batches'[k]) = {}
  BY <1>2, NothingIn
<1> QED BY <1>2, <1>3, FS_EmptySet DEF NoneTwice

\* A message is queued where there is room, or sent at once.
LEMMA QueuedBounds ==
  ASSUME NotesInv, BoundsInv, NEW f \in Flushers, EnqueueSend(f)
  PROVE  BoundsInv'
<1>1. /\ UNCHANGED <<batches, timer, errors, sendFailures, paused, configured>>
      /\ \/ UNCHANGED <<sendQueue, sending>>
         \/ Len(sendQueue) < QueueSize /\ sendQueue' = Append(sendQueue, hand[f]) /\ UNCHANGED sending
         \/ /\ sending' = [sending EXCEPT ![f] = [msg |-> hand[f], at |-> FirstStage(hand[f]), tries |-> 0]]
            /\ UNCHANGED sendQueue
  BY DEF EnqueueSend, guardVars
<1>2. /\ sendQueue \in Seq(Seq(Notes)) /\ hand[f] \in Seq(Notes) /\ sending \in [Senders -> Sending]
      /\ QueueSize \in Nat /\ Retries \in Nat
  BY DEF NotesInv, NotesTyped, NotifyAssumption
<1>3. Len(sendQueue') <= QueueSize
  <2>1. CASE UNCHANGED sendQueue
    BY <2>1 DEF BoundsInv
  <2>2. CASE Len(sendQueue) < QueueSize /\ sendQueue' = Append(sendQueue, hand[f])
    <3>1. PICK q \in Seq(Seq(Notes)), e \in Seq(Notes) : q = sendQueue /\ e = hand[f]
      BY <1>2
    <3>2. Len(Append(q, e)) = Len(q) + 1
      BY AppendProperties
    <3>3. Len(q) \in Nat
      BY LenProperties
    <3> QED BY <1>2, <2>2, <3>1, <3>2, <3>3
  <2> QED BY <1>1, <2>1, <2>2
<1>4. Attempts'
  <2>1. CASE UNCHANGED sending
    BY <2>1 DEF BoundsInv, Attempts
  <2>2. CASE sending' = [sending EXCEPT ![f] = [msg |-> hand[f], at |-> FirstStage(hand[f]), tries |-> 0]]
    <3>1. \A s \in Senders : sending'[s].tries \in {0, sending[s].tries}
      BY <1>2, <2>2
    <3> QED BY <1>2, <3>1 DEF BoundsInv, Attempts
  <2> QED BY <1>1, <2>1, <2>2
<1> QED BY <1>1, <1>3, <1>4 DEF BoundsInv, NoneTwice

LEMMA TakeMessageBounds ==
  ASSUME NotesInv, BoundsInv, TakeMessage
  PROVE  BoundsInv'
<1>1. /\ UNCHANGED <<batches, timer, errors, sendFailures, paused, configured>>
      /\ sendQueue # <<>> /\ sendQueue' = Tail(sendQueue)
      /\ sending' = [sending EXCEPT !["worker"] = [msg |-> Head(sendQueue), at |-> FirstStage(Head(sendQueue)), tries |-> 0]]
  BY DEF TakeMessage, guardVars, batchVars
<1>2. sendQueue \in Seq(Seq(Notes)) /\ sending \in [Senders -> Sending] /\ QueueSize \in Nat /\ Retries \in Nat
  BY DEF NotesInv, NotesTyped, NotifyAssumption
<1>3. Len(sendQueue') <= QueueSize
  <2>1. PICK q \in Seq(Seq(Notes)) : q = sendQueue
    BY <1>2
  <2>2. Len(Tail(q)) = Len(q) - 1 /\ Len(q) \in Nat
    BY <1>1, <2>1, HeadTailProperties, LenProperties
  <2> QED BY <1>1, <1>2, <2>1, <2>2 DEF BoundsInv
<1>4. \A s \in Senders : sending'[s].tries \in {0, sending[s].tries}
  BY <1>1, <1>2
<1>5. Attempts'
  BY <1>2, <1>4 DEF BoundsInv, Attempts
<1> QED BY <1>1, <1>3, <1>5 DEF BoundsInv, NoneTwice

\* An attempt that times out is the next one while there are any left; a failure
\* is counted with the answers that go wrong.
LEMMA SentBounds ==
  ASSUME NotesInv, BoundsInv, NEW s \in Senders, SendStep(s)
  PROVE  BoundsInv'
<1>1. /\ sending \in [Senders -> Sending] /\ MaxErrors \in Nat /\ Retries \in Nat /\ sending[s].tries \in 0 .. Retries
      /\ errors \in 0 .. MaxErrors /\ sendFailures \in 0 .. errors
  BY DEF NotesInv, NotesTyped, NotifyAssumption, BoundsInv, Attempts
<1>2. UNCHANGED <<batches, timer, sendQueue, configured>>
  BY DEF SendStep, SendButtons, Allow, Attempt, batchVars
<1>3. \/ UNCHANGED <<errors, sendFailures, paused>>
      \/ errors' = errors /\ sendFailures' = 0 /\ paused' = FALSE
      \/ errors' = errors + 1 /\ errors < MaxErrors /\ UNCHANGED <<sendFailures, paused>>
      \/ /\ errors' = errors + 1 /\ errors < MaxErrors /\ sendFailures' = sendFailures + 1
         /\ paused' = (paused \/ sendFailures' = MaxFailures)
  BY DEF SendStep, SendButtons, Allow, Attempt, OnSuccess, OnFailure, guardVars
<1>4. errors' \in 0 .. MaxErrors /\ sendFailures' \in 0 .. errors'
  BY <1>1, <1>3
<1>5. paused' \in BOOLEAN
  BY <1>3 DEF BoundsInv
<1>6. \/ Settle(s)
      \/ \E stage \in SendStages, tries \in 0 .. Retries : GoOn(s, stage, tries)
  <2>1. \/ Settle(s) \/ GoOn(s, "allow", 0) \/ GoOn(s, "attempt", 0)
        \/ sending[s].tries < Retries /\ GoOn(s, "attempt", sending[s].tries + 1)
    BY Zenon DEF SendStep, SendButtons, Allow, Attempt
  <2>2. /\ {"allow", "attempt"} \subseteq SendStages /\ 0 \in 0 .. Retries
        /\ sending[s].tries < Retries => sending[s].tries + 1 \in 0 .. Retries
    BY <1>1 DEF SendStages
  <2> QED BY <2>1, <2>2
<1>7. Attempts'
  <2>1. \A t \in Senders : sending'[t].tries \in (0 .. Retries) \cup {sending[t].tries}
    <3>1. CASE Settle(s)
      BY <1>1, <3>1 DEF Settle, Idle
    <3>2. CASE \E stage \in SendStages, tries \in 0 .. Retries : GoOn(s, stage, tries)
      BY <1>1, <3>2 DEF GoOn
    <3> QED BY <1>6, <3>1, <3>2
  <2> QED BY <2>1 DEF BoundsInv, Attempts
<1> QED BY <1>2, <1>4, <1>5, <1>7 DEF BoundsInv, NoneTwice

LEMMA BoundsStep ==
  NotesInv /\ BoundsInv /\ [NotifyNext]_notifyVars => BoundsInv'
<1> SUFFICES ASSUME NotesInv, BoundsInv, [NotifyNext]_notifyVars PROVE BoundsInv'
  OBVIOUS
<1> DEFINE Rest == UNCHANGED <<sendQueue, sending, errors, sendFailures, paused, configured>>
<1>1. ASSUME Rest, NoneTwice', timer' \in [armed : BOOLEAN, flushing : BOOLEAN] PROVE BoundsInv'
  BY <1>1 DEF BoundsInv, Attempts
<1>2. ASSUME Rest, UNCHANGED batches, timer' \in [armed : BOOLEAN, flushing : BOOLEAN] PROVE BoundsInv'
  BY <1>1, <1>2 DEF BoundsInv, NoneTwice
<1>3. CASE UNCHANGED notifyVars
  BY <1>2, <1>3 DEF notifyVars, batchVars, guardVars, BoundsInv
<1>4. CASE NewDispatcher \/ Fire \/ TimerFlushed
  <2>1. timer' \in [armed : BOOLEAN, flushing : BOOLEAN]
    <3>1. timer \in [armed : BOOLEAN, flushing : BOOLEAN]
      BY DEF BoundsInv
    <3>2. CASE Fire \/ TimerFlushed
      <4>1. \A b, c \in BOOLEAN : [armed |-> b, flushing |-> c] \in [armed : BOOLEAN, flushing : BOOLEAN]
        OBVIOUS
      <4>2. timer' = [armed |-> FALSE, flushing |-> TRUE] \/ timer' = [armed |-> TRUE, flushing |-> FALSE]
        BY <3>2, Zenon DEF Fire, TimerFlushed, Rearm
      <4>3. TRUE \in BOOLEAN /\ FALSE \in BOOLEAN
        OBVIOUS
      <4> QED BY <4>1, <4>2, <4>3, Zenon
    <3>3. \A b \in BOOLEAN : [timer EXCEPT !.armed = b] \in [armed : BOOLEAN, flushing : BOOLEAN]
      BY <3>1
    <3> QED BY <1>4, <3>2, <3>3 DEF NewDispatcher
  <2>2. UNCHANGED batches /\ Rest
    BY <1>4 DEF NewDispatcher, Fire, TimerFlushed, guardVars
  <2> QED BY <1>2, <2>1, <2>2
<1>5. CASE ProcessEnds
  <2>1. /\ batches' = [k \in BatchKeys |-> <<>>] /\ sending' = [s \in Senders |-> Idle] /\ sendQueue' = <<>>
        /\ timer' = [armed |-> FALSE, flushing |-> FALSE] /\ sendFailures' = 0 /\ paused' = FALSE
        /\ errors < MaxErrors /\ errors' = errors + 1 /\ UNCHANGED configured
    BY <1>5 DEF ProcessEnds
  <2>2. NoneTwice'
    <3>1. \A k \in BatchKeys : Len(batches'[k]) = 0 /\ ToSet(batches'[k]) = {}
      BY <2>1, NothingIn
    <3> QED BY <3>1, FS_EmptySet DEF NoneTwice
  <2>3. Attempts'
    BY <2>1 DEF Attempts, Idle, NotesInv, NotifyAssumption
  <2>4. errors' \in 0 .. MaxErrors /\ sendFailures' \in 0 .. errors'
    BY <2>1 DEF BoundsInv, NotesInv, NotifyAssumption
  <2>5. Len(sendQueue') <= QueueSize
    BY <2>1 DEF NotesInv, NotifyAssumption
  <2>6. timer' \in [armed : BOOLEAN, flushing : BOOLEAN] /\ {paused, configured}' \subseteq BOOLEAN
    BY <2>1 DEF BoundsInv
  <2> QED BY <2>2, <2>3, <2>4, <2>5, <2>6 DEF BoundsInv
<1>6. ASSUME NEW n \in Notes, Dispatch(n) PROVE BoundsInv'
  BY <1>2, <1>6 DEF Dispatch, guardVars, BoundsInv
<1>7. ASSUME NEW n \in Notes, Enqueue(n) PROVE BoundsInv'
  <2>1. NoneTwice'
    BY <1>7, EnqueueBounds DEF BoundsInv
  <2> QED BY <1>1, <1>7, <2>1 DEF Enqueue, guardVars, BoundsInv
<1>8. ASSUME NEW n \in Notes, FlushFull(n) PROVE BoundsInv'
  <2>1. BatchKeyOf[n] \in BatchKeys
    BY <1>8 DEF FlushFull, NotesInv, ProducersAhead
  <2>2. NoneTwice'
    BY <1>8, <2>1, TakenBounds DEF FlushFull, BoundsInv
  <2> QED BY <1>1, <1>8, <2>2 DEF FlushFull, guardVars, BoundsInv
<1>9. ASSUME NEW k \in BatchKeys, FlushNext(k) PROVE BoundsInv'
  <2>1. NoneTwice'
    BY <1>9, TakenBounds DEF FlushNext, BoundsInv
  <2> QED BY <1>1, <1>9, <2>1 DEF FlushNext, guardVars, BoundsInv
<1>10. CASE PauseEnds
  BY <1>10 DEF PauseEnds, batchVars, BoundsInv, NoneTwice, Attempts
<1>11. CASE ApplySettings
  <2>1. /\ UNCHANGED <<batches, timer, sendQueue, sending, sendFailures, paused>>
        /\ configured' = ~configured /\ errors < MaxErrors /\ errors' = errors + 1
    BY <1>11 DEF ApplySettings, batchVars, guardVars
  <2>2. errors' \in 0 .. MaxErrors /\ sendFailures' \in 0 .. errors'
    BY <2>1 DEF BoundsInv, NotesInv, NotifyAssumption
  <2>3. configured' \in BOOLEAN
    BY <2>1
  <2> QED BY <2>1, <2>2, <2>3 DEF BoundsInv, NoneTwice, Attempts
<1>12. ASSUME NEW s \in Senders, SendButtons(s) \/ Allow(s) \/ Attempt(s) PROVE BoundsInv'
  BY <1>12, SentBounds DEF SendStep
<1> QED BY <1>3, <1>4, <1>5, <1>6, <1>7, <1>8, <1>9, <1>10, <1>11, <1>12, QueuedBounds, TakeMessageBounds DEF NotifyNext

\* The send queue never has more messages than places, a bucket never more notes
\* than there are (none twice), and no message is tried more often than the
\* retries allow (enqueueSend, Enqueue, SendMessageWithRetry).
THEOREM NotesTypeCorrect == IsFiniteSet(Notes) /\ NotifyAssumption /\ NotifySpec => []NotifyTypeOK
<1>1. NotesInv /\ BoundsInv => NotifyTypeOK
  <2> SUFFICES ASSUME NotesInv, BoundsInv PROVE NotifyTypeOK
    OBVIOUS
  <2>1. ASSUME NEW k \in BatchKeys PROVE Len(batches[k]) <= Cardinality(Notes)
    <3>1. ToSet(batches[k]) \in SUBSET Notes /\ Len(batches[k]) = Cardinality(ToSet(batches[k]))
      BY DEF NotesInv, NotesTyped, BoundsInv, NoneTwice, ToSet
    <3> QED BY <3>1, FS_Subset DEF BoundsInv
  <2>2. \A s \in Senders : sending[s].at \in SendStages /\ sending[s].tries \in 0 .. Retries
    BY DEF NotesInv, NotesTyped, Sending, BoundsInv, Attempts
  <2>3. sendFailures \in 0 .. MaxErrors
    BY DEF BoundsInv, NotesInv, NotifyAssumption
  <2> QED BY <2>1, <2>2, <2>3 DEF NotifyTypeOK, NotesInv, NotesTyped, BoundsInv
<1> QED BY <1>1, NotesStart, NotesStep, BoundsStart, BoundsStep, PTL DEF NotifySpec
=============================================================================
