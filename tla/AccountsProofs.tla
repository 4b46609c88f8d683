--------------------------- MODULE AccountsProofs ---------------------------
(***************************************************************************)
(* What TLAPS proves of Accounts, for any names, requests, failed writes   *)
(* and crashes: an account has one name while no other account is made,    *)
(* and the settings name no account that is gone.  The invariants say what *)
(* a rename under way holds: alone the one account there is, and the names *)
(* it is still to change.                                                  *)
(* The last part is about LiveLog: its memory is bounded, and no browser   *)
(* misses a frame, for any frames, tasks and browsers.                     *)
(***************************************************************************)
EXTENDS Accounts, LiveLog, FiniteSetTheorems, SequenceTheorems, WellFoundedInduction, TLAPS

Request == [at : RequestStages, from : Names \cup {None}, to : Names \cup {None}, acc : Nat]

\* A request under way has its names, and a rename the account it moves.
NamesKnown(r) == ~Reaches(r, "idle") => reqs[r].from \in Names /\ reqs[r].to \in Names
Moves(r) == Reaches(r, "remove") \/ Reaches(r, "insert") => reqs[r].acc # NoAccount /\ reqs[r].from # reqs[r].to

Typed ==
  /\ AccountsAssumption
  /\ reqs \in [Requests -> Request] /\ accounts \in [Names -> Nat] /\ disk \in [Names -> Nat]
  /\ made \in Nat \ {0} /\ monitored \cup broken \subseteq Names
  /\ \A r \in Requests : NamesKnown(r) /\ Moves(r)

-----------------------------------------------------------------------------
(* Type correctness *)

LEMMA TypedAtStart == AccountsAssumption /\ AccountsInit => Typed
BY DEF AccountsInit, Typed, NoAccount, Request, NoRequest, RequestStages, AccountsAssumption, NamesKnown, Moves, Reaches

\* What a request may become.
LEMMA RequestTyped ==
  ASSUME Typed, NEW r \in Requests, NEW q \in Request, reqs' = [reqs EXCEPT ![r] = q],
         q.at # "idle" => q.from \in Names /\ q.to \in Names,
         q.at \in {"remove", "insert"} => q.acc # NoAccount /\ q.from # q.to
  PROVE  reqs' \in [Requests -> Request] /\ \A s \in Requests : NamesKnown(s)' /\ Moves(s)'
BY DEF Typed, NamesKnown, Moves, Reaches

LEMMA GotoTyped ==
  ASSUME Typed, NEW r \in Requests, NEW at \in RequestStages \ {"idle", "remove"}, Goto(r, at),
         ~Reaches(r, "idle"), at = "insert" => Reaches(r, "remove")
  PROVE  reqs' \in [Requests -> Request] /\ \A s \in Requests : NamesKnown(s)' /\ Moves(s)'
<1> DEFINE q == [at |-> at, from |-> reqs[r].from, to |-> reqs[r].to, acc |-> reqs[r].acc]
<1>1. reqs[r] \in Request /\ NamesKnown(r) /\ Moves(r)
  BY DEF Typed
<1>2. q \in Request /\ reqs' = [reqs EXCEPT ![r] = q]
  BY <1>1 DEF Request, Goto
<1>3. /\ q.at # "idle" => q.from \in Names /\ q.to \in Names
      /\ q.at \in {"remove", "insert"} => q.acc # NoAccount /\ q.from # q.to
  BY <1>1 DEF NamesKnown, Moves
<1> HIDE DEF q
<1> QED BY <1>2, <1>3, RequestTyped

LEMMA EndTyped ==
  ASSUME Typed, NEW r \in Requests, End(r)
  PROVE  reqs' \in [Requests -> Request] /\ \A s \in Requests : NamesKnown(s)' /\ Moves(s)'
<1>1. NoRequest \in Request /\ NoRequest.at = "idle"
  BY DEF NoRequest, Request, RequestStages, NoAccount
<1> QED BY <1>1, RequestTyped DEF End

LEMMA BeginTyped ==
  ASSUME Typed, NEW r \in Requests, NEW n \in Names, NEW m \in Names,
         \/ CreateAccount(r, n) \/ SignIn(r, n) \/ UpdateAccount(r, n, m)
         \/ \E force \in BOOLEAN : DeleteAccount(r, n, force)
  PROVE  Typed'
<1> USE DEF Request, RequestStages, NoAccount, KeepStore, KeepRefs
<1>1. reqs' \in [Requests -> Request] /\ \A s \in Requests : NamesKnown(s)' /\ Moves(s)'
  <2>1. CASE CreateAccount(r, n)
    BY <2>1, RequestTyped DEF CreateAccount
  <2>2. CASE SignIn(r, n)
    BY <2>2, RequestTyped DEF SignIn
  <2>3. CASE UpdateAccount(r, n, m)
    <3>1. accounts[n] \in Nat \ {0}
      BY <2>3 DEF UpdateAccount, Has, Typed
    <3> QED BY <2>3, <3>1, RequestTyped DEF UpdateAccount
  <2>4. CASE \E force \in BOOLEAN : DeleteAccount(r, n, force)
    BY <2>4, RequestTyped DEF DeleteAccount
  <2> QED BY <2>1, <2>2, <2>3, <2>4
<1>2. accounts' \in [Names -> Nat] /\ disk' = disk /\ made' = made /\ UNCHANGED <<monitored, broken>>
  BY DEF CreateAccount, SignIn, UpdateAccount, DeleteAccount, Put, Store, Typed
<1> QED BY <1>1, <1>2 DEF Typed, AccountsAssumption

LEMMA StepTyped ==
  ASSUME Typed, NEW r \in Requests,
         \/ Insert(r) \/ Update(r) \/ RenameRemove(r) \/ RenameInsert(r) \/ WriteStatus(r) \/ Delete(r)
         \/ \E ok \in BOOLEAN : RequestFlush(r, ok) \/ CascadeSettings(r, ok)
  PROVE  Typed'
<1> USE DEF NoAccount
<1>0. ~Reaches(r, "idle") /\ reqs[r].from \in Names /\ reqs[r].to \in Names /\ reqs[r].acc \in Nat
  BY DEF Insert, Update, RenameRemove, RenameInsert, WriteStatus, Delete, RequestFlush, CascadeSettings,
         Reaches, Typed, NamesKnown, Request
<1>1. reqs' \in [Requests -> Request] /\ \A s \in Requests : NamesKnown(s)' /\ Moves(s)'
  <2>1. \/ End(r)
        \/ \E at \in RequestStages \ {"idle", "remove", "insert"} : Goto(r, at)
        \/ Reaches(r, "remove") /\ Goto(r, "insert")
    BY DEF Insert, Update, RenameRemove, RemoveRow, RenameInsert, WriteStatus, Delete, RequestFlush, CascadeSettings,
           RequestStages
  <2> QED BY <1>0, <2>1, EndTyped, GotoTyped DEF RequestStages
<1>2. accounts' \in [Names -> Nat] /\ disk' \in [Names -> Nat] /\ made' \in Nat \ {0}
  BY <1>0 DEF Insert, Update, RenameRemove, RemoveRow, RenameInsert, WriteStatus, SetCookieStatus, Delete, RequestFlush,
              Flush, CascadeSettings, KeepStore, Put, Store, Typed
<1>3. monitored' \cup broken' \subseteq Names
  BY <1>0 DEF Insert, Update, RenameRemove, RenameInsert, WriteStatus, Delete, RequestFlush, CascadeSettings,
              SaveLocked, KeepRefs, Typed
<1> QED BY <1>1, <1>2, <1>3 DEF Typed, AccountsAssumption

LEMMA BesideTyped ==
  ASSUME Typed,
         \/ \E ok \in BOOLEAN : BgFlush(ok)
         \/ ProcessEnds
         \/ \E n \in Names : RunAccountInspection(n) \/ ProbeEnds(n)
         \/ \E ns \in SUBSET Names : HandleLifeMonitorPOST(ns) \/ HandleSettingsPOST(ns)
         \/ UNCHANGED accountVars
  PROVE  Typed'
<1>1. reqs' \in [Requests -> Request] /\ \A s \in Requests : NamesKnown(s)' /\ Moves(s)'
  <2>1. reqs' = reqs \/ reqs' = [r \in Requests |-> NoRequest]
    BY DEF BgFlush, ProcessEnds, RunAccountInspection, ProbeEnds, HandleLifeMonitorPOST, HandleSettingsPOST, UpdateSettings, accountVars
  <2> QED BY <2>1 DEF Typed, NamesKnown, Moves, Reaches, NoRequest, Request, RequestStages, NoAccount
<1>2. accounts' \in [Names -> Nat] /\ disk' \in [Names -> Nat] /\ made' = made
  BY DEF BgFlush, Flush, ProcessEnds, RunAccountInspection, ProbeEnds, SetCookieStatus, Put, Store, HandleLifeMonitorPOST,
         HandleSettingsPOST, UpdateSettings, KeepStore, accountVars, Typed
<1>3. monitored' \cup broken' \subseteq Names
  BY DEF BgFlush, ProcessEnds, RunAccountInspection, ProbeEnds, HandleLifeMonitorPOST,
         HandleSettingsPOST, UpdateSettings, SaveLocked, KeepRefs, accountVars, Typed
<1> QED BY <1>1, <1>2, <1>3 DEF Typed, AccountsAssumption

LEMMA TypedKept == Typed /\ [AccountsNext]_accountVars => Typed'
BY BeginTyped, StepTyped, BesideTyped DEF AccountsNext

-----------------------------------------------------------------------------
(* An account has one name *)

\* One of the names at most has an account.
Single(as) == \A n, m \in Names : as[n] # NoAccount /\ as[m] # NoAccount => n = m

\* A request that has taken the account away is the only one, and there is no
\* other account.
AloneWith(r) ==
  Reaches(r, "insert") =>
    /\ \A n \in Names : ~Has(n)
    /\ \A s \in Requests : Reaches(s, "insert") => s = r

NameInv == Typed /\ (made = 1 => Single(accounts) /\ Single(disk) /\ \A r \in Requests : AloneWith(r))

LEMMA NameStart == AccountsAssumption /\ AccountsInit => NameInv
BY TypedAtStart DEF AccountsInit, NameInv, Single, AloneWith, Reaches, NoRequest, NoAccount, AccountsAssumption

\* Names that lose their account, and requests that go no further than before.
LEMMA FewerNames ==
  ASSUME NameInv, Typed', made' = made, \A n \in Names : Has(n)' => Has(n),
         disk' \in {disk, accounts},
         \A r \in Requests : Reaches(r, "insert")' => Reaches(r, "insert")
  PROVE  NameInv'
BY DEF NameInv, Single, AloneWith, Has

LEMMA NamesKept == NameInv /\ [AccountsNext]_accountVars => NameInv'
<1> SUFFICES ASSUME NameInv, [AccountsNext]_accountVars PROVE NameInv'
  OBVIOUS
<1>t. Typed /\ Typed'
  BY TypedKept DEF NameInv
<1> USE DEF NoAccount
<1>1. ASSUME NEW r \in Requests, NEW n \in Names, NEW m \in Names,
             \/ CreateAccount(r, n) \/ SignIn(r, n) \/ UpdateAccount(r, n, m)
             \/ \E force \in BOOLEAN : DeleteAccount(r, n, force)
      PROVE  NameInv'
  <2>1. made' = made /\ disk' = disk /\ \A k \in Names : Has(k)' => Has(k)
    BY <1>1, <1>t DEF CreateAccount, SignIn, UpdateAccount, DeleteAccount, KeepStore, Put, Store, Has, Typed
  <2>2. \A s \in Requests : Reaches(s, "insert")' => Reaches(s, "insert")
    <3>1. CASE CreateAccount(r, n)
      BY <1>t, <3>1 DEF CreateAccount, Reaches, Typed
    <3>2. CASE SignIn(r, n)
      BY <1>t, <3>2 DEF SignIn, Reaches, Typed
    <3>3. CASE UpdateAccount(r, n, m)
      BY <1>t, <3>3 DEF UpdateAccount, Reaches, Typed
    <3>4. CASE \E force \in BOOLEAN : DeleteAccount(r, n, force)
      BY <1>t, <3>4 DEF DeleteAccount, Reaches, Typed
    <3> QED BY <1>1, <3>1, <3>2, <3>3, <3>4
  <2> QED BY <1>t, <2>1, <2>2, FewerNames
<1>2. ASSUME NEW r \in Requests, Insert(r) PROVE NameInv'
  <2>1. made' # 1
    BY <1>2, <1>t DEF Insert, Typed
  <2> QED BY <1>t, <2>1 DEF NameInv
<1>3. ASSUME NEW r \in Requests, RenameRemove(r) PROVE NameInv'
  <2>1. CASE ~Has(reqs[r].from)
    <3>1. UNCHANGED <<accounts, disk, made>> /\ \A s \in Requests : Reaches(s, "insert")' => Reaches(s, "insert")
      BY <1>3, <1>t, <2>1 DEF RenameRemove, RemoveRow, End, NoRequest, Reaches, Typed
    <3> QED BY <1>t, <3>1, FewerNames DEF Has
  <2>2. CASE Has(reqs[r].from) /\ made = 1
    <3>1. reqs[r].from \in Names
      BY <1>3, <1>t DEF RenameRemove, Reaches, Typed, NamesKnown
    <3>2. /\ accounts' = [accounts EXCEPT ![reqs[r].from] = 0] /\ UNCHANGED <<disk, made>>
          /\ \A s \in Requests : Reaches(s, "insert")' => s = r \/ Reaches(s, "insert")
      BY <1>3, <1>t, <2>2 DEF RenameRemove, RemoveRow, Goto, Put, Store, Reaches, Typed
    <3>3. \A s \in Requests : ~Reaches(s, "insert")
      BY <2>2, <3>1 DEF NameInv, AloneWith
    <3>4. \A n \in Names : ~Has(n)'
      BY <1>t, <2>2, <3>1, <3>2 DEF NameInv, Single, Has, Typed
    <3>5. \A s \in Requests : AloneWith(s)'
      BY <3>2, <3>3, <3>4 DEF AloneWith
    <3>6. Single(accounts)' /\ Single(disk)'
      BY <2>2, <3>2, <3>4 DEF NameInv, Single, Has
    <3> QED BY <1>t, <3>5, <3>6 DEF NameInv
  <2>3. CASE made # 1
    BY <1>3, <1>t, <2>3 DEF RenameRemove, NameInv
  <2> QED BY <2>1, <2>2, <2>3
<1>4. ASSUME NEW r \in Requests, RenameInsert(r) PROVE NameInv'
  <2>1. /\ reqs[r].to \in Names /\ accounts' = [accounts EXCEPT ![reqs[r].to] = reqs[r].acc]
        /\ UNCHANGED <<disk, made>> /\ Reaches(r, "insert")
        /\ \A s \in Requests : Reaches(s, "insert")' => s # r /\ Reaches(s, "insert")
    BY <1>4, <1>t DEF RenameInsert, Goto, Put, Store, Reaches, Typed, NamesKnown
  <2>2. CASE made = 1
    <3>1. (\A n \in Names : ~Has(n)) /\ \A s \in Requests : ~Reaches(s, "insert")'
      BY <2>1, <2>2 DEF NameInv, AloneWith
    <3>2. Single(accounts)' /\ Single(disk)'
      BY <1>t, <2>1, <2>2, <3>1 DEF NameInv, Single, Has, Typed
    <3> QED BY <1>t, <3>1, <3>2 DEF NameInv, AloneWith
  <2> QED BY <1>t, <2>1, <2>2 DEF NameInv
<1>5. ASSUME NEW r \in Requests,
             \/ Update(r) \/ WriteStatus(r) \/ Delete(r)
             \/ \E ok \in BOOLEAN : RequestFlush(r, ok) \/ CascadeSettings(r, ok)
      PROVE  NameInv'
  <2>0. reqs[r].from \in Names /\ reqs[r].to \in Names
    BY <1>5, <1>t DEF Update, WriteStatus, Delete, RequestFlush, CascadeSettings, Reaches, Typed, NamesKnown
  <2>1. made' = made /\ disk' \in {disk, accounts} /\ \A k \in Names : Has(k)' => Has(k)
    BY <1>5, <1>t, <2>0 DEF Update, WriteStatus, SetCookieStatus, Delete, RequestFlush, Flush, CascadeSettings,
       KeepStore, Put, Store, Has, Typed
  <2>2. \A s \in Requests : Reaches(s, "insert")' => Reaches(s, "insert")
    BY <1>5, <1>t DEF Update, WriteStatus, Delete, RequestFlush, CascadeSettings, Goto, End, NoRequest, Reaches, Typed
  <2> QED BY <1>t, <2>1, <2>2, FewerNames
<1>6. ASSUME \/ \E ok \in BOOLEAN : BgFlush(ok)
             \/ \E n \in Names : RunAccountInspection(n) \/ ProbeEnds(n)
             \/ \E ns \in SUBSET Names : HandleLifeMonitorPOST(ns) \/ HandleSettingsPOST(ns)
             \/ UNCHANGED accountVars
      PROVE  NameInv'
  <2>1. made' = made /\ disk' \in {disk, accounts} /\ reqs' = reqs /\ \A k \in Names : Has(k)' => Has(k)
    BY <1>6, <1>t DEF BgFlush, Flush, RunAccountInspection, ProbeEnds, SetCookieStatus, Put, Store,
       HandleLifeMonitorPOST, HandleSettingsPOST, UpdateSettings, KeepStore, accountVars, Has, Typed
  <2> QED BY <1>t, <2>1, FewerNames DEF Reaches
<1>7. ASSUME ProcessEnds PROVE NameInv'
  <2>1. accounts' = disk /\ UNCHANGED <<disk, made>> /\ \A r \in Requests : ~Reaches(r, "insert")'
    BY <1>7 DEF ProcessEnds, Reaches, NoRequest
  <2> QED BY <1>t, <2>1 DEF NameInv, Single, AloneWith
<1> QED BY <1>1, <1>2, <1>3, <1>4, <1>5, <1>6, <1>7 DEF AccountsNext

\* However requests, failed writes and crashes interleave, the account has one
\* name in memory and in account.json as long as no other one is made
\* (handler/account.go, UpdateAccount).
THEOREM AccountHasOneName == AccountsAssumption /\ AccountsSpec => []OneName
<1>1. NameInv => OneName
  BY DEF NameInv, OneName, Single
<1> QED BY NameStart, NamesKept, <1>1, PTL DEF AccountsSpec

-----------------------------------------------------------------------------
(* The settings name accounts that exist *)

\* A rename that is still to change the settings answers for its old name.
Answers(r, n) ==
  /\ reqs[r].from = n /\ reqs[r].to # n
  /\ reqs[r].at \in {"insert", "status", "flush", "settings"}
SettingsInv ==
  Typed /\ \A n \in monitored \ broken : Has(n) \/ \E r \in Requests : Answers(r, n)

LEMMA SettingsStart == AccountsAssumption /\ AccountsInit => SettingsInv
<1> SUFFICES ASSUME AccountsAssumption, AccountsInit PROVE \A n \in monitored \ broken : Has(n)
  BY TypedAtStart DEF SettingsInv
<1>1. monitored \subseteq {First} /\ First \in Names
  BY DEF AccountsInit, AccountsAssumption
<1>2. accounts[First] = 1
  BY <1>1 DEF AccountsInit
<1> QED BY <1>1, <1>2 DEF Has, NoAccount

\* No name is lost, nor a request that answers for one.
LEMMA NoneLost ==
  ASSUME SettingsInv, Typed', \A n \in monitored' \ broken' : n \in monitored \ broken \/ Has(n)',
         \A n \in Names : Has(n) => Has(n)' \/ n \in broken' \/ \E r \in Requests : Answers(r, n)',
         \A n \in Names, r \in Requests : Answers(r, n) => Answers(r, n)' \/ n \notin monitored' \ broken'
  PROVE  SettingsInv'
<1> SUFFICES ASSUME NEW n \in monitored' \ broken'
             PROVE  Has(n)' \/ \E r \in Requests : Answers(r, n)'
  BY DEF SettingsInv
<1>1. n \in Names
  BY DEF Typed
<1> QED BY <1>1 DEF SettingsInv

LEMMA SettingsKept == SettingsInv /\ [AccountsNext]_accountVars => SettingsInv'
<1> SUFFICES ASSUME SettingsInv, [AccountsNext]_accountVars PROVE SettingsInv'
  OBVIOUS
<1>t. Typed /\ Typed'
  BY TypedKept DEF SettingsInv
<1> USE DEF NoAccount
<1>1. ASSUME NEW r \in Requests, NEW n \in Names, NEW m \in Names,
             \/ CreateAccount(r, n) \/ SignIn(r, n) \/ UpdateAccount(r, n, m)
             \/ \E force \in BOOLEAN : DeleteAccount(r, n, force)
      PROVE  SettingsInv'
  <2>1. UNCHANGED <<monitored, broken>> /\ \A k \in Names : Has(k) => Has(k)'
    BY <1>1, <1>t DEF CreateAccount, SignIn, UpdateAccount, DeleteAccount, KeepStore, KeepRefs, Put, Store, Has, Typed
  <2>2. reqs[r].at = "idle" /\ \A s \in Requests \ {r} : reqs'[s] = reqs[s]
    BY <1>1, <1>t DEF CreateAccount, SignIn, UpdateAccount, DeleteAccount, Begin, Typed
  <2>3. \A k \in Names, s \in Requests : Answers(s, k) => Answers(s, k)'
    BY <2>2 DEF Answers
  <2> QED BY <1>t, <2>1, <2>3, NoneLost
<1>2. ASSUME NEW r \in Requests, Insert(r) \/ RenameInsert(r) PROVE SettingsInv'
  <2>1. reqs[r].to \in Names /\ made + 1 # 0 /\ (Reaches(r, "insert") => reqs[r].acc # 0)
    BY <1>2, <1>t DEF Insert, RenameInsert, Reaches, Typed, NamesKnown, Moves
  <2>2. /\ monitored' = monitored /\ broken' = broken \ {reqs[r].to}
        /\ \E acc \in {made + 1, reqs[r].acc} : acc # 0 /\ accounts' = [accounts EXCEPT ![reqs[r].to] = acc]
    BY <1>2, <2>1 DEF Insert, RenameInsert, Put, Store
  <2>4. PICK acc : acc # 0 /\ accounts' = [accounts EXCEPT ![reqs[r].to] = acc]
    BY <2>2
  <2>5. \A k \in Names : k = reqs[r].to \/ Has(k) => Has(k)'
    BY <1>t, <2>1, <2>4 DEF Has, Typed
  <2>3. \A k \in Names, s \in Requests : Answers(s, k) => Answers(s, k)'
    BY <1>2, <1>t DEF Insert, RenameInsert, Goto, Reaches, Answers, Typed
  <2>6. \A n \in monitored' \ broken' : n \in monitored \ broken \/ Has(n)'
    <3> TAKE n \in monitored' \ broken'
    <3>1. n \in Names
      BY <1>t DEF Typed
    <3>2. n # reqs[r].to => n \in monitored \ broken
      BY <2>2
    <3> QED BY <2>5, <3>1, <3>2
  <2> QED BY <1>t, <2>3, <2>5, <2>6, NoneLost
<1>3. ASSUME NEW r \in Requests, RenameRemove(r) PROVE SettingsInv'
  <2>0. reqs[r].at = "remove" /\ reqs[r].from \in Names /\ reqs[r].from # reqs[r].to /\ UNCHANGED <<monitored, broken>>
    BY <1>3, <1>t DEF RenameRemove, Reaches, Typed, NamesKnown, Moves, KeepRefs
  <2>1. \A k \in Names, s \in Requests : Answers(s, k) => Answers(s, k)'
    BY <1>3, <1>t, <2>0 DEF RenameRemove, RemoveRow, Goto, End, Answers, Typed
  <2>2. CASE Has(reqs[r].from)
    <3>1. \A k \in Names : k = reqs[r].from => Answers(r, k)'
      BY <1>3, <1>t, <2>0, <2>2 DEF RenameRemove, RemoveRow, Goto, Answers, Typed
    <3>2. \A k \in Names : Has(k) => Has(k)' \/ k = reqs[r].from
      BY <1>3, <1>t, <2>0, <2>2 DEF RenameRemove, RemoveRow, Put, Store, Has, Typed
    <3>3. \A k \in Names : Has(k) => Has(k)' \/ \E s \in Requests : Answers(s, k)'
      BY <3>1, <3>2
    <3> QED BY <1>t, <2>0, <2>1, <3>3, NoneLost
  <2>3. CASE ~Has(reqs[r].from)
    <3>1. accounts' = accounts
      BY <1>3, <2>3 DEF RenameRemove, RemoveRow
    <3> QED BY <1>t, <2>0, <2>1, <3>1, NoneLost DEF Has
  <2> QED BY <2>2, <2>3
<1>4. ASSUME NEW r \in Requests, Delete(r) PROVE SettingsInv'
  <2>1. \A k \in Names, s \in Requests : Answers(s, k) => Answers(s, k)'
    BY <1>4, <1>t DEF Delete, Goto, End, Reaches, Answers, Typed
  <2>2. monitored' = monitored /\ broken \subseteq broken' /\ \A k \in Names : Has(k) => Has(k)' \/ k \in broken'
    BY <1>4, <1>t DEF Delete, Put, Store, Has, Reaches, Typed, NamesKnown
  <2> QED BY <1>t, <2>1, <2>2, NoneLost
<1>5. ASSUME NEW r \in Requests, NEW ok \in BOOLEAN, Update(r) \/ WriteStatus(r) \/ RequestFlush(r, ok) PROVE SettingsInv'
  <2>0. reqs[r].from \in Names /\ reqs[r].to \in Names
    BY <1>5, <1>t DEF Update, WriteStatus, RequestFlush, Reaches, Typed, NamesKnown
  <2>1. UNCHANGED <<monitored, broken>> /\ \A k \in Names : Has(k) => Has(k)'
    BY <1>5, <1>t, <2>0 DEF Update, WriteStatus, RequestFlush, SetCookieStatus, KeepRefs, Put, Store, Has, Typed
  <2>2. \A k \in Names, s \in Requests : Answers(s, k) => Answers(s, k)'
    BY <1>5, <1>t DEF Update, WriteStatus, RequestFlush, Goto, End, Reaches, Answers, Typed
  <2> QED BY <1>t, <2>1, <2>2, NoneLost
<1>6. ASSUME NEW r \in Requests, NEW ok \in BOOLEAN, CascadeSettings(r, ok) PROVE SettingsInv'
  <2>1. /\ reqs' = [reqs EXCEPT ![r] = NoRequest] /\ accounts' = accounts
        /\ reqs[r].from \in Names /\ reqs[r].to \in Names
        /\ broken' = broken \cup (IF ok THEN {} ELSE {reqs[r].from}) \cup (IF Has(reqs[r].to) THEN {} ELSE {reqs[r].to})
        /\ monitored' = IF ok /\ reqs[r].from \in monitored THEN (monitored \ {reqs[r].from}) \cup {reqs[r].to} ELSE monitored
    BY <1>6, <1>t DEF CascadeSettings, SaveLocked, End, KeepStore, Reaches, Typed, NamesKnown
  <2>2. \A k \in monitored' \ broken' : k \in monitored \ broken \/ Has(k)'
    BY <2>1 DEF Has
  <2>3. ASSUME NEW k \in Names, NEW s \in Requests, Answers(s, k)
        PROVE  Answers(s, k)' \/ k \notin monitored' \ broken'
    <3>1. CASE s = r
      <4>1. k = reqs[r].from /\ k # reqs[r].to
        BY <2>3, <3>1 DEF Answers
      <4> QED BY <2>1, <4>1
    <3>2. CASE s # r
      BY <1>t, <2>1, <2>3, <3>2 DEF Answers, Typed
    <3> QED BY <3>1, <3>2
  <2> QED BY <1>t, <2>1, <2>2, <2>3, NoneLost DEF Has
<1>7. ASSUME \/ \E ok \in BOOLEAN : BgFlush(ok)
             \/ \E n \in Names : RunAccountInspection(n) \/ ProbeEnds(n)
             \/ \E ns \in SUBSET Names : HandleLifeMonitorPOST(ns) \/ HandleSettingsPOST(ns)
             \/ UNCHANGED accountVars
      PROVE  SettingsInv'
  <2>1. reqs' = reqs /\ broken' = broken /\ \A k \in Names : Has(k) => Has(k)'
    BY <1>7, <1>t DEF BgFlush, RunAccountInspection, ProbeEnds, SetCookieStatus, Put, Store, KeepRefs,
       HandleLifeMonitorPOST, HandleSettingsPOST, UpdateSettings, KeepStore, accountVars, Has, Typed
  <2>2. \A k \in monitored' : k \in monitored \/ Has(k)
    BY <1>7 DEF BgFlush, RunAccountInspection, ProbeEnds, KeepRefs, HandleLifeMonitorPOST, HandleSettingsPOST,
       UpdateSettings, ValidateLifeMonitorAccounts, SaveLocked, accountVars
  <2>3. \A k \in monitored' : k \in Names
    BY <1>t DEF Typed
  <2> QED BY <1>t, <2>1, <2>2, <2>3, NoneLost DEF Answers
<1>8. ASSUME ProcessEnds PROVE SettingsInv'
  BY <1>8, <1>t DEF ProcessEnds, SettingsInv, Has, Typed
<1> QED BY <1>1, <1>2, <1>3, <1>4, <1>5, <1>6, <1>7, <1>8 DEF AccountsNext

\* The settings name only accounts that are there, or whose rename is under way
\* and will change them; names whose account was deleted or whose rename went
\* wrong are excepted (handler/account_cascade.go, service/store/settings.go).
THEOREM SettingsNameAccounts == AccountsAssumption /\ AccountsSpec => []MonitoredExist
<1>1. SettingsInv => MonitoredExist
  BY DEF SettingsInv, MonitoredExist, Answers
<1> QED BY SettingsStart, SettingsKept, <1>1, PTL DEF AccountsSpec

-----------------------------------------------------------------------------
(* Accounts are counted *)

\* Requests that are still to create their account: none is created without one.
Creating == {r \in Requests : Reaches(r, "create")}
NoneAbove(top) ==
  /\ \A n \in Names : accounts[n] <= top /\ disk[n] <= top
  /\ \A r \in Requests : reqs[r].acc <= top
Counted ==
  /\ dirty \in BOOLEAN /\ begun \in Nat /\ begun <= MaxRequests /\ faults \in Nat /\ faults <= MaxFaults
  /\ IsFiniteSet(Creating) /\ Cardinality(Creating) + made <= begun + 1
CountInv == Typed /\ Counted /\ NoneAbove(made)

LEMMA CountStart == AccountsAssumption /\ AccountsInit => CountInv
<1> SUFFICES ASSUME AccountsAssumption, AccountsInit PROVE CountInv
  OBVIOUS
<1>1. Creating = {}
  BY DEF AccountsInit, Creating, Reaches, NoRequest
<1>2. Counted
  <2>0. dirty \in BOOLEAN
    BY Zenon DEF AccountsInit
  <2>1. begun = 0 /\ faults = 0 /\ made = 1 /\ MaxRequests \in Nat /\ MaxFaults \in Nat
    BY DEF AccountsInit, AccountsAssumption
  <2>2. IsFiniteSet(Creating) /\ Cardinality(Creating) = 0
    BY <1>1, FS_EmptySet
  <2>3. begun \in Nat /\ begun <= MaxRequests /\ faults \in Nat /\ faults <= MaxFaults
    BY <2>1
  <2>4. Cardinality(Creating) + made <= begun + 1
    BY <2>1, <2>2
  <2> QED BY <2>0, <2>2, <2>3, <2>4 DEF Counted
<1>3. NoneAbove(made)
  BY DEF AccountsInit, NoneAbove, NoRequest, NoAccount
<1> QED BY <1>2, <1>3, TypedAtStart DEF CountInv

LEMMA FewerCreate ==
  ASSUME CountInv, Creating' \subseteq Creating, begun' \in Nat, begun' >= begun, made' = made
  PROVE  IsFiniteSet(Creating') /\ Cardinality(Creating') + made' <= begun' + 1
<1>1. IsFiniteSet(Creating) /\ Cardinality(Creating) + made <= begun + 1 /\ begun \in Nat /\ made \in Nat
  BY DEF CountInv, Counted, Typed
<1>2. IsFiniteSet(Creating') /\ Cardinality(Creating') <= Cardinality(Creating)
  BY <1>1, FS_Subset
<1>3. Cardinality(Creating) \in Nat /\ Cardinality(Creating') \in Nat
  BY <1>1, <1>2, FS_CardinalityType
<1> QED BY <1>1, <1>2, <1>3

LEMMA BeginCounted ==
  ASSUME CountInv, NEW r \in Requests, NEW n \in Names, NEW m \in Names,
         \/ CreateAccount(r, n) \/ SignIn(r, n) \/ UpdateAccount(r, n, m)
         \/ \E force \in BOOLEAN : DeleteAccount(r, n, force)
  PROVE  Counted' /\ NoneAbove(made)'
<1> USE DEF KeepStore, KeepRefs
<1>1. /\ begun' = begun + 1 /\ begun < MaxRequests /\ reqs[r].at = "idle" /\ UNCHANGED <<faults, made, disk>>
      /\ begun \in Nat /\ MaxRequests \in Nat
  BY DEF CreateAccount, SignIn, UpdateAccount, DeleteAccount, Begin, CountInv, Counted, Typed, AccountsAssumption
<1>2. \A k \in Names : accounts'[k] = accounts[k]
  BY DEF CreateAccount, SignIn, UpdateAccount, DeleteAccount, Put, Store, CountInv, Typed
<1>3. reqs \in [Requests -> Request]
  BY DEF CountInv, Typed
<1>4. /\ \A s \in Requests \ {r} : reqs'[s] = reqs[s]
      /\ reqs'[r].acc = NoAccount \/ \E k \in Names : reqs'[r].acc = accounts[k]
  <2>1. CASE CreateAccount(r, n)
    BY <1>3, <2>1 DEF CreateAccount
  <2>2. CASE SignIn(r, n)
    BY <1>3, <2>2 DEF SignIn
  <2>3. CASE UpdateAccount(r, n, m)
    BY <1>3, <2>3 DEF UpdateAccount
  <2>4. CASE \E force \in BOOLEAN : DeleteAccount(r, n, force)
    BY <1>3, <2>4 DEF DeleteAccount
  <2> QED BY <2>1, <2>2, <2>3, <2>4
<1>5. NoneAbove(made)'
  BY <1>1, <1>2, <1>4 DEF NoneAbove, CountInv, Typed, NoAccount
<1>6. IsFiniteSet(Creating') /\ Cardinality(Creating') + made' <= begun' + 1
  <2>1. Creating' \subseteq Creating \cup {r} /\ r \notin Creating
    BY <1>1, <1>4 DEF Creating, Reaches
  <2>2. IsFiniteSet(Creating) /\ Cardinality(Creating) + made <= begun + 1 /\ made \in Nat
    BY DEF CountInv, Counted, Typed
  <2>3. IsFiniteSet(Creating \cup {r}) /\ Cardinality(Creating \cup {r}) = Cardinality(Creating) + 1
    BY <2>1, <2>2, FS_AddElement
  <2>4. IsFiniteSet(Creating') /\ Cardinality(Creating') <= Cardinality(Creating \cup {r})
    BY <2>1, <2>3, FS_Subset
  <2>5. Cardinality(Creating) \in Nat /\ Cardinality(Creating') \in Nat
    BY <2>2, <2>4, FS_CardinalityType
  <2> QED BY <1>1, <2>2, <2>3, <2>4, <2>5
<1>7. dirty' \in BOOLEAN
  BY DEF CreateAccount, SignIn, UpdateAccount, DeleteAccount, Put, Store, CountInv, Counted
<1> QED BY <1>1, <1>5, <1>6, <1>7 DEF Counted, CountInv

LEMMA InsertCounted ==
  ASSUME CountInv, NEW r \in Requests, Insert(r)
  PROVE  Counted' /\ NoneAbove(made)'
<1>1. /\ Reaches(r, "create") /\ made' = made + 1 /\ UNCHANGED <<begun, faults, disk>> /\ dirty' = TRUE
      /\ made \in Nat /\ begun \in Nat /\ accounts \in [Names -> Nat]
  BY DEF Insert, Put, Store, CountInv, Counted, Typed
<1>2. reqs \in [Requests -> Request]
  BY DEF CountInv, Typed
<1>3. /\ \A s \in Requests \ {r} : reqs'[s] = reqs[s]
      /\ reqs'[r].acc = reqs[r].acc /\ reqs'[r].at = "status"
  BY <1>2 DEF Insert, Goto
<1>4. \A k \in Names : accounts'[k] \in {accounts[k], made + 1}
  BY <1>1 DEF Insert, Put, Store
<1>5. NoneAbove(made)'
  <2>1. \A k \in Names : accounts[k] \in Nat /\ disk[k] \in Nat /\ accounts[k] <= made /\ disk[k] <= made
    BY DEF CountInv, NoneAbove, Typed
  <2>2. \A s \in Requests : reqs[s].acc \in Nat /\ reqs[s].acc <= made
    BY DEF CountInv, NoneAbove, Typed, Request
  <2> QED BY <1>1, <1>3, <1>4, <2>1, <2>2 DEF NoneAbove
<1>6. IsFiniteSet(Creating') /\ Cardinality(Creating') + made' <= begun' + 1
  <2>1. Creating' \subseteq Creating \ {r} /\ r \in Creating
    BY <1>1, <1>3 DEF Creating, Reaches
  <2>2. IsFiniteSet(Creating) /\ Cardinality(Creating) + made <= begun + 1
    BY DEF CountInv, Counted
  <2>3. IsFiniteSet(Creating \ {r}) /\ Cardinality(Creating \ {r}) = Cardinality(Creating) - 1
    BY <2>1, <2>2, FS_RemoveElement
  <2>4. IsFiniteSet(Creating') /\ Cardinality(Creating') <= Cardinality(Creating \ {r})
    BY <2>1, <2>3, FS_Subset
  <2>5. Cardinality(Creating) \in Nat /\ Cardinality(Creating') \in Nat
    BY <2>2, <2>4, FS_CardinalityType
  <2> QED BY <1>1, <2>2, <2>3, <2>4, <2>5
<1> QED BY <1>1, <1>5, <1>6 DEF Counted, CountInv

\* A request goes on to its next step, or ends.
LEMMA StepCounted ==
  ASSUME CountInv, NEW r \in Requests,
         \/ Update(r) \/ RenameRemove(r) \/ RenameInsert(r) \/ WriteStatus(r) \/ Delete(r)
         \/ \E ok \in BOOLEAN : RequestFlush(r, ok) \/ CascadeSettings(r, ok)
  PROVE  Counted' /\ NoneAbove(made)'
<1>1. reqs \in [Requests -> Request] /\ accounts \in [Names -> Nat] /\ disk \in [Names -> Nat] /\ made \in Nat
      /\ begun \in Nat
  BY DEF CountInv, Counted, Typed
<1>2. UNCHANGED <<made, begun>>
  BY DEF Update, RenameRemove, RenameInsert, WriteStatus, Delete, RequestFlush, CascadeSettings, KeepStore
<1>3. End(r) \/ \E at \in RequestStages \ {"create"} : Goto(r, at)
  BY DEF Update, RenameRemove, RemoveRow, RenameInsert, WriteStatus, Delete, RequestFlush, CascadeSettings, RequestStages
<1>4. /\ \A s \in Requests \ {r} : reqs'[s] = reqs[s]
      /\ reqs'[r].acc \in {NoAccount, reqs[r].acc} /\ reqs'[r].at # "create"
  <2>1. CASE End(r)
    BY <1>1, <2>1 DEF End, NoRequest
  <2>2. CASE \E at \in RequestStages \ {"create"} : Goto(r, at)
    BY <1>1, <2>2 DEF Goto
  <2> QED BY <1>3, <2>1, <2>2
<1>5. \A k \in Names : /\ accounts'[k] \in {accounts[k], NoAccount, reqs[r].acc}
                       /\ disk'[k] \in {disk[k], accounts[k]}
  BY <1>1 DEF Update, RenameRemove, RemoveRow, RenameInsert, WriteStatus, SetCookieStatus, Delete, RequestFlush, Flush,
              CascadeSettings, KeepStore, Put, Store
<1>6. NoneAbove(made)'
  <2>1. \A k \in Names : accounts[k] \in Nat /\ disk[k] \in Nat /\ accounts[k] <= made /\ disk[k] <= made
    BY <1>1 DEF CountInv, NoneAbove
  <2>2. \A s \in Requests : reqs[s].acc \in Nat /\ reqs[s].acc <= made
    BY <1>1 DEF CountInv, NoneAbove, Request
  <2> QED BY <1>1, <1>2, <1>4, <1>5, <2>1, <2>2 DEF NoneAbove, NoAccount
<1>7. IsFiniteSet(Creating') /\ Cardinality(Creating') + made' <= begun' + 1
  <2>1. Creating' \subseteq Creating
    BY <1>4 DEF Creating, Reaches
  <2> QED BY <1>1, <1>2, <2>1, FewerCreate
<1>8. dirty' \in BOOLEAN /\ faults' \in Nat /\ faults' <= MaxFaults
  <2>1. dirty \in BOOLEAN /\ faults \in Nat /\ faults <= MaxFaults /\ MaxFaults \in Nat
    BY DEF CountInv, Counted, Typed, AccountsAssumption
  <2>2. dirty' \in BOOLEAN
    BY <2>1 DEF Update, RenameRemove, RemoveRow, RenameInsert, WriteStatus, SetCookieStatus, Delete, RequestFlush, Flush,
                CascadeSettings, KeepStore, Put, Store
  <2>3. UNCHANGED faults \/ (faults < MaxFaults /\ faults' = faults + 1)
    BY DEF Update, RenameRemove, RenameInsert, WriteStatus, Delete, RequestFlush, CascadeSettings, Fault
  <2> QED BY <2>1, <2>2, <2>3
<1> QED BY <1>1, <1>2, <1>6, <1>7, <1>8 DEF Counted, CountInv

LEMMA BesideCounted ==
  ASSUME CountInv,
         \/ \E ok \in BOOLEAN : BgFlush(ok)
         \/ ProcessEnds
         \/ \E n \in Names : RunAccountInspection(n) \/ ProbeEnds(n)
         \/ \E ns \in SUBSET Names : HandleLifeMonitorPOST(ns) \/ HandleSettingsPOST(ns)
         \/ UNCHANGED accountVars
  PROVE  Counted' /\ NoneAbove(made)'
<1>1. reqs \in [Requests -> Request] /\ accounts \in [Names -> Nat] /\ disk \in [Names -> Nat] /\ made \in Nat
      /\ begun \in Nat
  BY DEF CountInv, Counted, Typed
<1>2. UNCHANGED <<made, begun>>
  BY DEF BgFlush, ProcessEnds, RunAccountInspection, ProbeEnds, HandleLifeMonitorPOST, HandleSettingsPOST, UpdateSettings,
         KeepStore, accountVars
<1>3. \A s \in Requests : reqs'[s] \in {reqs[s], NoRequest}
  BY DEF BgFlush, ProcessEnds, RunAccountInspection, ProbeEnds, HandleLifeMonitorPOST, HandleSettingsPOST, UpdateSettings,
         accountVars
<1>4. \A k \in Names : accounts'[k] \in {accounts[k], disk[k]} /\ disk'[k] \in {disk[k], accounts[k]}
  BY <1>1 DEF BgFlush, Flush, ProcessEnds, RunAccountInspection, ProbeEnds, SetCookieStatus, Put, Store,
              HandleLifeMonitorPOST, HandleSettingsPOST, UpdateSettings, KeepStore, accountVars
<1>5. NoneAbove(made)'
  BY <1>1, <1>2, <1>3, <1>4 DEF CountInv, NoneAbove, NoRequest, NoAccount, Request
<1>6. IsFiniteSet(Creating') /\ Cardinality(Creating') + made' <= begun' + 1
  <2>1. Creating' \subseteq Creating
    BY <1>3 DEF Creating, Reaches, NoRequest
  <2> QED BY <1>1, <1>2, <2>1, FewerCreate
<1>7. dirty' \in BOOLEAN /\ faults' \in Nat /\ faults' <= MaxFaults
  <2>1. dirty \in BOOLEAN /\ faults \in Nat /\ faults <= MaxFaults /\ MaxFaults \in Nat
    BY DEF CountInv, Counted, Typed, AccountsAssumption
  <2>2. dirty' \in BOOLEAN
    BY <2>1 DEF BgFlush, Flush, ProcessEnds, RunAccountInspection, ProbeEnds, SetCookieStatus, Put, Store,
                HandleLifeMonitorPOST, HandleSettingsPOST, UpdateSettings, KeepStore, accountVars
  <2>3. UNCHANGED faults \/ (faults < MaxFaults /\ faults' = faults + 1)
    BY DEF BgFlush, ProcessEnds, RunAccountInspection, ProbeEnds, HandleLifeMonitorPOST, HandleSettingsPOST,
           UpdateSettings, KeepStore, Fault, accountVars
  <2> QED BY <2>1, <2>2, <2>3
<1> QED BY <1>1, <1>2, <1>5, <1>6, <1>7 DEF Counted, CountInv

LEMMA CountKept == CountInv /\ [AccountsNext]_accountVars => CountInv'
<1> SUFFICES ASSUME CountInv, [AccountsNext]_accountVars PROVE CountInv'
  OBVIOUS
<1>1. Typed'
  BY TypedKept DEF CountInv
<1>2. Counted' /\ NoneAbove(made)'
  BY BeginCounted, InsertCounted, StepCounted, BesideCounted DEF AccountsNext
<1> QED BY <1>1, <1>2 DEF CountInv

\* Accounts, account.json, requests and the names of the settings keep their types,
\* for any number of requests: no account is made but by a request that creates it,
\* and none is kept, in memory or in the file, that was never made (store/account.go).
THEOREM AccountsTyped == AccountsAssumption /\ AccountsSpec => []AccountsTypeOK
<1>1. ASSUME CountInv PROVE AccountsTypeOK
  <2>1. IsFiniteSet(Creating) /\ Cardinality(Creating) + made <= begun + 1 /\ begun <= MaxRequests
        /\ made \in Nat \ {0} /\ begun \in Nat /\ MaxRequests \in Nat
    BY <1>1 DEF CountInv, Counted, Typed, AccountsAssumption
  <2>2. made \in 1 .. MaxRequests + 1
    BY <2>1, FS_CardinalityType
  <2>3. \A k \in Nat : k <= made => k \in Account \cup {NoAccount}
    BY <2>1, <2>2 DEF Account, NoAccount
  <2>4. accounts \in [Names -> Account \cup {NoAccount}] /\ disk \in [Names -> Account \cup {NoAccount}]
    BY <1>1, <2>3 DEF CountInv, NoneAbove, Typed
  <2>5. reqs \in [Requests -> [at : RequestStages, from : Names \cup {None}, to : Names \cup {None},
                               acc : Account \cup {NoAccount}]]
    <3>1. reqs \in [Requests -> Request] /\ \A r \in Requests : reqs[r].acc <= made
      BY <1>1 DEF CountInv, NoneAbove, Typed
    <3>2. \A r \in Requests : reqs[r].acc \in Account \cup {NoAccount}
      BY <2>3, <3>1 DEF Request
    <3> QED BY <3>1, <3>2 DEF Request
  <2> QED BY <1>1, <2>2, <2>4, <2>5 DEF CountInv, Counted, Typed, AccountsTypeOK, AccountsAssumption
<1> QED BY <1>1, CountStart, CountKept, PTL DEF AccountsSpec


-----------------------------------------------------------------------------
(***************************************************************************)
(* The live log (LiveLog): its memory is bounded, and no browser misses a  *)
(* frame of its task that is still kept.  First what the operators on      *)
(* sequences do that the module is built from.                             *)
(***************************************************************************)

\* A sequence without its first elements.
LEMMA Suffix ==
  ASSUME NEW S, NEW q \in Seq(S), NEW m \in 1 .. Len(q)
  PROVE  /\ SubSeq(q, m, Len(q)) \in Seq(S) /\ Len(SubSeq(q, m, Len(q))) = Len(q) - m + 1
         /\ \A i \in 1 .. Len(q) - m + 1 : SubSeq(q, m, Len(q))[i] = q[m + i - 1]
<1>1. Len(q) \in Nat
  BY LenProperties
<1>2. \A i \in m .. Len(q) : q[i] \in S
  BY <1>1, ElementOfSeq
<1> QED BY <1>1, <1>2, SubSeqProperties

\* What a part of a sequence has of it, of which the last element is one.
PartOf(r, q) ==
  /\ ToSet(r) \subseteq ToSet(q) /\ Len(r) <= Len(q) /\ (IsInjective(q) => IsInjective(r))
  /\ (Len(q) > 0 => Len(r) > 0 /\ r[Len(r)] = q[Len(q)])
LEMMA SuffixPart ==
  ASSUME NEW S, NEW q \in Seq(S), NEW m \in 1 .. Len(q)
  PROVE  SubSeq(q, m, Len(q)) \in Seq(S) /\ PartOf(SubSeq(q, m, Len(q)), q)
<1>1. PICK r : r = SubSeq(q, m, Len(q))
  OBVIOUS
<1>2. PICK n \in Nat : n = Len(q)
  BY LenProperties
<1>3. r \in Seq(S) /\ Len(r) = n - m + 1 /\ \A i \in 1 .. n - m + 1 : r[i] = q[m + i - 1]
  BY <1>1, <1>2, Suffix
<1>4. DOMAIN r = 1 .. n - m + 1 /\ DOMAIN q = 1 .. n
  BY <1>2, <1>3, LenProperties
<1>5. \A i \in 1 .. n - m + 1 : m + i - 1 \in 1 .. n
  BY <1>2
<1>6. ToSet(r) \subseteq ToSet(q)
  BY <1>3, <1>4, <1>5 DEF ToSet
<1>7. IsInjective(q) => IsInjective(r)
  <2> SUFFICES ASSUME IsInjective(q), NEW i \in 1 .. n - m + 1, NEW j \in 1 .. n - m + 1, r[i] = r[j] PROVE i = j
    BY <1>4 DEF IsInjective
  <2>1. m + i - 1 = m + j - 1
    BY <1>3, <1>4, <1>5 DEF IsInjective
  <2> QED BY <1>2, <2>1
<1>8. Len(r) > 0 /\ Len(r) <= n /\ r[Len(r)] = q[n]
  BY <1>2, <1>3
<1> QED BY <1>1, <1>2, <1>3, <1>6, <1>7, <1>8 DEF PartOf

LEMMA PartItself == ASSUME NEW S, NEW q \in Seq(S) PROVE PartOf(q, q)
BY LenProperties DEF PartOf

LEMMA NewestPart ==
  ASSUME NEW S, NEW q \in Seq(S), NEW n \in Nat \ {0}
  PROVE  Newest(q, n) \in Seq(S) /\ PartOf(Newest(q, n), q) /\ Len(Newest(q, n)) <= n
<1>1. PICK k \in Nat : k = Len(q)
  BY LenProperties
<1>2. CASE k <= n
  BY <1>1, <1>2, PartItself DEF Newest
<1>3. CASE k > n
  <2>1. k - n + 1 \in 1 .. k
    BY <1>3
  <2>2. Newest(q, n) = SubSeq(q, k - n + 1, Len(q))
    BY <1>1, <1>3 DEF Newest
  <2>3. Newest(q, n) \in Seq(S) /\ PartOf(Newest(q, n), q)
    BY <1>1, <2>1, <2>2, SuffixPart
  <2>4. Len(Newest(q, n)) = k - (k - n + 1) + 1
    BY <1>1, <2>1, <2>2, Suffix
  <2> QED BY <1>1, <2>3, <2>4
<1> QED BY <1>1, <1>2, <1>3

\* The tasks that keep a buffer: some of the newest, the one just written among them.
LEMMA RemainingPart ==
  ASSUME NEW S, NEW q \in Seq(S), NEW order \in Remaining(q), MaxTaskLogs \in Nat \ {0}
  PROVE  order \in Seq(S) /\ PartOf(order, q) /\ Len(order) <= MaxTaskLogs
<1>1. PICK n \in 1 .. Len(q) : order = Newest(SubSeq(q, n, Len(q)), MaxTaskLogs)
  BY DEF Remaining
<1>2. PICK r : r = SubSeq(q, n, Len(q))
  OBVIOUS
<1>3. r \in Seq(S) /\ PartOf(r, q)
  BY <1>2, SuffixPart
<1>4. order \in Seq(S) /\ PartOf(order, r) /\ Len(order) <= MaxTaskLogs
  BY <1>1, <1>2, <1>3, NewestPart
<1>5. Len(q) \in Nat /\ Len(r) \in Nat /\ Len(order) \in Nat
  BY <1>3, <1>4, LenProperties
<1> QED BY <1>3, <1>4, <1>5 DEF PartOf

LEMMA AppendFacts ==
  ASSUME NEW S, NEW q \in Seq(S), NEW x \in S
  PROVE  /\ Append(q, x) \in Seq(S) /\ Len(Append(q, x)) = Len(q) + 1 /\ Append(q, x)[Len(q) + 1] = x
         /\ ToSet(Append(q, x)) = ToSet(q) \cup {x}
         /\ (IsInjective(q) /\ x \notin ToSet(q) => IsInjective(Append(q, x)))
<1>1. PICK r : r = Append(q, x)
  OBVIOUS
<1>2. PICK n \in Nat : n = Len(q) /\ DOMAIN q = 1 .. n
  BY LenProperties
<1>3. r \in Seq(S) /\ Len(r) = n + 1 /\ (\A i \in 1 .. n : r[i] = q[i]) /\ r[n + 1] = x
  BY <1>1, <1>2, AppendProperties
<1>4. DOMAIN r = 1 .. n + 1
  BY <1>3, LenProperties
<1>5. 1 .. n + 1 = (1 .. n) \cup {n + 1}
  OBVIOUS
<1>6. ToSet(r) = ToSet(q) \cup {x}
  BY <1>2, <1>3, <1>4, <1>5 DEF ToSet
<1>7. ASSUME IsInjective(q), x \notin ToSet(q) PROVE IsInjective(r)
  BY <1>2, <1>3, <1>4, <1>5, <1>7 DEF IsInjective, ToSet
<1> QED BY <1>1, <1>2, <1>3, <1>6, <1>7

LEMMA TailFacts ==
  ASSUME NEW S, NEW q \in Seq(S), q # <<>>
  PROVE  /\ Tail(q) \in Seq(S) /\ Len(Tail(q)) = Len(q) - 1 /\ Head(q) \in S
         /\ ToSet(q) = ToSet(Tail(q)) \cup {Head(q)}
         /\ (IsInjective(q) => IsInjective(Tail(q)))
<1>1. PICK r : r = Tail(q)
  OBVIOUS
<1>2. PICK n \in Nat \ {0} : n = Len(q) /\ DOMAIN q = 1 .. n
  BY LenProperties, EmptySeq
<1>3. r \in Seq(S) /\ Len(r) = n - 1 /\ (\A i \in 1 .. n - 1 : r[i] = q[i + 1]) /\ Head(q) \in S /\ Head(q) = q[1]
  BY <1>1, <1>2, HeadTailProperties
<1>4. DOMAIN r = 1 .. n - 1
  BY <1>3, LenProperties
<1>5. ToSet(q) = ToSet(r) \cup {Head(q)}
  <2>1. ASSUME NEW i \in 1 .. n PROVE q[i] \in ToSet(r) \cup {Head(q)}
    <3>1. CASE i = 1
      BY <1>3, <3>1
    <3>2. CASE i # 1
      <4>1. i - 1 \in 1 .. n - 1 /\ (i - 1) + 1 = i
        BY <3>2
      <4>2. r[i - 1] = q[i]
        BY <1>3, <4>1
      <4> QED BY <1>4, <4>1, <4>2 DEF ToSet
    <3> QED BY <3>1, <3>2
  <2>2. ASSUME NEW i \in 1 .. n - 1 PROVE r[i] \in ToSet(q)
    <3>1. i + 1 \in 1 .. n /\ r[i] = q[i + 1]
      BY <1>3
    <3> QED BY <1>2, <3>1 DEF ToSet
  <2>3. Head(q) \in ToSet(q)
    BY <1>2, <1>3 DEF ToSet
  <2> QED BY <1>2, <1>4, <2>1, <2>2, <2>3 DEF ToSet
<1>6. ASSUME IsInjective(q) PROVE IsInjective(r)
  <2> SUFFICES ASSUME NEW i \in 1 .. n - 1, NEW j \in 1 .. n - 1, r[i] = r[j] PROVE i = j
    BY <1>4 DEF IsInjective
  <2>1. i + 1 \in 1 .. n /\ j + 1 \in 1 .. n /\ q[i + 1] = q[j + 1]
    BY <1>3
  <2>2. i + 1 = j + 1
    BY <1>2, <1>6, <2>1 DEF IsInjective
  <2> QED BY <2>2
<1> QED BY <1>1, <1>2, <1>3, <1>5, <1>6

\* Every set of numbers has a least one.
LEMMA LeastOne ==
  ASSUME NEW T \in SUBSET Nat, T # {}
  PROVE  \E m \in T : \A k \in T : m <= k
<1> DEFINE Less == OpToRel(<, Nat)
<1>1. IsWellFoundedOn(Less, Nat)
  BY NatLessThanWellFounded
<1>2. \A x, y \in Nat : x < y => <<x, y>> \in Less
  BY DEF OpToRel
<1> HIDE DEF Less
<1>3. PICK m \in T : \A y \in T : ~(<<y, m>> \in Less)
  BY <1>1, WFMin
<1>4. \A k \in T : ~(k < m)
  BY <1>2, <1>3
<1>5. \A k \in T : m <= k
  BY <1>4
<1> QED BY <1>5

\* A task leaves the order, the others stay.
LEMMA TaskLeaves ==
  ASSUME NEW S, NEW q \in Seq(S), IsInjective(q), NEW key
  PROVE  /\ RemoveFirst(q, key) \in Seq(S) /\ IsInjective(RemoveFirst(q, key))
         /\ ToSet(RemoveFirst(q, key)) = ToSet(q) \ {key}
<1>1. PICK n \in Nat : n = Len(q) /\ DOMAIN q = 1 .. n
  BY LenProperties
<1>2. CASE \E i \in 1 .. n : q[i] = key
  <2> DEFINE I == {i \in 1 .. Len(q) : q[i] = key}
             m == Min(I)
             r == RemoveAt(q, m)
  <2>1. m \in 1 .. n /\ q[m] = key
    <3>1. I \in SUBSET Nat /\ I # {} /\ I = {i \in 1 .. n : q[i] = key}
      BY <1>1, <1>2
    <3> HIDE DEF I
    <3>2. \E k \in I : \A j \in I : k <= j
      BY <3>1, LeastOne
    <3>3. m \in I
      BY <3>2 DEF Min
    <3> QED BY <3>1, <3>3
  <2>2. RemoveFirst(q, key) = r
    BY <1>1, <1>2 DEF RemoveFirst, SelectInSeq
  <2> HIDE DEF m
  <2> DEFINE front == SubSeq(q, 1, m - 1)
             back == SubSeq(q, m + 1, Len(q))
  <2>3. \A i \in 1 .. n : q[i] \in S
    BY <1>1, ElementOfSeq
  <2>4. front \in Seq(S) /\ Len(front) = m - 1 /\ \A j \in 1 .. m - 1 : front[j] = q[j]
    BY <1>1, <2>1, <2>3
  <2>5. back \in Seq(S) /\ Len(back) = n - m /\ \A j \in 1 .. n - m : back[j] = q[m + j]
    BY <1>1, <2>1, <2>3
  <2>6. r = front \o back
    BY DEF RemoveAt
  <2> HIDE DEF front, back, r
  <2>7. r \in Seq(S) /\ Len(r) = n - 1
    <3>1. r \in Seq(S) /\ Len(r) = Len(front) + Len(back)
      BY <2>4, <2>5, <2>6, ConcatProperties, ZenonT(60)
    <3> QED BY <2>1, <2>4, <2>5, <3>1
  <2>8. ASSUME NEW j \in 1 .. n - 1 PROVE r[j] = IF j < m THEN q[j] ELSE q[j + 1]
    <3>1. r[j] = IF j <= m - 1 THEN front[j] ELSE back[j - (m - 1)]
      <4>1. j \in 1 .. Len(front) + Len(back)
        BY <2>1, <2>4, <2>5
      <4>2. r[j] = IF j <= Len(front) THEN front[j] ELSE back[j - Len(front)]
        BY <2>4, <2>5, <2>6, <4>1, ConcatProperties
      <4> QED BY <2>4, <4>2
    <3>2. CASE j < m
      BY <2>1, <2>4, <3>1, <3>2
    <3>3. CASE ~(j < m)
      <4>1. j - (m - 1) \in 1 .. n - m /\ m + (j - (m - 1)) = j + 1
        BY <2>1, <3>3
      <4> QED BY <2>1, <2>5, <3>1, <3>3, <4>1
    <3> QED BY <3>2, <3>3
  <2>9. DOMAIN r = 1 .. n - 1
    BY <2>7, LenProperties
  <2>10. IsInjective(r)
    <3> SUFFICES ASSUME NEW i \in 1 .. n - 1, NEW j \in 1 .. n - 1, r[i] = r[j] PROVE i = j
      BY <2>9 DEF IsInjective
    <3> DEFINE at(k) == IF k < m THEN k ELSE k + 1
    <3>1. at(i) \in 1 .. n /\ at(j) \in 1 .. n /\ r[i] = q[at(i)] /\ r[j] = q[at(j)]
      BY <2>8
    <3>2. at(i) = at(j)
      BY <1>1, <3>1 DEF IsInjective
    <3> QED BY <2>1, <3>2
  <2>11. ToSet(r) \subseteq ToSet(q) \ {key}
    <3> SUFFICES ASSUME NEW i \in 1 .. n - 1 PROVE r[i] \in ToSet(q) /\ r[i] # key
      BY <2>9 DEF ToSet
    <3> DEFINE k == IF i < m THEN i ELSE i + 1
    <3>1. k \in 1 .. n /\ k # m /\ r[i] = q[k]
      BY <2>1, <2>8
    <3> HIDE DEF k
    <3> QED BY <1>1, <2>1, <3>1 DEF IsInjective, ToSet
  <2>12. ToSet(q) \ {key} \subseteq ToSet(r)
    <3> SUFFICES ASSUME NEW i \in 1 .. n, q[i] # key PROVE q[i] \in ToSet(r)
      BY <1>1 DEF ToSet
    <3>1. i # m
      BY <2>1
    <3>2. CASE i < m
      <4>1. i \in 1 .. n - 1 /\ r[i] = q[i]
        BY <2>1, <2>8, <3>2
      <4> QED BY <2>9, <4>1 DEF ToSet
    <3>3. CASE i > m
      <4>1. i - 1 \in 1 .. n - 1 /\ ~(i - 1 < m) /\ (i - 1) + 1 = i
        BY <2>1, <3>3
      <4>2. r[i - 1] = q[i]
        BY <2>8, <4>1
      <4> QED BY <2>9, <4>1, <4>2 DEF ToSet
    <3> QED BY <2>1, <3>1, <3>2, <3>3
  <2> QED BY <2>2, <2>7, <2>10, <2>11, <2>12
<1>3. CASE ~\E i \in 1 .. n : q[i] = key
  <2>1. RemoveFirst(q, key) = q
    BY <1>1, <1>3 DEF RemoveFirst
  <2>2. key \notin ToSet(q)
    BY <1>1, <1>3 DEF ToSet
  <2> QED BY <2>1, <2>2
<1> QED BY <1>2, <1>3

\* A finite set in any order: each of its elements once.
LEMMA InAnyOrder ==
  ASSUME NEW S, IsFiniteSet(S), NEW order \in SetToSeqs(S)
  PROVE  order \in Seq(S) /\ IsInjective(order) /\ ToSet(order) = S
<1>1. PICK n \in Nat : n = Cardinality(S)
  BY FS_CardinalityType
<1>2. order \in [1 .. n -> S] /\ \A i, j \in 1 .. n : i # j => order[i] # order[j]
  BY <1>1 DEF SetToSeqs
<1>3. order \in Seq(S)
  BY <1>2
<1>4. IsInjective(order)
  BY <1>2 DEF IsInjective
<1>5. ToSet(order) = S
  <2>1. ToSet(order) \subseteq S
    BY <1>2 DEF ToSet
  <2>2. \A x \in S : x \in ToSet(order)
    <3> SUFFICES ASSUME NEW x \in S, x \notin ToSet(order) PROVE FALSE
      OBVIOUS
    <3>1. order \in [1 .. n -> S \ {x}]
      BY <1>2 DEF ToSet
    <3>2. IsFiniteSet(S \ {x}) /\ Cardinality(S \ {x}) = n - 1
      BY <1>1, FS_RemoveElement
    <3>3. IsFiniteSet(1 .. n) /\ Cardinality(1 .. n) = n
      <4>1. IsFiniteSet(1 .. n) /\ Cardinality(1 .. n) = IF 1 > n THEN 0 ELSE n - 1 + 1
        BY FS_Interval
      <4> QED BY <4>1
    <3>4. \E i, j \in 1 .. n : i # j /\ order[i] = order[j]
      BY <3>1, <3>2, <3>3, FS_PigeonHole
    <3> QED BY <1>2, <3>4
  <2> QED BY <2>1, <2>2
<1> QED BY <1>3, <1>4, <1>5

ConnectionStages == {"new", "registered", "open", "gone"}
LeftTyped == left \in [Frames -> Seq(Subscribers)] /\ \A f \in Frames : IsInjective(left[f])
BuffersTyped ==
  /\ taskLogs \in [Tasks -> Seq(Frames)] /\ \A t \in Tasks : Len(taskLogs[t]) <= MaxLogPer
  /\ taskLogAt \in Seq(Tasks) /\ IsInjective(taskLogAt) /\ Len(taskLogAt) <= MaxTaskLogs
  /\ \A t \in Tasks : taskLogs[t] # <<>> <=> t \in ToSet(taskLogAt)
QueuesTyped ==
  /\ replay \in [Subscribers -> Seq(Frames)] /\ \A s \in Subscribers : Len(replay[s]) <= MaxLogPer
  /\ send \in [Subscribers -> Seq(Frames)] /\ \A s \in Subscribers : Len(send[s]) <= QueueSize
  /\ got \in [Subscribers -> SUBSET Frames] /\ lost \in [Subscribers -> SUBSET Frames]

\* A frame that is kept, and a browser that watches its task: the frame was sent, is
\* in the queue, was lost to the full queue, or is on its way there: it is still to
\* be offered, or its browser is still to be given what was kept before it came.
OnTheWay(f, s) ==
  \/ Reached(f, s) \/ emission[f] = "kept" \/ s \in ToSet(left[f]) \/ f \in ToSet(replay[s])
Due(f, s) ==
  /\ Watches[s] = TaskOf[f] /\ emission[f] # "new" /\ stage[s] = "open"
  /\ f \in ToSet(taskLogs[TaskOf[f]])
NoFrameMissed == \A f \in Frames, s \in Subscribers : Due(f, s) => OnTheWay(f, s)

LiveInv ==
  /\ LiveLogAssumption
  /\ emission \in [Frames -> {"new", "kept", "offered"}] /\ stage \in [Subscribers -> ConnectionStages]
  /\ IsFiniteSet(Registered)
  /\ LeftTyped /\ BuffersTyped /\ QueuesTyped /\ NoFrameMissed

LEMMA LiveStart == LiveLogAssumption /\ LiveLogInit => LiveInv
<1> SUFFICES ASSUME LiveLogAssumption, LiveLogInit PROVE LiveInv
  OBVIOUS
<1>1. \A S : <<>> \in Seq(S) /\ Len(<<>>) = 0 /\ IsInjective(<<>>) /\ ToSet(<<>>) = {}
  BY EmptySeq DEF IsInjective, ToSet
<1>2. LeftTyped /\ QueuesTyped
  BY <1>1 DEF LiveLogInit, LiveLogAssumption, LeftTyped, QueuesTyped
<1>3. BuffersTyped
  BY <1>1 DEF LiveLogInit, LiveLogAssumption, BuffersTyped
<1>4. Registered = {}
  BY DEF LiveLogInit, Registered
<1>5. NoFrameMissed
  BY DEF LiveLogInit, NoFrameMissed, Due
<1> QED BY <1>2, <1>3, <1>4, <1>5, FS_EmptySet DEF LiveLogInit, LiveInv, ConnectionStages

\* The first half of Broadcast.
LEMMA KeepStep ==
  ASSUME LiveInv, NEW f \in Frames, Keep(f)
  PROVE  BuffersTyped' /\ NoFrameMissed'
<1> DEFINE t == TaskOf[f]
           old == RemoveFirst(taskLogAt, t)
           all == Append(old, t)
           frames == Newest(Append(taskLogs[t], f), MaxLogPer)
<1>1. t \in Tasks /\ MaxLogPer \in Nat \ {0} /\ MaxTaskLogs \in Nat \ {0}
  BY DEF LiveInv, LiveLogAssumption
<1>2. PICK order \in Remaining(all) :
        /\ taskLogAt' = order
        /\ taskLogs' = [u \in Tasks |-> IF u \in ToSet(order) THEN [taskLogs EXCEPT ![t] = frames][u] ELSE <<>>]
  BY DEF Keep
<1>3. /\ emission' = [emission EXCEPT ![f] = "kept"] /\ emission[f] = "new"
      /\ UNCHANGED <<left, stage, replay, send, got, lost>>
  BY DEF Keep, subVars
<1>4. old \in Seq(Tasks) /\ IsInjective(old) /\ ToSet(old) = ToSet(taskLogAt) \ {t}
  BY TaskLeaves DEF LiveInv, BuffersTyped
<1> HIDE DEF old
<1>5. /\ all \in Seq(Tasks) /\ IsInjective(all) /\ ToSet(all) = ToSet(taskLogAt) \cup {t}
      /\ all[Len(all)] = t /\ Len(all) > 0
  <2>1. /\ all \in Seq(Tasks) /\ Len(all) = Len(old) + 1 /\ all[Len(old) + 1] = t
        /\ ToSet(all) = ToSet(old) \cup {t} /\ IsInjective(all)
    BY <1>1, <1>4, AppendFacts
  <2>2. Len(old) \in Nat
    BY <1>4, LenProperties
  <2> QED BY <1>4, <2>1, <2>2
<1> HIDE DEF all
<1>6. order \in Seq(Tasks) /\ PartOf(order, all) /\ Len(order) <= MaxTaskLogs
  BY <1>1, <1>5, RemainingPart
<1>7. IsInjective(order) /\ ToSet(order) \subseteq ToSet(taskLogAt) \cup {t} /\ t \in ToSet(order)
  <2>1. Len(order) \in Nat /\ DOMAIN order = 1 .. Len(order) /\ Len(order) > 0 /\ order[Len(order)] = t
    BY <1>5, <1>6, LenProperties DEF PartOf
  <2>2. t \in ToSet(order)
    BY <2>1 DEF ToSet
  <2> QED BY <1>5, <1>6, <2>2 DEF PartOf
<1>8. taskLogs \in [Tasks -> Seq(Frames)] /\ taskLogs[t] \in Seq(Frames)
  BY <1>1 DEF LiveInv, BuffersTyped
<1>9. /\ frames \in Seq(Frames) /\ Len(frames) <= MaxLogPer /\ frames # <<>>
      /\ ToSet(frames) \subseteq ToSet(taskLogs[t]) \cup {f}
  <2>1. PICK q : q = Append(taskLogs[t], f)
    OBVIOUS
  <2>2. q \in Seq(Frames) /\ Len(q) = Len(taskLogs[t]) + 1 /\ ToSet(q) = ToSet(taskLogs[t]) \cup {f}
    BY <1>8, <2>1, AppendFacts
  <2>3. Newest(q, MaxLogPer) \in Seq(Frames) /\ PartOf(Newest(q, MaxLogPer), q) /\ Len(Newest(q, MaxLogPer)) <= MaxLogPer
    BY <1>1, <2>2, NewestPart
  <2>4. Len(taskLogs[t]) \in Nat
    BY <1>8, LenProperties
  <2>5. Len(frames) > 0
    BY <2>1, <2>2, <2>3, <2>4 DEF PartOf
  <2>6. frames # <<>>
    BY <2>5, EmptySeq
  <2> QED BY <2>1, <2>2, <2>3, <2>6 DEF PartOf
<1> HIDE DEF frames, t
<1>10. \A u \in Tasks : taskLogs'[u] = IF u \in ToSet(order) THEN IF u = t THEN frames ELSE taskLogs[u] ELSE <<>>
  BY <1>2, <1>8
<1>11. taskLogs' \in [Tasks -> Seq(Frames)]
  <2>1. \A u \in Tasks : taskLogs'[u] \in Seq(Frames)
    BY <1>8, <1>9, <1>10, EmptySeq
  <2> QED BY <1>2, <2>1
<1>12. \A u \in Tasks : Len(taskLogs'[u]) <= MaxLogPer
  <2>1. Len(<<>>) <= MaxLogPer
    BY <1>1, EmptySeq
  <2>2. \A u \in Tasks : Len(taskLogs[u]) <= MaxLogPer
    BY DEF LiveInv, BuffersTyped
  <2> QED BY <1>9, <1>10, <2>1, <2>2
<1>13. \A u \in Tasks : taskLogs'[u] # <<>> <=> u \in ToSet(taskLogAt')
  BY <1>2, <1>7, <1>9, <1>10 DEF LiveInv, BuffersTyped
<1>14. BuffersTyped'
  BY <1>2, <1>6, <1>7, <1>11, <1>12, <1>13 DEF BuffersTyped
<1>15. NoFrameMissed'
  <2> SUFFICES ASSUME NEW g \in Frames, NEW s \in Subscribers, Due(g, s)' PROVE OnTheWay(g, s)'
    BY DEF NoFrameMissed
  <2>1. CASE g = f
    BY <1>3, <2>1 DEF OnTheWay, LiveInv
  <2>2. CASE g # f
    <3>1. emission'[g] = emission[g] /\ TaskOf[g] \in Tasks
      BY <1>3, <2>2 DEF LiveInv, LiveLogAssumption
    <3>2. g \in ToSet(taskLogs[TaskOf[g]])
      <4>1. g \in ToSet(taskLogs'[TaskOf[g]])
        BY DEF Due
      <4>2. ToSet(<<>>) = {}
        BY DEF ToSet
      <4> QED BY <1>9, <1>10, <2>2, <3>1, <4>1, <4>2
    <3>3. Due(g, s)
      BY <1>3, <3>1, <3>2 DEF Due
    <3>4. OnTheWay(g, s)
      BY <3>3 DEF LiveInv, NoFrameMissed
    <3> QED BY <1>3, <3>1, <3>4 DEF OnTheWay, Reached
  <2> QED BY <2>1, <2>2
<1> QED BY <1>14, <1>15

\* The second half begins.
LEMMA OfferStep ==
  ASSUME LiveInv, NEW f \in Frames, Offer(f)
  PROVE  LeftTyped' /\ NoFrameMissed'
<1> DEFINE W == {s \in Registered : Watches[s] \in {TaskOf[f], Everything}}
<1>1. PICK order \in SetToSeqs(W) : left' = [left EXCEPT ![f] = order]
  BY DEF Offer
<1>2. /\ emission' = [emission EXCEPT ![f] = "offered"] /\ emission[f] = "kept"
      /\ UNCHANGED <<taskLogs, stage, replay, send, got, lost>>
      /\ left \in [Frames -> Seq(Subscribers)]
  BY DEF Offer, subVars, LiveInv, LeftTyped
<1>3. order \in Seq(Subscribers) /\ IsInjective(order) /\ ToSet(order) = W
  <2>1. IsFiniteSet(W)
    BY FS_Subset DEF LiveInv
  <2>2. order \in Seq(W) /\ IsInjective(order) /\ ToSet(order) = W
    BY <2>1, InAnyOrder
  <2>3. W \subseteq Subscribers
    BY DEF Registered
  <2> QED BY <2>2, <2>3, SeqMonotonic
<1>4. LeftTyped'
  BY <1>1, <1>2, <1>3 DEF LiveInv, LeftTyped
<1>5. NoFrameMissed'
  <2> SUFFICES ASSUME NEW g \in Frames, NEW s \in Subscribers, Due(g, s)' PROVE OnTheWay(g, s)'
    BY DEF NoFrameMissed
  <2>1. CASE g = f
    <3>1. s \in W
      BY <1>2, <2>1 DEF Due, Registered
    <3>2. left'[f] = order
      BY <1>1, <1>2
    <3> QED BY <1>3, <2>1, <3>1, <3>2 DEF OnTheWay
  <2>2. CASE g # f
    <3>1. emission'[g] = emission[g] /\ left'[g] = left[g]
      BY <1>1, <1>2, <2>2 DEF LiveInv
    <3>2. Due(g, s)
      BY <1>2, <3>1 DEF Due
    <3>3. OnTheWay(g, s)
      BY <3>2 DEF LiveInv, NoFrameMissed
    <3> QED BY <1>2, <3>1, <3>3 DEF OnTheWay, Reached
  <2> QED BY <2>1, <2>2
<1> QED BY <1>4, <1>5

\* A frame is offered to a subscriber: it is in its queue then, lost to it, or the
\* subscriber has gone.
LEMMA SendStep ==
  ASSUME LiveInv, NEW s \in Subscribers, NEW f \in Frames, Send(s, f)
  PROVE  /\ send' \in [Subscribers -> Seq(Frames)] /\ \A b \in Subscribers : Len(send'[b]) <= QueueSize
         /\ lost' \in [Subscribers -> SUBSET Frames]
         /\ \A b \in Subscribers : ToSet(send[b]) \cup lost[b] \subseteq ToSet(send'[b]) \cup lost'[b]
         /\ stage[s] # "gone" => f \in ToSet(send'[s]) \cup lost'[s]
<1>1. /\ send \in [Subscribers -> Seq(Frames)] /\ lost \in [Subscribers -> SUBSET Frames]
      /\ \A b \in Subscribers : Len(send[b]) <= QueueSize
      /\ QueueSize \in Nat
  BY DEF LiveInv, QueuesTyped, LiveLogAssumption
<1>2. CASE UNCHANGED <<send, lost>> /\ stage[s] = "gone"
  BY <1>1, <1>2
<1>3. CASE Len(send[s]) < QueueSize /\ send' = [send EXCEPT ![s] = Append(@, f)] /\ UNCHANGED lost
  <2>1. PICK q : q = Append(send[s], f)
    OBVIOUS
  <2>2. q \in Seq(Frames) /\ Len(q) = Len(send[s]) + 1 /\ ToSet(q) = ToSet(send[s]) \cup {f}
    BY <1>1, <2>1, AppendFacts
  <2>3. send' = [send EXCEPT ![s] = q] /\ Len(send[s]) \in Nat
    BY <1>1, <1>3, <2>1, LenProperties
  <2>4. Len(q) <= QueueSize
    BY <1>1, <1>3, <2>2, <2>3
  <2> QED BY <1>1, <1>3, <2>2, <2>3, <2>4
<1>4. CASE lost' = [lost EXCEPT ![s] = @ \cup {f}] /\ UNCHANGED send
  BY <1>1, <1>4
<1> QED BY <1>2, <1>3, <1>4 DEF Send

LEMMA OfferNextStep ==
  ASSUME LiveInv, NEW f \in Frames, OfferNext(f)
  PROVE  LeftTyped' /\ QueuesTyped' /\ NoFrameMissed'
<1>1. /\ left \in [Frames -> Seq(Subscribers)] /\ left[f] # <<>> /\ left[f] \in Seq(Subscribers) /\ IsInjective(left[f])
      /\ UNCHANGED <<emission, taskLogs, taskLogAt, stage, replay, got>>
  BY DEF LiveInv, LeftTyped, OfferNext
<1>2. PICK q : q = Tail(left[f])
  OBVIOUS
<1>3. PICK s : s = Head(left[f])
  OBVIOUS
<1>4. q \in Seq(Subscribers) /\ s \in Subscribers /\ ToSet(left[f]) = ToSet(q) \cup {s} /\ IsInjective(q)
  BY <1>1, <1>2, <1>3, TailFacts
<1>5. left' = [left EXCEPT ![f] = q] /\ Send(s, f)
  BY <1>2, <1>3 DEF OfferNext
<1>6. LeftTyped'
  BY <1>1, <1>4, <1>5 DEF LiveInv, LeftTyped
<1>7. /\ send' \in [Subscribers -> Seq(Frames)] /\ \A b \in Subscribers : Len(send'[b]) <= QueueSize
      /\ lost' \in [Subscribers -> SUBSET Frames]
      /\ \A b \in Subscribers : ToSet(send[b]) \cup lost[b] \subseteq ToSet(send'[b]) \cup lost'[b]
      /\ stage[s] # "gone" => f \in ToSet(send'[s]) \cup lost'[s]
  BY <1>4, <1>5, SendStep
<1>8. QueuesTyped'
  BY <1>1, <1>7 DEF LiveInv, QueuesTyped
<1>9. NoFrameMissed'
  <2> SUFFICES ASSUME NEW g \in Frames, NEW b \in Subscribers, Due(g, b)' PROVE OnTheWay(g, b)'
    BY DEF NoFrameMissed
  <2>1. Due(g, b) /\ stage[b] = "open"
    BY <1>1 DEF Due
  <2>2. OnTheWay(g, b)
    BY <2>1 DEF LiveInv, NoFrameMissed
  <2>3. CASE Reached(g, b)
    BY <1>1, <1>7, <2>3 DEF OnTheWay, Reached
  <2>4. CASE b \in ToSet(left[g])
    <3>1. CASE g = f /\ b = s
      BY <1>7, <2>1, <3>1 DEF OnTheWay, Reached
    <3>2. CASE ~(g = f /\ b = s)
      <4>1. b \in ToSet(left'[g])
        BY <1>1, <1>4, <1>5, <2>4, <3>2
      <4> QED BY <4>1 DEF OnTheWay
    <3> QED BY <3>1, <3>2
  <2> QED BY <1>1, <2>2, <2>3, <2>4 DEF OnTheWay
<1> QED BY <1>6, <1>8, <1>9

LEMMA ReplayStep ==
  ASSUME LiveInv, NEW s \in Subscribers, ReplayNext(s)
  PROVE  QueuesTyped' /\ NoFrameMissed'
<1>1. /\ replay \in [Subscribers -> Seq(Frames)] /\ replay[s] # <<>> /\ replay[s] \in Seq(Frames)
      /\ Len(replay[s]) <= MaxLogPer /\ MaxLogPer \in Nat
      /\ UNCHANGED <<emission, left, taskLogs, taskLogAt, stage, got>>
  BY DEF LiveInv, QueuesTyped, ReplayNext, LiveLogAssumption
<1>2. PICK q : q = Tail(replay[s])
  OBVIOUS
<1>3. PICK f : f = Head(replay[s])
  OBVIOUS
<1>4. q \in Seq(Frames) /\ f \in Frames /\ ToSet(replay[s]) = ToSet(q) \cup {f} /\ Len(q) <= MaxLogPer
  <2>1. q \in Seq(Frames) /\ f \in Frames /\ ToSet(replay[s]) = ToSet(q) \cup {f} /\ Len(q) = Len(replay[s]) - 1
    BY <1>1, <1>2, <1>3, TailFacts
  <2>2. Len(replay[s]) \in Nat
    BY <1>1, LenProperties
  <2> QED BY <1>1, <2>1, <2>2
<1>5. replay' = [replay EXCEPT ![s] = q] /\ Send(s, f)
  BY <1>2, <1>3 DEF ReplayNext
<1>6. /\ send' \in [Subscribers -> Seq(Frames)] /\ \A b \in Subscribers : Len(send'[b]) <= QueueSize
      /\ lost' \in [Subscribers -> SUBSET Frames]
      /\ \A b \in Subscribers : ToSet(send[b]) \cup lost[b] \subseteq ToSet(send'[b]) \cup lost'[b]
      /\ stage[s] # "gone" => f \in ToSet(send'[s]) \cup lost'[s]
  BY <1>4, <1>5, SendStep
<1>7. QueuesTyped'
  BY <1>1, <1>4, <1>5, <1>6 DEF LiveInv, QueuesTyped
<1>8. NoFrameMissed'
  <2> SUFFICES ASSUME NEW g \in Frames, NEW b \in Subscribers, Due(g, b)' PROVE OnTheWay(g, b)'
    BY DEF NoFrameMissed
  <2>1. Due(g, b) /\ stage[b] = "open"
    BY <1>1 DEF Due
  <2>2. OnTheWay(g, b)
    BY <2>1 DEF LiveInv, NoFrameMissed
  <2>3. CASE Reached(g, b)
    BY <1>1, <1>6, <2>3 DEF OnTheWay, Reached
  <2>4. CASE g \in ToSet(replay[b])
    <3>1. CASE g = f /\ b = s
      BY <1>6, <2>1, <3>1 DEF OnTheWay, Reached
    <3>2. CASE ~(g = f /\ b = s)
      <4>1. g \in ToSet(replay'[b])
        BY <1>1, <1>4, <1>5, <2>4, <3>2
      <4> QED BY <4>1 DEF OnTheWay
    <3> QED BY <3>1, <3>2
  <2> QED BY <1>1, <2>2, <2>3, <2>4 DEF OnTheWay
<1> QED BY <1>7, <1>8

LEMMA CopyStep ==
  ASSUME LiveInv, NEW s \in Subscribers, CopyHistory(s)
  PROVE  QueuesTyped' /\ NoFrameMissed'
<1>1. /\ replay' = [replay EXCEPT ![s] = IF Watches[s] = Everything THEN <<>> ELSE taskLogs[Watches[s]]]
      /\ stage' = [stage EXCEPT ![s] = "open"] /\ stage \in [Subscribers -> ConnectionStages]
      /\ UNCHANGED <<emission, left, taskLogs, taskLogAt, send, got, lost>>
  BY DEF CopyHistory, LiveInv
<1>2. replay \in [Subscribers -> Seq(Frames)] /\ \A b \in Subscribers : Len(replay[b]) <= MaxLogPer
  BY DEF LiveInv, QueuesTyped
<1>3. PICK q \in Seq(Frames) : /\ replay' = [replay EXCEPT ![s] = q] /\ Len(q) <= MaxLogPer
                               /\ Watches[s] \in Tasks => q = taskLogs[Watches[s]]
  <2>1. Watches[s] \in Tasks \cup {Everything} /\ Everything \notin Tasks /\ MaxLogPer \in Nat
    BY DEF LiveInv, LiveLogAssumption
  <2>2. CASE Watches[s] = Everything
    <3>1. <<>> \in Seq(Frames) /\ Len(<<>>) <= MaxLogPer
      BY <2>1, EmptySeq DEF LiveInv, LiveLogAssumption
    <3>2. replay' = [replay EXCEPT ![s] = <<>>] /\ Watches[s] \notin Tasks
      BY <1>1, <2>1, <2>2
    <3> QED BY <3>1, <3>2
  <2>3. CASE Watches[s] \in Tasks
    BY <1>1, <2>1, <2>3 DEF LiveInv, BuffersTyped
  <2> QED BY <2>1, <2>2, <2>3
<1>4. QueuesTyped'
  BY <1>1, <1>2, <1>3 DEF LiveInv, QueuesTyped
<1>5. NoFrameMissed'
  <2> SUFFICES ASSUME NEW g \in Frames, NEW b \in Subscribers, Due(g, b)' PROVE OnTheWay(g, b)'
    BY DEF NoFrameMissed
  <2>1. CASE b = s
    <3>1. Watches[s] \in Tasks /\ g \in ToSet(taskLogs[Watches[s]])
      BY <1>1, <2>1 DEF Due, LiveInv, LiveLogAssumption
    <3>2. replay'[s] = taskLogs[Watches[s]]
      BY <1>2, <1>3, <3>1
    <3> QED BY <2>1, <3>1, <3>2 DEF OnTheWay
  <2>2. CASE b # s
    <3>1. Due(g, b) /\ replay'[b] = replay[b]
      BY <1>1, <1>2, <1>3, <2>2 DEF Due
    <3>2. OnTheWay(g, b)
      BY <3>1 DEF LiveInv, NoFrameMissed
    <3> QED BY <1>1, <3>1, <3>2 DEF OnTheWay, Reached
  <2> QED BY <2>1, <2>2
<1> QED BY <1>4, <1>5

LEMMA DeliverStep ==
  ASSUME LiveInv, NEW s \in Subscribers, Deliver(s)
  PROVE  QueuesTyped' /\ NoFrameMissed'
<1>1. /\ send \in [Subscribers -> Seq(Frames)] /\ send[s] # <<>> /\ send[s] \in Seq(Frames) /\ Len(send[s]) <= QueueSize
      /\ got \in [Subscribers -> SUBSET Frames] /\ QueueSize \in Nat
      /\ UNCHANGED <<emission, left, taskLogs, taskLogAt, stage, replay, lost>>
  BY DEF LiveInv, QueuesTyped, Deliver, LiveLogAssumption
<1>2. PICK q : q = Tail(send[s])
  OBVIOUS
<1>3. PICK f : f = Head(send[s])
  OBVIOUS
<1>4. q \in Seq(Frames) /\ f \in Frames /\ ToSet(send[s]) = ToSet(q) \cup {f} /\ Len(q) <= QueueSize
  <2>1. q \in Seq(Frames) /\ f \in Frames /\ ToSet(send[s]) = ToSet(q) \cup {f} /\ Len(q) = Len(send[s]) - 1
    BY <1>1, <1>2, <1>3, TailFacts
  <2>2. Len(send[s]) \in Nat
    BY <1>1, LenProperties
  <2> QED BY <1>1, <2>1, <2>2
<1>5. send' = [send EXCEPT ![s] = q] /\ got' = [got EXCEPT ![s] = @ \cup {f}]
  BY <1>2, <1>3 DEF Deliver
<1>6. QueuesTyped'
  BY <1>1, <1>4, <1>5 DEF LiveInv, QueuesTyped
<1>7. \A b \in Subscribers : got[b] \cup ToSet(send[b]) \subseteq got'[b] \cup ToSet(send'[b])
  BY <1>1, <1>4, <1>5
<1>8. NoFrameMissed'
  BY <1>1, <1>7 DEF LiveInv, NoFrameMissed, Due, OnTheWay, Reached
<1> QED BY <1>6, <1>8

\* A connection comes, and goes.
LEMMA ConnectionStep ==
  ASSUME LiveInv, NEW s \in Subscribers, Register(s) \/ Unsubscribe(s)
  PROVE  IsFiniteSet(Registered') /\ NoFrameMissed'
<1>1. /\ stage \in [Subscribers -> ConnectionStages] /\ IsFiniteSet(Registered)
      /\ UNCHANGED <<emission, left, taskLogs, taskLogAt, replay, send, got, lost>>
  BY DEF LiveInv, Register, Unsubscribe
<1>2. PICK to \in {"registered", "gone"} : stage' = [stage EXCEPT ![s] = to]
  BY DEF Register, Unsubscribe
<1>3. Registered' \subseteq Registered \cup {s}
  BY <1>1, <1>2 DEF Registered
<1>4. IsFiniteSet(Registered')
  <2>1. IsFiniteSet(Registered \cup {s})
    BY <1>1, FS_AddElement
  <2> QED BY <1>3, <2>1, FS_Subset
<1>5. NoFrameMissed'
  BY <1>1, <1>2 DEF LiveInv, NoFrameMissed, Due, OnTheWay, Reached
<1> QED BY <1>4, <1>5

LEMMA LiveStep == LiveInv /\ [LiveLogNext]_liveVars => LiveInv'
<1> SUFFICES ASSUME LiveInv, [LiveLogNext]_liveVars PROVE LiveInv'
  OBVIOUS
<1> DEFINE Parts == LeftTyped' /\ BuffersTyped' /\ QueuesTyped' /\ NoFrameMissed' /\ IsFiniteSet(Registered')
<1>1. LiveLogAssumption'
  BY DEF LiveInv, LiveLogAssumption
<1>2. emission' \in [Frames -> {"new", "kept", "offered"}] /\ stage' \in [Subscribers -> ConnectionStages]
  BY DEF LiveInv, LiveLogNext, Keep, Offer, OfferNext, Register, CopyHistory, ReplayNext, Deliver, Unsubscribe, liveVars, subVars, ConnectionStages
<1>3. UNCHANGED left => LeftTyped'
  BY DEF LiveInv, LeftTyped
<1>4. UNCHANGED <<taskLogs, taskLogAt>> => BuffersTyped'
  BY DEF LiveInv, BuffersTyped
<1>5. UNCHANGED <<replay, send, got, lost>> => QueuesTyped'
  BY DEF LiveInv, QueuesTyped
<1>6. UNCHANGED stage => IsFiniteSet(Registered')
  BY DEF LiveInv, Registered
<1>7. CASE UNCHANGED liveVars
  <2>1. NoFrameMissed'
    BY <1>7 DEF LiveInv, NoFrameMissed, Due, OnTheWay, Reached, liveVars, subVars
  <2>2. Parts
    BY <1>3, <1>4, <1>5, <1>6, <1>7, <2>1 DEF liveVars, subVars
  <2> QED BY <1>1, <1>2, <2>2 DEF LiveInv
<1>8. ASSUME NEW f \in Frames, Keep(f) PROVE Parts
  BY <1>3, <1>5, <1>6, <1>8, KeepStep DEF Keep, subVars
<1>9. ASSUME NEW f \in Frames, Offer(f) PROVE Parts
  BY <1>4, <1>5, <1>6, <1>9, OfferStep DEF Offer, subVars
<1>10. ASSUME NEW f \in Frames, OfferNext(f) PROVE Parts
  BY <1>4, <1>6, <1>10, OfferNextStep DEF OfferNext
<1>11. ASSUME NEW s \in Subscribers, CopyHistory(s) PROVE Parts
  <2>1. Registered' = Registered
    BY <1>11 DEF CopyHistory, Registered, LiveInv, ConnectionStages
  <2> QED BY <1>3, <1>4, <1>11, <2>1, CopyStep DEF CopyHistory, LiveInv
<1>12. ASSUME NEW s \in Subscribers, ReplayNext(s) PROVE Parts
  BY <1>3, <1>4, <1>6, <1>12, ReplayStep DEF ReplayNext
<1>13. ASSUME NEW s \in Subscribers, Deliver(s) PROVE Parts
  BY <1>3, <1>4, <1>6, <1>13, DeliverStep DEF Deliver
<1>14. ASSUME NEW s \in Subscribers, Register(s) \/ Unsubscribe(s) PROVE Parts
  BY <1>3, <1>4, <1>5, <1>14, ConnectionStep DEF Register, Unsubscribe
<1>15. CASE LiveLogNext
  <2>1. Parts
    BY <1>8, <1>9, <1>10, <1>11, <1>12, <1>13, <1>14, <1>15 DEF LiveLogNext
  <2> QED BY <1>1, <1>2, <2>1 DEF LiveInv
<1> QED BY <1>7, <1>15

LEMMA LiveAlways == LiveLogAssumption /\ LiveLogSpec => []LiveInv
BY LiveStart, LiveStep, PTL DEF LiveLogSpec

\* However Broadcast, Subscribe and the goroutine that replays interleave, none of
\* which holds a lock over its two steps, no browser misses a frame of its task that
\* is still kept: the frame was sent, is in the queue, was lost to the full queue of
\* this browser alone, or somebody is still to bring it (service/sse/server.go).
THEOREM FramesOnTheWay == LiveLogAssumption /\ LiveLogSpec => []NoFrameMissed
<1>1. LiveInv => NoFrameMissed
  BY DEF LiveInv
<1> QED BY <1>1, LiveAlways, PTL

\* The memory of the live log is bounded, for any frames, tasks and browsers: the
\* frames kept of a task, the tasks whose frames are kept, the queues; and a task has
\* a buffer just when it has a time of its last frame (gcTaskLogsLocked).
THEOREM LiveLogBounded == LiveLogAssumption /\ LiveLogSpec => []LiveLogTypeOK
<1>1. ASSUME LiveInv PROVE LiveLogTypeOK
  <2>1. \A f \in Frames : ToSet(left[f]) \subseteq Subscribers
    BY <1>1, LenProperties DEF LiveInv, LeftTyped, ToSet
  <2>2. ToSet(taskLogAt) \subseteq Tasks
    BY <1>1, LenProperties DEF LiveInv, BuffersTyped, ToSet
  <2> QED BY <1>1, <2>1, <2>2 DEF LiveInv, LeftTyped, BuffersTyped, QueuesTyped, LiveLogTypeOK, ConnectionStages
<1> QED BY <1>1, LiveAlways, PTL
=============================================================================
