------------------------------ MODULE Accounts ------------------------------
(* The accounts (store/account.go, handler/account.go, account_cascade.go)   *)
(* and the settings that name them (store/settings.go).  Accounts are kept   *)
(* in memory and written to account.json by each request and every half      *)
(* minute.  Requests run side by side; each call of the store is atomic.     *)
(* Of an account's data only its identity is kept: a write that changes its  *)
(* cookie or what is known of it marks the file as changed, and no more.     *)
(* The tasks an account's rename changes are in TaskScheduler; the rows of   *)
(* its index and the restart of its monitor, which come last, are left out.  *)
EXTENDS Integers, FiniteSets

CONSTANTS Names, First, \* names of accounts; the one account.json holds at the start
          Requests,     \* bound: requests handled at a time
          MaxRequests, MaxFaults \* bounds: requests; failed writes and crashes
None == "none"
AccountsAssumption ==
  /\ None \notin Names /\ First \in Names
  /\ {MaxRequests, MaxFaults} \subseteq Nat

VARIABLES
  accounts, disk, \* the accounts by name, in memory and in account.json
  dirty,          \* whether the memory has changed since it was written
  made,           \* accounts created so far; each bears its number
  reqs,           \* requests under way: next step, names, account as it was read
  monitored,      \* names in the settings: monitored accounts and path mappings
  broken,         \* names whose references nobody is to change any more
  begun, faults
accountVars == <<accounts, disk, dirty, made, reqs, monitored, broken, begun, faults>>

NoAccount == 0
Account == 1 .. MaxRequests + 1
NoRequest == [at |-> "idle", from |-> None, to |-> None, acc |-> NoAccount]
RequestStages == {"idle", "create", "update", "remove", "insert", "login", "delete", "status", "flush", "settings"}
AccountsTypeOK ==
  /\ accounts \in [Names -> Account \cup {NoAccount}] /\ disk \in [Names -> Account \cup {NoAccount}]
  /\ dirty \in BOOLEAN /\ made \in 1 .. MaxRequests + 1
  /\ reqs \in [Requests -> [at : RequestStages, from : Names \cup {None}, to : Names \cup {None},
                            acc : Account \cup {NoAccount}]]
  /\ monitored \cup broken \subseteq Names
  /\ begun \in 0 .. MaxRequests /\ faults \in 0 .. MaxFaults

Has(n) == accounts[n] # NoAccount
AccountsInit ==
  /\ accounts = [n \in Names |-> IF n = First THEN 1 ELSE NoAccount]
  /\ disk = accounts /\ dirty = FALSE /\ made = 1
  /\ reqs = [r \in Requests |-> NoRequest]
  /\ monitored \in SUBSET {First} /\ broken = {} /\ begun = 0 /\ faults = 0

\* Every write of the store marks it.
Store(as) == accounts' = as /\ dirty' = TRUE
Put(n, acc) == Store([accounts EXCEPT ![n] = acc])
Begin(r) == reqs[r].at = "idle" /\ begun < MaxRequests /\ begun' = begun + 1
Reaches(r, at) == reqs[r].at = at
Goto(r, at) ==
  reqs' = [reqs EXCEPT ![r] = [at |-> at, from |-> @.from, to |-> @.to, acc |-> @.acc]]
End(r) == reqs' = [reqs EXCEPT ![r] = NoRequest]
KeepRefs == UNCHANGED <<monitored, broken>>
KeepStore == UNCHANGED <<accounts, disk, dirty, made>>

-----------------------------------------------------------------------------
(* Handlers                                                                 *)

\* CreateAccount looks for the name and the cookie's user, then inserts.
\* The latter is one of the ways it may be refused.
CreateAccount(r, n) ==
  /\ Begin(r) /\ ~Has(n)
  /\ reqs' = [reqs EXCEPT ![r] = [at |-> "create", from |-> n, to |-> n, acc |-> NoAccount]]
  /\ KeepStore /\ KeepRefs /\ UNCHANGED faults
Insert(r) ==
  /\ Reaches(r, "create") /\ Goto(r, "status") /\ made' = made + 1
  /\ Put(reqs[r].to, made + 1)
  /\ broken' = broken \ {reqs[r].to}
  /\ UNCHANGED <<disk, monitored, begun, faults>>

\* UpdateAccount reads the account; a new name must be free.
UpdateAccount(r, n, m) ==
  /\ Begin(r) /\ Has(n) /\ (n # m => ~Has(m))
  /\ reqs' = [reqs EXCEPT ![r] = [at |-> IF n = m THEN "update" ELSE "remove",
                                  from |-> n, to |-> m, acc |-> accounts[n]]]
  /\ KeepStore /\ KeepRefs /\ UNCHANGED faults
Update(r) ==
  /\ Reaches(r, "update")
  /\ IF Has(reqs[r].from)
     THEN Goto(r, "status") /\ Put(reqs[r].from, accounts[reqs[r].from])
     ELSE End(r) /\ UNCHANGED <<accounts, dirty>>
  /\ KeepRefs /\ UNCHANGED <<disk, made, begun, faults>>
\* Mutant: that the old name is gone already does not end the rename.
RemoveAnyway(r) == Goto(r, "insert") /\ Put(reqs[r].from, NoAccount)
\* A rename takes the account away and inserts what it read under the new name.
RemoveRow(r) ==
  IF Has(reqs[r].from) THEN Goto(r, "insert") /\ Put(reqs[r].from, NoAccount)
  ELSE End(r) /\ UNCHANGED <<accounts, dirty>>
RenameRemove(r) ==
  /\ Reaches(r, "remove") /\ RemoveRow(r)
  /\ KeepRefs /\ UNCHANGED <<disk, made, begun, faults>>
RenameInsert(r) ==
  /\ Reaches(r, "insert") /\ Goto(r, "status") /\ Put(reqs[r].to, reqs[r].acc)
  /\ broken' = broken \ {reqs[r].to}
  /\ UNCHANGED <<disk, made, monitored, begun, faults>>

\* GetQrcodeCookieHandler: the user has signed in again at 115.
SignIn(r, n) ==
  /\ Begin(r) /\ Has(n)
  /\ reqs' = [reqs EXCEPT ![r] = [at |-> "login", from |-> n, to |-> n, acc |-> NoAccount]]
  /\ Put(n, accounts[n])
  /\ KeepRefs /\ UNCHANGED <<disk, made, faults>>

\* An account that is there no more has no status.
SetCookieStatus(n) == IF Has(n) THEN Put(n, accounts[n]) ELSE UNCHANGED <<accounts, dirty>>
WriteStatus(r) ==
  /\ reqs[r].at \in {"login", "status"} /\ Goto(r, "flush")
  /\ SetCookieStatus(reqs[r].to)
  /\ KeepRefs /\ UNCHANGED <<disk, made, begun, faults>>

\* DeleteAccount: what refers to the account stops the request, unless forced.
\* Tasks and rows, which are not here, count as well.
CollectAccountRefs(n) == IF n \in monitored THEN {TRUE} ELSE BOOLEAN
DeleteAccount(r, n, force) ==
  /\ Begin(r) /\ Has(n) /\ (force \/ FALSE \in CollectAccountRefs(n))
  /\ reqs' = [reqs EXCEPT ![r] = [at |-> "delete", from |-> n, to |-> n, acc |-> NoAccount]]
  /\ KeepStore /\ KeepRefs /\ UNCHANGED faults
Delete(r) ==
  LET n == reqs[r].from IN
  /\ Reaches(r, "delete")
  /\ IF Has(n) THEN Goto(r, "flush") /\ Put(n, NoAccount) /\ broken' = broken \cup {n}
     ELSE End(r) /\ UNCHANGED <<accounts, dirty, broken>>
  /\ UNCHANGED <<disk, made, monitored, begun, faults>>

-----------------------------------------------------------------------------
(* account.json                                                             *)

Flush(ok) == IF dirty /\ ok THEN disk' = accounts /\ dirty' = FALSE ELSE UNCHANGED <<disk, dirty>>
Fault(ok) == IF ok THEN UNCHANGED faults ELSE faults < MaxFaults /\ faults' = faults + 1
\* A failed write is only logged; the request goes on, a rename to what names it.
RequestFlush(r, ok) ==
  /\ Reaches(r, "flush") /\ Flush(ok) /\ Fault(ok)
  /\ IF reqs[r].from = reqs[r].to THEN End(r) ELSE Goto(r, "settings")
  /\ KeepRefs /\ UNCHANGED <<accounts, made, begun>>
BgFlush(ok) ==
  /\ dirty /\ Flush(ok) /\ Fault(ok)
  /\ KeepRefs /\ UNCHANGED <<accounts, made, reqs, begun>>
\* The process ends between any two steps: what was not written is lost.
ProcessEnds ==
  /\ Fault(FALSE)
  /\ accounts' = disk /\ dirty' = FALSE
  /\ reqs' = [r \in Requests |-> NoRequest]
  /\ broken' = broken \cup {n \in monitored : disk[n] = NoAccount}
  /\ UNCHANGED <<disk, made, monitored, begun>>

-----------------------------------------------------------------------------
(* What names an account                                                    *)

\* settings.json is written beside and moved over, so it is never half written.
SaveLocked(ns) == monitored' = ns
\* CascadeAccountRename, the settings, under their lock.  A failure is logged.
CascadeSettings(r, ok) ==
  LET q == reqs[r] IN
  /\ Reaches(r, "settings") /\ End(r) /\ Fault(ok)
  /\ IF ok /\ q.from \in monitored THEN SaveLocked((monitored \ {q.from}) \cup {q.to}) ELSE UNCHANGED monitored
  /\ broken' = broken \cup (IF ok THEN {} ELSE {q.from}) \cup (IF Has(q.to) THEN {} ELSE {q.to})
  /\ KeepStore /\ UNCHANGED begun
\* Mutant: the names of the settings are taken as they come.
Unchecked(ns) == TRUE
ValidateLifeMonitorAccounts(ns) == \A n \in ns : Has(n)
\* The settings are checked and saved under their lock.
UpdateSettings(ns) ==
  /\ ns # monitored /\ ValidateLifeMonitorAccounts(ns) /\ SaveLocked(ns)
  /\ KeepStore /\ UNCHANGED <<reqs, broken, begun, faults>>
\* The page of the monitor and that of all settings.
HandleLifeMonitorPOST(ns) == UpdateSettings(ns)
HandleSettingsPOST(ns) == UpdateSettings(ns)

\* A task, a playback, the monitor and the page of the accounts try a cookie
\* they read some time ago.  What comes of it is set by the name, whatever its
\* cookie is by then.
ProbeEnds(n) ==
  /\ Has(n) /\ SetCookieStatus(n)
  /\ KeepRefs /\ UNCHANGED <<disk, made, reqs, begun, faults>>

\* The inspection of all accounts passes over what does not settle it.
RunAccountInspection(n) ==
  /\ Has(n) /\ SetCookieStatus(n)
  /\ KeepRefs /\ UNCHANGED <<disk, made, reqs, begun, faults>>

AccountsNext ==
  \/ \E r \in Requests :
       \/ \E n \in Names :
            \/ CreateAccount(r, n) \/ SignIn(r, n)
            \/ \E m \in Names : UpdateAccount(r, n, m)
            \/ \E force \in BOOLEAN : DeleteAccount(r, n, force)
       \/ Insert(r) \/ Update(r) \/ RenameRemove(r) \/ RenameInsert(r) \/ WriteStatus(r) \/ Delete(r)
       \/ \E ok \in BOOLEAN : RequestFlush(r, ok) \/ CascadeSettings(r, ok)
  \/ \E ok \in BOOLEAN : BgFlush(ok)
  \/ ProcessEnds
  \/ \E n \in Names : RunAccountInspection(n) \/ ProbeEnds(n)
  \/ \E ns \in SUBSET Names : HandleLifeMonitorPOST(ns) \/ HandleSettingsPOST(ns)
AccountsSpec == AccountsInit /\ [][AccountsNext]_accountVars

-----------------------------------------------------------------------------
(* Properties                                                               *)

\* However renames, deletions and crashes interleave, an account has no more than
\* one name, in memory and in account.json (UpdateAccount's Delete and Upsert).  This is
\* said of the time before another account is made: one that takes the old name
\* is what a rename that was overtaken deletes, and goes on.
OneName ==
  made = 1 =>
    \A as \in {accounts, disk} : \A n, m \in Names : as[n] # NoAccount /\ as[n] = as[m] => n = m

\* The settings name no account that does not exist: a rename follows them, and
\* no page that was open meanwhile brings the old name back.  Left out are
\* names whose account was deleted, whose rename failed half way or was
\* overtaken by another one, or that a crash took (CascadeAccountRename).
MonitoredExist ==
  \A n \in monitored \ broken :
    Has(n) \/ \E r \in Requests : reqs[r].from = n /\ reqs[r].at \in {"insert", "status", "flush", "settings"}
=============================================================================
