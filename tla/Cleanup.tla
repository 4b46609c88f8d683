------------------------------ MODULE Cleanup ------------------------------
(* The removal of STRM files whose cloud file has gone: the scan and its    *)
(* ticket, the verdict on the number, the batches that wait for a second    *)
(* confirmation, and the loop that verifies a file, looks for its cloud     *)
(* file, moves it to the trash and marks its record; with the writers, the  *)
(* users and the restores that work on the same files meanwhile.            *)
EXTENDS CleanupPolicy, FiniteSets

CONSTANTS Paths,      \* STRM files of one directory, each for one cloud file
          Workers,    \* requests, callbacks and tasks that run at a time
          Tickets,    \* scans that a web client holds the id of
          Batches,    \* ids of batches that wait for a confirmation
          Settings,   \* the limits of the cleanup
          TTL,        \* ticks for which a listing of the cloud stays in the cache
          DbFails,    \* whether the DELETE of a batch's row may fail
          Busy,       \* the paths that users, the cloud, writers and the monitor touch
          MaxEvents   \* bound: what is begun, and what users, the cloud, time and crashes do
ASSUME CleanupAssumption ==
  /\ Settings \in CleanupSettings
  /\ TTL \in Nat
  /\ DbFails \in BOOLEAN
  /\ Busy \subseteq Paths
  /\ MaxEvents \in Nat
  /\ "none" \notin Paths \cup Tickets   \* no path and no ticket

VARIABLES
  local,     \* the file at a path: "none", "tool" (as the tool writes it), "user"
  trash,     \* the contents of a path's copies in the trash
  record,    \* the path's row of managed_strms
  unsaved,   \* a path written or restored whose row is still to be written
  cloud,     \* the path's cloud file: "here", "renamed" in its directory, "gone"
  cache,     \* the listing the shared CloudChecker keeps
  tickets,   \* the scans the server keeps
  batches,   \* the rows of cleanup_pending_batches
  work,      \* the workers
  away,      \* history: ticks since the cloud file was last gone
  executed,  \* history: times a ticket's files were removed without a batch
  told,      \* history: what the user was told of a batch
  returned,  \* history: paths that were restored from the trash
  events     \* number of bounded events so far

files == <<local, trash, record, unsaved>>
history == <<away, executed, told, returned>>
vars == <<files, cloud, cache, tickets, batches, work, history, events>>

None == "none"
Contents == {"tool", "user"}
Old == TTL + 1
Age == 0 .. Old

(* A record's print is the fingerprint of the content it was made for;      *)
(* where says whether the row has a cloud path.                             *)
Record == [state: {"none", "active", "deleted"}, print: Contents, where: BOOLEAN]
Ticket == [state: {"free", "open", "used", "gone"}, stale: SUBSET Paths]
Batch == [state: {"free", "queued", "gone"}, paths: SUBSET Paths, old: BOOLEAN]
Listing == [age: Age, gone: SUBSET Paths]
Work ==
  [pc: {"idle", "filter", "walk", "verify", "list", "keep", "move", "mark"},
   kind: {"delete", "delete_all", "task", "loop", "remove"},
   todo: SUBSET Paths,             \* paths that are left
   cur: Paths \cup {None},         \* the path at hand
   ticket: Tickets \cup {None},
   got: SUBSET Paths,              \* the listing this worker has just loaded
   age: 0 .. TTL]                  \* ticks since its loop began, counted up to TTL
IdleWork == [pc |-> "idle", kind |-> "loop", todo |-> {}, cur |-> None,
             ticket |-> None, got |-> {}, age |-> 0]
NoListing == [age |-> Old, gone |-> {}]
NoTrash == [p \in Paths |-> {}]

Init ==
  /\ local = [p \in Paths |-> "tool"]
  /\ trash = NoTrash
  /\ \E known \in {Paths, Paths \ Busy} :
       record = [p \in Paths |-> [state |-> IF p \in known THEN "active" ELSE "none",
                                  print |-> "tool", where |-> p \in known]]
  /\ unsaved = [p \in Paths |-> None]
  /\ cloud \in {c \in [Paths -> {"here", "gone"}] : \A p \in Paths \ Busy : c[p] = "gone"}
  /\ cache = NoListing
  /\ tickets = [t \in Tickets |-> [state |-> "free", stale |-> {}]]
  /\ batches = [b \in Batches |-> [state |-> "free", paths |-> {}, old |-> FALSE]]
  /\ work = [w \in Workers |-> IdleWork]
  /\ away = [p \in Paths |-> IF cloud[p] = "gone" THEN 0 ELSE Old]
  /\ executed = [t \in Tickets |-> 0]
  /\ told = [b \in Batches |-> {}]
  /\ returned = {}
  /\ events = 0

-----------------------------------------------------------------------------
(* What the steps have in common.                                           *)
Gone == {p \in Paths : cloud[p] = "gone"}
Missing == {p \in Paths : cloud[p] # "here"}
Active(p) == record[p].state = "active"

(* The file is there, and as its record has it; the size and the time of    *)
(* the file, which the code compares as well, only make this stricter.      *)
VerifyFile(p) == Active(p) /\ local[p] = record[p].print

CloudRef(p) == record[p].where

(* Marking a path that has no row updates nothing.                          *)
MarkDeleted(p) ==
  IF record[p].state = "none" THEN record
  ELSE [record EXCEPT ![p] = [state |-> "deleted", print |-> record[p].print,
                              where |-> record[p].where]]

(* A new row replaces the old one, but keeps its cloud path where it brings *)
(* none.                                                                    *)
Upsert(p, content, where) ==
  [record EXCEPT ![p] = [state |-> "active", print |-> content,
                         where |-> where \/ record[p].where]]

At(w, pc) == work[w].pc = pc
Become(w, fields) == work' = [work EXCEPT ![w] = fields]
Leave(w) == Become(w, IdleWork)
Starting(kind, pc, todo, ticket) ==
  [pc |-> pc, kind |-> kind, todo |-> todo, cur |-> None, ticket |-> ticket,
   got |-> {}, age |-> 0]

(* A request, a confirmed batch or a task enters its loop over the paths.   *)
EnterLoop(w, todo) == Become(w, Starting("loop", "verify", todo, None))

(* A step within the loop, and the one that goes on with the next path.     *)
Within(w, pc, todo, cur, got) ==
  Become(w, [pc |-> pc, kind |-> work[w].kind, todo |-> todo, cur |-> cur,
             ticket |-> work[w].ticket, got |-> got, age |-> work[w].age])
Goto(w, pc) == Within(w, pc, work[w].todo, work[w].cur, {})
NextPath(w) == Within(w, "verify", work[w].todo, None, {})

(* The trash drops what is older than seven days; all copies of the model   *)
(* are of one age.                                                          *)
PurgeTrash == trash' \in {trash, NoTrash}

Queue(b, paths) ==
  /\ batches[b].state = "free"
  /\ batches' = [batches EXCEPT ![b] = [state |-> "queued", paths |-> paths, old |-> FALSE]]

Event == events < MaxEvents /\ events' = events + 1

-----------------------------------------------------------------------------
(* A scan finds the files that have a row and whose cloud file is not at    *)
(* its path, or nothing where it fails.  The scan of the web keeps them     *)
(* under a ticket, the one of Telegram has them wait for a confirmation.    *)
(* The walk, the listing and the look at the rows are one step: whatever    *)
(* changes between them may change after the scan as well.                  *)
Stale == {p \in Missing : local[p] # None /\ Active(p)}

Scan(t) ==
  /\ Event
  /\ tickets[t].state = "free"
  /\ tickets' \in {[tickets EXCEPT ![t] = [state |-> "open", stale |-> found]] :
                     found \in {Stale, {}}}
  /\ UNCHANGED <<files, cloud, cache, batches, work, history>>

ScanForTelegram(b) ==
  /\ Event
  /\ Stale # {}
  /\ Queue(b, Stale)
  /\ UNCHANGED <<files, cloud, cache, tickets, work, history>>

(* A ticket lapses after half an hour, or gives way to newer ones.          *)
Lapse(t) ==
  /\ Event
  /\ tickets[t].state \in {"open", "used"}
  /\ tickets' = [tickets EXCEPT ![t] = [state |-> "gone", stale |-> {}]]
  /\ UNCHANGED <<files, cloud, cache, batches, work, history>>

-----------------------------------------------------------------------------
\* Mutant: a ticket that was used is taken again.
MarkUsedAgain(t) ==
  /\ tickets[t].state \in {"open", "used"}
  /\ tickets' = [tickets EXCEPT ![t] = [state |-> "used", stale |-> tickets[t].stale]]

(* A ticket is used once, although two requests may have looked it up.      *)
MarkUsed(t) ==
  /\ tickets[t].state = "open"
  /\ tickets' = [tickets EXCEPT ![t] = [state |-> "used", stale |-> tickets[t].stale]]

(* The removal of a scan's files: of those the user has picked, or of all,  *)
(* which alone counts the local files for the ratio.                        *)
Execute(w, t) ==
  /\ At(w, "idle")
  /\ Event
  /\ MarkUsed(t)
  /\ \E kind \in {"delete", "delete_all"}, picked \in SUBSET tickets[t].stale :
       /\ kind = "delete_all" => picked = tickets[t].stale
       /\ Become(w, Starting(kind, "filter", picked, t))
  /\ UNCHANGED <<files, cloud, cache, batches, history>>

(* A full synchronisation lists the cloud before its cleanup.               *)
StartTask(w) ==
  /\ At(w, "idle")
  /\ Event
  /\ Become(w, Starting("task", "walk", Missing, None))
  /\ UNCHANGED <<files, cloud, cache, tickets, batches, history>>

(* The web verifies the files again; a task walks the local files, verifies *)
(* each and keeps those in directories that were not listed or whose codes  *)
(* the database knows.                                                      *)
Candidates(w) ==
  LET verified == {p \in work[w].todo : VerifyFile(p)}
  IN  IF work[w].kind = "task" THEN SUBSET verified ELSE {verified}

AtVerdict(w) == At(w, "filter") \/ At(w, "walk")

Verdict(w, paths) ==
  EvaluateCleanup(Cardinality(paths),
                  IF work[w].kind = "delete" THEN 0
                  ELSE Cardinality({p \in Paths : local[p] # None}),
                  IF paths = {} THEN 0 ELSE 1,
                  Settings)

(* Whether a second confirmation is asked for is a setting, read anew by    *)
(* each request.                                                            *)
Allowed(w) ==
  /\ AtVerdict(w)
  /\ \E paths \in Candidates(w) :
       /\ Verdict(w, paths) # "protected"
       /\ EnterLoop(w, paths)
  /\ PurgeTrash
  /\ executed' = IF work[w].kind = "task" THEN executed
                 ELSE [executed EXCEPT ![work[w].ticket] = IF @ < 2 THEN @ + 1 ELSE 2]
  /\ UNCHANGED <<local, record, unsaved, cloud, cache, tickets, batches, away,
                 told, returned, events>>

(* Nothing is removed: a request gives its ticket back, unless it is gone.  *)
ReleaseUsed(w) ==
  tickets' = [t \in Tickets |->
                IF t = work[w].ticket /\ tickets[t].state # "gone"
                THEN [state |-> "open", stale |-> tickets[t].stale] ELSE tickets[t]]

Protected(w) ==
  /\ AtVerdict(w)
  /\ \E paths \in Candidates(w) : Verdict(w, paths) = "protected"
  /\ PurgeTrash
  /\ ReleaseUsed(w)
  /\ Leave(w)
  /\ UNCHANGED <<local, record, unsaved, cloud, cache, batches, history, events>>

(* The row of the batch may fail to be written.                             *)
Defer(w) ==
  /\ AtVerdict(w)
  /\ \E paths \in Candidates(w) :
       /\ Verdict(w, paths) = "confirm"
       /\ \/ \E b \in Batches : Queue(b, paths)
          \/ UNCHANGED batches
  /\ PurgeTrash
  /\ ReleaseUsed(w)
  /\ Leave(w)
  /\ UNCHANGED <<local, record, unsaved, cloud, cache, history, events>>

-----------------------------------------------------------------------------
(* Batches are confirmed or cancelled from the web or from Telegram; those  *)
(* older than a day are refused, and dropped when the list is shown.        *)
DropBatch(b) == batches' = [batches EXCEPT ![b] = [state |-> "gone", paths |-> {}, old |-> FALSE]]

\* Mutant: the row of a batch that is taken stays.
PopBatchKept(b) == batches[b].state = "queued" /\ UNCHANGED batches

(* The row is read, then deleted; the error of the DELETE is dropped.       *)
PopBatch(b) ==
  /\ batches[b].state = "queued"
  /\ \/ DropBatch(b)
     \/ DbFails /\ UNCHANGED batches

Tell(b, what) == told' = [told EXCEPT ![b] = @ \cup {what}]

Confirm(w, b) ==
  /\ At(w, "idle")
  /\ Event
  /\ PopBatch(b)
  /\ IF batches[b].old
     THEN Tell(b, "expired") /\ UNCHANGED work
     ELSE Tell(b, "executed") /\ EnterLoop(w, batches[b].paths)
  /\ UNCHANGED <<files, cloud, cache, tickets, away, executed, returned>>

CancelBatch(b) ==
  /\ Event
  /\ batches[b].state = "queued"
  /\ DropBatch(b)
  /\ Tell(b, "cancelled")
  /\ UNCHANGED <<files, cloud, cache, tickets, work, away, executed, returned>>

ListBatches(b) ==
  /\ batches[b].old
  /\ DropBatch(b)
  /\ UNCHANGED <<files, cloud, cache, tickets, work, history, events>>

ADayPasses(b) ==
  /\ Event
  /\ batches[b].state = "queued"
  /\ ~batches[b].old
  /\ batches' = [batches EXCEPT ![b] = [state |-> "queued", paths |-> batches[b].paths,
                                      old |-> TRUE]]
  /\ UNCHANGED <<files, cloud, cache, tickets, work, history>>

-----------------------------------------------------------------------------
(* The loop over the paths, for a request, a batch and a task alike: a file *)
(* is verified, and the cloud side of its row looked up in the cache.       *)
Fresh == cache.age <= TTL

AfterVerify(w, p) ==
  IF ~VerifyFile(p) THEN "verify"
  ELSE IF work[w].kind = "remove" THEN "move"
  ELSE IF ~CloudRef(p) THEN "verify"
  ELSE IF ~Fresh THEN "list"
  ELSE IF p \in cache.gone THEN "move"
  ELSE "verify"

Verify(w) ==
  /\ At(w, "verify")
  /\ \E p \in work[w].todo :
       LET next == AfterVerify(w, p)
       IN  Within(w, next, work[w].todo \ {p}, IF next = "verify" THEN None ELSE p, {})
  /\ UNCHANGED <<files, cloud, cache, tickets, batches, history, events>>

(* The loop is over, or its context is: a client that has left, a task that *)
(* was cancelled.                                                           *)
Finish(w) ==
  /\ At(w, "verify")
  /\ Leave(w)
  /\ UNCHANGED <<files, cloud, cache, tickets, batches, history, events>>

\* Mutant: an answer without success is taken for an empty directory.
LoadDirEmpty(w) ==
  /\ At(w, "list")
  /\ Within(w, "keep", work[w].todo, work[w].cur, Paths)
  /\ UNCHANGED <<files, cloud, cache, tickets, batches, history, events>>

(* A file is in the listing under its name or under its code.               *)
LoadDir(w) ==
  /\ At(w, "list")
  /\ Within(w, "keep", work[w].todo, work[w].cur, Gone)
  /\ UNCHANGED <<files, cloud, cache, tickets, batches, history, events>>

(* An error is kept as well, with no time of its own: it is never fresh.    *)
LoadFails(w) ==
  /\ At(w, "list")
  /\ cache' = NoListing
  /\ NextPath(w)
  /\ UNCHANGED <<files, cloud, tickets, batches, history, events>>

Keep(w) ==
  /\ At(w, "keep")
  /\ cache' = [age |-> 0, gone |-> work[w].got]
  /\ IF work[w].cur \in work[w].got THEN Goto(w, "move") ELSE NextPath(w)
  /\ UNCHANGED <<files, cloud, tickets, batches, history, events>>

(* A file that is not there any more counts as moved.                       *)
MoveToTrash(p) ==
  /\ local' = [local EXCEPT ![p] = None]
  /\ trash' = [trash EXCEPT ![p] = @ \cup ({local[p]} \ {None})]
  /\ UNCHANGED <<record, unsaved>>

Move(w) ==
  /\ At(w, "move")
  /\ MoveToTrash(work[w].cur)
  /\ Goto(w, "mark")
  /\ UNCHANGED <<cloud, cache, tickets, batches, history, events>>

(* A task that is deleted with its files may remove them for good.          *)
HardDelete(w) ==
  /\ At(w, "move")
  /\ work[w].kind = "remove"
  /\ local[work[w].cur] # None
  /\ local' = [local EXCEPT ![work[w].cur] = None]
  /\ Goto(w, "mark")
  /\ UNCHANGED <<trash, record, unsaved, cloud, cache, tickets, batches, history,
                 events>>

MoveFails(w) ==
  /\ At(w, "move")
  /\ NextPath(w)
  /\ UNCHANGED <<files, cloud, cache, tickets, batches, history, events>>

(* The mark may fail, and the tree of a directory is removed without it.    *)
Mark(w) ==
  /\ At(w, "mark")
  /\ record' \in {record, MarkDeleted(work[w].cur)}
  /\ NextPath(w)
  /\ UNCHANGED <<local, trash, unsaved, cloud, cache, tickets, batches, history,
                 events>>

(* The monitor on an event of deletion, and a task that is deleted with its *)
(* files: they verify the files, but do not look at the cloud.              *)
StartRemove(w) ==
  /\ At(w, "idle")
  /\ Event
  /\ \E todo \in (SUBSET Busy) \ {{}} : Become(w, Starting("remove", "verify", todo, None))
  /\ UNCHANGED <<files, cloud, cache, tickets, batches, history>>

-----------------------------------------------------------------------------
(* What happens to the files meanwhile.                                     *)
WriteStrmFile(p) ==
  /\ unsaved[p] = None
  /\ Event
  /\ local' = [local EXCEPT ![p] = "tool"]
  /\ unsaved' = [unsaved EXCEPT ![p] = "written"]
  /\ UNCHANGED <<trash, record, cloud, cache, tickets, batches, work, history>>

Saved(p) == unsaved' = [unsaved EXCEPT ![p] = None]

\* Mutant: the row has the fingerprint of what is on the disk.
RecordOnDisk(p) ==
  /\ unsaved[p] = "written"
  /\ Saved(p)
  /\ local[p] # None
  /\ record' = Upsert(p, local[p], TRUE)
  /\ UNCHANGED <<local, trash, cloud, cache, tickets, batches, work, history, events>>

(* A task and the rebuild record the cloud path, the monitor none; the row  *)
(* has the fingerprint of what was written, whatever the file is by now.    *)
RecordWritten(p) ==
  /\ unsaved[p] = "written"
  /\ Saved(p)
  /\ record' \in {Upsert(p, "tool", where) : where \in BOOLEAN}
  /\ UNCHANGED <<local, trash, cloud, cache, tickets, batches, work, history,
                 events>>

(* A restored file is read again for its row.                               *)
RecordRestored(p) ==
  /\ unsaved[p] = "restored"
  /\ Saved(p)
  /\ record' = IF local[p] = None THEN record ELSE Upsert(p, local[p], FALSE)
  /\ UNCHANGED <<local, trash, cloud, cache, tickets, batches, work, history,
                 events>>

RecordFails(p) ==
  /\ unsaved[p] # None
  /\ Saved(p)
  /\ UNCHANGED <<local, trash, record, cloud, cache, tickets, batches, work, history, events>>

(* A copy in the trash returns to its path; with overwrite, the file that   *)
(* is there goes to the trash in exchange.                                  *)
RestoreTrashEntry(p, copy) ==
  /\ unsaved[p] = None
  /\ Event
  /\ copy \in trash[p]
  /\ local' = [local EXCEPT ![p] = copy]
  /\ trash' = [trash EXCEPT ![p] = (@ \ {copy}) \cup ({local[p]} \ {None})]
  /\ unsaved' = [unsaved EXCEPT ![p] = "restored"]
  /\ returned' = returned \cup {p}
  /\ UNCHANGED <<record, cloud, cache, tickets, batches, work, away, executed,
                 told>>

UserEdits(p) ==
  /\ Event
  /\ \E content \in {None, "user"} \ {local[p]} : local' = [local EXCEPT ![p] = content]
  /\ UNCHANGED <<trash, record, unsaved, cloud, cache, tickets, batches, work, history>>

CloudChanges(p) ==
  /\ Event
  /\ \E side \in {"here", "renamed", "gone"} \ {cloud[p]} :
       /\ cloud' = [cloud EXCEPT ![p] = side]
       /\ away' = IF side = "gone" THEN [away EXCEPT ![p] = 0] ELSE away
  /\ UNCHANGED <<files, cache, tickets, batches, work, executed, told, returned>>

(* From the start on, files of the tool's form that have no row are taken   *)
(* over, one after the other; the walk may take long to come to a path.     *)
RecordFile(p) ==
  /\ record[p].state = "none"
  /\ local[p] = "tool"
  /\ record' = Upsert(p, "tool", TRUE)
  /\ UNCHANGED <<local, trash, unsaved, cloud, cache, tickets, batches, work, history, events>>

(* What is in memory goes; the files, their rows and the batches stay.      *)
Crash ==
  /\ Event
  /\ cache' = NoListing
  /\ tickets' = [t \in Tickets |->
                   IF tickets[t].state = "free" THEN tickets[t]
                   ELSE [state |-> "gone", stale |-> {}]]
  /\ work' = [w \in Workers |-> IdleWork]
  /\ unsaved' = [p \in Paths |-> None]
  /\ UNCHANGED <<local, trash, record, cloud, batches, history>>

Older(age) == IF age < Old THEN age + 1 ELSE Old

(* A loop counts its ticks up to the life of a listing.                     *)
LoopOlder(f) ==
  IF f.kind # "loop" \/ f.pc = "idle" \/ f.age = TTL THEN f
  ELSE [pc |-> f.pc, kind |-> f.kind, todo |-> f.todo, cur |-> f.cur,
        ticket |-> f.ticket, got |-> f.got, age |-> f.age + 1]

(* Time passes; the loading of a directory is taken to be quick.            *)
Tick ==
  /\ \A w \in Workers : ~At(w, "keep")
  /\ cache' = IF cache.age + 1 > TTL THEN NoListing
              ELSE [age |-> cache.age + 1, gone |-> cache.gone]
  /\ away' = [p \in Paths |-> IF cloud[p] = "gone" THEN 0 ELSE Older(away[p])]
  /\ work' = [w \in Workers |-> LoopOlder(work[w])]
  /\ UNCHANGED <<files, cloud, tickets, batches, executed, told, returned, events>>

-----------------------------------------------------------------------------
WorkerStep(w) ==
  \/ \E t \in Tickets : Execute(w, t)
  \/ \E b \in Batches : Confirm(w, b)
  \/ StartTask(w) \/ Allowed(w) \/ Protected(w) \/ Defer(w) \/ StartRemove(w)
  \/ Verify(w) \/ Finish(w) \/ LoadDir(w) \/ LoadFails(w) \/ Keep(w)
  \/ Move(w) \/ HardDelete(w) \/ MoveFails(w) \/ Mark(w)

FileStep(p) ==
  \/ WriteStrmFile(p) \/ RecordWritten(p) \/ RecordRestored(p) \/ RecordFails(p)
  \/ \E copy \in Contents : RestoreTrashEntry(p, copy)
  \/ UserEdits(p) \/ CloudChanges(p)

Next ==
  \/ \E w \in Workers : WorkerStep(w)
  \/ \E p \in Busy : FileStep(p)
  \/ \E p \in Paths : RecordFile(p)
  \/ \E t \in Tickets : Scan(t) \/ Lapse(t)
  \/ \E b \in Batches : ScanForTelegram(b) \/ CancelBatch(b) \/ ListBatches(b) \/ ADayPasses(b)
  \/ Crash \/ Tick

Spec == Init /\ [][Next]_vars

-----------------------------------------------------------------------------
(* All variables of the cleanup stay in their types (type invariant).       *)
TypeOK ==
  /\ local \in [Paths -> Contents \cup {None}]
  /\ trash \in [Paths -> SUBSET Contents]
  /\ record \in [Paths -> Record]
  /\ unsaved \in [Paths -> {None, "written", "restored"}]
  /\ cloud \in [Paths -> {"here", "renamed", "gone"}]
  /\ cache \in Listing
  /\ tickets \in [Tickets -> Ticket]
  /\ batches \in [Batches -> Batch]
  /\ work \in [Workers -> Work]
  /\ away \in [Paths -> Age]
  /\ executed \in [Tickets -> 0 .. 2]
  /\ told \in [Batches -> SUBSET {"executed", "cancelled", "expired"}]
  /\ returned \in SUBSET Paths
  /\ events \in 0 .. MaxEvents

Judged(w) == At(w, "move")' /\ ~At(w, "move") /\ work[w].kind # "remove"

(* A file is judged absent, and goes to the trash, only if its cloud file   *)
(* was absent from the directory within the life of a listing, whoever      *)
(* listed it and however the workers and the cloud interleave               *)
(* (cloudcheck.go, StillAbsent).                                            *)
AbsentLately ==
  [][\A w \in Workers : Judged(w) => away[work'[w].cur] <= TTL]_vars

(* No loop judges a file absent whose cloud file was there from the time    *)
(* the loop began: what an earlier loop listed does not count               *)
(* (cloudcheck.go, the comment of cloudCheckCacheTTL).                      *)
OwnEvidence ==
  [][\A w \in Workers : Judged(w) => away[work'[w].cur] <= work[w].age]_vars

(* A path's row has the fingerprint of the user's content only where        *)
(* something was restored from the trash: a race of a writer with the user  *)
(* never makes the user's file one that the cleanup may remove (managed.go, *)
(* Record and Bootstrap).                                                   *)
OwnContent ==
  \A p \in Paths : Active(p) /\ record[p].print = "user" => p \in returned

(* A batch is executed, cancelled or refused as too old once, and no two of *)
(* these are said of it, from the web and from Telegram at once and across  *)
(* restarts (cleanup_interaction.go).                                       *)
BatchOnce == \A b \in Batches : \A x, y \in told[b] : x = y

(* The files of one scan are removed at once, that is without a batch, at   *)
(* most once, although requests share its ticket and it is given back when  *)
(* files are queued or refused (strm_cleanup.go,                            *)
(* HandleStrmCleanupExecutePOST).                                           *)
TicketOnce == \A t \in Tickets : executed[t] <= 1
=============================================================================
