--------------------------- MODULE CleanupProofs ---------------------------
(* What holds of the cleanup for any number of files, workers, tickets and  *)
(* batches, whatever the limits and the life of a listing are; and, in the  *)
(* last part, of what a scan finds and of the orphans it removes by itself. *)
EXTENDS Cleanup, CloudScan, FiniteSetTheorems, SequenceTheorems, NaturalsInduction, WellFoundedInduction, TLAPS

Rank(verdict) == IF verdict = "allow" THEN 0 ELSE IF verdict = "confirm" THEN 1 ELSE 2

(* More files, of the same local files and in no fewer directories, are     *)
(* never judged more mildly: the verdict cannot be got round by adding      *)
(* files (cleanup_policy.go, EvaluateCleanup).                              *)
THEOREM VerdictMonotone ==
  ASSUME NEW cfg \in CleanupSettings,
         NEW n \in Nat, NEW m \in Nat, n <= m,
         NEW dirs \in Nat, NEW more \in Nat, dirs <= more,
         NEW all \in Nat
  PROVE  Rank(EvaluateCleanup(n, all, dirs, cfg)) <= Rank(EvaluateCleanup(m, all, more, cfg))
<1> DEFINE lim == EffectiveCleanupLimits(cfg)
<1>1. /\ lim.abs \in Int
      /\ lim.ratio \in Nat
      /\ lim.dirs \in Int
      /\ lim.stable \in Int
  BY DEF CleanupSettings, EffectiveCleanupLimits, Positive
<1>2. Exceeds(n, all, dirs, lim) => Exceeds(m, all, more, lim)
  <2> HIDE DEF lim
  <2> DEFINE bound == lim.ratio * all
  <2>1. bound \in Int
    BY <1>1
  <2> HIDE DEF bound
  <2>2. 100 * n > bound => 100 * m > bound
    BY <2>1
  <2> QED
    BY <1>1, <2>2 DEF Exceeds, bound
<1>3. n > lim.stable => m > lim.stable
  BY <1>1
<1> HIDE DEF lim
<1>4. EvaluateCleanup(n, all, dirs, cfg)
        = IF n <= lim.stable THEN "allow"
          ELSE IF Exceeds(n, all, dirs, lim) THEN "protected" ELSE "confirm"
  BY DEF EvaluateCleanup, lim
<1>5. EvaluateCleanup(m, all, more, cfg)
        = IF m <= lim.stable THEN "allow"
          ELSE IF Exceeds(m, all, more, lim) THEN "protected" ELSE "confirm"
  BY DEF EvaluateCleanup, lim
<1> QED
  BY <1>1, <1>2, <1>3, <1>4, <1>5 DEF Rank

-----------------------------------------------------------------------------
(* Type correctness *)

USE DEF Old, Age, None

LEMMA IdleTyped == IdleWork \in Work
  BY CleanupAssumption DEF IdleWork, Work

LEMMA StartingTyped ==
  ASSUME NEW kind \in {"delete", "delete_all", "task", "loop", "remove"},
         NEW pc \in {"filter", "walk", "verify"},
         NEW todo \in SUBSET Paths, NEW ticket \in Tickets \cup {None}
  PROVE  Starting(kind, pc, todo, ticket) \in Work
  BY CleanupAssumption DEF Starting, Work

LEMMA BecomeTyped ==
  ASSUME TypeOK, NEW w \in Workers, NEW next \in Work, Become(w, next)
  PROVE  work' \in [Workers -> Work]
  BY DEF TypeOK, Become

LEMMA WithinTyped ==
  ASSUME TypeOK, NEW w \in Workers,
         NEW pc \in {"verify", "list", "keep", "move", "mark"},
         NEW todo \in SUBSET Paths, NEW cur \in Paths \cup {None},
         NEW got \in SUBSET Paths, Within(w, pc, todo, cur, got)
  PROVE  work' \in [Workers -> Work]
  BY DEF TypeOK, Within, Become, Work

LEMMA WorkFields ==
  ASSUME TypeOK, NEW w \in Workers
  PROVE  /\ work[w] \in Work
         /\ work[w].kind \in {"delete", "delete_all", "task", "loop", "remove"}
         /\ work[w].todo \in SUBSET Paths
         /\ work[w].cur \in Paths \cup {None}
         /\ work[w].ticket \in Tickets \cup {None}
         /\ work[w].got \in SUBSET Paths
         /\ work[w].age \in 0 .. TTL
<1>1. work[w] \in Work
  BY DEF TypeOK
<1> QED
  BY <1>1 DEF Work

LEMMA NextPathTyped ==
  ASSUME TypeOK, NEW w \in Workers, NextPath(w)
  PROVE  work' \in [Workers -> Work]
<1>1. Within(w, "verify", work[w].todo, None, {})
  BY DEF NextPath
<1>2. "verify" \in {"verify", "list", "keep", "move", "mark"}
  OBVIOUS
<1>3. work[w].todo \in SUBSET Paths /\ None \in Paths \cup {None} /\ {} \in SUBSET Paths
  BY WorkFields
<1> QED
  BY <1>1, <1>2, <1>3, WithinTyped

LEMMA GotoTyped ==
  ASSUME TypeOK, NEW w \in Workers, NEW pc \in {"move", "mark"}, Goto(w, pc)
  PROVE  work' \in [Workers -> Work]
<1>1. Within(w, pc, work[w].todo, work[w].cur, {})
  BY DEF Goto
<1>2. pc \in {"verify", "list", "keep", "move", "mark"}
  OBVIOUS
<1>3. work[w].todo \in SUBSET Paths /\ work[w].cur \in Paths \cup {None} /\ {} \in SUBSET Paths
  BY WorkFields
<1> QED
  BY <1>1, <1>2, <1>3, WithinTyped

LEMMA NoListingTyped == NoListing \in Listing
  BY CleanupAssumption DEF NoListing, Listing

LEMMA QueueTyped ==
  ASSUME TypeOK, NEW b \in Batches, NEW paths \in SUBSET Paths, Queue(b, paths)
  PROVE  batches' \in [Batches -> Batch]
  BY DEF TypeOK, Queue, Batch

LEMMA DropTyped ==
  ASSUME TypeOK, NEW b \in Batches, DropBatch(b)
  PROVE  batches' \in [Batches -> Batch]
  BY DEF TypeOK, DropBatch, Batch

LEMMA UpsertTyped ==
  ASSUME TypeOK, NEW p \in Paths, NEW content \in Contents, NEW where \in BOOLEAN
  PROVE  Upsert(p, content, where) \in [Paths -> Record]
  BY DEF TypeOK, Upsert, Record

LEMMA MarkTyped ==
  ASSUME TypeOK, NEW p \in Paths
  PROVE  MarkDeleted(p) \in [Paths -> Record]
  BY DEF TypeOK, MarkDeleted, Record

LEMMA TicketTyped ==
  ASSUME TypeOK, NEW t \in Tickets, NEW found \in SUBSET Paths,
         NEW state \in {"free", "open", "used", "gone"}
  PROVE  /\ [state |-> state, stale |-> found] \in Ticket
         /\ tickets[t].stale \in SUBSET Paths
         /\ tickets[t] \in Ticket
  BY DEF TypeOK, Ticket

LEMMA LeaveTyped ==
  ASSUME TypeOK, NEW w \in Workers, Leave(w)
  PROVE  work' \in [Workers -> Work]
  BY BecomeTyped, IdleTyped DEF Leave

LEMMA EnterTyped ==
  ASSUME TypeOK, NEW w \in Workers, NEW todo \in SUBSET Paths, EnterLoop(w, todo)
  PROVE  work' \in [Workers -> Work]
<1>1. Starting("loop", "verify", todo, None) \in Work
  BY StartingTyped
<1> QED
  BY <1>1, BecomeTyped DEF EnterLoop

LEMMA VerdictActionsTyped ==
  ASSUME TypeOK, NEW w \in Workers,
         Allowed(w) \/ Protected(w) \/ Defer(w)
  PROVE  TypeOK'
<1>1. \A paths \in Candidates(w) : paths \in SUBSET Paths
  BY WorkFields DEF Candidates
<1>2. PurgeTrash => trash' \in [Paths -> SUBSET Contents]
  BY DEF PurgeTrash, NoTrash, TypeOK
<1>3. ReleaseUsed(w) => tickets' \in [Tickets -> Ticket]
  BY TicketTyped, ZenonT(60) DEF ReleaseUsed
<1>4. CASE Allowed(w)
  <2>1. work' \in [Workers -> Work]
    BY <1>1, <1>4, EnterTyped DEF Allowed
  <2>2. executed' \in [Tickets -> 0 .. 2]
    <3>1. executed \in [Tickets -> 0 .. 2]
      BY DEF TypeOK
    <3>2. \/ executed' = executed
          \/ executed' = [executed EXCEPT ![work[w].ticket] =
                            IF executed[work[w].ticket] < 2
                            THEN executed[work[w].ticket] + 1 ELSE 2]
      BY <1>4 DEF Allowed
    <3> HIDE DEF None
    <3> QED
      BY <3>1, <3>2
  <2> QED
    BY <1>2, <1>4, <2>1, <2>2 DEF Allowed, TypeOK
<1>5. CASE Protected(w)
  <2>1. work' \in [Workers -> Work]
    BY <1>5, LeaveTyped DEF Protected
  <2> QED
    BY <1>2, <1>3, <1>5, <2>1 DEF Protected, TypeOK, history
<1>6. CASE Defer(w)
  <2>1. work' \in [Workers -> Work]
    BY <1>6, LeaveTyped DEF Defer
  <2>2. batches' \in [Batches -> Batch]
    BY <1>1, <1>6, QueueTyped DEF Defer, TypeOK
  <2> QED
    BY <1>2, <1>3, <1>6, <2>1, <2>2 DEF Defer, TypeOK, history
<1> QED
  BY <1>4, <1>5, <1>6

LEMMA InitTyped == ASSUME Init PROVE TypeOK
  BY CleanupAssumption, IdleTyped, NoListingTyped
     DEF Init, TypeOK, NoTrash, Record, Contents, Ticket, Batch

LEMMA EventTyped == ASSUME TypeOK, Event PROVE events' \in 0 .. MaxEvents
  BY CleanupAssumption DEF TypeOK, Event

LEMMA TicketActionsTyped ==
  ASSUME TypeOK, NEW t \in Tickets, Scan(t) \/ Lapse(t)
  PROVE  TypeOK'
<1>1. events' \in 0 .. MaxEvents
  BY EventTyped DEF Scan, Lapse
<1>2. Stale \in SUBSET Paths
  BY DEF Stale, Missing
<1>3. \E state \in {"open", "gone"}, found \in {Stale, {}} :
        tickets' = [tickets EXCEPT ![t] = [state |-> state, stale |-> found]]
  BY DEF Scan, Lapse
<1>4. tickets' \in [Tickets -> Ticket]
  BY <1>2, <1>3 DEF TypeOK, Ticket
<1> QED
  BY <1>1, <1>4 DEF Scan, Lapse, TypeOK, files, history

LEMMA BatchActionsTyped ==
  ASSUME TypeOK, NEW b \in Batches,
         ScanForTelegram(b) \/ CancelBatch(b) \/ ListBatches(b) \/ ADayPasses(b)
  PROVE  TypeOK'
<1>1. ~ListBatches(b) => events' \in 0 .. MaxEvents
  BY EventTyped DEF ScanForTelegram, CancelBatch, ADayPasses
<1>2. CASE ScanForTelegram(b)
  <2>1. Stale \in SUBSET Paths
    BY DEF Stale, Missing
  <2>2. batches' \in [Batches -> Batch]
    BY <1>2, <2>1, QueueTyped DEF ScanForTelegram
  <2> QED
    BY <1>1, <1>2, <2>2 DEF ScanForTelegram, ListBatches, TypeOK, files, history, Event
<1>3. CASE CancelBatch(b)
  <2>1. batches' \in [Batches -> Batch]
    BY <1>3, DropTyped DEF CancelBatch
  <2>2. told' \in [Batches -> SUBSET {"executed", "cancelled", "expired"}]
    BY <1>3 DEF CancelBatch, Tell, TypeOK
  <2>3. events' \in 0 .. MaxEvents
    BY <1>3, EventTyped DEF CancelBatch
  <2> QED
    BY <1>3, <2>1, <2>2, <2>3 DEF CancelBatch, TypeOK, files
<1>4. CASE ListBatches(b)
  <2>1. batches' \in [Batches -> Batch]
    BY <1>4, DropTyped DEF ListBatches
  <2> QED
    BY <1>4, <2>1 DEF ListBatches, TypeOK, files, history
<1>5. CASE ADayPasses(b)
  <2>1. batches' \in [Batches -> Batch]
    BY <1>5 DEF ADayPasses, TypeOK, Batch
  <2>2. events' \in 0 .. MaxEvents
    BY <1>5, EventTyped DEF ADayPasses
  <2> QED
    BY <1>5, <2>1, <2>2 DEF ADayPasses, TypeOK, files, history
<1> QED
  BY <1>2, <1>3, <1>4, <1>5

LEMMA BeginningTyped ==
  ASSUME TypeOK, NEW w \in Workers,
         \/ \E t \in Tickets : Execute(w, t)
         \/ \E b \in Batches : Confirm(w, b)
         \/ StartTask(w) \/ StartRemove(w)
  PROVE  TypeOK'
<1>1. events' \in 0 .. MaxEvents
  BY EventTyped DEF Execute, Confirm, StartTask, StartRemove
<1>2. ASSUME NEW t \in Tickets, Execute(w, t) PROVE TypeOK'
  <2>1. tickets' \in [Tickets -> Ticket]
    BY <1>2, TicketTyped DEF Execute, MarkUsed, TypeOK
  <2>2. PICK kind \in {"delete", "delete_all"}, picked \in SUBSET tickets[t].stale :
          Become(w, Starting(kind, "filter", picked, t))
    BY <1>2 DEF Execute
  <2>3. picked \in SUBSET Paths
    BY <2>2, TicketTyped
  <2>4. Starting(kind, "filter", picked, t) \in Work
    BY <2>3, StartingTyped
  <2>5. work' \in [Workers -> Work]
    BY <2>2, <2>4, BecomeTyped
  <2> QED
    BY <1>1, <1>2, <2>1, <2>5 DEF Execute, TypeOK, files, history
<1>3. ASSUME NEW b \in Batches, Confirm(w, b) PROVE TypeOK'
  <2>1. batches' \in [Batches -> Batch]
    BY <1>3, DropTyped DEF Confirm, PopBatch, TypeOK
  <2>2. told' \in [Batches -> SUBSET {"executed", "cancelled", "expired"}]
    BY <1>3 DEF Confirm, Tell, TypeOK
  <2>3. batches[b].paths \in SUBSET Paths
    BY DEF TypeOK, Batch
  <2>4. work' \in [Workers -> Work]
    BY <1>3, <2>3, EnterTyped DEF Confirm, TypeOK
  <2> QED
    BY <1>1, <1>3, <2>1, <2>2, <2>4 DEF Confirm, TypeOK, files
<1>4. CASE StartTask(w)
  <2>1. Missing \in SUBSET Paths
    BY DEF Missing
  <2>2. Starting("task", "walk", Missing, None) \in Work
    BY <2>1, StartingTyped
  <2>3. work' \in [Workers -> Work]
    BY <1>4, <2>2, BecomeTyped DEF StartTask
  <2> QED
    BY <1>1, <1>4, <2>3 DEF StartTask, TypeOK, files, history
<1>5. CASE StartRemove(w)
  <2>1. PICK todo \in SUBSET Busy : Become(w, Starting("remove", "verify", todo, None))
    BY <1>5 DEF StartRemove
  <2>2. todo \in SUBSET Paths
    BY CleanupAssumption
  <2>3. Starting("remove", "verify", todo, None) \in Work
    BY <2>2, StartingTyped
  <2>4. work' \in [Workers -> Work]
    BY <2>1, <2>3, BecomeTyped
  <2> QED
    BY <1>1, <1>5, <2>4 DEF StartRemove, TypeOK, files, history
<1> QED
  BY <1>2, <1>3, <1>4, <1>5

LEMMA LoopTyped ==
  ASSUME TypeOK, NEW w \in Workers,
         \/ Verify(w) \/ Finish(w) \/ LoadDir(w) \/ LoadFails(w) \/ Keep(w)
         \/ Move(w) \/ HardDelete(w) \/ MoveFails(w) \/ Mark(w)
  PROVE  TypeOK'
<1>1. CASE Verify(w)
  <2>1. PICK p \in work[w].todo :
          Within(w, AfterVerify(w, p), work[w].todo \ {p},
                 IF AfterVerify(w, p) = "verify" THEN None ELSE p, {})
    BY <1>1 DEF Verify
  <2>2. AfterVerify(w, p) \in {"verify", "list", "keep", "move", "mark"}
    BY DEF AfterVerify
  <2>3. /\ p \in Paths
        /\ work[w].todo \ {p} \in SUBSET Paths
        /\ (IF AfterVerify(w, p) = "verify" THEN None ELSE p) \in Paths \cup {None}
        /\ {} \in SUBSET Paths
    BY WorkFields
  <2>4. work' \in [Workers -> Work]
    BY <2>1, <2>2, <2>3, WithinTyped
  <2> QED
    BY <1>1, <2>4 DEF Verify, TypeOK, files, history
<1>2. CASE Finish(w)
  BY <1>2, LeaveTyped DEF Finish, TypeOK, files, history
<1>3. CASE LoadDir(w)
  <2>1. Gone \in SUBSET Paths
    BY DEF Gone
  <2>2. work[w].todo \in SUBSET Paths /\ work[w].cur \in Paths \cup {None}
    BY WorkFields
  <2>3. work' \in [Workers -> Work]
    BY <1>3, <2>1, <2>2, WithinTyped DEF LoadDir
  <2> QED
    BY <1>3, <2>3 DEF LoadDir, TypeOK, files, history
<1>4. CASE LoadFails(w)
  BY <1>4, NextPathTyped, NoListingTyped DEF LoadFails, TypeOK, files, history
<1>5. CASE Keep(w)
  <2>1. cache' \in Listing
    BY <1>5, WorkFields, CleanupAssumption DEF Keep, Listing
  <2>2. work' \in [Workers -> Work]
    BY <1>5, NextPathTyped, GotoTyped DEF Keep
  <2> QED
    BY <1>5, <2>1, <2>2 DEF Keep, TypeOK, files, history
<1>6. CASE Move(w)
  <2>1. local' \in [Paths -> Contents \cup {None}]
    BY <1>6 DEF Move, MoveToTrash, TypeOK
  <2>2. \A p \in Paths : {local[p]} \ {None} \in SUBSET Contents
    BY DEF TypeOK
  <2>3. trash' \in [Paths -> SUBSET Contents]
    BY <1>6, <2>2 DEF Move, MoveToTrash, TypeOK
  <2>4. work' \in [Workers -> Work]
    BY <1>6, GotoTyped DEF Move
  <2> QED
    BY <1>6, <2>1, <2>3, <2>4 DEF Move, MoveToTrash, TypeOK, history
<1>7. CASE HardDelete(w)
  <2>1. local' \in [Paths -> Contents \cup {None}]
    BY <1>7 DEF HardDelete, TypeOK
  <2>2. work' \in [Workers -> Work]
    BY <1>7, GotoTyped DEF HardDelete
  <2> QED
    BY <1>7, <2>1, <2>2 DEF HardDelete, TypeOK, history
<1>8. CASE MoveFails(w)
  BY <1>8, NextPathTyped DEF MoveFails, TypeOK, files, history
<1>9. CASE Mark(w)
  <2>1. record' \in [Paths -> Record]
    <3>1. CASE work[w].cur \in Paths
      BY <1>9, <3>1, MarkTyped DEF Mark, TypeOK
    <3>2. CASE work[w].cur = None
      BY <1>9, <3>2, CleanupAssumption DEF Mark, MarkDeleted, TypeOK
    <3> QED
      BY <3>1, <3>2, WorkFields
  <2>2. work' \in [Workers -> Work]
    BY <1>9, NextPathTyped DEF Mark
  <2> QED
    BY <1>9, <2>1, <2>2 DEF Mark, TypeOK, history
<1> QED
  BY <1>1, <1>2, <1>3, <1>4, <1>5, <1>6, <1>7, <1>8, <1>9

LEMMA FileStepTyped ==
  ASSUME TypeOK, NEW p \in Paths, FileStep(p) \/ RecordFile(p)
  PROVE  TypeOK'
<1>1. CASE WriteStrmFile(p)
  BY <1>1, EventTyped DEF WriteStrmFile, TypeOK, history, Contents
<1>2. CASE RecordWritten(p)
  <2>1. record' \in [Paths -> Record]
    BY <1>2, UpsertTyped DEF RecordWritten, Contents
  <2> QED
    BY <1>2, <2>1 DEF RecordWritten, Saved, TypeOK, history
<1>3. CASE RecordRestored(p)
  <2>1. record' \in [Paths -> Record]
    BY <1>3, UpsertTyped DEF RecordRestored, TypeOK
  <2> QED
    BY <1>3, <2>1 DEF RecordRestored, Saved, TypeOK, history
<1>4. CASE RecordFails(p)
  BY <1>4 DEF RecordFails, Saved, TypeOK, history
<1>5. ASSUME NEW copy \in Contents, RestoreTrashEntry(p, copy) PROVE TypeOK'
  <2>1. (trash[p] \ {copy}) \cup ({local[p]} \ {None}) \in SUBSET Contents
    BY DEF TypeOK
  <2>2. trash' \in [Paths -> SUBSET Contents]
    BY <1>5, <2>1 DEF RestoreTrashEntry, TypeOK
  <2>3. local' \in [Paths -> Contents \cup {None}]
    BY <1>5 DEF RestoreTrashEntry, TypeOK
  <2>4. returned' \in SUBSET Paths
    BY <1>5 DEF RestoreTrashEntry, TypeOK
  <2> QED
    BY <1>5, <2>2, <2>3, <2>4, EventTyped DEF RestoreTrashEntry, TypeOK
<1>6. CASE UserEdits(p)
  <2>1. local' \in [Paths -> Contents \cup {None}]
    BY <1>6 DEF UserEdits, TypeOK, Contents
  <2> QED
    BY <1>6, <2>1, EventTyped DEF UserEdits, TypeOK, history
<1>7. CASE CloudChanges(p)
  <2>1. cloud' \in [Paths -> {"here", "renamed", "gone"}]
    BY <1>7 DEF CloudChanges, TypeOK
  <2>2. away' \in [Paths -> Age]
    BY <1>7, CleanupAssumption DEF CloudChanges, TypeOK
  <2> QED
    BY <1>7, <2>1, <2>2, EventTyped DEF CloudChanges, TypeOK, files
<1>8. CASE RecordFile(p)
  <2>1. record' \in [Paths -> Record]
    BY <1>8, UpsertTyped DEF RecordFile, Contents
  <2> QED
    BY <1>8, <2>1 DEF RecordFile, TypeOK, history
<1> QED
  BY <1>1, <1>2, <1>3, <1>4, <1>5, <1>6, <1>7, <1>8 DEF FileStep

LEMMA CrashTyped == ASSUME TypeOK, Crash PROVE TypeOK'
<1>1. tickets' \in [Tickets -> Ticket]
  BY TicketTyped DEF Crash
<1>2. work' \in [Workers -> Work]
  BY IdleTyped DEF Crash
<1> QED
  BY <1>1, <1>2, NoListingTyped, EventTyped DEF Crash, TypeOK, history

LEMMA TickTyped == ASSUME TypeOK, Tick PROVE TypeOK'
<1>1. cache' \in Listing
  BY NoListingTyped, CleanupAssumption DEF Tick, TypeOK, Listing
<1>2. away' \in [Paths -> Age]
  BY CleanupAssumption DEF Tick, TypeOK, Older
<1>3. \A w \in Workers : LoopOlder(work[w]) \in Work
  <2> TAKE w \in Workers
  <2>1. work[w] \in Work
    BY WorkFields
  <2> QED
    BY <2>1, CleanupAssumption DEF LoopOlder, Work
<1>4. work' \in [Workers -> Work]
  BY <1>3 DEF Tick
<1> QED
  BY <1>1, <1>2, <1>4 DEF Tick, TypeOK, files

(* All variables stay in their types (TypeOK; all operations of the         *)
(* cleanup): no file's content, row, ticket or batch is ever anything else, *)
(* and the ages and the count of events keep their bounds.                  *)
THEOREM CleanupTypeCorrect == Spec => []TypeOK
<1>1. Init => TypeOK
  BY InitTyped
<1>2. TypeOK /\ [Next]_vars => TypeOK'
  <2> SUFFICES ASSUME TypeOK, [Next]_vars PROVE TypeOK'
    OBVIOUS
  <2>1. ASSUME NEW w \in Workers, WorkerStep(w) PROVE TypeOK'
    BY <2>1, BeginningTyped, VerdictActionsTyped, LoopTyped DEF WorkerStep
  <2>2. ASSUME NEW p \in Paths, FileStep(p) \/ RecordFile(p) PROVE TypeOK'
    BY <2>2, FileStepTyped
  <2>3. ASSUME NEW t \in Tickets, Scan(t) \/ Lapse(t) PROVE TypeOK'
    BY <2>3, TicketActionsTyped
  <2>4. ASSUME NEW b \in Batches,
               ScanForTelegram(b) \/ CancelBatch(b) \/ ListBatches(b) \/ ADayPasses(b)
        PROVE  TypeOK'
    BY <2>4, BatchActionsTyped
  <2>5. CASE UNCHANGED vars
    BY <2>5 DEF vars, files, history, TypeOK
  <2> QED
    BY <2>1, <2>2, <2>3, <2>4, <2>5, CrashTyped, TickTyped, CleanupAssumption DEF Next
<1> QED
  BY <1>1, <1>2, PTL DEF Spec

-----------------------------------------------------------------------------
(* What is the user's own *)

(* A restored path whose row is still to be written is one that returned:   *)
(* without this the step that writes the row could not be shown to be right.*)
OwnInv ==
  /\ TypeOK
  /\ OwnContent
  /\ \A p \in Paths : unsaved[p] = "restored" => p \in returned

(* Only what was restored from the trash has a row with the fingerprint of  *)
(* the user's content (OwnContent; managed.go, Record and Bootstrap).       *)
THEOREM OwnContentKept == Spec => []OwnContent
<1>1. Init => OwnInv
  <2> SUFFICES ASSUME Init PROVE OwnInv
    OBVIOUS
  <2>1. TypeOK
    BY InitTyped
  <2>2. \A p \in Paths : record[p].print = "tool" /\ unsaved[p] = None
    BY DEF Init
  <2> QED
    BY <2>1, <2>2 DEF OwnInv, OwnContent
<1>2. OwnInv /\ TypeOK' /\ [Next]_vars => OwnInv'
  <2> SUFFICES ASSUME OwnInv, TypeOK', [Next]_vars PROVE OwnInv'
    OBVIOUS
  <2>0. TypeOK
    BY DEF OwnInv
  <2>1. ASSUME UNCHANGED <<record, unsaved, returned>> PROVE OwnInv'
    BY <2>1 DEF OwnInv, OwnContent, Active
  <2>2. ASSUME NEW w \in Workers, WorkerStep(w) PROVE OwnInv'
    <3>1. CASE Mark(w)
      <4>1. \A p \in Paths :
              /\ record'[p].state = "active" => record[p].state = "active"
              /\ record'[p].print = record[p].print
        BY <2>0, <3>1 DEF Mark, MarkDeleted, TypeOK
      <4> QED
        BY <3>1, <4>1 DEF Mark, OwnInv, OwnContent, Active, history
    <3>2. CASE ~Mark(w)
      BY <2>1, <2>2, <3>2
         DEF WorkerStep, Execute, Confirm, StartTask, Allowed, Protected, Defer, StartRemove,
             Verify, Finish, LoadDir, LoadFails, Keep, Move, MoveToTrash, HardDelete,
             MoveFails, files, history
    <3> QED
      BY <3>1, <3>2
  <2>3. ASSUME NEW p \in Paths, FileStep(p) \/ RecordFile(p) PROVE OwnInv'
    <3>1. CASE WriteStrmFile(p)
      <4>1. \A q \in Paths : unsaved'[q] = "restored" => unsaved[q] = "restored"
        BY <2>0, <3>1 DEF WriteStrmFile, TypeOK
      <4> QED
        BY <3>1, <4>1 DEF WriteStrmFile, OwnInv, OwnContent, Active, history
    <3>2. CASE RecordWritten(p) \/ RecordFile(p)
      <4>1. \A q \in Paths : unsaved'[q] = "restored" => unsaved[q] = "restored"
        BY <2>0, <3>2, ZenonT(60) DEF RecordWritten, RecordFile, Saved, TypeOK
      <4>2. \A q \in Paths : record'[q] = record[q] \/ record'[q].print = "tool"
        BY <2>0, <3>2 DEF RecordWritten, RecordFile, Upsert, TypeOK
      <4>3. returned' = returned
        BY <3>2 DEF RecordWritten, RecordFile, history
      <4> QED
        BY <4>1, <4>2, <4>3 DEF OwnInv, OwnContent, Active
    <3>3. CASE RecordRestored(p)
      <4>1. \A q \in Paths : unsaved'[q] = "restored" => unsaved[q] = "restored"
        BY <2>0, <3>3 DEF RecordRestored, Saved, TypeOK
      <4>2. \A q \in Paths : q # p => record'[q] = record[q]
        BY <2>0, <3>3 DEF RecordRestored, Upsert, TypeOK
      <4>3. p \in returned /\ returned' = returned
        BY <3>3 DEF RecordRestored, OwnInv, history
      <4> QED
        BY <4>1, <4>2, <4>3 DEF OwnInv, OwnContent, Active
    <3>4. CASE RecordFails(p)
      <4>1. \A q \in Paths : unsaved'[q] = "restored" => unsaved[q] = "restored"
        BY <2>0, <3>4 DEF RecordFails, Saved, TypeOK
      <4> QED
        BY <3>4, <4>1 DEF RecordFails, OwnInv, OwnContent, Active, history
    <3>5. ASSUME NEW copy \in Contents, RestoreTrashEntry(p, copy) PROVE OwnInv'
      <4>1. \A q \in Paths : q # p => unsaved'[q] = unsaved[q]
        BY <2>0, <3>5 DEF RestoreTrashEntry, TypeOK
      <4>2. returned' = returned \cup {p} /\ record' = record
        BY <3>5 DEF RestoreTrashEntry
      <4> QED
        BY <4>1, <4>2 DEF OwnInv, OwnContent, Active
    <3>6. CASE UserEdits(p) \/ CloudChanges(p)
      BY <2>1, <3>6 DEF UserEdits, CloudChanges, files, history
    <3> QED
      BY <2>3, <3>1, <3>2, <3>3, <3>4, <3>5, <3>6 DEF FileStep
  <2>4. CASE Crash
    <3>1. \A q \in Paths : unsaved'[q] = None
      BY <2>4 DEF Crash
    <3> QED
      BY <2>4, <3>1 DEF Crash, OwnInv, OwnContent, Active, history
  <2>5. CASE Tick
    BY <2>1, <2>5 DEF Tick, files
  <2>6. ASSUME NEW t \in Tickets, Scan(t) \/ Lapse(t) PROVE OwnInv'
    BY <2>1, <2>6 DEF Scan, Lapse, files, history
  <2>7. ASSUME NEW b \in Batches,
               ScanForTelegram(b) \/ CancelBatch(b) \/ ListBatches(b) \/ ADayPasses(b)
        PROVE  OwnInv'
    BY <2>1, <2>7 DEF ScanForTelegram, CancelBatch, ListBatches, ADayPasses, files, history
  <2>8. CASE UNCHANGED vars
    BY <2>1, <2>8 DEF vars, files, history
  <2> QED
    BY <2>2, <2>3, <2>4, <2>5, <2>6, <2>7, <2>8, CleanupAssumption DEF Next
<1>3. OwnInv => OwnContent
  BY DEF OwnInv
<1> QED
  BY <1>1, <1>2, <1>3, CleanupTypeCorrect, PTL DEF Spec

-----------------------------------------------------------------------------
(* What is done once *)

(* Something was said only of batches whose row has gone.                   *)
BatchInv ==
  /\ TypeOK
  /\ BatchOnce
  /\ \A b \in Batches : told[b] # {} => batches[b].state = "gone"

(* Where the DELETE of a batch's row takes effect, a batch is executed,     *)
(* cancelled or refused once (BatchOnce; cleanup_interaction.go, PopBatch   *)
(* and CancelBatch).                                                        *)
THEOREM BatchToldOnce == ASSUME ~DbFails PROVE Spec => []BatchOnce
<1>1. Init => BatchInv
  BY InitTyped DEF Init, BatchInv, BatchOnce
<1>2. BatchInv /\ TypeOK' /\ [Next]_vars => BatchInv'
  <2> SUFFICES ASSUME BatchInv, TypeOK', [Next]_vars PROVE BatchInv'
    OBVIOUS
  <2>0. TypeOK
    BY DEF BatchInv
  <2>1. ASSUME UNCHANGED <<batches, told>> PROVE BatchInv'
    BY <2>1 DEF BatchInv, BatchOnce
  <2>2. ASSUME NEW b \in Batches, NEW paths, Queue(b, paths), UNCHANGED told PROVE BatchInv'
    <3>1. batches[b].state = "free" /\ \A c \in Batches : c # b => batches'[c] = batches[c]
      BY <2>0, <2>2 DEF Queue, TypeOK
    <3>2. told[b] = {}
      BY <3>1 DEF BatchInv
    <3> QED
      BY <2>2, <3>1, <3>2 DEF BatchInv, BatchOnce
  <2>3. ASSUME NEW b \in Batches, NEW what, batches[b].state = "queued",
               DropBatch(b), Tell(b, what)
        PROVE  BatchInv'
    <3>1. batches'[b].state = "gone" /\ \A c \in Batches : c # b => batches'[c] = batches[c]
      BY <2>0, <2>3 DEF DropBatch, TypeOK
    <3>2. told[b] = {}
      BY <2>3 DEF BatchInv
    <3>3. told'[b] = {what} /\ \A c \in Batches : c # b => told'[c] = told[c]
      BY <2>0, <2>3, <3>2 DEF Tell, TypeOK
    <3> QED
      BY <3>1, <3>3 DEF BatchInv, BatchOnce
  <2>4. ASSUME NEW w \in Workers, WorkerStep(w) PROVE BatchInv'
    <3>1. CASE Defer(w)
      BY <2>1, <2>2, <3>1 DEF Defer, history
    <3>2. ASSUME NEW b \in Batches, Confirm(w, b) PROVE BatchInv'
      BY <2>3, <3>2 DEF Confirm, PopBatch
    <3>3. CASE ~Defer(w) /\ ~\E b \in Batches : Confirm(w, b)
      BY <2>1, <2>4, <3>3
         DEF WorkerStep, Execute, StartTask, Allowed, Protected, StartRemove,
             Verify, Finish, LoadDir, LoadFails, Keep, Move, HardDelete, MoveFails, Mark,
             history
    <3> QED
      BY <3>1, <3>2, <3>3
  <2>5. ASSUME NEW b \in Batches,
               ScanForTelegram(b) \/ CancelBatch(b) \/ ListBatches(b) \/ ADayPasses(b)
        PROVE  BatchInv'
    <3>1. CASE ScanForTelegram(b)
      BY <2>2, <3>1 DEF ScanForTelegram, history
    <3>2. CASE CancelBatch(b)
      BY <2>3, <3>2 DEF CancelBatch
    <3>3. CASE ListBatches(b)
      <4>1. \A c \in Batches : batches[c].state = "gone" => batches'[c].state = "gone"
        BY <2>0, <3>3 DEF ListBatches, DropBatch, TypeOK
      <4> QED
        BY <3>3, <4>1 DEF ListBatches, BatchInv, BatchOnce, history
    <3>4. CASE ADayPasses(b)
      <4>1. \A c \in Batches : batches[c].state = "gone" => batches'[c].state = "gone"
        BY <2>0, <3>4 DEF ADayPasses, TypeOK
      <4> QED
        BY <3>4, <4>1 DEF ADayPasses, BatchInv, BatchOnce, history
    <3> QED
      BY <2>5, <3>1, <3>2, <3>3, <3>4
  <2>6. ASSUME NEW p \in Paths, FileStep(p) \/ RecordFile(p) PROVE BatchInv'
    BY <2>1, <2>6
       DEF FileStep, WriteStrmFile, RecordWritten, RecordRestored, RecordFails,
           RestoreTrashEntry, UserEdits, CloudChanges, RecordFile, history
  <2>7. ASSUME NEW t \in Tickets, Scan(t) \/ Lapse(t) PROVE BatchInv'
    BY <2>1, <2>7 DEF Scan, Lapse, history
  <2>8. CASE Crash \/ Tick \/ UNCHANGED vars
    BY <2>1, <2>8 DEF Crash, Tick, vars, history
  <2> QED
    BY <2>4, <2>5, <2>6, <2>7, <2>8, CleanupAssumption DEF Next
<1>3. BatchInv => BatchOnce
  BY DEF BatchInv
<1> QED
  BY <1>1, <1>2, <1>3, CleanupTypeCorrect, PTL DEF Spec

(* A worker holds a ticket until it has its verdict.                        *)
Holds(w, t) == AtVerdict(w) /\ work[w].ticket = t

(* A ticket that is open, or held, was not used up; one that is held is not *)
(* open; and nobody else holds it: else giving it back would open it to a   *)
(* second removal.                                                          *)
TicketInv ==
  /\ TypeOK
  /\ TicketOnce
  /\ \A t \in Tickets : tickets[t].state \in {"free", "open"} => executed[t] = 0
  /\ \A t \in Tickets, w \in Workers :
       Holds(w, t) => executed[t] = 0 /\ tickets[t].state \notin {"free", "open"}
  /\ \A t \in Tickets, v, w \in Workers : Holds(v, t) /\ Holds(w, t) => v = w

LEMMA HoldsNoMore ==
  ASSUME TypeOK, NEW w \in Workers, NEW next, Become(w, next),
         next.pc \notin {"filter", "walk"}
  PROVE  \A v \in Workers, t \in Tickets : Holds(v, t)' => Holds(v, t) /\ v # w
  BY DEF TypeOK, Become, Holds, AtVerdict, At

LEMMA TaskHoldsNone ==
  ASSUME TypeOK, NEW w \in Workers, NEW todo, Become(w, Starting("task", "walk", todo, None))
  PROVE  \A v \in Workers, t \in Tickets : Holds(v, t)' => Holds(v, t) /\ v # w
<1>1. work'[w].ticket = None /\ \A v \in Workers : v # w => work'[v] = work[v]
  BY DEF TypeOK, Become, Starting
<1> QED
  BY <1>1, CleanupAssumption DEF Holds, AtVerdict, At

LEMMA TicketInvStable ==
  ASSUME TicketInv, TypeOK', UNCHANGED <<tickets, executed>>,
         \A v \in Workers, t \in Tickets : Holds(v, t)' => Holds(v, t)
  PROVE  TicketInv'
  BY DEF TicketInv, TicketOnce

(* The files of a scan are removed once, whoever shares its ticket, and     *)
(* although it is given back (TicketOnce; strm_cleanup.go,                  *)
(* HandleStrmCleanupExecutePOST).                                           *)
THEOREM TicketUsedOnce == Spec => []TicketOnce
<1>1. Init => TicketInv
  <2> SUFFICES ASSUME Init PROVE TicketInv
    OBVIOUS
  <2>1. \A w \in Workers : ~AtVerdict(w)
    BY DEF Init, AtVerdict, At, IdleWork
  <2> QED
    BY <2>1, InitTyped DEF Init, TicketInv, TicketOnce, Holds
<1>2. TicketInv /\ TypeOK' /\ [Next]_vars => TicketInv'
  <2> SUFFICES ASSUME TicketInv, TypeOK', [Next]_vars PROVE TicketInv'
    OBVIOUS
  <2>0. TypeOK
    BY DEF TicketInv
  <2>1. ASSUME UNCHANGED <<tickets, executed, work>> PROVE TicketInv'
    BY <2>1 DEF TicketInv, TicketOnce, Holds, AtVerdict, At
  <2>2. ASSUME NEW w \in Workers, NEW t \in Tickets, Execute(w, t) PROVE TicketInv'
    <3>1. PICK kind, picked : Become(w, Starting(kind, "filter", picked, t))
      BY <2>2 DEF Execute
    <3>2. \A v \in Workers, s \in Tickets :
            Holds(v, s)' => (v = w /\ s = t) \/ (v # w /\ Holds(v, s))
      BY <2>0, <3>1 DEF Become, Starting, Holds, AtVerdict, At, TypeOK
    <3>3. /\ tickets[t].state = "open"
          /\ tickets'[t].state = "used"
          /\ \A s \in Tickets : s # t => tickets'[s] = tickets[s]
          /\ executed' = executed
      BY <2>0, <2>2 DEF Execute, MarkUsed, TypeOK, history
    <3>4. executed[t] = 0 /\ \A v \in Workers : ~Holds(v, t)
      BY <3>3 DEF TicketInv
    <3> QED
      BY <3>2, <3>3, <3>4 DEF TicketInv, TicketOnce
  <2>3. ASSUME NEW w \in Workers, Allowed(w) PROVE TicketInv'
    <3>1. PICK paths : EnterLoop(w, paths)
      BY <2>3 DEF Allowed
    <3>2. \A v \in Workers, s \in Tickets : Holds(v, s)' => Holds(v, s) /\ v # w
      BY <2>0, <3>1, HoldsNoMore DEF EnterLoop, Starting
    <3>3. AtVerdict(w) /\ tickets' = tickets
      BY <2>3 DEF Allowed
    <3>4. CASE work[w].kind = "task"
      BY <2>3, <3>2, <3>3, <3>4, TicketInvStable DEF Allowed
    <3>5. CASE work[w].kind # "task"
      <4>1. \A s \in Tickets : executed'[s] = IF work[w].ticket # s THEN executed[s]
                                ELSE IF executed[s] < 2 THEN executed[s] + 1 ELSE 2
        BY <2>0, <2>3, <3>5 DEF Allowed, TypeOK
      <4>2. \A s \in Tickets : work[w].ticket = s => Holds(w, s) /\ executed[s] = 0
        BY <3>3 DEF TicketInv, Holds
      <4>3. \A s \in Tickets : work[w].ticket = s =>
              /\ executed'[s] = 1
              /\ tickets'[s].state \notin {"free", "open"}
              /\ \A v \in Workers : ~Holds(v, s)'
        BY <3>2, <3>3, <4>1, <4>2 DEF TicketInv
      <4>4. \A s \in Tickets : work[w].ticket # s => executed'[s] = executed[s]
        BY <4>1
      <4> QED
        BY <3>2, <3>3, <4>3, <4>4 DEF TicketInv, TicketOnce
    <3> QED
      BY <3>4, <3>5
  <2>4. ASSUME NEW w \in Workers, Protected(w) \/ Defer(w) PROVE TicketInv'
    <3>1. \A v \in Workers, s \in Tickets : Holds(v, s)' => Holds(v, s) /\ v # w
      BY <2>0, <2>4, HoldsNoMore DEF Protected, Defer, Leave, IdleWork
    <3>2. AtVerdict(w) /\ ReleaseUsed(w) /\ executed' = executed
      BY <2>4 DEF Protected, Defer, history
    <3>3. \A s \in Tickets : work[w].ticket # s => tickets'[s] = tickets[s]
      BY <3>2 DEF ReleaseUsed
    <3>4. \A s \in Tickets : work[w].ticket = s =>
            executed[s] = 0 /\ \A v \in Workers : ~Holds(v, s)'
      BY <3>1, <3>2 DEF TicketInv, Holds
    <3> QED
      BY <3>1, <3>2, <3>3, <3>4 DEF TicketInv, TicketOnce
  <2>5. ASSUME NEW w \in Workers, NEW b \in Batches, Confirm(w, b) PROVE TicketInv'
    <3>1. CASE UNCHANGED work
      BY <2>1, <2>5, <3>1 DEF Confirm
    <3>2. CASE EnterLoop(w, batches[b].paths)
      <4>1. \A v \in Workers, s \in Tickets : Holds(v, s)' => Holds(v, s) /\ v # w
        BY <2>0, <3>2, HoldsNoMore DEF EnterLoop, Starting
      <4> QED
        BY <2>5, <4>1, TicketInvStable DEF Confirm
    <3> QED
      BY <2>5, <3>1, <3>2 DEF Confirm
  <2>6. ASSUME NEW w \in Workers, StartTask(w) PROVE TicketInv'
    BY <2>0, <2>6, TaskHoldsNone, TicketInvStable DEF StartTask, history
  <2>7. ASSUME NEW w \in Workers, StartRemove(w) PROVE TicketInv'
    <3>1. PICK todo : Become(w, Starting("remove", "verify", todo, None))
      BY <2>7 DEF StartRemove
    <3>2. \A v \in Workers, s \in Tickets : Holds(v, s)' => Holds(v, s) /\ v # w
      BY <2>0, <3>1, HoldsNoMore DEF Starting
    <3> QED
      BY <2>7, <3>2, TicketInvStable DEF StartRemove, history
  <2>8. ASSUME NEW w \in Workers,
               \/ Verify(w) \/ Finish(w) \/ LoadDir(w) \/ LoadFails(w) \/ Keep(w)
               \/ Move(w) \/ HardDelete(w) \/ MoveFails(w) \/ Mark(w)
        PROVE  TicketInv'
    <3>1. \E next : Become(w, next) /\ next.pc \notin {"filter", "walk"}
      <4>1. \A p : AfterVerify(w, p) \notin {"filter", "walk"}
        BY DEF AfterVerify
      <4>2. CASE Verify(w)
        BY <4>1, <4>2 DEF Verify, Within
      <4>3. CASE ~Verify(w)
        BY <2>8, <4>3
           DEF Finish, LoadDir, LoadFails, Keep, Move, HardDelete, MoveFails, Mark,
               Within, Goto, NextPath, Leave, IdleWork
      <4> QED
        BY <4>2, <4>3
    <3>2. \A v \in Workers, s \in Tickets : Holds(v, s)' => Holds(v, s) /\ v # w
      BY <2>0, <3>1, HoldsNoMore
    <3>3. UNCHANGED <<tickets, executed>>
      BY <2>8 DEF Verify, Finish, LoadDir, LoadFails, Keep, Move, HardDelete, MoveFails,
                  Mark, history
    <3> QED
      BY <3>2, <3>3, TicketInvStable
  <2>9. ASSUME NEW t \in Tickets, Scan(t) \/ Lapse(t) PROVE TicketInv'
    <3>1. /\ \A s \in Tickets : s # t => tickets'[s] = tickets[s]
          /\ \/ tickets[t].state = "free" /\ tickets'[t].state = "open"
             \/ tickets'[t].state = "gone"
          /\ UNCHANGED <<work, executed>>
      BY <2>0, <2>9 DEF Scan, Lapse, TypeOK, history
    <3>2. \A v \in Workers, s \in Tickets : Holds(v, s)' <=> Holds(v, s)
      BY <3>1 DEF Holds, AtVerdict, At
    <3> QED
      BY <3>1, <3>2 DEF TicketInv, TicketOnce
  <2>10. CASE Crash
    <3>1. \A v \in Workers : ~AtVerdict(v)'
      BY <2>10 DEF Crash, AtVerdict, At, IdleWork
    <3>2. \A s \in Tickets : tickets'[s] = tickets[s] \/ tickets'[s].state = "gone"
      BY <2>10 DEF Crash
    <3>3. executed' = executed
      BY <2>10 DEF Crash, history
    <3> QED
      BY <3>1, <3>2, <3>3 DEF TicketInv, TicketOnce, Holds
  <2>11. CASE Tick
    <3>1. \A v \in Workers : work'[v].pc = work[v].pc /\ work'[v].ticket = work[v].ticket
      BY <2>11 DEF Tick, LoopOlder
    <3>2. \A v \in Workers, s \in Tickets : Holds(v, s)' => Holds(v, s)
      BY <3>1 DEF Holds, AtVerdict, At
    <3> QED
      BY <2>11, <3>2, TicketInvStable DEF Tick
  <2>12. ASSUME NEW p \in Paths, FileStep(p) \/ RecordFile(p) PROVE TicketInv'
    BY <2>1, <2>12
       DEF FileStep, WriteStrmFile, RecordWritten, RecordRestored, RecordFails,
           RestoreTrashEntry, UserEdits, CloudChanges, RecordFile, history
  <2>13. ASSUME NEW b \in Batches,
                ScanForTelegram(b) \/ CancelBatch(b) \/ ListBatches(b) \/ ADayPasses(b)
         PROVE  TicketInv'
    BY <2>1, <2>13 DEF ScanForTelegram, CancelBatch, ListBatches, ADayPasses, history
  <2>14. CASE UNCHANGED vars
    BY <2>1, <2>14 DEF vars, history
  <2>15. ASSUME NEW w \in Workers, WorkerStep(w) PROVE TicketInv'
    BY <2>2, <2>3, <2>4, <2>5, <2>6, <2>7, <2>8, <2>15 DEF WorkerStep
  <2> QED
    BY <2>9, <2>10, <2>11, <2>12, <2>13, <2>14, <2>15, CleanupAssumption DEF Next
<1>3. TicketInv => TicketOnce
  BY DEF TicketInv
<1> QED
  BY <1>1, <1>2, <1>3, CleanupTypeCorrect, PTL DEF Spec

-----------------------------------------------------------------------------
(* What a listing is worth *)

(* A listing says nothing of a file that was there longer than the listing  *)
(* is old; one that is just loaded is of now.                               *)
ListingInv ==
  /\ TypeOK
  /\ \A p \in Paths : cloud[p] = "gone" => away[p] = 0
  /\ \A p \in Paths : Fresh /\ p \in cache.gone => away[p] <= cache.age
  /\ \A w \in Workers : At(w, "keep") => \A p \in work[w].got : away[p] = 0

(* What a step keeps of this which neither loads, keeps nor ages a listing. *)
LEMMA ListingStable ==
  ASSUME ListingInv, TypeOK', UNCHANGED <<cloud, away>>, cache' = cache \/ cache' = NoListing,
         \A w \in Workers : At(w, "keep")' => At(w, "keep") /\ work'[w].got = work[w].got
  PROVE  ListingInv'
BY DEF ListingInv, Fresh, NoListing

LEMMA ElsewhereThanKeep ==
  ASSUME TypeOK, NEW w \in Workers, NEW next, Become(w, next), next.pc # "keep"
  PROVE  \A v \in Workers :
           At(v, "keep")' => At(v, "keep") /\ work'[v].got = work[v].got
  BY DEF TypeOK, Become, At

LEMMA ListingInvariant == Spec => []ListingInv
<1>1. Init => ListingInv
  BY InitTyped DEF Init, ListingInv, NoListing, At, IdleWork
<1>2. ListingInv /\ TypeOK' /\ [Next]_vars => ListingInv'
  <2> SUFFICES ASSUME ListingInv, TypeOK', [Next]_vars PROVE ListingInv'
    OBVIOUS
  <2>0. TypeOK
    BY DEF ListingInv
  <2>1. ASSUME UNCHANGED <<cloud, away, cache, work>> PROVE ListingInv'
    BY <2>1 DEF ListingInv, Fresh, At
  <2>2. ASSUME NEW w \in Workers, LoadDir(w) PROVE ListingInv'
    <3>1. /\ work'[w].got = Gone
          /\ \A v \in Workers : v # w => work'[v] = work[v]
      BY <2>0, <2>2 DEF LoadDir, Within, Become, TypeOK
    <3>2. \A p \in Gone : away[p] = 0
      BY DEF Gone, ListingInv
    <3>3. UNCHANGED <<cloud, away, cache>>
      BY <2>2 DEF LoadDir, history
    <3>4. \A v \in Workers : At(v, "keep")' => \A p \in work'[v].got : away'[p] = 0
      BY <3>1, <3>2, <3>3 DEF ListingInv, At
    <3> QED
      BY <3>3, <3>4 DEF ListingInv, Fresh
  <2>3. ASSUME NEW w \in Workers, Keep(w) PROVE ListingInv'
    <3>1. \E next : Become(w, next) /\ next.pc # "keep"
      BY <2>3 DEF Keep, Goto, NextPath, Within
    <3>2. \A v \in Workers : At(v, "keep")' => At(v, "keep") /\ work'[v].got = work[v].got
      BY <2>0, <3>1, ElsewhereThanKeep
    <3>3. cache' = [age |-> 0, gone |-> work[w].got] /\ UNCHANGED <<cloud, away>>
      BY <2>3 DEF Keep, history
    <3>4. \A p \in work[w].got : away[p] = 0
      BY <2>3 DEF Keep, ListingInv
    <3> QED
      BY <3>2, <3>3, <3>4 DEF ListingInv, Fresh
  <2>4. ASSUME NEW w \in Workers, WorkerStep(w), ~LoadDir(w), ~Keep(w) PROVE ListingInv'
    <3>1. CASE UNCHANGED work
      <4>1. ASSUME NEW b \in Batches, Confirm(w, b) PROVE ListingInv'
        BY <2>1, <3>1, <4>1 DEF Confirm
      <4>2. ASSUME ~\E b \in Batches : Confirm(w, b) PROVE ListingInv'
        <5>1. UNCHANGED <<cloud, away>> /\ (cache' = cache \/ cache' = NoListing)
          BY <2>4, <4>2
             DEF WorkerStep, Execute, StartTask, Allowed, Protected, Defer, StartRemove,
                 Verify, Finish, LoadFails, Move, HardDelete, MoveFails, Mark, history
        <5>2. \A v \in Workers : At(v, "keep")' => At(v, "keep") /\ work'[v].got = work[v].got
          BY <3>1 DEF At
        <5> QED
          BY <5>1, <5>2, ListingStable
      <4> QED
        BY <4>1, <4>2
    <3>2. CASE \E next : Become(w, next) /\ next.pc # "keep"
      <4>1. \A v \in Workers : At(v, "keep")' => At(v, "keep") /\ work'[v].got = work[v].got
        BY <2>0, <3>2, ElsewhereThanKeep
      <4>2. UNCHANGED <<cloud, away>> /\ (cache' = cache \/ cache' = NoListing)
        BY <2>4
           DEF WorkerStep, Execute, Confirm, StartTask, Allowed, Protected, Defer, StartRemove,
               Verify, Finish, LoadFails, Move, HardDelete, MoveFails, Mark, history
      <4> QED
        BY <4>1, <4>2, ListingStable
    <3>3. \/ UNCHANGED work
          \/ \E next : Become(w, next) /\ next.pc # "keep"
      <4>1. \A p : AfterVerify(w, p) # "keep"
        BY DEF AfterVerify
      <4>2. CASE Verify(w)
        BY <4>1, <4>2 DEF Verify, Within
      <4>3. ASSUME NEW t \in Tickets, Execute(w, t)
            PROVE  \E next : Become(w, next) /\ next.pc # "keep"
        BY <4>3 DEF Execute, Starting
      <4>4. ASSUME NEW b \in Batches, Confirm(w, b)
            PROVE  UNCHANGED work \/ \E next : Become(w, next) /\ next.pc # "keep"
        BY <4>4 DEF Confirm, EnterLoop, Starting
      <4>5. CASE Allowed(w)
        <5>1. PICK paths : EnterLoop(w, paths)
          BY <4>5 DEF Allowed
        <5> QED
          BY <5>1 DEF EnterLoop, Starting
      <4>6. CASE Protected(w) \/ Defer(w) \/ Finish(w)
        BY <4>6 DEF Protected, Defer, Finish, Leave, IdleWork
      <4>7. CASE StartTask(w)
        BY <4>7 DEF StartTask, Starting
      <4>8. CASE StartRemove(w)
        <5>1. PICK todo : Become(w, Starting("remove", "verify", todo, None))
          BY <4>8 DEF StartRemove
        <5> QED
          BY <5>1 DEF Starting
      <4>9. CASE LoadFails(w) \/ Move(w) \/ HardDelete(w) \/ MoveFails(w) \/ Mark(w)
        BY <4>9 DEF LoadFails, Move, HardDelete, MoveFails, Mark, Within, Goto, NextPath
      <4> QED
        BY <2>4, <4>2, <4>3, <4>4, <4>5, <4>6, <4>7, <4>8, <4>9 DEF WorkerStep
    <3> QED
      BY <3>1, <3>2, <3>3
  <2>5. ASSUME NEW p \in Paths, CloudChanges(p) PROVE ListingInv'
    <3>1. \A q \in Paths :
            /\ cloud'[q] = "gone" => away'[q] = 0
            /\ away'[q] = away[q] \/ away'[q] = 0
      BY <2>0, <2>5 DEF CloudChanges, ListingInv, TypeOK
    <3>2. UNCHANGED <<cache, work>>
      BY <2>5 DEF CloudChanges
    <3>3. \A w \in Workers : work[w].got \in SUBSET Paths
      BY <2>0, WorkFields
    <3>4. cache.age \in Nat /\ cache.gone \in SUBSET Paths
      BY <2>0, CleanupAssumption DEF TypeOK, Listing
    <3>5. \A q \in Paths : Fresh /\ q \in cache.gone => away'[q] <= cache.age
      BY <3>1, <3>4 DEF ListingInv
    <3>6. \A w \in Workers : At(w, "keep") => \A q \in work[w].got : away'[q] = 0
      BY <3>1, <3>3 DEF ListingInv
    <3> QED
      BY <3>1, <3>2, <3>5, <3>6 DEF ListingInv, Fresh, At
  <2>6. ASSUME NEW p \in Paths, FileStep(p) \/ RecordFile(p), ~CloudChanges(p)
        PROVE  ListingInv'
    BY <2>1, <2>6
       DEF FileStep, WriteStrmFile, RecordWritten, RecordRestored, RecordFails,
           RestoreTrashEntry, UserEdits, RecordFile, history
  <2>7. CASE Crash
    <3>1. \A w \in Workers : ~At(w, "keep")'
      BY <2>7 DEF Crash, At, IdleWork
    <3> QED
      BY <2>7, <3>1, ListingStable DEF Crash, history
  <2>8. CASE Tick
    <3>1. \A w \in Workers : ~At(w, "keep")'
      BY <2>8 DEF Tick, LoopOlder, At
    <3>2. cache.age \in 0 .. TTL + 1 /\ cache.gone \in SUBSET Paths
      BY <2>0 DEF TypeOK, Listing
    <3>3. \A p \in Paths :
            /\ away[p] \in 0 .. TTL + 1
            /\ away'[p] = IF cloud[p] = "gone" THEN 0
                          ELSE IF away[p] < TTL + 1 THEN away[p] + 1 ELSE TTL + 1
      BY <2>0, <2>8 DEF Tick, Older, TypeOK
    <3>4. CASE cache.age + 1 > TTL
      BY <2>8, <3>1, <3>3, <3>4 DEF Tick, ListingInv, NoListing, Fresh
    <3>5. CASE ~(cache.age + 1 > TTL)
      <4>1. cache' = [age |-> cache.age + 1, gone |-> cache.gone]
        BY <2>8, <3>5 DEF Tick
      <4>2. \A p \in Paths : p \in cache.gone => away[p] <= cache.age
        BY <3>2, <3>5, CleanupAssumption DEF ListingInv, Fresh
      <4>3. \A p \in Paths : p \in cache.gone => away'[p] <= cache.age + 1
        BY <3>2, <3>3, <4>2, CleanupAssumption
      <4> QED
        BY <2>8, <3>1, <3>3, <4>1, <4>3 DEF Tick, ListingInv
    <3> QED
      BY <3>4, <3>5
  <2>9. ASSUME NEW t \in Tickets, Scan(t) \/ Lapse(t) PROVE ListingInv'
    BY <2>1, <2>9 DEF Scan, Lapse, history
  <2>10. ASSUME NEW b \in Batches,
                ScanForTelegram(b) \/ CancelBatch(b) \/ ListBatches(b) \/ ADayPasses(b)
         PROVE  ListingInv'
    BY <2>1, <2>10 DEF ScanForTelegram, CancelBatch, ListBatches, ADayPasses, history
  <2>11. CASE UNCHANGED vars
    BY <2>1, <2>11 DEF vars, history
  <2> QED
    BY <2>2, <2>3, <2>4, <2>5, <2>6, <2>7, <2>8, <2>9, <2>10, <2>11, CleanupAssumption DEF Next
<1> QED
  BY <1>1, <1>2, CleanupTypeCorrect, PTL DEF Spec

(* Nothing is judged absent that was not absent within the life of a        *)
(* listing (AbsentLately; cloudcheck.go, StillAbsent), however many         *)
(* workers share the cache and whatever the cloud does meanwhile.           *)
THEOREM AbsenceWasSeen == Spec => AbsentLately
<1>1. ListingInv /\ [Next]_vars
        => [\A w \in Workers : Judged(w) => away[work'[w].cur] <= TTL]_vars
  <2> SUFFICES ASSUME ListingInv, Next, NEW v \in Workers, Judged(v)
               PROVE  away[work'[v].cur] <= TTL
    BY DEF Judged
  <2>0. TypeOK
    BY DEF ListingInv
  <2>1. ASSUME NEW w \in Workers, WorkerStep(w) PROVE away[work'[v].cur] <= TTL
    <3>1. v = w
      BY <2>0, <2>1
         DEF WorkerStep, Execute, Confirm, StartTask, Allowed, Protected, Defer, StartRemove,
             Verify, Finish, LoadDir, LoadFails, Keep, Move, HardDelete, MoveFails, Mark,
             EnterLoop, Within, Goto, NextPath, Leave, Become, Judged, At, TypeOK
    <3>2. CASE Verify(w)
      <4>1. PICK p \in work[w].todo :
              Within(w, AfterVerify(w, p), work[w].todo \ {p},
                     IF AfterVerify(w, p) = "verify" THEN None ELSE p, {})
        BY <3>2 DEF Verify
      <4>2. work'[w].pc = AfterVerify(w, p)
        BY <2>0, <4>1 DEF Within, Become, TypeOK
      <4>3. AfterVerify(w, p) = "move" /\ work[w].kind # "remove"
        BY <3>1, <4>2 DEF Judged, At
      <4>4. work'[w].cur = p
        BY <2>0, <4>1, <4>3 DEF Within, Become, TypeOK
      <4>5. Fresh /\ p \in cache.gone
        BY <4>3 DEF AfterVerify
      <4>6. p \in Paths /\ cache.age \in 0 .. TTL + 1
        BY <2>0, <4>1, WorkFields DEF TypeOK, Listing
      <4>7. away[p] <= cache.age /\ away[p] \in Nat
        BY <2>0, <4>5, <4>6, CleanupAssumption DEF ListingInv, TypeOK
      <4> QED
        BY <3>1, <4>4, <4>5, <4>6, <4>7, CleanupAssumption DEF Fresh
    <3>3. CASE Keep(w)
      <4>1. work[w].cur \in work[w].got
        BY <2>0, <3>1, <3>3 DEF Keep, NextPath, Within, Become, Judged, At, TypeOK
      <4>2. work'[w].cur = work[w].cur
        BY <2>0, <3>3, <4>1 DEF Keep, Goto, Within, Become, TypeOK
      <4>3. away[work[w].cur] = 0
        BY <3>3, <4>1 DEF Keep, ListingInv
      <4> QED
        BY <3>1, <4>2, <4>3, CleanupAssumption
    <3>4. CASE ~Verify(w) /\ ~Keep(w)
      <4>1. ~At(w, "move")'
        BY <2>0, <2>1, <3>1, <3>4
           DEF WorkerStep, Execute, Confirm, StartTask, Allowed, Protected, Defer, StartRemove,
               Finish, LoadDir, LoadFails, Move, HardDelete, MoveFails, Mark, EnterLoop,
               Starting, Within, Goto, NextPath, Leave, IdleWork, Become, Judged, At, TypeOK
      <4> QED
        BY <3>1, <4>1 DEF Judged
    <3> QED
      BY <3>2, <3>3, <3>4
  <2>2. CASE Crash \/ Tick
    BY <2>2 DEF Crash, Tick, LoopOlder, IdleWork, Judged, At
  <2>3. ASSUME UNCHANGED work PROVE FALSE
    BY <2>3 DEF Judged, At
  <2>4. ASSUME NEW p \in Paths, FileStep(p) \/ RecordFile(p) PROVE FALSE
    BY <2>3, <2>4
       DEF FileStep, WriteStrmFile, RecordWritten, RecordRestored, RecordFails,
           RestoreTrashEntry, UserEdits, CloudChanges, RecordFile
  <2>5. ASSUME NEW t \in Tickets, Scan(t) \/ Lapse(t) PROVE FALSE
    BY <2>3, <2>5 DEF Scan, Lapse
  <2>6. ASSUME NEW b \in Batches,
               ScanForTelegram(b) \/ CancelBatch(b) \/ ListBatches(b) \/ ADayPasses(b)
        PROVE  FALSE
    BY <2>3, <2>6 DEF ScanForTelegram, CancelBatch, ListBatches, ADayPasses
  <2> QED
    BY <2>1, <2>2, <2>4, <2>5, <2>6, CleanupAssumption DEF Next
<1> QED
  BY <1>1, ListingInvariant, PTL DEF Spec, AbsentLately

-----------------------------------------------------------------------------
(* The scan of a cloud directory.  A path leads to one directory: they are a *)
(* tree (induction over their depth) and siblings differ in name.            *)

LEMMA EveryDepth ==
  ASSUME NEW T \in SUBSET Nat, 0 \in T, \A n \in T : n + 1 \in T
  PROVE  \A n \in Nat : n \in T
<1> DEFINE Rest == Nat \ T
           Less == OpToRel(<, Nat)
<1> SUFFICES ASSUME Rest # {} PROVE FALSE
  OBVIOUS
<1>1. IsWellFoundedOn(Less, Nat)
  BY NatLessThanWellFounded
<1>2. \A x, y \in Nat : x < y => <<x, y>> \in Less
  BY DEF OpToRel
<1> HIDE DEF Less
<1>3. PICK x \in Rest : \A y \in Rest : ~(<<y, x>> \in Less)
  BY <1>1, WFMin
<1>4. x # 0 /\ x - 1 \in Nat /\ x - 1 < x
  BY <1>3
<1>5. x - 1 \in T
  BY <1>2, <1>3, <1>4
<1> QED BY <1>3, <1>4, <1>5

\* How deep the directories are below that of the task.
Deep(depth) ==
  /\ depth \in [Homes -> 0 .. Cardinality(Dirs)]
  /\ depth[Root] = 0 /\ \A d \in Dirs : depth[d] = depth[Parent[d]] + 1

\* What is defined along the tree, all of it and down to a depth.
Along(base, step, f) ==
  \A d \in Homes : f[d] = IF d = Root THEN base ELSE step[<<d, f[Parent[d]]>>]
DownTo(depth, n, X, base, step, f) ==
  /\ f \in [{d \in Homes : depth[d] <= n} -> X]
  /\ \A d \in DOMAIN f : f[d] = IF d = Root THEN base ELSE step[<<d, f[Parent[d]]>>]

LEMMA OneDeeper ==
  ASSUME ScanAssumption, NEW X, NEW base \in X, NEW step \in [Dirs \X X -> X],
         NEW depth, Deep(depth), NEW n \in Nat, NEW f, DownTo(depth, n, X, base, step, f)
  PROVE  \E g : DownTo(depth, n + 1, X, base, step, g)
<1> DEFINE D == {d \in Homes : depth[d] <= n + 1}
           g == [d \in D |-> IF d = Root THEN base ELSE step[<<d, f[Parent[d]]>>]]
<1>1. Cardinality(Dirs) \in Nat
  BY FS_CardinalityType DEF ScanAssumption
<1>2. \A d \in D \ {Root} : Parent[d] \in Homes /\ depth[Parent[d]] <= n /\ d \in Dirs
  BY <1>1 DEF ScanAssumption, Deep, Homes
<1>3. \A d \in D \ {Root} : f[Parent[d]] \in X
  BY <1>2 DEF DownTo
<1>4. g \in [D -> X]
  BY <1>2, <1>3
<1>5. \A d \in D \ {Root} : g[Parent[d]] = f[Parent[d]]
  <2> TAKE d \in D \ {Root}
  <2>1. Parent[d] \in D /\ Parent[d] \in DOMAIN f
    BY <1>1, <1>2 DEF DownTo, Deep
  <2> QED BY <2>1 DEF DownTo
<1>6. \A d \in D : g[d] = IF d = Root THEN base ELSE step[<<d, g[Parent[d]]>>]
  BY <1>5
<1> QED BY <1>4, <1>6 DEF DownTo

LEMMA AlongTheTree ==
  ASSUME ScanAssumption, NEW X, NEW base \in X, NEW step \in [Dirs \X X -> X]
  PROVE  \E f \in [Homes -> X] : Along(base, step, f)
<1>1. PICK depth : Deep(depth)
  BY DEF ScanAssumption, Deep
<1> DEFINE T == {n \in Nat : \E f : DownTo(depth, n, X, base, step, f)}
<1>2. Cardinality(Dirs) \in Nat
  BY FS_CardinalityType DEF ScanAssumption
<1>3. 0 \in T
  <2> DEFINE f == [d \in {e \in Homes : depth[e] <= 0} |-> base]
  <2>1. \A d \in Homes : depth[d] <= 0 => d = Root
    <3> SUFFICES ASSUME NEW d \in Dirs PROVE ~(depth[d] <= 0)
      BY DEF Homes
    <3>1. Parent[d] \in Homes
      BY DEF ScanAssumption
    <3>2. depth[Parent[d]] \in Nat /\ depth[d] = depth[Parent[d]] + 1
      BY <1>1, <1>2, <3>1 DEF Deep
    <3> QED BY <3>2
  <2>2. DownTo(depth, 0, X, base, step, f)
    BY <2>1 DEF DownTo
  <2> QED BY <2>2
<1>4. \A n \in T : n + 1 \in T
  BY <1>1, OneDeeper
<1> HIDE DEF T
<1>5. Cardinality(Dirs) \in T
  <2>1. T \in SUBSET Nat
    BY DEF T
  <2> QED BY <1>2, <1>3, <1>4, <2>1, EveryDepth
<1>6. PICK f : DownTo(depth, Cardinality(Dirs), X, base, step, f)
  BY <1>5 DEF T
<1>7. {d \in Homes : depth[d] <= Cardinality(Dirs)} = Homes
  BY <1>1, <1>2 DEF Deep
<1> QED BY <1>6, <1>7 DEF DownTo, Along

LEMMA PathsExist ==
  ASSUME ScanAssumption, name \in [Dirs -> DirNames]
  PROVE  PathOf = [d \in Homes |-> IF d = Root THEN <<>> ELSE Append(PathOf[Parent[d]], name[d])]
<1> DEFINE step == [t \in Dirs \X Seq(DirNames) |-> Append(t[2], name[t[1]])]
<1>1. <<>> \in Seq(DirNames)
  BY EmptySeq
<1>2. step \in [Dirs \X Seq(DirNames) -> Seq(DirNames)]
  <2>1. ASSUME NEW t \in Dirs \X Seq(DirNames) PROVE step[t] \in Seq(DirNames)
    <3>1. PICK p \in Seq(DirNames), m \in DirNames : p = t[2] /\ m = name[t[1]]
      OBVIOUS
    <3>2. Append(p, m) \in Seq(DirNames)
      BY AppendProperties
    <3> QED BY <3>1, <3>2
  <2> QED BY <2>1
<1>3. \A d \in Dirs, p \in Seq(DirNames) : step[<<d, p>>] = Append(p, name[d])
  OBVIOUS
<1> HIDE DEF step
<1>4. PICK f \in [Homes -> Seq(DirNames)] : Along(<<>>, step, f)
  BY <1>1, <1>2, AlongTheTree
<1>5. \A d \in Homes \ {Root} : d \in Dirs /\ f[Parent[d]] \in Seq(DirNames)
  BY DEF Homes, ScanAssumption
<1>6. \A d \in Homes : f[d] = IF d = Root THEN <<>> ELSE Append(f[Parent[d]], name[d])
  BY <1>3, <1>4, <1>5 DEF Along
<1>7. f = [d \in Homes |-> IF d = Root THEN <<>> ELSE Append(f[Parent[d]], name[d])]
  BY <1>6
<1> QED BY <1>7 DEF PathOf

LEMMA AboveExists ==
  ASSUME ScanAssumption
  PROVE  Above = [d \in Homes |-> IF d = Root THEN {Root} ELSE Above[Parent[d]] \cup {d}]
<1> DEFINE step == [t \in Dirs \X SUBSET Homes |-> t[2] \cup {t[1]}]
<1>1. {Root} \in SUBSET Homes
  BY DEF Homes
<1>2. step \in [Dirs \X SUBSET Homes -> SUBSET Homes]
  BY DEF Homes
<1>3. \A d \in Dirs, p \in SUBSET Homes : step[<<d, p>>] = p \cup {d}
  OBVIOUS
<1> HIDE DEF step
<1>4. PICK f \in [Homes -> SUBSET Homes] : Along({Root}, step, f)
  BY <1>1, <1>2, AlongTheTree
<1>5. \A d \in Homes \ {Root} : d \in Dirs /\ f[Parent[d]] \in SUBSET Homes
  BY DEF Homes, ScanAssumption
<1>6. \A d \in Homes : f[d] = IF d = Root THEN {Root} ELSE f[Parent[d]] \cup {d}
  BY <1>3, <1>4, <1>5 DEF Along
<1>7. f = [d \in Homes |-> IF d = Root THEN {Root} ELSE f[Parent[d]] \cup {d}]
  BY <1>6
<1> QED BY <1>7 DEF Above

\* A path is as long as its directory is deep.
LEMMA PathsFit ==
  ASSUME ScanAssumption, name \in [Dirs -> DirNames], NEW depth, Deep(depth)
  PROVE  \A d \in Homes : PathOf[d] \in Seq(DirNames) /\ Len(PathOf[d]) = depth[d]
<1> DEFINE T == {n \in Nat : \A d \in Homes : depth[d] = n =>
                               PathOf[d] \in Seq(DirNames) /\ Len(PathOf[d]) = n}
<1>1. Cardinality(Dirs) \in Nat
  BY FS_CardinalityType DEF ScanAssumption
<1>2. \A d \in Dirs : /\ Parent[d] \in Homes /\ depth[Parent[d]] \in Nat
                      /\ depth[d] = depth[Parent[d]] + 1 /\ d # Root /\ d \in Homes
  BY <1>1 DEF Deep, Homes, ScanAssumption
<1>3. Root \in Homes /\ PathOf[Root] = <<>> /\ depth[Root] = 0
  BY PathsExist DEF Homes, Deep
<1>4. \A d \in Dirs : PathOf[d] = Append(PathOf[Parent[d]], name[d])
  BY <1>2, PathsExist
<1>5. 0 \in T
  <2>1. \A d \in Homes : depth[d] = 0 => d = Root
    BY <1>2 DEF Homes
  <2>2. PathOf[Root] \in Seq(DirNames) /\ Len(PathOf[Root]) = 0
    BY <1>3
  <2> QED BY <2>1, <2>2
<1>6. ASSUME NEW n \in T PROVE n + 1 \in T
  <2> SUFFICES ASSUME NEW d \in Homes, depth[d] = n + 1
               PROVE  PathOf[d] \in Seq(DirNames) /\ Len(PathOf[d]) = n + 1
    OBVIOUS
  <2>1. n \in Nat
    OBVIOUS
  <2>2. d \in Dirs
    BY <1>3, <2>1 DEF Homes
  <2>3. Parent[d] \in Homes /\ depth[Parent[d]] = n
    BY <1>2, <2>1, <2>2
  <2>4. PathOf[Parent[d]] \in Seq(DirNames) /\ Len(PathOf[Parent[d]]) = n
    BY <2>3
  <2>5. name[d] \in DirNames
    BY <2>2
  <2>6. ASSUME NEW p \in Seq(DirNames), NEW m \in DirNames
        PROVE  Append(p, m) \in Seq(DirNames) /\ Len(Append(p, m)) = Len(p) + 1
    BY <2>6, AppendProperties
  <2> QED BY <1>4, <2>2, <2>4, <2>5, <2>6
<1> HIDE DEF T
<1>7. \A n \in Nat : n \in T
  <2>1. T \in SUBSET Nat
    BY DEF T
  <2> QED BY <1>5, <1>6, <2>1, EveryDepth
<1>8. \A d \in Homes : depth[d] \in Nat
  BY <1>1 DEF Deep
<1> QED BY <1>7, <1>8 DEF T

\* A path leads to one directory.
LEMMA PathsDiffer ==
  ASSUME ScanAssumption, name \in [Dirs -> DirNames], Apart(name)
  PROVE  \A d, e \in Homes : PathOf[d] = PathOf[e] => d = e
<1>1. PICK depth : Deep(depth)
  BY DEF ScanAssumption, Deep
<1>2. Cardinality(Dirs) \in Nat
  BY FS_CardinalityType DEF ScanAssumption
<1>3. \A d \in Homes : PathOf[d] \in Seq(DirNames) /\ Len(PathOf[d]) = depth[d] /\ depth[d] \in Nat
  BY <1>1, <1>2, PathsFit DEF Deep
<1>4. \A d \in Dirs : Parent[d] \in Homes /\ depth[d] = depth[Parent[d]] + 1 /\ d \in Homes /\ d # Root
  BY <1>1 DEF Deep, Homes, ScanAssumption
<1>5. \A d \in Dirs : PathOf[d] = Append(PathOf[Parent[d]], name[d])
  BY <1>4, PathsExist
<1> DEFINE T == {n \in Nat : \A d, e \in Homes : depth[d] = n /\ PathOf[d] = PathOf[e] => d = e}
<1>6. depth[Root] = 0 /\ \A d \in Homes : depth[d] = 0 => d = Root
  <2>1. \A d \in Dirs : depth[Parent[d]] \in Nat /\ depth[d] # 0
    BY <1>3, <1>4
  <2> QED BY <1>1, <2>1 DEF Deep, Homes
<1>7. 0 \in T
  <2> SUFFICES ASSUME NEW d \in Homes, NEW e \in Homes, depth[d] = 0, PathOf[d] = PathOf[e] PROVE d = e
    OBVIOUS
  <2>1. depth[e] = 0
    BY <1>3
  <2> QED BY <1>6, <2>1
<1>8. ASSUME NEW n \in T PROVE n + 1 \in T
  <2> SUFFICES ASSUME NEW d \in Homes, NEW e \in Homes, depth[d] = n + 1, PathOf[d] = PathOf[e] PROVE d = e
    OBVIOUS
  <2>1. n \in Nat /\ depth[e] = n + 1
    BY <1>3
  <2>2. d \in Dirs /\ e \in Dirs
    BY <1>6, <2>1 DEF Homes
  <2>3. depth[Parent[d]] = n /\ Parent[d] \in Homes /\ Parent[e] \in Homes
    BY <1>3, <1>4, <2>1, <2>2
  <2>4. Append(PathOf[Parent[d]], name[d]) = Append(PathOf[Parent[e]], name[e])
    BY <1>5, <2>2
  <2>5. PathOf[Parent[d]] = PathOf[Parent[e]] /\ name[d] = name[e]
    <3>1. name[d] \in DirNames /\ name[e] \in DirNames
      BY <2>2
    <3>2. PathOf[Parent[d]] \in Seq(DirNames) /\ PathOf[Parent[e]] \in Seq(DirNames)
      BY <1>3, <2>3
    <3>3. PICK p \in Seq(DirNames), q \in Seq(DirNames), m \in DirNames, k \in DirNames :
            p = PathOf[Parent[d]] /\ q = PathOf[Parent[e]] /\ m = name[d] /\ k = name[e]
      BY <3>1, <3>2
    <3>4. Append(p, m) = Append(q, k)
      BY <2>4, <3>3
    <3>5. p = q /\ m = k
      BY <3>4, AppendInjective
    <3> QED BY <3>3, <3>5
  <2>6. Parent[d] = Parent[e]
    BY <2>3, <2>5
  <2> QED BY <2>2, <2>5, <2>6 DEF Apart
<1> HIDE DEF T
<1>9. \A n \in Nat : n \in T
  <2>1. T \in SUBSET Nat
    BY DEF T
  <2> QED BY <1>7, <1>8, <2>1, EveryDepth
<1> QED BY <1>3, <1>9 DEF T

\* Names and places fit.
ScanInv ==
  /\ ScanAssumption
  /\ home \in [CloudFiles -> Homes \cup {Nowhere}]
  /\ name \in [Dirs -> DirNames] /\ Apart(name)

LEMMA ScanBegins == ScanAssumption /\ ScanInit => ScanInv
<1> SUFFICES ASSUME ScanAssumption, ScanInit PROVE ScanInv
  OBVIOUS
<1>1. name \in [Dirs -> DirNames] /\ Apart(name)
  BY DEF ScanAssumption, ScanInit
<1>2. home \in [CloudFiles -> Homes \cup {Nowhere}]
  BY DEF ScanInit
<1> QED BY <1>1, <1>2 DEF ScanInit, ScanInv

\* A change in the cloud.
SomethingMoves == PutFile \/ DeleteFile \/ RenameDir
LEMMA CloudStep ==
  ASSUME ScanInv, SomethingMoves
  PROVE  ScanInv' /\ strms' = strms /\ checked' = checked
<1> DEFINE Changed(h, n) == home' = h /\ name' = n /\ strms' = strms /\ checked' = checked
<1>1. ASSUME NEW h, NEW o, NEW n, CloudEvent(h, o, n) PROVE Changed(h, n)
  BY <1>1 DEF CloudEvent, diskVars
<1>2. CASE PutFile
  <2>1. PICK f \in CloudFiles, d \in Homes : Changed([home EXCEPT ![f] = d], name)
    BY <1>1, <1>2 DEF PutFile
  <2> QED BY <2>1 DEF ScanInv
<1>3. CASE DeleteFile
  <2>1. PICK f : Changed([home EXCEPT ![f] = Nowhere], name)
    BY <1>1, <1>3 DEF DeleteFile
  <2> QED BY <2>1 DEF ScanInv
<1>4. CASE RenameDir
  <2>1. PICK d \in Dirs, n \in DirNames :
          /\ \A e \in Dirs : Parent[e] = Parent[d] => name[e] # n
          /\ CloudEvent(home, recency, [name EXCEPT ![d] = n])
    BY <1>4 DEF RenameDir
  <2>2. Changed(home, [name EXCEPT ![d] = n])
    BY <1>1, <2>1
  <2>3. name' \in [Dirs -> DirNames]
    BY <2>2 DEF ScanInv
  <2>4. Apart(name')
    BY <2>1, <2>2 DEF ScanInv, Apart
  <2> QED BY <2>2, <2>3, <2>4 DEF ScanInv
<1> QED BY <1>2, <1>3, <1>4 DEF SomethingMoves

\* What is asked before a removal.
Asks == NotAsked \/ AskKept \/ LoadHere \/ LoadElsewhere \/ LookPage \/ LookRefused

\* The rest of the run writes STRM files and takes none away but those checked.
LEMMA RunStep ==
  ASSUME [ScanNext]_cloudScanVars, ~SomethingMoves
  PROVE  UNCHANGED cloudVars /\ strms \ strms' \subseteq checked /\ (~Asks => checked' \subseteq checked)
<1>1. CASE UNCHANGED cloudScanVars
  BY <1>1 DEF cloudScanVars, diskVars
<1>2. CASE ListPage \/ ListFails \/ ResolveDir \/ ListDone
  BY <1>2 DEF ListPage, ListFails, ResolveDir, ListDone, diskVars
<1>3. CASE EnterDir \/ DirPage \/ DirFails \/ RetryRound
  BY <1>3 DEF EnterDir, DirPage, DirFails, RetryRound, diskVars
<1>4. CASE Reconcile \/ WriteIndex \/ WriteStrm
  BY <1>4 DEF Reconcile, WriteIndex, WriteStrm
<1>5. CASE Trash \/ Download \/ PurgeOrphanEntries \/ Cancel
  BY <1>5 DEF Trash, Download, PurgeOrphanEntries, Cancel, LookFailed
<1>6. CASE Asks
  BY <1>6 DEF Asks, NotAsked, AskKept, LoadHere, LoadElsewhere, LoadFor, LookPage, LookRefused, diskVars
<1> QED BY <1>1, <1>2, <1>3, <1>4, <1>5, <1>6 DEF ScanNext, Asks, SomethingMoves

LEMMA AskingStays ==
  ASSUME Asks
  PROVE  UNCHANGED <<run, walk, items, rel, folders, hidden, strms, pathIndex, unwritten>>
BY DEF Asks, NotAsked, AskKept, LoadHere, LoadElsewhere, LoadFor, LookPage, LookRefused, diskVars, scanVars, listVars

LEMMA ScanStep ==
  ASSUME ScanInv, [ScanNext]_cloudScanVars
  PROVE  ScanInv'
<1>1. CASE SomethingMoves
  BY <1>1, CloudStep
<1>2. CASE ~SomethingMoves
  <2>1. home' = home /\ name' = name
    BY <1>2, RunStep DEF cloudVars
  <2> QED BY <2>1 DEF ScanInv
<1> QED BY <1>1, <1>2

-----------------------------------------------------------------------------
(* Lists and what is kept of them *)

LEMMA AppendedSet ==
  ASSUME NEW S, NEW s \in Seq(S), NEW e \in S
  PROVE  Append(s, e) \in Seq(S) /\ ToSet(Append(s, e)) = ToSet(s) \cup {e}
<1>1. Append(s, e) = s \o <<e>> /\ <<e>> \in Seq(S)
  BY AppendIsConcat
<1>2. ToSet(s \o <<e>>) = Range(s \o <<e>>) /\ ToSet(s) = Range(s) /\ Range(<<e>>) = {e}
  BY DEF ToSet, Range
<1>3. Append(s, e) \in Seq(S)
  BY AppendProperties
<1>4. Range(s \o <<e>>) = Range(s) \cup Range(<<e>>)
  BY <1>1, RangeConcatenation, SMTT(30)
<1>5. ToSet(Append(s, e)) = Range(s) \cup {e}
  BY <1>1, <1>2, <1>4
<1> QED BY <1>2, <1>3, <1>5

\* What is kept of the first entries of a list.
KeptTo(list, set, n, g) ==
  /\ g \in [0 .. n -> Seq(set)]
  /\ \A i \in 0 .. n : g[i] = IF i = 0 THEN <<>>
                              ELSE IF list[i] \in set THEN Append(g[i - 1], list[i]) ELSE g[i - 1]

LEMMA KeepsOn ==
  ASSUME NEW list, NEW set, NEW n \in Nat, NEW g, KeptTo(list, set, n, g)
  PROVE  \E h : KeptTo(list, set, n + 1, h)
<1> DEFINE last == IF list[n + 1] \in set THEN Append(g[n], list[n + 1]) ELSE g[n]
           h == [i \in 0 .. n + 1 |-> IF i = n + 1 THEN last ELSE g[i]]
<1>1. g[n] \in Seq(set) /\ \A i \in 0 .. n : g[i] \in Seq(set)
  BY DEF KeptTo
<1>2. last \in Seq(set)
  <2>1. CASE list[n + 1] \notin set
    BY <1>1, <2>1
  <2>2. CASE list[n + 1] \in set
    <3>1. PICK s \in Seq(set), e \in set : s = g[n] /\ e = list[n + 1]
      BY <1>1, <2>2
    <3>2. Append(s, e) \in Seq(set)
      BY AppendProperties
    <3> QED BY <2>2, <3>1, <3>2
  <2> QED BY <2>1, <2>2
<1> HIDE DEF last
<1>3. h \in [0 .. n + 1 -> Seq(set)]
  BY <1>1, <1>2
<1>4. \A i \in 0 .. n : h[i] = g[i]
  OBVIOUS
<1>5. \A i \in 0 .. n : h[i] = IF i = 0 THEN <<>>
                               ELSE IF list[i] \in set THEN Append(h[i - 1], list[i]) ELSE h[i - 1]
  <2> TAKE i \in 0 .. n
  <2>1. CASE i = 0
    BY <1>4, <2>1 DEF KeptTo
  <2>2. CASE i # 0
    <3>1. i - 1 \in 0 .. n
      BY <2>2
    <3>2. h[i - 1] = g[i - 1] /\ h[i] = g[i]
      BY <1>4, <3>1
    <3> HIDE DEF h
    <3> QED BY <2>2, <3>2 DEF KeptTo
  <2> QED BY <2>1, <2>2
<1>6. h[n + 1] = IF list[n + 1] \in set THEN Append(h[n], list[n + 1]) ELSE h[n]
  BY <1>4 DEF last
<1> HIDE DEF h
<1>7. KeptTo(list, set, n + 1, h)
  <2>1. \A i \in 0 .. n + 1 : i \in 0 .. n \/ i = n + 1
    OBVIOUS
  <2>2. n + 1 # 0 /\ (n + 1) - 1 = n
    OBVIOUS
  <2> QED BY <1>3, <1>5, <1>6, <2>1, <2>2 DEF KeptTo
<1> QED BY <1>7

LEMMA KeptOnes ==
  ASSUME NEW list, NEW set, Len(list) \in Nat
  PROVE  Filtered(list, set) = [i \in 0 .. Len(list) |->
           IF i = 0 THEN <<>>
           ELSE IF list[i] \in set THEN Append(Filtered(list, set)[i - 1], list[i]) ELSE Filtered(list, set)[i - 1]]
<1> DEFINE T == {n \in Nat : \E g : KeptTo(list, set, n, g)}
<1>1. 0 \in T
  <2>1. KeptTo(list, set, 0, [i \in 0 .. 0 |-> <<>>])
    BY DEF KeptTo
  <2> QED BY <2>1
<1>2. \A n \in T : n + 1 \in T
  BY KeepsOn
<1> HIDE DEF T
<1>3. Len(list) \in T
  <2>1. T \in SUBSET Nat
    BY DEF T
  <2> QED BY <1>1, <1>2, <2>1, EveryDepth
<1>4. PICK g : KeptTo(list, set, Len(list), g)
  BY <1>3 DEF T
<1>5. g = [i \in 0 .. Len(list) |->
             IF i = 0 THEN <<>> ELSE IF list[i] \in set THEN Append(g[i - 1], list[i]) ELSE g[i - 1]]
  BY <1>4 DEF KeptTo
<1> QED BY <1>5 DEF Filtered

\* Exactly what is in the set is kept.
LEMMA KeptFit ==
  ASSUME NEW list, NEW set, Len(list) \in Nat
  PROVE  \A n \in 0 .. Len(list) :
           /\ Filtered(list, set)[n] \in Seq(set)
           /\ ToSet(Filtered(list, set)[n]) = {list[i] : i \in 1 .. n} \cap set
<1> DEFINE K == Filtered(list, set)
           Fits(n) == K[n] \in Seq(set) /\ ToSet(K[n]) = {list[i] : i \in 1 .. n} \cap set
           T == {n \in Nat : n <= Len(list) => Fits(n)}
<1>0. K = [i \in 0 .. Len(list) |->
             IF i = 0 THEN <<>> ELSE IF list[i] \in set THEN Append(K[i - 1], list[i]) ELSE K[i - 1]]
  BY KeptOnes
<1> HIDE DEF K
<1>1. /\ K[0] = <<>>
      /\ \A i \in 1 .. Len(list) : K[i] = IF list[i] \in set THEN Append(K[i - 1], list[i]) ELSE K[i - 1]
  <2>1. 0 \in 0 .. Len(list) /\ \A i \in 1 .. Len(list) : i \in 0 .. Len(list) /\ i # 0
    OBVIOUS
  <2>2. K[0] = <<>>
    BY <1>0, <2>1
  <2>3. ASSUME NEW i \in 1 .. Len(list)
        PROVE  K[i] = IF list[i] \in set THEN Append(K[i - 1], list[i]) ELSE K[i - 1]
    BY <1>0, <2>1, Zenon
  <2> QED BY <2>2, <2>3
<1>2. 0 \in T
  <2>1. <<>> \in Seq(set) /\ ToSet(<<>>) = {} /\ {list[i] : i \in 1 .. 0} = {}
    BY EmptySeq DEF ToSet
  <2> QED BY <1>1, <2>1
<1>3. ASSUME NEW n \in T PROVE n + 1 \in T
  <2> SUFFICES ASSUME n + 1 <= Len(list) PROVE Fits(n + 1)
    OBVIOUS
  <2>1. n \in Nat /\ Fits(n) /\ n + 1 \in 1 .. Len(list) /\ (n + 1) - 1 = n
    OBVIOUS
  <2>2. K[n + 1] = IF list[n + 1] \in set THEN Append(K[n], list[n + 1]) ELSE K[n]
    BY <1>1, <2>1
  <2>3. {list[i] : i \in 1 .. n + 1} = {list[i] : i \in 1 .. n} \cup {list[n + 1]}
    <3>1. 1 .. n + 1 = (1 .. n) \cup {n + 1}
      BY <2>1
    <3> QED BY <3>1
  <2>4. CASE list[n + 1] \notin set
    <3>1. K[n + 1] = K[n]
      BY <2>2, <2>4
    <3>2. {list[i] : i \in 1 .. n + 1} \cap set = {list[i] : i \in 1 .. n} \cap set
      BY <2>3, <2>4
    <3> QED BY <2>1, <3>1, <3>2
  <2>5. CASE list[n + 1] \in set
    <3>1. PICK s \in Seq(set), e \in set : s = K[n] /\ e = list[n + 1]
      BY <2>1, <2>5
    <3>2. Append(s, e) \in Seq(set) /\ ToSet(Append(s, e)) = ToSet(s) \cup {e}
      BY AppendedSet
    <3>3. K[n + 1] = Append(s, e)
      BY <2>2, <2>5, <3>1
    <3>4. {list[i] : i \in 1 .. n + 1} \cap set = ({list[i] : i \in 1 .. n} \cap set) \cup {e}
      BY <2>3, <2>5, <3>1
    <3> QED BY <2>1, <3>1, <3>2, <3>3, <3>4
  <2> QED BY <2>4, <2>5
<1> HIDE DEF T
<1>4. \A n \in Nat : n \in T
  <2>1. T \in SUBSET Nat
    BY DEF T
  <2> QED BY <1>2, <1>3, <2>1, EveryDepth
<1>5. ASSUME NEW n \in 0 .. Len(list) PROVE Fits(n)
  <2>1. n \in Nat /\ n <= Len(list)
    OBVIOUS
  <2>2. n \in T
    BY <1>4, <2>1
  <2> HIDE DEF Fits
  <2> QED BY <2>1, <2>2 DEF T
<1> QED BY <1>5 DEF K

LEMMA AmongIs ==
  ASSUME NEW set, NEW S, NEW list \in Seq(S)
  PROVE  Among(list, set) \in Seq(set) /\ ToSet(Among(list, set)) = ToSet(list) \cap set
<1>1. Len(list) \in Nat /\ DOMAIN list = 1 .. Len(list)
  BY LenProperties
<1>2. Len(list) \in 0 .. Len(list)
  BY <1>1
<1>3. ToSet(list) = {list[i] : i \in 1 .. Len(list)}
  BY <1>1 DEF ToSet
<1>4. \A n \in 0 .. Len(list) : Filtered(list, set)[n] \in Seq(set)
                               /\ ToSet(Filtered(list, set)[n]) = {list[i] : i \in 1 .. n} \cap set
  BY <1>1, KeptFit, SMTT(30)
<1>5. Filtered(list, set)[Len(list)] \in Seq(set)
      /\ ToSet(Filtered(list, set)[Len(list)]) = {list[i] : i \in 1 .. Len(list)} \cap set
  BY <1>2, <1>4
<1> QED BY <1>3, <1>5 DEF Among

LEMMA JoinedSet ==
  ASSUME NEW S, NEW s \in Seq(S), NEW t \in Seq(S)
  PROVE  s \o t \in Seq(S) /\ ToSet(s \o t) = ToSet(s) \cup ToSet(t)
<1>1. ToSet(s \o t) = Range(s \o t) /\ ToSet(s) = Range(s) /\ ToSet(t) = Range(t)
  BY DEF ToSet, Range
<1> QED BY <1>1, ConcatProperties, RangeConcatenation

\* All the elements of a finite set make a sequence.
LEMMA ListedSet ==
  ASSUME NEW S, IsFiniteSet(S)
  PROVE  SetToSeq(S) \in Seq(S) /\ ToSet(SetToSeq(S)) = S
<1> DEFINE n == Cardinality(S)
<1>1. n \in Nat /\ ExistsBijection(1 .. n, S)
  BY FS_CardinalityType
<1>2. \E f \in [1 .. n -> S] : IsInjective(f)
  BY <1>1 DEF ExistsBijection, Bijection, Injection
<1>3. SetToSeq(S) \in Injection(1 .. n, S)
  BY <1>2 DEF SetToSeq, Injection
<1>4. Cardinality(1 .. n) = n
  BY <1>1, FS_Interval
<1>5. SetToSeq(S) \in Surjection(1 .. n, S)
  BY <1>3, <1>4, FS_Injection
<1>6. SetToSeq(S) \in Seq(S)
  BY <1>1, <1>3, IsASeq DEF Injection
<1> QED BY <1>5, <1>6 DEF Surjection, ToSet

\* What is still to be listed, and what is being listed.
Ahead == ToSet(walk.stack) \cup ToSet(walk.retry)
Open == IF run.pc = "page" THEN {Last(walk.stack)} ELSE {}
Unsure == walk.failed \cup hidden

\* So far a list was read, and every count that came with it was right.
Read(list) == {list[i] : i \in 1 .. run.off}
Counted(list) == run.off \in 0 .. Len(list) /\ run.count \in {0, Len(list)}

\* A directory was read to its end.
Listed(d) ==
  /\ FilesIn(d) \subseteq FoundFiles
  /\ \A e \in Dirs : Parent[e] = d => e \in walk.seen \cup Ahead \cup hidden

\* All files that are there are in the order of their times.
CloudKnown == recency \in Seq(CloudFiles) /\ Placed \subseteq ToSet(recency)
\* The one list: what was read of it was found, and all of it at its end.
ListSound ==
  run.pc \in {"list", "paths"} =>
    /\ Counted(recency) /\ Read(recency) \subseteq FoundFiles
    /\ run.pc = "paths" => run.off = Len(recency)
\* What was seen and is not open was read to its end, or is known to be unsure.
WalkSound ==
  run.pc \in {"walk", "page"} =>
    /\ walk.stack \in Seq(Homes) /\ walk.retry \in Seq(Homes) /\ walk.seen \subseteq Homes
    /\ Root \in walk.seen \cup Ahead
    /\ \A d \in walk.seen \ (Unsure \cup Open) : Listed(d)
\* A directory of which some pages were read.
PageSound ==
  run.pc = "page" =>
    /\ walk.stack # <<>> /\ Dir \in walk.seen
    /\ Counted(DirEntries(Dir))
    /\ Read(DirEntries(Dir)) \cap CloudFiles \subseteq FoundFiles
    /\ Read(DirEntries(Dir)) \cap Dirs \subseteq walk.seen \cup Ahead \cup hidden
Shaped ==
  /\ run = [pc |-> run.pc, off |-> run.off, count |-> run.count, prev |-> run.prev, blank |-> run.blank]
  /\ walk = [stack |-> walk.stack, seen |-> walk.seen, retry |-> walk.retry, failed |-> walk.failed,
             streak |-> walk.streak, again |-> walk.again]

\* What a scan knows while nothing changes in the cloud.
Knows == Shaped /\ CloudKnown /\ ListSound /\ WalkSound /\ PageSound /\ FoundOrReported

-----------------------------------------------------------------------------
(* The last of a sequence and what is before it *)

LEMMA LastOf ==
  ASSUME NEW S, NEW s \in Seq(S), s # <<>>
  PROVE  /\ Front(s) \in Seq(S) /\ Last(s) \in S
         /\ ToSet(s) = ToSet(Front(s)) \cup {Last(s)}
<1>1. Len(s) \in Nat \ {0} /\ DOMAIN s = 1 .. Len(s) /\ \A i \in 1 .. Len(s) : s[i] \in S
  BY EmptySeq, LenProperties, ElementOfSeq
<1>2. /\ Front(s) \in Seq(S) /\ Len(Front(s)) = Len(s) - 1
      /\ \A i \in 1 .. Len(s) - 1 : Front(s)[i] = s[i]
  <2>1. /\ SubSeq(s, 1, Len(s) - 1) \in Seq(S)
        /\ Len(SubSeq(s, 1, Len(s) - 1)) = IF 1 <= Len(s) - 1 THEN Len(s) - 1 - 1 + 1 ELSE 0
        /\ \A i \in 1 .. Len(s) - 1 - 1 + 1 : SubSeq(s, 1, Len(s) - 1)[i] = s[1 + i - 1]
    BY <1>1, SubSeqProperties
  <2> QED BY <1>1, <2>1 DEF Front
<1>3. Last(s) = s[Len(s)]
  BY DEF Last
<1>4. DOMAIN Front(s) = 1 .. Len(s) - 1
  BY <1>2, LenProperties
<1>5. 1 .. Len(s) = (1 .. Len(s) - 1) \cup {Len(s)}
  BY <1>1
<1>6. ToSet(s) = {s[i] : i \in 1 .. Len(s) - 1} \cup {s[Len(s)]}
  BY <1>1, <1>5 DEF ToSet
<1>7. ToSet(Front(s)) = {s[i] : i \in 1 .. Len(s) - 1}
  BY <1>2, <1>4 DEF ToSet
<1> QED BY <1>1, <1>2, <1>3, <1>6, <1>7

LEMMA Pushed ==
  ASSUME NEW S, NEW s \in Seq(S), NEW e \in S
  PROVE  /\ s \o <<e>> \in Seq(S) /\ s \o <<e>> # <<>>
         /\ Last(s \o <<e>>) = e /\ Front(s \o <<e>>) = s
         /\ ToSet(s \o <<e>>) = ToSet(s) \cup {e}
<1>1. s \o <<e>> = Append(s, e)
  BY AppendIsConcat
<1>2. /\ Append(s, e) \in Seq(S) /\ Append(s, e) # <<>> /\ Len(Append(s, e)) = Len(s) + 1
      /\ \A i \in 1 .. Len(s) : Append(s, e)[i] = s[i]
      /\ Append(s, e)[Len(s) + 1] = e
  BY AppendProperties
<1>3. Len(s) \in Nat
  BY LenProperties
<1>4. Last(Append(s, e)) = e
  BY <1>2 DEF Last
<1>5. Front(Append(s, e)) = SubSeq(Append(s, e), 1, Len(s))
  BY <1>2, <1>3 DEF Front
<1>6. /\ SubSeq(Append(s, e), 1, Len(s)) \in Seq(S)
      /\ Len(SubSeq(Append(s, e), 1, Len(s))) = Len(s)
      /\ \A i \in 1 .. Len(s) : SubSeq(Append(s, e), 1, Len(s))[i] = s[i]
  <2>1. \A i \in 1 .. Len(s) : Append(s, e)[i] \in S
    BY <1>2, ElementOfSeq
  <2>2. /\ SubSeq(Append(s, e), 1, Len(s)) \in Seq(S)
        /\ Len(SubSeq(Append(s, e), 1, Len(s))) = IF 1 <= Len(s) THEN Len(s) - 1 + 1 ELSE 0
        /\ \A i \in 1 .. Len(s) - 1 + 1 : SubSeq(Append(s, e), 1, Len(s))[i] = Append(s, e)[1 + i - 1]
    BY <1>3, <2>1, SubSeqProperties
  <2> QED BY <1>2, <1>3, <2>2
<1>7. Front(Append(s, e)) = s
  BY <1>5, <1>6, SeqEqual
<1>8. ToSet(Append(s, e)) = ToSet(s) \cup {e}
  BY AppendedSet
<1> QED BY <1>1, <1>2, <1>4, <1>7, <1>8

-----------------------------------------------------------------------------
(* Lists, and how far they were read *)

LEMMA PageOf ==
  ASSUME NEW S, NEW list \in Seq(S), NEW off \in 0 .. Len(list), Cap \in Nat \ {0}
  PROVE  /\ Page(list, off) \in Seq(S)
         /\ off + Len(Page(list, off)) \in 0 .. Len(list)
         /\ {list[i] : i \in 1 .. off + Len(Page(list, off))} = {list[i] : i \in 1 .. off} \cup ToSet(Page(list, off))
         /\ Page(list, off) = <<>> => off = Len(list)
<1>1. Len(list) \in Nat /\ \A i \in 1 .. Len(list) : list[i] \in S
  BY LenProperties, ElementOfSeq
<1>2. PICK n \in off .. Len(list) : n = IF off + Cap < Len(list) THEN off + Cap ELSE Len(list)
  BY <1>1
<1>3. Page(list, off) = SubSeq(list, off + 1, n)
  BY <1>2 DEF Page
<1>4. /\ Page(list, off) \in Seq(S) /\ Len(Page(list, off)) = n - off
      /\ \A i \in 1 .. n - off : Page(list, off)[i] = list[off + i]
  <2>1. PICK m \in Nat : m = off + 1
    BY <1>1
  <2>2. n \in Nat /\ m <= n + 1 /\ \A i \in m .. n : list[i] \in S
    BY <1>1, <1>2, <2>1, SMTT(30)
  <2>3. /\ SubSeq(list, m, n) \in Seq(S)
        /\ Len(SubSeq(list, m, n)) = IF m <= n THEN n - m + 1 ELSE 0
        /\ \A i \in 1 .. n - m + 1 : SubSeq(list, m, n)[i] = list[m + i - 1]
    BY <2>2, SubSeqProperties
  <2>4. Page(list, off) = SubSeq(list, m, n)
    BY <1>3, <2>1
  <2>5. Page(list, off) \in Seq(S) /\ Len(Page(list, off)) = n - off
    BY <1>1, <2>1, <2>2, <2>3, <2>4, SMTT(30)
  <2>6. ASSUME NEW i \in 1 .. n - off PROVE Page(list, off)[i] = list[off + i]
    <3>1. off \in Nat /\ n - m + 1 = n - off
      BY <1>1, <2>1, <2>2, SMTT(30)
    <3>2. i \in 1 .. n - m + 1 /\ i \in Nat
      BY <2>2, <3>1
    <3>3. m + i - 1 = off + i
      BY <2>1, <3>1, <3>2, SMTT(30)
    <3> QED BY <2>3, <2>4, <3>2, <3>3
  <2> QED BY <2>5, <2>6
<1>5. DOMAIN Page(list, off) = 1 .. n - off
  BY <1>4, LenProperties
<1>6. off + Len(Page(list, off)) = n
  BY <1>1, <1>2, <1>4, SMTT(30)
<1>7. \A i \in off + 1 .. n : i - off \in 1 .. n - off /\ list[i] = Page(list, off)[i - off]
  BY <1>1, <1>2, <1>4
<1>8. ToSet(Page(list, off)) = {list[i] : i \in off + 1 .. n}
  <2>1. ASSUME NEW j \in 1 .. n - off PROVE Page(list, off)[j] \in {list[i] : i \in off + 1 .. n}
    <3>1. off + j \in off + 1 .. n
      BY <1>1, <1>2, SMTT(30)
    <3>2. Page(list, off)[j] = list[off + j]
      BY <1>4
    <3> QED BY <3>1, <3>2
  <2> QED BY <1>5, <1>7, <2>1 DEF ToSet
<1>9. 1 .. n = (1 .. off) \cup (off + 1 .. n)
  BY <1>1, <1>2
<1>10. {list[i] : i \in 1 .. n} = {list[i] : i \in 1 .. off} \cup ToSet(Page(list, off))
  BY <1>8, <1>9
<1>11. Page(list, off) = <<>> => off = Len(list)
  <2>1. Page(list, off) = <<>> => n = off
    BY <1>1, <1>2, <1>4
  <2> QED BY <1>1, <1>2, <2>1
<1> QED BY <1>1, <1>2, <1>4, <1>6, <1>10, <1>11

\* An answer reads on, and has the right count or none.
LEMMA AnswerReads ==
  ASSUME ScanAssumption, NEW S, NEW list \in Seq(S), NEW off \in 0 .. Len(list), NEW a \in Answers(list, off)
  PROVE  /\ a.data \in Seq(S) /\ a.count \in {0, Len(list)}
         /\ off + Len(a.data) \in 0 .. Len(list)
         /\ {list[i] : i \in 1 .. off + Len(a.data)} = {list[i] : i \in 1 .. off} \cup ToSet(a.data)
<1>1. a.data \in {Page(list, off), <<>>} /\ a.count \in {0, Len(list)}
  BY DEF Answers
<1>2. Cap \in Nat \ {0}
  BY DEF ScanAssumption
<1>3. CASE a.data = Page(list, off)
  <2>1. /\ Page(list, off) \in Seq(S) /\ off + Len(Page(list, off)) \in 0 .. Len(list)
        /\ {list[i] : i \in 1 .. off + Len(Page(list, off))} = {list[i] : i \in 1 .. off} \cup ToSet(Page(list, off))
    BY <1>2, PageOf
  <2> QED BY <1>1, <1>3, <2>1
<1>4. CASE a.data = <<>>
  <2>1. <<>> \in Seq(S) /\ Len(<<>>) = 0 /\ ToSet(<<>>) = {}
    BY EmptySeq DEF ToSet
  <2>2. off + 0 = off
    OBVIOUS
  <2> QED BY <1>1, <1>4, <2>1, <2>2
<1> QED BY <1>1, <1>3, <1>4

\* What a directory's list has.
LEMMA EntriesAre ==
  ASSUME ScanInv, CloudKnown, NEW d \in Homes
  PROVE  /\ DirEntries(d) \in Seq(Dirs \cup CloudFiles)
         /\ ToSet(DirEntries(d)) = {e \in Dirs : Parent[e] = d} \cup FilesIn(d)
<1> DEFINE K == {e \in Dirs : Parent[e] = d}
<1>1. IsFiniteSet(K)
  BY FS_Subset DEF ScanInv, ScanAssumption
<1>2. Below(d) \in Seq(K) /\ ToSet(Below(d)) = K
  BY <1>1, ListedSet DEF Below
<1>3. FilesIn(d) \subseteq ToSet(recency) /\ FilesIn(d) \subseteq CloudFiles
  BY DEF CloudKnown, FilesIn, Placed, ScanInv, ScanAssumption
<1>4. Among(recency, FilesIn(d)) \in Seq(FilesIn(d)) /\ ToSet(Among(recency, FilesIn(d))) = FilesIn(d)
  <2>1. recency \in Seq(CloudFiles)
    BY DEF CloudKnown
  <2>2. Among(recency, FilesIn(d)) \in Seq(FilesIn(d))
        /\ ToSet(Among(recency, FilesIn(d))) = ToSet(recency) \cap FilesIn(d)
    BY <2>1, AmongIs
  <2> QED BY <1>3, <2>2
<1>5. Below(d) \in Seq(Dirs \cup CloudFiles) /\ Among(recency, FilesIn(d)) \in Seq(Dirs \cup CloudFiles)
  BY <1>2, <1>3, <1>4, SeqMonotonic
<1> QED BY <1>2, <1>4, <1>5, JoinedSet DEF DirEntries

-----------------------------------------------------------------------------
(* The steps of a run while nothing changes in the cloud *)

LEMMA CloudStays ==
  ASSUME UNCHANGED cloudVars
  PROVE  /\ home' = home /\ recency' = recency /\ Placed' = Placed
         /\ CloudKnown => CloudKnown'
         /\ \A d : FilesIn(d)' = FilesIn(d) /\ DirEntries(d)' = DirEntries(d)
<1>1. home' = home /\ recency' = recency
  BY DEF cloudVars
<1>2. \A d : FilesIn(d)' = FilesIn(d)
  BY <1>1 DEF FilesIn
<1>3. \A d : DirEntries(d)' = DirEntries(d)
  BY <1>1, <1>2 DEF DirEntries, Among, Filtered, Below
<1> QED BY <1>1, <1>2, <1>3 DEF CloudKnown, Placed

LEMMA NothingMoves ==
  ASSUME Knows, UNCHANGED <<cloudVars, run, walk, items, hidden>>
  PROVE  Knows'
<1>1. Placed' = Placed /\ CloudKnown' /\ recency' = recency /\ home' = home
  BY CloudStays DEF Knows
<1>2. run' = run /\ walk' = walk /\ items' = items /\ hidden' = hidden
  OBVIOUS
<1>3. FoundFiles' = FoundFiles /\ Ahead' = Ahead /\ Open' = Open /\ Unsure' = Unsure /\ Dir' = Dir
  BY <1>2 DEF FoundFiles, Ahead, Open, Unsure, Dir
<1>4. \A d : FilesIn(d)' = FilesIn(d) /\ DirEntries(d)' = DirEntries(d)
  BY CloudStays
<1>5. \A d : Listed(d)' = Listed(d)
  BY <1>2, <1>3, <1>4 DEF Listed
<1>6. DirEntries(Dir)' = DirEntries(Dir)
  BY <1>1, <1>2, <1>3 DEF DirEntries, Among, Filtered, Below, FilesIn
<1>7. Shaped' /\ ListSound' /\ FoundOrReported'
  BY <1>1, <1>2, <1>3 DEF Knows, Shaped, ListSound, FoundOrReported, Counted, Read, cloudVars
<1>8. WalkSound'
  BY <1>2, <1>3, <1>5 DEF Knows, WalkSound
<1>9. PageSound'
  <2>1. Counted(DirEntries(Dir))' = Counted(DirEntries(Dir)) /\ Read(DirEntries(Dir))' = Read(DirEntries(Dir))
    BY <1>2, <1>6 DEF Counted, Read
  <2> QED BY <1>2, <1>3, <2>1 DEF Knows, PageSound
<1> QED BY <1>1, <1>7, <1>8, <1>9 DEF Knows

LEMMA RunFails ==
  ASSUME Knows, UNCHANGED <<cloudVars, walk>>, run' = [run EXCEPT !.pc = "failed"]
  PROVE  Knows'
<1>1. run'.pc = "failed" /\ Shaped'
  BY DEF Knows, Shaped
<1> QED BY <1>1, CloudStays DEF Knows, ListSound, WalkSound, PageSound, FoundOrReported

\* What follows the scan: its result stays as it is.
LEMMA RunGoesOn ==
  ASSUME Knows, UNCHANGED <<cloudVars, walk, items, hidden>>, NEW pc \in {"clean", "write", "done"},
         run' = [run EXCEPT !.pc = pc], run.pc \in {"found", "clean", "write"}
  PROVE  Knows'
<1>1. run'.pc = pc /\ Shaped'
  BY DEF Knows, Shaped
<1>2. FoundOrReported'
  BY <1>1, CloudStays DEF Knows, FoundOrReported, FoundFiles, cloudVars
<1> QED BY <1>1, <1>2, CloudStays DEF Knows, ListSound, WalkSound, PageSound

LEMMA WalkBegins ==
  ASSUME Knows, UNCHANGED <<cloudVars, hidden>>, ToWalk
  PROVE  Knows'
<1>1. run'.pc = "walk" /\ Shaped'
  BY DEF ToWalk, FirstPage, Walk0, Shaped
<1>2. walk'.stack = <<Root>> /\ walk'.retry = <<>> /\ walk'.seen = {}
  BY DEF ToWalk, Walk0
<1>3. <<Root>> \in Seq(Homes) /\ ToSet(<<Root>>) = {Root} /\ <<>> \in Seq(Homes)
  BY EmptySeq DEF ToSet, Homes
<1>4. Root \in Ahead'
  BY <1>2, <1>3 DEF Ahead
<1>5. WalkSound'
  BY <1>2, <1>3, <1>4 DEF WalkSound
<1> QED BY <1>1, <1>5, CloudStays DEF Knows, ListSound, PageSound, FoundOrReported

-----------------------------------------------------------------------------
(* The one list *)

LEMMA ListPageReads ==
  ASSUME ScanInv, Knows, ListPage, UNCHANGED cloudVars
  PROVE  Knows'
<1>1. PICK a \in Answers(recency, run.off) :
        LET count == IF a.count > run.count THEN a.count ELSE run.count
            first == <<Head(a.data), Len(a.data)>>
        IN \/ /\ a.data = <<>>
              /\ run' = [run EXCEPT !.blank = TRUE, !.count = count]
              /\ UNCHANGED <<walk, items>>
           \/ /\ a.data = <<>> /\ ~Incomplete
              /\ run' = [run EXCEPT !.pc = "paths", !.count = count] /\ UNCHANGED <<walk, items>>
           \/ ToWalk
           \/ /\ run' = [run EXCEPT !.blank = FALSE, !.count = count, !.prev = first,
                                    !.off = run.off + Len(a.data)]
              /\ items' = items \cup {[file |-> f, dir |-> home[f]] : f \in ToSet(a.data)}
              /\ UNCHANGED walk
  BY DEF ListPage, Larger, FirstOf
<1>2. run.pc = "list" /\ hidden' = hidden
  BY DEF ListPage
<1>3. Counted(recency) /\ Read(recency) \subseteq FoundFiles /\ recency \in Seq(CloudFiles)
  BY <1>2 DEF Knows, ListSound, CloudKnown
<1>4. /\ a.data \in Seq(CloudFiles) /\ a.count \in {0, Len(recency)}
      /\ run.off + Len(a.data) \in 0 .. Len(recency)
      /\ {recency[i] : i \in 1 .. run.off + Len(a.data)} = Read(recency) \cup ToSet(a.data)
  BY <1>3, AnswerReads DEF ScanInv, Counted, Read
<1>5. Len(recency) \in Nat /\ recency' = recency
  BY <1>3, LenProperties, CloudStays
<1> DEFINE count == IF a.count > run.count THEN a.count ELSE run.count
<1>6. count \in {0, Len(recency)}
  BY <1>3, <1>4, <1>5 DEF Counted
<1> HIDE DEF count
<1>7. CASE /\ run' = [run EXCEPT !.blank = TRUE, !.count = count]
           /\ UNCHANGED <<walk, items>>
  <2>1. run'.pc = "list" /\ run'.off = run.off /\ run'.count = count /\ Shaped'
    BY <1>2, <1>7 DEF Knows, Shaped
  <2>2. ListSound'
    BY <1>3, <1>5, <1>6, <1>7, <2>1 DEF ListSound, Counted, Read, FoundFiles
  <2> QED BY <2>1, <2>2, CloudStays DEF Knows, WalkSound, PageSound, FoundOrReported
<1>8. CASE /\ ~Incomplete
           /\ run' = [run EXCEPT !.pc = "paths", !.count = count] /\ UNCHANGED <<walk, items>>
  <2>1. run'.pc = "paths" /\ run'.off = run.off /\ run'.count = count /\ Shaped'
    BY <1>8 DEF Knows, Shaped
  <2>2. run.off = Len(recency)
    BY <1>3, <1>5, <1>8 DEF Incomplete, Counted
  <2>3. ListSound'
    BY <1>3, <1>5, <1>6, <1>8, <2>1, <2>2 DEF ListSound, Counted, Read, FoundFiles
  <2> QED BY <2>1, <2>3, CloudStays DEF Knows, WalkSound, PageSound, FoundOrReported
<1>9. CASE ToWalk
  BY <1>2, <1>9, WalkBegins
<1>10. CASE /\ run' = [run EXCEPT !.blank = FALSE, !.count = count, !.prev = <<Head(a.data), Len(a.data)>>,
                                  !.off = run.off + Len(a.data)]
            /\ items' = items \cup {[file |-> f, dir |-> home[f]] : f \in ToSet(a.data)}
            /\ UNCHANGED walk
  <2>1. run'.pc = "list" /\ run'.off = run.off + Len(a.data) /\ run'.count = count /\ Shaped'
    BY <1>2, <1>10 DEF Knows, Shaped
  <2>2. FoundFiles' = FoundFiles \cup ToSet(a.data)
    <3>1. PICK seen : seen = ToSet(a.data)
      OBVIOUS
    <3>2. items' = items \cup {[file |-> f, dir |-> home[f]] : f \in seen}
      BY <1>10, <3>1
    <3>3. \A f : [file |-> f, dir |-> home[f]].file = f
      OBVIOUS
    <3>4. {i.file : i \in {[file |-> f, dir |-> home[f]] : f \in seen}} = seen
      BY <3>3
    <3> QED BY <3>1, <3>2, <3>4 DEF FoundFiles
  <2>3. Read(recency)' = Read(recency) \cup ToSet(a.data)
    BY <1>4, <1>5, <2>1 DEF Read
  <2>4. ListSound'
    BY <1>3, <1>4, <1>5, <1>6, <2>1, <2>2, <2>3 DEF ListSound, Counted
  <2> QED BY <2>1, <2>4, CloudStays DEF Knows, WalkSound, PageSound, FoundOrReported
<1> QED BY <1>1, <1>7, <1>8, <1>9, <1>10 DEF count

LEMMA ListEnds ==
  ASSUME ScanInv, Knows, ListDone, UNCHANGED cloudVars
  PROVE  Knows'
<1>1. run.pc = "paths" /\ run' = [run EXCEPT !.pc = "found"] /\ UNCHANGED <<walk, items, hidden>>
  BY DEF ListDone, listVars
<1>2. run'.pc = "found" /\ Shaped'
  BY <1>1 DEF Knows, Shaped
<1>3. Placed \subseteq ToSet(recency) /\ recency \in Seq(CloudFiles) /\ run.off = Len(recency)
      /\ Read(recency) \subseteq FoundFiles
  BY <1>1 DEF Knows, CloudKnown, ListSound
<1>4. ToSet(recency) = Read(recency)
  BY <1>3, LenProperties DEF ToSet, Read
<1>5. FoundOrReported'
  BY <1>1, <1>3, <1>4, CloudStays DEF FoundOrReported, FoundFiles
<1> QED BY <1>2, <1>5, CloudStays DEF Knows, ListSound, WalkSound, PageSound

-----------------------------------------------------------------------------
(* The walk *)

\* What was read to its end stays so while more is found and seen.
LEMMA ListedStays ==
  ASSUME NEW d, Listed(d), UNCHANGED cloudVars, hidden \subseteq hidden',
         FoundFiles \subseteq FoundFiles', walk.seen \cup Ahead \subseteq walk'.seen \cup Ahead'
  PROVE  Listed(d)'
<1>1. FilesIn(d)' = FilesIn(d)
  BY CloudStays
<1> QED BY <1>1 DEF Listed

LEMMA DirStays ==
  ASSUME UNCHANGED cloudVars, Dir' = Dir
  PROVE  DirEntries(Dir)' = DirEntries(Dir)
BY DEF cloudVars, DirEntries, Among, Filtered, Below, FilesIn

LEMMA DirEntered ==
  ASSUME ScanInv, Knows, EnterDir, UNCHANGED cloudVars
  PROVE  Knows'
<1>1. /\ run.pc = "walk" /\ walk.stack # <<>> /\ items' = items /\ hidden' = hidden
      /\ walk.stack \in Seq(Homes) /\ walk.retry \in Seq(Homes) /\ walk.seen \subseteq Homes
      /\ \A d \in walk.seen \ Unsure : Listed(d)
      /\ Root \in walk.seen \cup Ahead
  BY DEF EnterDir, Knows, WalkSound, Open
<1>2. Front(walk.stack) \in Seq(Homes) /\ Dir \in Homes /\ ToSet(walk.stack) = ToSet(Front(walk.stack)) \cup {Dir}
  BY <1>1, LastOf DEF Dir
<1>3. FoundFiles' = FoundFiles
  BY <1>1 DEF FoundFiles
<1>4. CASE Dir \in walk.seen
  <2>1. run' = run /\ walk' = [walk EXCEPT !.stack = Front(walk.stack)]
    BY <1>4 DEF EnterDir, Pop
  <2>2. /\ walk'.stack = Front(walk.stack) /\ walk'.seen = walk.seen
        /\ walk'.retry = walk.retry /\ walk'.failed = walk.failed /\ Shaped'
    BY <2>1 DEF Knows, Shaped
  <2>3. walk'.seen \cup Ahead' = walk.seen \cup Ahead /\ Unsure' = Unsure /\ Open' = {}
    BY <1>1, <1>2, <1>4, <2>1, <2>2 DEF Ahead, Unsure, Open
  <2>4. \A d \in walk'.seen \ (Unsure' \cup Open') : Listed(d)'
    BY <1>1, <1>3, <2>2, <2>3, ListedStays
  <2>5. WalkSound'
    BY <1>1, <1>2, <2>2, <2>3, <2>4 DEF WalkSound
  <2>6. run'.pc = "walk"
    BY <1>1, <2>1
  <2> QED BY <2>2, <2>5, <2>6, CloudStays DEF Knows, ListSound, PageSound, FoundOrReported
<1>5. CASE Dir \notin walk.seen
  <2>1. run' = [FirstPage EXCEPT !.pc = "page"] /\ walk' = [walk EXCEPT !.seen = @ \cup {Dir}]
    BY <1>5 DEF EnterDir
  <2>2. /\ walk'.stack = walk.stack /\ walk'.seen = walk.seen \cup {Dir}
        /\ walk'.retry = walk.retry /\ walk'.failed = walk.failed
    BY <2>1 DEF Knows, Shaped
  <2>3. run'.pc = "page" /\ run'.off = 0 /\ run'.count = 0 /\ Shaped'
    BY <2>1 DEF FirstPage, Knows, Shaped
  <2>4. /\ walk.seen \cup Ahead \subseteq walk'.seen \cup Ahead' /\ Unsure' = Unsure
        /\ Open' = {Dir} /\ Dir' = Dir
    BY <1>1, <2>2, <2>3 DEF Ahead, Unsure, Open, Dir
  <2>5. \A d \in walk'.seen \ (Unsure' \cup Open') : Listed(d)'
    BY <1>1, <1>3, <2>2, <2>4, ListedStays
  <2>6. WalkSound'
    BY <1>1, <1>2, <2>2, <2>4, <2>5 DEF WalkSound
  <2>7. PageSound'
    <3>1. DirEntries(Dir)' \in Seq(Dirs \cup CloudFiles)
      BY <1>2, <2>4, DirStays, EntriesAre DEF Knows
    <3>2. Len(DirEntries(Dir)') \in Nat
      BY <3>1, LenProperties
    <3>3. Counted(DirEntries(Dir))'
      BY <2>3, <3>2 DEF Counted
    <3>4. Read(DirEntries(Dir))' = {}
      BY <2>3 DEF Read
    <3> QED BY <1>1, <2>2, <2>4, <3>3, <3>4 DEF PageSound
  <2> QED BY <2>3, <2>6, <2>7, CloudStays DEF Knows, ListSound, FoundOrReported
<1> QED BY <1>4, <1>5

\* A page of a directory was read, and more is to come or it is left.
LEMMA DirPageReads ==
  ASSUME ScanInv, Knows, DirPage, UNCHANGED cloudVars
  PROVE  Knows'
<1>1. /\ run.pc = "page" /\ walk.stack # <<>> /\ Dir \in walk.seen
      /\ walk.stack \in Seq(Homes) /\ walk.retry \in Seq(Homes) /\ walk.seen \subseteq Homes
      /\ Root \in walk.seen \cup Ahead
      /\ \A d \in walk.seen \ (Unsure \cup {Dir}) : Listed(d)
      /\ Counted(DirEntries(Dir))
      /\ Read(DirEntries(Dir)) \cap CloudFiles \subseteq FoundFiles
      /\ Read(DirEntries(Dir)) \cap Dirs \subseteq walk.seen \cup Ahead \cup hidden
  BY DEF DirPage, Knows, WalkSound, PageSound, Open, Dir
<1>2. Front(walk.stack) \in Seq(Homes) /\ Dir \in Homes /\ ToSet(walk.stack) = ToSet(Front(walk.stack)) \cup {Dir}
  BY <1>1, LastOf DEF Dir
<1>3. PICK list : list = DirEntries(Dir)
  OBVIOUS
<1>4. list \in Seq(Dirs \cup CloudFiles) /\ ToSet(list) = {e \in Dirs : Parent[e] = Dir} \cup FilesIn(Dir)
  BY <1>2, <1>3, EntriesAre DEF Knows
<1>5. Len(list) \in Nat /\ ToSet(list) = {list[i] : i \in 1 .. Len(list)}
  BY <1>4, LenProperties DEF ToSet
<1>6. PICK a \in Answers(list, run.off), unread \in SUBSET Dirs :
        LET data == ToSet(a.data) \ unread
            off == run.off + Len(a.data)
            count == IF a.data # <<>> /\ a.count > 0 THEN a.count ELSE run.count
            w == [walk EXCEPT !.stack = Front(@) \o Among(a.data, Dirs \ unread) \o <<Dir>>, !.streak = 0]
            more == a.data # <<>> /\ (IF a.count > 0 THEN off < a.count ELSE Len(a.data) >= Limit)
        IN /\ items' = items \cup {[file |-> f, dir |-> Dir] : f \in data \ Dirs}
           /\ unread \subseteq ToSet(a.data)
           /\ hidden' = hidden \cup unread \cup
                         (IF ~more /\ count = 0 /\ off < Len(list) THEN {Dir} ELSE {})
           /\ IF more THEN walk' = w /\ run' = [run EXCEPT !.off = off, !.count = count]
              ELSE LeaveDir(w, off, count)
  BY <1>3 DEF DirPage
<1> DEFINE data == ToSet(a.data) \ unread
           off == run.off + Len(a.data)
           count == IF a.data # <<>> /\ a.count > 0 THEN a.count ELSE run.count
           kids == Among(a.data, Dirs \ unread)
           w == [walk EXCEPT !.stack = Front(@) \o kids \o <<Dir>>, !.streak = 0]
           more == a.data # <<>> /\ (IF a.count > 0 THEN off < a.count ELSE Len(a.data) >= Limit)
<1>7. /\ a.data \in Seq(Dirs \cup CloudFiles) /\ a.count \in {0, Len(list)} /\ off \in 0 .. Len(list)
      /\ {list[i] : i \in 1 .. off} = Read(list) \cup data \cup unread
  <2>1. run.off \in 0 .. Len(list) /\ ScanAssumption
    BY <1>1, <1>3 DEF ScanInv, Counted
  <2>2. PICK T : T = Dirs \cup CloudFiles
    OBVIOUS
  <2>3. list \in Seq(T)
    BY <1>4, <2>2
  <2>4. /\ a.data \in Seq(T) /\ a.count \in {0, Len(list)}
        /\ run.off + Len(a.data) \in 0 .. Len(list)
        /\ {list[i] : i \in 1 .. run.off + Len(a.data)} = Read(list) \cup ToSet(a.data)
    <3>1. PICK o \in 0 .. Len(list) : o = run.off
      BY <2>1
    <3>2. a \in Answers(list, o)
      BY <3>1
    <3>3. /\ a.data \in Seq(T) /\ a.count \in {0, Len(list)}
          /\ o + Len(a.data) \in 0 .. Len(list)
          /\ {list[i] : i \in 1 .. o + Len(a.data)} = {list[i] : i \in 1 .. o} \cup ToSet(a.data)
      BY <2>1, <2>3, <3>2, AnswerReads
    <3> QED BY <3>1, <3>3 DEF Read
  <2>5. ToSet(a.data) = (ToSet(a.data) \ unread) \cup unread
    BY <1>6
  <2> QED BY <2>2, <2>4, <2>5
<1>8. count \in {0, Len(list)}
  BY <1>1, <1>3, <1>7 DEF Counted
<1>9. kids \in Seq(Homes) /\ ToSet(kids) = data \cap Dirs
  <2>1. PICK set : set = Dirs \ unread
    OBVIOUS
  <2>2. kids \in Seq(set) /\ ToSet(kids) = ToSet(a.data) \cap set
    BY <1>7, <2>1, AmongIs
  <2>3. kids \in Seq(Dirs) /\ ToSet(kids) = data \cap Dirs
    BY <2>1, <2>2, SeqMonotonic
  <2> QED BY <2>3, SeqMonotonic DEF Homes
<1>10. FoundFiles' = FoundFiles \cup (data \ Dirs)
  <2>1. PICK seen, d : seen = data \ Dirs /\ d = Dir
    OBVIOUS
  <2>2. items' = items \cup {[file |-> f, dir |-> d] : f \in seen}
    BY <1>6, <2>1
  <2>3. \A f : [file |-> f, dir |-> d].file = f
    OBVIOUS
  <2>4. {i.file : i \in {[file |-> f, dir |-> d] : f \in seen}} = seen
    BY <2>3
  <2> QED BY <2>1, <2>2, <2>4 DEF FoundFiles
<1>11. PICK front : front = Front(walk.stack) \o kids
  OBVIOUS
<1>12. front \in Seq(Homes) /\ ToSet(front) = ToSet(Front(walk.stack)) \cup ToSet(kids)
  <2> HIDE DEF kids
  <2>1. PICK g, k : g = Front(walk.stack) /\ k = kids
    OBVIOUS
  <2>2. g \in Seq(Homes) /\ k \in Seq(Homes)
    BY <1>2, <1>9, <2>1
  <2>3. g \o k \in Seq(Homes) /\ ToSet(g \o k) = ToSet(g) \cup ToSet(k)
    BY <2>2, JoinedSet
  <2> QED BY <1>11, <2>1, <2>3
<1>13. /\ front \o <<Dir>> \in Seq(Homes) /\ front \o <<Dir>> # <<>>
       /\ Last(front \o <<Dir>>) = Dir /\ Front(front \o <<Dir>>) = front
       /\ ToSet(front \o <<Dir>>) = ToSet(front) \cup {Dir}
  <2>1. PICK g, e : g = front /\ e = Dir
    OBVIOUS
  <2>2. g \in Seq(Homes) /\ e \in Homes
    BY <1>2, <1>12, <2>1
  <2>3. /\ g \o <<e>> \in Seq(Homes) /\ g \o <<e>> # <<>> /\ Last(g \o <<e>>) = e /\ Front(g \o <<e>>) = g
        /\ ToSet(g \o <<e>>) = ToSet(g) \cup {e}
    BY <2>2, Pushed
  <2> QED BY <2>1, <2>3
<1>14. /\ w.stack = front \o <<Dir>> /\ w.seen = walk.seen /\ w.retry = walk.retry /\ w.failed = walk.failed
       /\ w = [stack |-> w.stack, seen |-> w.seen, retry |-> w.retry, failed |-> w.failed,
               streak |-> w.streak, again |-> w.again]
  <2>1. PICK top : top = front \o <<Dir>>
    OBVIOUS
  <2>2. w = [walk EXCEPT !.stack = top, !.streak = 0]
    BY <1>11, <2>1
  <2> HIDE DEF w
  <2> QED BY <2>1, <2>2 DEF Knows, Shaped
<1>15. \/ /\ more /\ walk' = w /\ run' = [run EXCEPT !.off = off, !.count = count]
          /\ hidden' = hidden \cup unread
       \/ /\ ~more /\ LeaveDir(w, off, count)
          /\ hidden' = hidden \cup unread \cup (IF count = 0 /\ off < Len(list) THEN {Dir} ELSE {})
  BY <1>6
<1>16. unread \subseteq Dirs /\ Read(list) \cup data \cup unread \subseteq Dirs \cup CloudFiles
  <2>1. 1 .. off \subseteq 1 .. Len(list)
    BY <1>5, <1>7
  <2> QED BY <1>4, <1>5, <1>7, <2>1, ElementOfSeq
<1>17. (Read(list) \cup data \cup unread) \cap CloudFiles \subseteq FoundFiles'
  BY <1>1, <1>3, <1>10, <1>16 DEF ScanInv, ScanAssumption
<1> HIDE DEF w, count, off, more, kids, data
<1>18. CASE /\ more /\ walk' = w /\ run' = [run EXCEPT !.off = off, !.count = count]
            /\ hidden' = hidden \cup unread
  <2>1. run'.pc = "page" /\ run'.off = off /\ run'.count = count /\ Shaped'
    BY <1>1, <1>14, <1>18 DEF Knows, Shaped
  <2>2. Dir' = Dir /\ Open' = {Dir} /\ Unsure \subseteq Unsure'
    BY <1>13, <1>14, <1>18, <2>1 DEF Dir, Open, Unsure
  <2>3. /\ walk.seen \cup Ahead \subseteq walk'.seen \cup Ahead'
        /\ (data \cup unread) \cap Dirs \subseteq walk'.seen \cup Ahead' \cup hidden'
    BY <1>2, <1>9, <1>12, <1>13, <1>14, <1>18 DEF Ahead
  <2>4. \A d \in walk'.seen \ (Unsure' \cup Open') : Listed(d)'
    BY <1>1, <1>10, <1>14, <1>18, <2>2, <2>3, ListedStays
  <2>5. WalkSound'
    BY <1>1, <1>13, <1>14, <1>18, <2>3, <2>4 DEF WalkSound
  <2>6. DirEntries(Dir)' = list
    BY <1>3, <2>2, DirStays
  <2>7. Counted(DirEntries(Dir))' /\ Read(DirEntries(Dir))' = Read(list) \cup data \cup unread
    BY <1>7, <1>8, <2>1, <2>6 DEF Counted, Read
  <2>8. PageSound'
    BY <1>1, <1>3, <1>13, <1>14, <1>17, <1>18, <2>2, <2>3, <2>7 DEF PageSound
  <2> QED BY <2>1, <2>5, <2>8, CloudStays DEF Knows, ListSound, FoundOrReported
<1>19. CASE /\ LeaveDir(w, off, count)
            /\ hidden' = hidden \cup unread \cup (IF count = 0 /\ off < Len(list) THEN {Dir} ELSE {})
  <2>1. CASE run' = [run EXCEPT !.pc = "failed"] /\ UNCHANGED walk
    BY <2>1, RunFails
  <2>2. CASE /\ walk' = [w EXCEPT !.stack = Front(@), !.failed = @ \cup Partly(off, count)]
             /\ run' = [run EXCEPT !.pc = "walk"]
    <3>1. run'.pc = "walk" /\ Shaped'
      BY <1>14, <2>2 DEF Knows, Shaped
    <3>2. /\ walk'.stack = front /\ walk'.seen = walk.seen /\ walk'.retry = walk.retry
          /\ walk'.failed = walk.failed \cup Partly(off, count)
      BY <1>13, <1>14, <2>2
    <3>3. /\ walk.seen \cup Ahead \subseteq walk'.seen \cup Ahead'
          /\ (data \cup unread) \cap Dirs \subseteq walk'.seen \cup Ahead' \cup hidden'
      BY <1>1, <1>2, <1>9, <1>12, <1>19, <3>2 DEF Ahead
    <3>4. Unsure \subseteq Unsure' /\ (Dir \notin Unsure' => off = Len(list))
      BY <1>5, <1>7, <1>8, <1>19, <3>2 DEF Unsure, Partly
    <3>5. ASSUME off = Len(list), NEW d, d = Dir PROVE Listed(d)'
      <4>1. Read(list) \cup data \cup unread = {e \in Dirs : Parent[e] = Dir} \cup FilesIn(Dir)
        BY <1>4, <1>5, <1>7, <3>5
      <4>3. FilesIn(d)' = FilesIn(d)
        BY CloudStays
      <4>4. FilesIn(d) \subseteq FoundFiles'
        BY <1>17, <3>5, <4>1 DEF FilesIn
      <4>5. \A e \in Dirs : Parent[e] = d => e \in walk'.seen \cup Ahead' \cup hidden'
        BY <1>1, <1>3, <1>19, <3>3, <3>5, <4>1
      <4> QED BY <4>3, <4>4, <4>5 DEF Listed
    <3>6. Open' = {} /\ FoundFiles \subseteq FoundFiles'
      BY <1>10, <3>1 DEF Open
    <3>7. \A d \in walk'.seen \ (Unsure' \cup Open') : Listed(d)'
      <4> TAKE d \in walk'.seen \ (Unsure' \cup Open')
      <4>1. CASE d = Dir
        BY <3>4, <3>5, <4>1
      <4>2. CASE d # Dir
        BY <1>1, <1>19, <3>2, <3>3, <3>4, <3>6, <4>2, ListedStays
      <4> QED BY <4>1, <4>2
    <3>8. WalkSound'
      BY <1>1, <1>12, <3>2, <3>3, <3>7 DEF WalkSound
    <3> QED BY <3>1, <3>8, CloudStays DEF Knows, ListSound, PageSound, FoundOrReported
  <2> QED BY <1>19, <2>1, <2>2 DEF LeaveDir
<1> QED BY <1>15, <1>18, <1>19

\* A directory whose request fails is put off.
LEMMA DirPutOff ==
  ASSUME ScanInv, Knows, DirFails, UNCHANGED cloudVars
  PROVE  Knows'
<1>1. /\ run.pc = "page" /\ walk.stack # <<>> /\ items' = items /\ hidden' = hidden
      /\ walk.stack \in Seq(Homes) /\ walk.retry \in Seq(Homes) /\ walk.seen \subseteq Homes
      /\ Root \in walk.seen \cup Ahead
      /\ \A d \in walk.seen \ (Unsure \cup {Dir}) : Listed(d)
  BY DEF DirFails, Knows, WalkSound, PageSound, Open, Dir
<1>2. Front(walk.stack) \in Seq(Homes) /\ Dir \in Homes /\ ToSet(walk.stack) = ToSet(Front(walk.stack)) \cup {Dir}
  BY <1>1, LastOf DEF Dir
<1>3. PICK cur : cur = Dir
  OBVIOUS
<1>4. PICK put : put = Append(walk.retry, cur)
  OBVIOUS
<1>5. put \in Seq(Homes) /\ ToSet(put) = ToSet(walk.retry) \cup {cur}
  BY <1>1, <1>2, <1>3, <1>4, AppendedSet
<1> DEFINE w == [walk EXCEPT !.streak = @ + 1, !.seen = @ \ {cur}, !.retry = put]
<1>6. CASE run' = [run EXCEPT !.pc = "failed"] /\ UNCHANGED walk
  BY <1>6, RunFails
<1>7. CASE LeaveDir(w, run.off, run.count)
  <2>1. /\ w.stack = walk.stack /\ w.seen = walk.seen \ {cur} /\ w.retry = put /\ w.failed = walk.failed
        /\ w = [stack |-> w.stack, seen |-> w.seen, retry |-> w.retry, failed |-> w.failed,
                streak |-> w.streak, again |-> w.again]
    <3>1. PICK left : left = walk.seen \ {cur}
      OBVIOUS
    <3>2. w = [walk EXCEPT !.streak = @ + 1, !.seen = left, !.retry = put]
      BY <3>1
    <3> HIDE DEF w
    <3> QED BY <3>1, <3>2 DEF Knows, Shaped
  <2> HIDE DEF w
  <2>2. CASE run' = [run EXCEPT !.pc = "failed"] /\ UNCHANGED walk
    BY <2>2, RunFails
  <2>3. CASE /\ walk' = [w EXCEPT !.stack = Front(@), !.failed = @ \cup Partly(run.off, run.count)]
             /\ run' = [run EXCEPT !.pc = "walk"]
    <3>1. run'.pc = "walk" /\ Shaped'
      BY <2>1, <2>3 DEF Knows, Shaped
    <3>2. /\ walk'.stack = Front(walk.stack) /\ walk'.seen = walk.seen \ {cur} /\ walk'.retry = put
          /\ walk'.failed = walk.failed \cup Partly(run.off, run.count)
      BY <2>1, <2>3
    <3>3. walk.seen \cup Ahead \subseteq walk'.seen \cup Ahead'
      BY <1>2, <1>3, <1>5, <3>2 DEF Ahead
    <3>4. Unsure \subseteq Unsure' /\ Open' = {} /\ FoundFiles' = FoundFiles
      BY <1>1, <3>1, <3>2 DEF Unsure, Open, FoundFiles
    <3>5. \A d \in walk'.seen \ (Unsure' \cup Open') : Listed(d)'
      BY <1>1, <1>3, <3>2, <3>3, <3>4, ListedStays
    <3>6. WalkSound'
      BY <1>1, <1>2, <1>5, <3>2, <3>3, <3>5 DEF WalkSound
    <3> QED BY <3>1, <3>6, CloudStays DEF Knows, ListSound, PageSound, FoundOrReported
  <2> QED BY <1>7, <2>2, <2>3 DEF LeaveDir
<1> QED BY <1>3, <1>4, <1>6, <1>7 DEF DirFails

\* Where the walk ends, each directory was read, or one on the way to it is
\* reported.
LEMMA AllReached ==
  ASSUME ScanInv, WalkSound, run.pc = "walk", walk.stack = <<>>,
         NEW lost, lost = Unsure \cup ToSet(walk.retry)
  PROVE  \A d \in Homes : Above[d] \cap lost # {} \/ (d \in walk.seen /\ Listed(d))
<1>1. PICK depth : Deep(depth)
  BY DEF ScanInv, ScanAssumption, Deep
<1>2. Cardinality(Dirs) \in Nat
  BY FS_CardinalityType DEF ScanInv, ScanAssumption
<1>3. \A d \in Dirs : /\ Parent[d] \in Homes /\ depth[Parent[d]] \in Nat
                      /\ depth[d] = depth[Parent[d]] + 1 /\ d # Root /\ d \in Homes
  BY <1>1, <1>2 DEF Deep, Homes, ScanInv, ScanAssumption
<1>4. /\ Root \in Homes /\ Above[Root] = {Root} /\ depth[Root] = 0
      /\ \A d \in Dirs : Above[d] = Above[Parent[d]] \cup {d}
  BY <1>1, <1>3, AboveExists DEF Homes, Deep, ScanInv
<1>5. /\ Root \in walk.seen \cup lost /\ \A d \in walk.seen \ lost : Listed(d)
      /\ \A d \in Homes, e \in Dirs : Listed(d) /\ Parent[e] = d => e \in walk.seen \cup lost
  <2>1. Ahead \subseteq lost /\ Open = {}
    BY DEF Ahead, Open, ToSet
  <2>2. hidden \subseteq lost
    BY DEF Unsure
  <2> QED BY <2>1, <2>2 DEF WalkSound, Listed
<1> DEFINE Reached(d) == Above[d] \cap lost # {} \/ (d \in walk.seen \ lost)
           T == {n \in Nat : \A d \in Homes : depth[d] = n => Reached(d)}
<1>6. 0 \in T
  <2>1. \A d \in Homes : depth[d] = 0 => d = Root
    BY <1>3 DEF Homes
  <2> QED BY <1>4, <1>5, <2>1
<1>7. ASSUME NEW n \in T PROVE n + 1 \in T
  <2> SUFFICES ASSUME NEW d \in Homes, depth[d] = n + 1 PROVE Reached(d)
    OBVIOUS
  <2>1. d \in Dirs
    BY <1>4 DEF Homes
  <2>2. Parent[d] \in Homes /\ depth[Parent[d]] = n
    BY <1>3, <2>1
  <2>3. Reached(Parent[d])
    BY <2>2
  <2>4. Above[d] = Above[Parent[d]] \cup {d}
    BY <1>4, <2>1
  <2>5. CASE Above[Parent[d]] \cap lost # {}
    BY <2>4, <2>5
  <2>6. CASE Parent[d] \in walk.seen \ lost
    BY <1>5, <2>1, <2>2, <2>4, <2>6
  <2> QED BY <2>3, <2>5, <2>6
<1> HIDE DEF T
<1>8. \A n \in Nat : n \in T
  <2>1. T \in SUBSET Nat
    BY DEF T
  <2> QED BY <1>6, <1>7, <2>1, EveryDepth
<1>9. \A d \in Homes : depth[d] \in Nat
  BY <1>1, <1>2 DEF Deep
<1> QED BY <1>5, <1>8, <1>9 DEF T

LEMMA RoundEnds ==
  ASSUME ScanInv, Knows, RetryRound, UNCHANGED cloudVars
  PROVE  Knows'
<1>1. /\ run.pc = "walk" /\ walk.stack = <<>> /\ items' = items /\ hidden' = hidden
      /\ walk.retry \in Seq(Homes) /\ walk.seen \subseteq Homes
      /\ Root \in walk.seen \cup Ahead
      /\ \A d \in walk.seen \ Unsure : Listed(d)
  BY DEF RetryRound, Knows, WalkSound, Open
<1>2. ToSet(<<>>) = {} /\ <<>> \in Seq(Homes) /\ FoundFiles' = FoundFiles
  BY <1>1, EmptySeq DEF ToSet, FoundFiles
<1>3. CASE walk' = WalkEnds /\ run' = [run EXCEPT !.pc = "found"]
  <2>1. run'.pc = "found" /\ walk'.failed = walk.failed \cup ToSet(walk.retry) /\ Shaped'
    BY <1>3 DEF WalkEnds, Knows, Shaped
  <2>2. walk'.failed \cup hidden' = Unsure \cup ToSet(walk.retry)
    BY <1>1, <2>1 DEF Unsure
  <2>3. \A d \in Homes : Above[d] \cap (walk'.failed \cup hidden') # {} \/ Listed(d)
    BY <1>1, <2>2, AllReached DEF Knows
  <2>4. \A f \in Placed : home[f] \in Homes /\ f \in FilesIn(home[f])
    BY DEF ScanInv, Placed, FilesIn
  <2>5. \A f \in Placed \ FoundFiles : Above[home[f]] \cap (walk'.failed \cup hidden') # {}
    BY <2>3, <2>4 DEF Listed
  <2>6. FoundOrReported'
    BY <1>2, <2>5, CloudStays DEF FoundOrReported, Above
  <2> QED BY <2>1, <2>6, CloudStays DEF Knows, ListSound, WalkSound, PageSound
<1>4. CASE /\ walk' = [walk EXCEPT !.stack = walk.retry, !.retry = <<>>, !.again = TRUE]
           /\ run' = run
  <2>1. /\ walk'.stack = walk.retry /\ walk'.retry = <<>> /\ walk'.seen = walk.seen
        /\ walk'.failed = walk.failed /\ Shaped' /\ run'.pc = "walk"
    BY <1>1, <1>4 DEF Knows, Shaped
  <2>2. Ahead' = Ahead /\ Unsure' = Unsure /\ Open' = {}
    BY <1>1, <1>2, <2>1 DEF Ahead, Unsure, Open
  <2>3. \A d \in walk'.seen \ (Unsure' \cup Open') : Listed(d)'
    BY <1>1, <1>2, <2>1, <2>2, ListedStays
  <2>4. WalkSound'
    BY <1>1, <1>2, <2>1, <2>2, <2>3 DEF WalkSound
  <2> QED BY <2>1, <2>4, CloudStays DEF Knows, ListSound, PageSound, FoundOrReported
<1> QED BY <1>3, <1>4 DEF RetryRound

-----------------------------------------------------------------------------
(* All steps of a run *)

\* Changes in the cloud end what a scan knows; nothing is claimed after one.
FoundInv == ScanInv /\ (calm => Knows)

LEMMA KnowsStep ==
  ASSUME ScanInv, Knows, [ScanNext]_cloudScanVars, ~SomethingMoves
  PROVE  Knows'
<1>1. UNCHANGED cloudVars
  BY RunStep
<1>2. CASE ListPage
  BY <1>1, <1>2, ListPageReads
<1>3. CASE ListFails
  <2>1. hidden' = hidden /\ (Abort \/ ToWalk)
    BY <1>3 DEF ListFails
  <2> QED BY <1>1, <2>1, RunFails, WalkBegins DEF Abort
<1>4. CASE ListDone
  BY <1>1, <1>4, ListEnds
<1>5. CASE EnterDir \/ DirPage \/ DirFails \/ RetryRound
  BY <1>1, <1>5, DirEntered, DirPageReads, DirPutOff, RoundEnds
<1>6. CASE ResolveDir \/ Asks \/ Trash \/ WriteStrm \/ Download \/ UNCHANGED cloudScanVars
  <2>1. UNCHANGED <<run, walk, items, hidden>>
    BY <1>6, AskingStays DEF ResolveDir, Trash, WriteStrm, Download, cloudScanVars, scanVars, listVars
  <2> QED BY <1>1, <2>1, NothingMoves
<1>7. CASE Reconcile \/ WriteIndex \/ PurgeOrphanEntries
  <2>1. /\ UNCHANGED <<walk, items, hidden>> /\ run.pc \in {"found", "clean", "write"}
        /\ \E pc \in {"clean", "write", "done"} : run' = [run EXCEPT !.pc = pc]
    BY <1>7 DEF Reconcile, WriteIndex, PurgeOrphanEntries, RunAt, listVars
  <2> QED BY <1>1, <2>1, RunGoesOn
<1>8. CASE Cancel
  <2>1. run' = [run EXCEPT !.pc = "failed"] /\ walk' = walk
    BY <1>8 DEF Cancel, RunAt, listVars
  <2> QED BY <1>1, <2>1, RunFails
<1> QED BY <1>2, <1>3, <1>4, <1>5, <1>6, <1>7, <1>8 DEF ScanNext, Asks, SomethingMoves

LEMMA FoundBegins == ScanAssumption /\ ScanInit => FoundInv
<1> SUFFICES ASSUME ScanAssumption, ScanInit PROVE FoundInv
  OBVIOUS
<1>1. ScanInv
  BY ScanBegins
<1>2. run.pc = "list" /\ run.off = 0 /\ run.count = 0 /\ Shaped
  BY DEF ScanInit, FirstPage, Walk0, Shaped
<1>3. recency \in Seq(CloudFiles) /\ ToSet(recency) = CloudFiles
  BY ListedSet DEF ScanInit, ScanAssumption
<1>4. CloudKnown
  BY <1>3 DEF CloudKnown, Placed
<1>5. ListSound
  BY <1>2, <1>3, LenProperties DEF ListSound, Counted, Read
<1> QED BY <1>1, <1>2, <1>4, <1>5 DEF FoundInv, Knows, WalkSound, PageSound, FoundOrReported

LEMMA FoundStep == FoundInv /\ [ScanNext]_cloudScanVars => FoundInv'
<1> SUFFICES ASSUME FoundInv, [ScanNext]_cloudScanVars PROVE FoundInv'
  OBVIOUS
<1>1. ScanInv'
  BY ScanStep DEF FoundInv
<1>2. CASE SomethingMoves
  <2>1. calm' = FALSE
    BY <1>2 DEF SomethingMoves, PutFile, DeleteFile, RenameDir, CloudEvent
  <2> QED BY <1>1, <2>1 DEF FoundInv
<1>3. CASE ~SomethingMoves
  <2>1. UNCHANGED cloudVars
    BY <1>3, RunStep
  <2>2. calm' = calm
    BY <2>1 DEF cloudVars
  <2> QED BY <1>1, <1>3, <2>2, KnowsStep DEF FoundInv
<1> QED BY <1>2, <1>3

\* While nothing changes in the cloud, a scan finds each file that is there, or
\* reports a directory on the way to it as failed, for any tree of directories,
\* files, sizes of pages and answers that go wrong; but for what an answer
\* without a count hid (fetchFullListPages, listAllFilesRecursive).
THEOREM ScanFindsOrReports == ScanAssumption /\ ScanSpec => []FoundOrReported
<1>1. FoundInv => FoundOrReported
  BY DEF FoundInv, Knows, FoundOrReported
<1> QED BY FoundBegins, FoundStep, <1>1, PTL DEF ScanSpec

-----------------------------------------------------------------------------
(* The types of a scan.  A list has no file twice, so that a count is no      *)
(* bigger than the cloud; a path is as long as its directory is deep, even   *)
(* where a rename made it stale, so that it is never longer than the tree.    *)
DepthOf == CHOOSE depth : Deep(depth)
PathTo(d) == {p \in Seq(DirNames) : Len(p) = DepthOf[d]}

CloudTyped ==
  /\ recency \in Seq(CloudFiles) /\ ToSet(recency) = Placed /\ Len(recency) <= Cardinality(Placed)
  /\ changes \in 0 .. MaxChanges /\ oddAnswers \in 0 .. MaxOddAnswers /\ calm \in BOOLEAN
WalkTyped ==
  /\ Shaped
  /\ run.pc \in Pcs /\ run.off \in Nat /\ run.count \in 0 .. Cardinality(CloudFiles \cup Dirs)
  /\ walk.stack \in Seq(Homes) /\ walk.retry \in Seq(Homes)
  /\ walk.seen \cup walk.failed \cup hidden \subseteq Homes
  /\ items \subseteq [file : CloudFiles, dir : Homes]
  /\ run.pc = "page" => walk.stack # <<>>
PathsTyped ==
  /\ DOMAIN rel \subseteq Homes /\ \A d \in DOMAIN rel : rel[d] \in PathTo(d)
  /\ folders \in [Homes -> Seq(DirNames) \cup {NoPath}]
  /\ \A d \in Homes : folders[d] \in PathTo(d) \cup {NoPath}
  /\ run.pc \in {"walk", "page"} => Ahead \subseteq DOMAIN rel
  /\ run.pc \notin {"list", "paths", "failed"} => \A i \in items : i.dir \in DOMAIN rel
DiskTyped == pathIndex \cup strms \cup doomed \cup checked \cup unwritten \subseteq AllPlaces
DirListing == [at : CloudPaths, seen : SUBSET CloudFiles, here : SUBSET AllPlaces, torn : BOOLEAN]
LookTyped ==
  /\ listings \subseteq DirListing
  /\ look = [dir |-> look.dir, at |-> look.at, cur |-> look.cur, off |-> look.off, count |-> look.count,
             prev |-> look.prev, seen |-> look.seen, here |-> look.here, torn |-> look.torn]
  /\ look.dir \in Homes \cup {Nowhere} /\ (Looking => look.at \in CloudPaths)
  /\ look.at \in CloudPaths \cup {NoPath} /\ look.off \in Nat
  /\ look.count \in 0 .. Cardinality(CloudFiles \cup Dirs)
  /\ look.cur \cup look.here \subseteq AllPlaces /\ look.seen \subseteq CloudFiles /\ look.torn \in BOOLEAN
TypedInv == ScanInv /\ CloudTyped /\ WalkTyped /\ PathsTyped /\ DiskTyped /\ LookTyped

LEMMA Depths ==
  ASSUME ScanAssumption
  PROVE  /\ Deep(DepthOf) /\ Cardinality(Dirs) \in Nat
         /\ \A d \in Homes : DepthOf[d] \in 0 .. Cardinality(Dirs)
         /\ DepthOf[Root] = 0
         /\ \A d \in Dirs : Parent[d] \in Homes /\ d \in Homes /\ DepthOf[d] = DepthOf[Parent[d]] + 1
<1>1. \E depth : Deep(depth)
  BY DEF ScanAssumption, Deep
<1>2. Deep(DepthOf)
  BY <1>1, Zenon DEF DepthOf
<1>3. Cardinality(Dirs) \in Nat
  BY FS_CardinalityType DEF ScanAssumption
<1> QED BY <1>2, <1>3 DEF Deep, Homes, ScanAssumption

LEMMA ShortPaths ==
  ASSUME ScanAssumption
  PROVE  \A d \in Homes : PathTo(d) \subseteq CloudPaths
<1> SUFFICES ASSUME NEW d \in Homes, NEW p \in PathTo(d) PROVE p \in CloudPaths
  OBVIOUS
<1>1. p \in Seq(DirNames) /\ Len(p) \in 0 .. Cardinality(Dirs)
  BY Depths DEF PathTo
<1>2. p \in [1 .. Len(p) -> DirNames]
  BY <1>1
<1>3. PICK n \in 0 .. Cardinality(Dirs) : n = Len(p)
  BY <1>1
<1> QED BY <1>2, <1>3 DEF CloudPaths

LEMMA PathsTo ==
  ASSUME ScanAssumption, name \in [Dirs -> DirNames]
  PROVE  \A d \in Homes : PathOf[d] \in PathTo(d)
BY Depths, PathsFit DEF PathTo

\* A file at the path its directory was known by is at a place.
LEMMA PlacesFit ==
  ASSUME ScanAssumption, NEW f \in CloudFiles, NEW d \in Homes, NEW p \in PathTo(d)
  PROVE  [file |-> f, at |-> p] \in AllPlaces
BY ShortPaths DEF AllPlaces

LEMMA OneMoreStep ==
  ASSUME ScanAssumption, NEW d \in Dirs, NEW p \in PathTo(Parent[d]), NEW n \in DirNames
  PROVE  Append(p, n) \in PathTo(d)
<1>1. p \in Seq(DirNames) /\ Len(p) = DepthOf[Parent[d]]
  BY DEF PathTo
<1>2. Append(p, n) \in Seq(DirNames) /\ Len(Append(p, n)) = Len(p) + 1
  BY <1>1, AppendProperties
<1>3. DepthOf[d] = DepthOf[Parent[d]] + 1
  BY Depths
<1> QED BY <1>1, <1>2, <1>3 DEF PathTo

-----------------------------------------------------------------------------
\* What is kept of a list has as few entries twice as the list.
LEMMA KeptLength ==
  ASSUME NEW set, NEW S, IsFiniteSet(S), NEW list \in Seq(S), Len(list) <= Cardinality(ToSet(list))
  PROVE  Len(Among(list, set)) <= Cardinality(ToSet(list) \cap set)
<1>1. Len(list) \in Nat /\ DOMAIN list = 1 .. Len(list) /\ \A i \in 1 .. Len(list) : list[i] \in S
  BY LenProperties, ElementOfSeq
<1> DEFINE K == Filtered(list, set)
           Seen(n) == {list[i] : i \in 1 .. n}
           Fits(n) == Len(K[n]) + Cardinality(Seen(n)) <= n + Cardinality(Seen(n) \cap set)
           T == {n \in Nat : n <= Len(list) => Fits(n)}
<1>2. K = [i \in 0 .. Len(list) |->
             IF i = 0 THEN <<>> ELSE IF list[i] \in set THEN Append(K[i - 1], list[i]) ELSE K[i - 1]]
  BY <1>1, KeptOnes
<1>3. \A n \in 0 .. Len(list) : K[n] \in Seq(set)
  BY <1>1, KeptFit
<1> HIDE DEF K
<1>4. /\ K[0] = <<>>
      /\ \A i \in 1 .. Len(list) : K[i] = IF list[i] \in set THEN Append(K[i - 1], list[i]) ELSE K[i - 1]
  <2>1. 0 \in 0 .. Len(list) /\ \A i \in 1 .. Len(list) : i \in 0 .. Len(list) /\ i # 0
    BY <1>1
  <2>2. K[0] = <<>>
    BY <1>2, <2>1
  <2>3. ASSUME NEW i \in 1 .. Len(list)
        PROVE  K[i] = IF list[i] \in set THEN Append(K[i - 1], list[i]) ELSE K[i - 1]
    BY <1>2, <2>1, Zenon
  <2> QED BY <2>2, <2>3
<1>5. \A n \in 0 .. Len(list) : /\ Seen(n) \subseteq S /\ IsFiniteSet(Seen(n)) /\ Cardinality(Seen(n)) \in Nat
                               /\ IsFiniteSet(Seen(n) \cap set) /\ Cardinality(Seen(n) \cap set) \in Nat
  <2> TAKE n \in 0 .. Len(list)
  <2>1. Seen(n) \in SUBSET S /\ Seen(n) \cap set \in SUBSET S
    BY <1>1
  <2> HIDE DEF Seen
  <2> QED BY <2>1, FS_Subset, FS_CardinalityType
<1>6. 0 \in T
  <2>1. Seen(0) = {} /\ Seen(0) \cap set = {}
    OBVIOUS
  <2>2. Len(K[0]) = 0
    BY <1>4
  <2>3. Fits(0)
    <3>1. Cardinality(Seen(0)) = 0 /\ Cardinality(Seen(0) \cap set) = 0
      BY <2>1, FS_EmptySet
    <3> QED BY <2>2, <3>1
  <2> HIDE DEF Fits
  <2> QED BY <2>3
<1>7. ASSUME NEW n \in T PROVE n + 1 \in T
  <2> SUFFICES ASSUME n + 1 <= Len(list) PROVE Fits(n + 1)
    OBVIOUS
  <2>1. n \in Nat /\ n \in 0 .. Len(list) /\ n + 1 \in 1 .. Len(list) /\ (n + 1) - 1 = n /\ Fits(n)
    BY <1>1
  <2>2. PICK e \in S : e = list[n + 1]
    BY <1>1, <2>1
  <2>3. Seen(n + 1) = Seen(n) \cup {e}
    <3>1. 1 .. n + 1 = (1 .. n) \cup {n + 1}
      BY <2>1
    <3> QED BY <2>2, <3>1
  <2>4. K[n + 1] = IF e \in set THEN Append(K[n], e) ELSE K[n]
    BY <1>4, <2>1, <2>2
  <2>5. PICK k \in Seq(set) : k = K[n]
    BY <1>3, <2>1
  <2>6. Len(k) \in Nat
    BY LenProperties
  <2>7. PICK seen : seen = Seen(n) /\ IsFiniteSet(seen) /\ Cardinality(seen) \in Nat
                    /\ IsFiniteSet(seen \cap set) /\ Cardinality(seen \cap set) \in Nat
    BY <1>5, <2>1
  <2>8. Len(k) + Cardinality(seen) <= n + Cardinality(seen \cap set)
    BY <2>1, <2>5, <2>7
  <2>9. Seen(n + 1) = seen \cup {e}
    BY <2>3, <2>7
  <2> HIDE DEF Seen, T
  <2>10. Cardinality(seen \cup {e}) = IF e \in seen THEN Cardinality(seen) ELSE Cardinality(seen) + 1
    BY <2>7, FS_AddElement
  <2>13. PICK x \in Nat, y \in Nat, z \in Nat, m \in Nat :
           x = Len(k) /\ y = Cardinality(seen) /\ z = Cardinality(seen \cap set) /\ m = n /\ x + y <= m + z
    BY <2>1, <2>6, <2>7, <2>8
  <2>11. CASE e \in set
    <3>1. Len(K[n + 1]) = Len(k) + 1
      <4>1. Len(Append(k, e)) = Len(k) + 1
        BY <2>11, AppendProperties
      <4> QED BY <2>4, <2>5, <2>11, <4>1
    <3>2. (seen \cup {e}) \cap set = (seen \cap set) \cup {e}
      BY <2>11
    <3>3. Cardinality((seen \cap set) \cup {e}) = IF e \in seen THEN Cardinality(seen \cap set) ELSE Cardinality(seen \cap set) + 1
      BY <2>7, <2>11, FS_AddElement
    <3>4. Cardinality(Seen(n + 1) \cap set) = IF e \in seen THEN z ELSE z + 1
      BY <2>9, <2>13, <3>2, <3>3
    <3>5. Cardinality(Seen(n + 1)) = IF e \in seen THEN y ELSE y + 1
      BY <2>9, <2>10, <2>13
    <3>6. Len(K[n + 1]) = x + 1
      BY <2>13, <3>1
    <3> QED BY <2>13, <3>4, <3>5, <3>6
  <2>12. CASE e \notin set
    <3>1. Len(K[n + 1]) = Len(k)
      BY <2>4, <2>5, <2>12
    <3>2. (seen \cup {e}) \cap set = seen \cap set
      BY <2>12
    <3>3. Cardinality(Seen(n + 1) \cap set) = z /\ Len(K[n + 1]) = x
      BY <2>9, <2>13, <3>1, <3>2
    <3>4. Cardinality(Seen(n + 1)) = IF e \in seen THEN y ELSE y + 1
      BY <2>9, <2>10, <2>13
    <3> QED BY <2>13, <3>3, <3>4
  <2> QED BY <2>11, <2>12
<1> HIDE DEF T
<1>8. \A n \in Nat : n \in T
  <2>1. T \in SUBSET Nat
    BY DEF T
  <2> QED BY <1>6, <1>7, <2>1, EveryDepth
<1>9. Fits(Len(list))
  <2>1. Len(list) \in T
    BY <1>1, <1>8
  <2> HIDE DEF Fits
  <2> QED BY <1>1, <2>1 DEF T
<1>10. Seen(Len(list)) = ToSet(list)
  BY <1>1 DEF ToSet
<1>11. Len(K[Len(list)]) \in Nat
  BY <1>1, <1>3, LenProperties
<1>12. /\ Len(K[Len(list)]) + Cardinality(ToSet(list)) <= Len(list) + Cardinality(ToSet(list) \cap set)
       /\ Cardinality(ToSet(list)) \in Nat /\ Cardinality(ToSet(list) \cap set) \in Nat
  <2>1. Len(list) \in 0 .. Len(list)
    BY <1>1
  <2>2. Cardinality(Seen(Len(list))) \in Nat /\ Cardinality(Seen(Len(list)) \cap set) \in Nat
    BY <1>5, <2>1
  <2>3. Len(K[Len(list)]) + Cardinality(Seen(Len(list))) <= Len(list) + Cardinality(Seen(Len(list)) \cap set)
    BY <1>9
  <2> HIDE DEF Seen
  <2> QED BY <1>10, <2>2, <2>3
<1>13. Len(K[Len(list)]) <= Cardinality(ToSet(list) \cap set)
  BY <1>1, <1>11, <1>12
<1> QED BY <1>13 DEF Among, K

LEMMA ListedLength ==
  ASSUME NEW S, IsFiniteSet(S)
  PROVE  Len(SetToSeq(S)) = Cardinality(S)
<1> DEFINE n == Cardinality(S)
<1>1. n \in Nat /\ ExistsBijection(1 .. n, S)
  BY FS_CardinalityType
<1>2. \E f \in [1 .. n -> S] : IsInjective(f)
  BY <1>1 DEF ExistsBijection, Bijection, Injection
<1>3. SetToSeq(S) \in [1 .. n -> S]
  BY <1>2 DEF SetToSeq
<1>4. SetToSeq(S) \in Seq(S) /\ DOMAIN SetToSeq(S) = 1 .. n
  BY <1>1, <1>3, IsASeq
<1> QED BY <1>1, <1>4, LenProperties

\* A page is of the list, wherever the list has shifted to.
LEMMA PageFits ==
  ASSUME NEW S, NEW list \in Seq(S), NEW off \in Nat, Cap \in Nat \ {0}
  PROVE  Page(list, off) \in Seq(S) /\ ToSet(Page(list, off)) \subseteq ToSet(list)
<1>1. Len(list) \in Nat /\ DOMAIN list = 1 .. Len(list) /\ \A i \in 1 .. Len(list) : list[i] \in S
  BY LenProperties, ElementOfSeq
<1>2. CASE off \in 0 .. Len(list)
  <2>1. /\ Page(list, off) \in Seq(S) /\ off + Len(Page(list, off)) \in 0 .. Len(list)
        /\ {list[i] : i \in 1 .. off + Len(Page(list, off))} = {list[i] : i \in 1 .. off} \cup ToSet(Page(list, off))
    BY <1>2, PageOf
  <2>2. {list[i] : i \in 1 .. off + Len(Page(list, off))} \subseteq ToSet(list)
    BY <1>1, <2>1 DEF ToSet
  <2> QED BY <2>1, <2>2
<1>3. CASE off > Len(list)
  <2>1. Page(list, off) = SubSeq(list, off + 1, Len(list))
    BY <1>1, <1>3 DEF Page
  <2>2. Page(list, off) = <<>>
    BY <1>1, <1>3, <2>1, SubSeqProperties
  <2> QED BY <2>2, EmptySeq DEF ToSet
<1> QED BY <1>1, <1>2, <1>3

LEMMA AnswerFits ==
  ASSUME ScanAssumption, NEW S, NEW list \in Seq(S), NEW off \in Nat, NEW a \in Answers(list, off)
  PROVE  /\ a.data \in Seq(S) /\ ToSet(a.data) \subseteq ToSet(list) /\ Len(a.data) \in Nat
         /\ a.count \in {0, Len(list)}
<1>1. a.data \in {Page(list, off), <<>>} /\ a.count \in {0, Len(list)}
  BY DEF Answers
<1>2. Page(list, off) \in Seq(S) /\ ToSet(Page(list, off)) \subseteq ToSet(list)
  BY PageFits DEF ScanAssumption
<1>3. <<>> \in Seq(S) /\ ToSet(<<>>) = {}
  BY EmptySeq DEF ToSet
<1>4. a.data \in Seq(S) /\ ToSet(a.data) \subseteq ToSet(list)
  BY <1>1, <1>2, <1>3
<1> QED BY <1>1, <1>4, LenProperties

\* No list is longer than the cloud has files and directories.
LEMMA CloudCounts ==
  ASSUME ScanInv
  PROVE  /\ IsFiniteSet(CloudFiles \cup Dirs) /\ Cardinality(CloudFiles \cup Dirs) \in Nat
         /\ \A X \in SUBSET (CloudFiles \cup Dirs) :
              IsFiniteSet(X) /\ Cardinality(X) \in Nat /\ Cardinality(X) <= Cardinality(CloudFiles \cup Dirs)
BY FS_Union, FS_Subset, FS_CardinalityType DEF ScanInv, ScanAssumption

LEMMA ListsShort ==
  ASSUME ScanInv, CloudTyped
  PROVE  /\ Len(recency) \in 0 .. Cardinality(CloudFiles \cup Dirs)
         /\ \A d \in Homes : Len(DirEntries(d)) \in 0 .. Cardinality(CloudFiles \cup Dirs)
<1>1. recency \in Seq(CloudFiles) /\ Len(recency) \in Nat
  BY LenProperties DEF CloudTyped
<1>2. Placed \in SUBSET (CloudFiles \cup Dirs)
  BY DEF Placed
<1>3. Len(recency) \in 0 .. Cardinality(CloudFiles \cup Dirs)
  <2>1. Cardinality(Placed) \in Nat /\ Cardinality(Placed) <= Cardinality(CloudFiles \cup Dirs)
        /\ Cardinality(CloudFiles \cup Dirs) \in Nat
    BY <1>2, CloudCounts
  <2>2. Len(recency) <= Cardinality(Placed)
    BY DEF CloudTyped
  <2> QED BY <1>1, <2>1, <2>2
<1>4. ASSUME NEW d \in Homes PROVE Len(DirEntries(d)) \in 0 .. Cardinality(CloudFiles \cup Dirs)
  <2> DEFINE K == {e \in Dirs : Parent[e] = d}
             F == FilesIn(d)
             A == Among(recency, F)
  <2>1. K \in SUBSET (CloudFiles \cup Dirs) /\ F \in SUBSET (CloudFiles \cup Dirs)
        /\ K \cup F \in SUBSET (CloudFiles \cup Dirs) /\ K \cap F = {} /\ F \subseteq Placed
    BY <1>4 DEF FilesIn, Placed, ScanInv, ScanAssumption
  <2>2. IsFiniteSet(K) /\ Cardinality(K) \in Nat /\ IsFiniteSet(F) /\ Cardinality(F) \in Nat
    BY <2>1, CloudCounts
  <2> HIDE DEF K, F
  <2>3. Len(A) <= Cardinality(F) /\ A \in Seq(F) /\ Len(A) \in Nat
    <3>1. IsFiniteSet(CloudFiles) /\ Len(recency) <= Cardinality(ToSet(recency))
      BY DEF ScanInv, ScanAssumption, CloudTyped
    <3>2. Len(A) <= Cardinality(ToSet(recency) \cap F)
      BY <1>1, <3>1, KeptLength
    <3>3. ToSet(recency) \cap F = F
      BY <2>1 DEF CloudTyped
    <3>4. A \in Seq(F)
      BY <1>1, AmongIs
    <3> QED BY <3>2, <3>3, <3>4, LenProperties
  <2>4. SetToSeq(K) \in Seq(K) /\ Len(SetToSeq(K)) = Cardinality(K)
    BY <2>2, ListedSet, ListedLength
  <2>5. DirEntries(d) = SetToSeq(K) \o A
    BY DEF DirEntries, Below, K, F
  <2> HIDE DEF A
  <2>6. Len(SetToSeq(K) \o A) = Cardinality(K) + Len(A)
    <3>1. PICK S, s, t : S = K \cup F /\ s = SetToSeq(K) /\ t = A
      OBVIOUS
    <3>2. s \in Seq(S) /\ t \in Seq(S)
      BY <2>3, <2>4, <3>1, SeqMonotonic
    <3>3. Len(s \o t) = Len(s) + Len(t)
      BY <3>2, ConcatProperties
    <3> QED BY <2>4, <3>1, <3>3
  <2>7. Cardinality(K \cup F) = Cardinality(K) + Cardinality(F)
    <3>1. Cardinality(K \cup F) = Cardinality(K) + Cardinality(F) - Cardinality(K \cap F)
      BY <2>2, FS_Union
    <3>2. Cardinality(K \cap F) = 0
      BY <2>1, FS_EmptySet
    <3> QED BY <2>2, <3>1, <3>2
  <2>8. Cardinality(K \cup F) <= Cardinality(CloudFiles \cup Dirs) /\ Cardinality(CloudFiles \cup Dirs) \in Nat
    BY <2>1, CloudCounts
  <2> QED BY <2>2, <2>3, <2>5, <2>6, <2>7, <2>8
<1> QED BY <1>3, <1>4

-----------------------------------------------------------------------------
(* The steps *)

LEMMA TypesBegin == ScanAssumption /\ ScanInit => TypedInv
<1> SUFFICES ASSUME ScanAssumption, ScanInit PROVE TypedInv
  OBVIOUS
<1>1. ScanInv
  BY ScanBegins
<1>2. CloudTyped
  <2>1. recency \in Seq(CloudFiles) /\ ToSet(recency) = CloudFiles /\ Len(recency) = Cardinality(CloudFiles)
    BY ListedSet, ListedLength DEF ScanInit, ScanAssumption
  <2>2. Placed = CloudFiles
    BY DEF ScanInit, ScanAssumption, Placed
  <2>3. Cardinality(CloudFiles) \in Nat
    BY FS_CardinalityType DEF ScanAssumption
  <2>4. changes \in 0 .. MaxChanges /\ oddAnswers \in 0 .. MaxOddAnswers /\ calm \in BOOLEAN
    BY DEF ScanInit, ScanAssumption
  <2> QED BY <2>1, <2>2, <2>3, <2>4 DEF CloudTyped
<1>3. WalkTyped
  <2>1. Cardinality(CloudFiles \cup Dirs) \in Nat /\ <<>> \in Seq(Homes)
    BY <1>1, CloudCounts, EmptySeq
  <2> QED BY <2>1 DEF ScanInit, WalkTyped, Shaped, FirstPage, Walk0, Pcs
<1>4. \A d \in Homes : PathOf[d] \in PathTo(d)
  BY <1>1, PathsTo DEF ScanInv
<1>5. PathsTyped
  <2>1. <<>> \in PathTo(Root)
    BY Depths, EmptySeq DEF PathTo
  <2>2. DOMAIN rel = {Root} /\ rel[Root] = <<>> /\ Root \in Homes /\ items = {} /\ run.pc = "list"
    BY DEF ScanInit, Homes, FirstPage
  <2>3. \A d \in Homes : PathOf[d] \in Seq(DirNames)
    BY <1>4 DEF PathTo
  <2>4. folders \in [Homes -> Seq(DirNames) \cup {NoPath}] /\ \A d \in Homes : folders[d] \in PathTo(d) \cup {NoPath}
    BY <1>4, <2>3 DEF ScanInit
  <2> QED BY <2>1, <2>2, <2>4 DEF PathsTyped
<1>6. DiskTyped
  <2>1. Places \subseteq AllPlaces
    BY <1>1, <1>4, PlacesFit DEF Places, Placed, ScanInv
  <2> QED BY <2>1 DEF ScanInit, DiskTyped
<1>7. LookTyped
  <2>1. Cardinality(CloudFiles \cup Dirs) \in Nat
    BY <1>1, CloudCounts
  <2> QED BY <2>1 DEF ScanInit, LookTyped, NoLook, Looking
<1> QED BY <1>1, <1>2, <1>3, <1>5, <1>6, <1>7 DEF TypedInv

\* A file is put, moved or deleted: it comes first, or goes.
LEMMA CloudMoves ==
  ASSUME TypedInv, SomethingMoves
  PROVE  CloudTyped'
<1>1. /\ changes < MaxChanges /\ changes' = changes + 1 /\ calm' = FALSE /\ oddAnswers' = oddAnswers
      /\ MaxChanges \in Nat
  BY DEF SomethingMoves, PutFile, DeleteFile, RenameDir, CloudEvent, scanVars, listVars, TypedInv, ScanInv, ScanAssumption
<1>2. changes' \in 0 .. MaxChanges /\ oddAnswers' \in 0 .. MaxOddAnswers /\ calm' \in BOOLEAN
  <2>1. changes \in 0 .. MaxChanges /\ oddAnswers \in 0 .. MaxOddAnswers
    BY DEF TypedInv, CloudTyped
  <2>2. changes' \in 0 .. MaxChanges
    BY <1>1, <2>1
  <2> QED BY <1>1, <2>1, <2>2
<1>3. /\ recency \in Seq(CloudFiles) /\ ToSet(recency) = Placed /\ Len(recency) <= Cardinality(ToSet(recency))
      /\ IsFiniteSet(CloudFiles)
  BY DEF TypedInv, CloudTyped, ScanInv, ScanAssumption
<1>4. ASSUME NEW f \in CloudFiles
      PROVE  /\ Among(recency, CloudFiles \ {f}) \in Seq(CloudFiles)
             /\ ToSet(Among(recency, CloudFiles \ {f})) = Placed \ {f}
             /\ Len(Among(recency, CloudFiles \ {f})) <= Cardinality(Placed \ {f})
             /\ Len(Among(recency, CloudFiles \ {f})) \in Nat
             /\ IsFiniteSet(Placed \ {f}) /\ Cardinality(Placed \ {f}) \in Nat
  <2>1. PICK set : set = CloudFiles \ {f}
    OBVIOUS
  <2>2. Among(recency, set) \in Seq(set) /\ ToSet(Among(recency, set)) = ToSet(recency) \cap set
    BY <1>3, AmongIs
  <2>3. Len(Among(recency, set)) <= Cardinality(ToSet(recency) \cap set)
    BY <1>3, KeptLength
  <2>4. ToSet(recency) \cap set = Placed \ {f}
    BY <1>3, <2>1 DEF Placed
  <2>5. Among(recency, set) \in Seq(CloudFiles)
    BY <2>1, <2>2, SeqMonotonic
  <2>6. IsFiniteSet(Placed \ {f}) /\ Cardinality(Placed \ {f}) \in Nat
    <3>1. Placed \ {f} \in SUBSET CloudFiles
      BY DEF Placed
    <3> QED BY <1>3, <3>1, FS_Subset, FS_CardinalityType
  <2> QED BY <2>1, <2>2, <2>3, <2>4, <2>5, <2>6, LenProperties
<1>5. CASE PutFile
  <2>1. PICK f \in CloudFiles, d \in Homes :
          home' = [home EXCEPT ![f] = d] /\ recency' = <<f>> \o Among(recency, CloudFiles \ {f})
    BY <1>5 DEF PutFile, CloudEvent
  <2>2. PICK kept \in Seq(CloudFiles) :
          /\ kept = Among(recency, CloudFiles \ {f}) /\ ToSet(kept) = Placed \ {f}
          /\ Len(kept) <= Cardinality(Placed \ {f}) /\ Len(kept) \in Nat
    BY <1>4
  <2>3. <<f>> \in Seq(CloudFiles) /\ ToSet(<<f>>) = {f} /\ Len(<<f>>) = 1
    BY DEF ToSet
  <2>4. recency' \in Seq(CloudFiles) /\ ToSet(recency') = {f} \cup (Placed \ {f}) /\ Len(recency') = 1 + Len(kept)
    <3>1. PICK one \in Seq(CloudFiles) : one = <<f>>
      BY <2>3
    <3>2. one \o kept \in Seq(CloudFiles) /\ ToSet(one \o kept) = ToSet(one) \cup ToSet(kept)
      BY JoinedSet
    <3>3. Len(one \o kept) = Len(one) + Len(kept)
      BY ConcatProperties
    <3>4. recency' = one \o kept
      BY <2>1, <2>2, <3>1
    <3> QED BY <2>2, <2>3, <3>1, <3>2, <3>3, <3>4
  <2>5. Placed' = (Placed \ {f}) \cup {f}
    BY <2>1 DEF Placed, TypedInv, ScanInv, ScanAssumption
  <2>6. Cardinality((Placed \ {f}) \cup {f}) = Cardinality(Placed \ {f}) + 1
    BY <1>4, FS_AddElement
  <2>7. Len(recency') <= Cardinality(Placed')
    BY <1>4, <2>2, <2>4, <2>5, <2>6
  <2> QED BY <1>2, <2>4, <2>5, <2>7 DEF CloudTyped
<1>6. CASE DeleteFile
  <2>1. PICK f \in Placed : home' = [home EXCEPT ![f] = Nowhere] /\ recency' = Among(recency, CloudFiles \ {f})
    BY <1>6 DEF DeleteFile, CloudEvent
  <2>2. f \in CloudFiles
    BY DEF Placed
  <2>3. Placed' = Placed \ {f}
    BY <2>1, <2>2 DEF Placed, TypedInv, ScanInv
  <2> QED BY <1>2, <1>4, <2>1, <2>2, <2>3 DEF CloudTyped
<1>7. CASE RenameDir
  <2>1. home' = home /\ recency' = recency
    BY <1>7 DEF RenameDir, CloudEvent
  <2>2. Placed' = Placed
    BY <2>1 DEF Placed
  <2> QED BY <1>2, <1>3, <2>1, <2>2 DEF CloudTyped
<1> QED BY <1>5, <1>6, <1>7 DEF SomethingMoves

LEMMA CloudTypes ==
  ASSUME TypedInv, SomethingMoves
  PROVE  TypedInv'
<1>1. UNCHANGED <<scanVars, diskVars>>
  BY DEF SomethingMoves, PutFile, DeleteFile, RenameDir, CloudEvent
<1>2. WalkTyped'
  BY <1>1 DEF TypedInv, WalkTyped, Shaped, scanVars, listVars
<1>3. PathsTyped'
  BY <1>1 DEF TypedInv, PathsTyped, Ahead, scanVars, listVars
<1>4. DiskTyped'
  BY <1>1 DEF TypedInv, DiskTyped, diskVars
<1>5. ScanInv'
  BY CloudStep DEF TypedInv
<1>6. LookTyped'
  <2>1. /\ listings' = {Since(l) : l \in listings}
        /\ look' = [look EXCEPT !.here = @ \cap Places', !.torn = Looking]
    BY DEF SomethingMoves, PutFile, DeleteFile, RenameDir, CloudEvent, Since, TypedInv, LookTyped
  <2>2. ASSUME NEW l \in DirListing PROVE Since(l) \in DirListing
    <3>1. PICK now : now = l.here \cap Places'
      OBVIOUS
    <3>2. now \in SUBSET AllPlaces /\ Since(l) = [l EXCEPT !.here = now]
      BY <3>1 DEF Since, DirListing
    <3> QED BY <3>2 DEF DirListing
  <2>3. listings' \subseteq DirListing
    BY <2>1, <2>2 DEF TypedInv, LookTyped
  <2>4. PICK now, torn : now = look.here \cap Places' /\ torn \in BOOLEAN /\ torn = Looking
    BY DEF Looking
  <2>5. look' = [look EXCEPT !.here = now, !.torn = torn]
    BY <2>1, <2>4
  <2>6. now \subseteq AllPlaces
    BY <2>4 DEF TypedInv, LookTyped
  <2> QED BY <2>3, <2>4, <2>5, <2>6 DEF TypedInv, LookTyped, Looking
<1> QED BY <1>2, <1>3, <1>4, <1>5, <1>6, CloudMoves DEF TypedInv

\* What a run does leaves the cloud as it is; answers that go wrong are counted.
LEMMA AnswersCounted ==
  ASSUME TypedInv, [ScanNext]_cloudScanVars, ~SomethingMoves
  PROVE  ScanInv' /\ CloudTyped'
<1>1. UNCHANGED cloudVars
  BY RunStep
<1>2. oddAnswers' = oddAnswers \/ OddAnswer
  <2>1. ASSUME NEW odd, OddIf(odd) PROVE oddAnswers' = oddAnswers \/ OddAnswer
    BY <2>1 DEF OddIf
  <2>2. CASE ListPage
    BY <2>1, <2>2 DEF ListPage
  <2>3. CASE DirPage
    BY <2>1, <2>3 DEF DirPage
  <2>4. CASE ListFails \/ DirFails
    BY <2>4 DEF ListFails, DirFails
  <2>5. CASE ResolveDir \/ ListDone \/ EnterDir \/ RetryRound \/ UNCHANGED cloudScanVars
    BY <2>5 DEF ResolveDir, ListDone, EnterDir, RetryRound, cloudScanVars, scanVars, listVars
  <2>6. CASE Reconcile \/ Trash \/ WriteIndex
    BY <2>6 DEF Reconcile, Trash, WriteIndex, scanVars, listVars
  <2>7. CASE WriteStrm \/ Download \/ PurgeOrphanEntries \/ Cancel
    BY <2>7 DEF WriteStrm, Download, PurgeOrphanEntries, Cancel, scanVars, listVars
  <2>8. CASE NotAsked \/ AskKept \/ LoadHere \/ LoadElsewhere
    BY <2>8 DEF NotAsked, AskKept, LoadHere, LoadElsewhere, LoadFor, scanVars, listVars
  <2>9. CASE LookPage \/ LookRefused
    BY <2>1, <2>9 DEF LookPage, LookRefused
  <2> QED BY <2>2, <2>3, <2>4, <2>5, <2>6, <2>7, <2>8, <2>9 DEF ScanNext, SomethingMoves
<1>3. oddAnswers' \in 0 .. MaxOddAnswers
  BY <1>2 DEF OddAnswer, TypedInv, CloudTyped, ScanInv, ScanAssumption
<1>4. CloudTyped'
  BY <1>1, <1>3, CloudStays DEF TypedInv, CloudTyped, cloudVars
<1>5. ScanInv'
  BY ScanStep DEF TypedInv
<1> QED BY <1>4, <1>5

LEMMA EndTyped ==
  ASSUME TypedInv, UNCHANGED listVars, NEW pc \in {"clean", "write", "done", "failed"},
         run' = [run EXCEPT !.pc = pc], run.pc \in {"found", "clean", "write"} \/ pc = "failed"
  PROVE  WalkTyped' /\ PathsTyped'
<1>1. run'.pc = pc /\ run'.off = run.off /\ run'.count = run.count /\ Shaped'
  BY DEF TypedInv, WalkTyped, Shaped, listVars
<1>2. WalkTyped'
  BY <1>1 DEF TypedInv, WalkTyped, listVars, Pcs
<1>3. PathsTyped'
  BY <1>1 DEF TypedInv, PathsTyped, listVars
<1> QED BY <1>2, <1>3

LEMMA FailureTyped ==
  ASSUME TypedInv, UNCHANGED <<walk, folders>>, run' = [run EXCEPT !.pc = "failed"],
         items' \subseteq [file : CloudFiles, dir : Homes], hidden' \subseteq Homes,
         DOMAIN rel' \subseteq Homes, \A d \in DOMAIN rel' : rel'[d] \in PathTo(d)
  PROVE  WalkTyped' /\ PathsTyped'
<1>1. run'.pc = "failed" /\ run'.off = run.off /\ run'.count = run.count /\ Shaped'
  BY DEF TypedInv, WalkTyped, Shaped
<1>2. WalkTyped'
  BY <1>1 DEF TypedInv, WalkTyped, Pcs
<1>3. PathsTyped'
  BY <1>1 DEF TypedInv, PathsTyped
<1> QED BY <1>2, <1>3

LEMMA ToWalkTyped ==
  ASSUME TypedInv, ToWalk, UNCHANGED <<folders, hidden>>
  PROVE  WalkTyped' /\ PathsTyped'
<1>1. /\ run'.pc = "walk" /\ run'.off = 0 /\ run'.count = 0 /\ Shaped' /\ items' = {}
      /\ walk'.stack = <<Root>> /\ walk'.retry = <<>> /\ walk'.seen = {} /\ walk'.failed = {}
  BY DEF ToWalk, FirstPage, Walk0, Shaped
<1>2. <<Root>> \in Seq(Homes) /\ ToSet(<<Root>>) = {Root} /\ <<>> \in Seq(Homes) /\ ToSet(<<>>) = {}
  BY EmptySeq DEF ToSet, Homes
<1>3. Cardinality(CloudFiles \cup Dirs) \in Nat
  BY CloudCounts DEF TypedInv
<1>4. WalkTyped'
  BY <1>1, <1>2, <1>3 DEF TypedInv, WalkTyped, Pcs
<1>5. DOMAIN rel' = {Root} /\ rel'[Root] = <<>> /\ Root \in Homes
  BY DEF ToWalk, Homes
<1>6. <<>> \in PathTo(Root)
  BY Depths, EmptySeq DEF PathTo, TypedInv, ScanInv
<1>7. Ahead' = {Root}
  BY <1>1, <1>2 DEF Ahead
<1>8. PathsTyped'
  BY <1>1, <1>5, <1>6, <1>7 DEF TypedInv, PathsTyped
<1> QED BY <1>4, <1>8

LEMMA ListPageTyped ==
  ASSUME TypedInv, ListPage
  PROVE  WalkTyped' /\ PathsTyped'
<1>1. PICK a \in Answers(recency, run.off) :
        LET count == IF a.count > run.count THEN a.count ELSE run.count
            first == <<Head(a.data), Len(a.data)>>
        IN \/ /\ run' = [run EXCEPT !.blank = TRUE, !.count = count]
              /\ UNCHANGED <<walk, items, rel>>
           \/ /\ run' = [run EXCEPT !.pc = "paths", !.count = count]
              /\ UNCHANGED <<walk, items, rel>>
           \/ ToWalk
           \/ /\ run' = [run EXCEPT !.blank = FALSE, !.count = count, !.prev = first,
                                    !.off = run.off + Len(a.data)]
              /\ items' = items \cup {[file |-> f, dir |-> home[f]] : f \in ToSet(a.data)}
              /\ UNCHANGED <<walk, rel>>
  BY DEF ListPage, Larger, FirstOf
<1>2. run.pc = "list" /\ UNCHANGED <<folders, hidden>>
  BY DEF ListPage
<1>3. /\ recency \in Seq(CloudFiles) /\ ToSet(recency) = Placed /\ ScanAssumption
      /\ run.off \in Nat /\ run.count \in 0 .. Cardinality(CloudFiles \cup Dirs)
  BY DEF TypedInv, CloudTyped, WalkTyped, ScanInv
<1>4. Len(a.data) \in Nat /\ ToSet(a.data) \subseteq Placed /\ a.count \in {0, Len(recency)}
  BY <1>3, AnswerFits
<1> DEFINE count == IF a.count > run.count THEN a.count ELSE run.count
           first == <<Head(a.data), Len(a.data)>>
<1>5. count \in 0 .. Cardinality(CloudFiles \cup Dirs)
  <2>1. Len(recency) \in 0 .. Cardinality(CloudFiles \cup Dirs) /\ Cardinality(CloudFiles \cup Dirs) \in Nat
    BY ListsShort, CloudCounts DEF TypedInv
  <2> QED BY <1>3, <1>4, <2>1
<1> HIDE DEF count, first
<1>6. CASE ToWalk
  BY <1>2, <1>6, ToWalkTyped
<1>7. CASE /\ \/ run' = [run EXCEPT !.blank = TRUE, !.count = count]
              \/ run' = [run EXCEPT !.pc = "paths", !.count = count]
           /\ UNCHANGED <<walk, items, rel>>
  <2>1. run'.pc \in {"list", "paths"} /\ run'.off = run.off /\ run'.count = count /\ Shaped'
    BY <1>2, <1>7 DEF TypedInv, WalkTyped, Shaped
  <2>2. WalkTyped'
    BY <1>2, <1>5, <1>7, <2>1 DEF TypedInv, WalkTyped, Pcs
  <2>3. PathsTyped'
    BY <1>2, <1>7, <2>1 DEF TypedInv, PathsTyped
  <2> QED BY <2>2, <2>3
<1>8. CASE /\ run' = [run EXCEPT !.blank = FALSE, !.count = count, !.prev = first,
                                 !.off = run.off + Len(a.data)]
           /\ items' = items \cup {[file |-> f, dir |-> home[f]] : f \in ToSet(a.data)}
           /\ UNCHANGED <<walk, rel>>
  <2>1. run'.pc = "list" /\ run'.off = run.off + Len(a.data) /\ run'.count = count /\ Shaped'
    BY <1>2, <1>8 DEF TypedInv, WalkTyped, Shaped
  <2>2. items' \subseteq [file : CloudFiles, dir : Homes]
    <3>1. \A f \in ToSet(a.data) : f \in CloudFiles /\ home[f] \in Homes
      BY <1>4 DEF Placed, TypedInv, ScanInv
    <3> QED BY <1>8, <3>1 DEF TypedInv, WalkTyped
  <2>3. run'.off \in Nat
    BY <1>3, <1>4, <2>1
  <2>4. WalkTyped'
    BY <1>2, <1>5, <1>8, <2>1, <2>2, <2>3 DEF TypedInv, WalkTyped, Pcs
  <2>5. PathsTyped'
    BY <1>2, <1>8, <2>1 DEF TypedInv, PathsTyped
  <2> QED BY <2>4, <2>5
<1> QED BY <1>1, <1>6, <1>7, <1>8 DEF count, first

LEMMA JoinedTyped ==
  ASSUME NEW new, DOMAIN new \subseteq Homes, \A d \in DOMAIN new : new[d] \in PathTo(d),
         TypedInv, rel' = Joined(new)
  PROVE  /\ DOMAIN rel' = DOMAIN rel \cup DOMAIN new /\ DOMAIN rel' \subseteq Homes
         /\ \A d \in DOMAIN rel' : rel'[d] \in PathTo(d)
BY DEF Joined, TypedInv, PathsTyped

LEMMA ResolveTyped ==
  ASSUME TypedInv, ResolveDir
  PROVE  WalkTyped' /\ PathsTyped'
<1>1. PICK i \in items :
        IF FromCacheTable(i.dir)
        THEN rel' = Joined([d \in {i.dir} |-> folders[d]]) /\ UNCHANGED folders
        ELSE rel' = Joined([d \in {i.dir} |-> PathOf[d]]) /\ folders' = Learn(i.dir)
  BY DEF ResolveDir
<1>2. run.pc = "paths" /\ UNCHANGED <<run, walk, items, hidden>> /\ i.dir \in Homes
  BY DEF ResolveDir, TypedInv, WalkTyped
<1>3. \A d \in Homes : PathOf[d] \in PathTo(d) /\ PathOf[d] \in Seq(DirNames)
  BY PathsTo DEF TypedInv, ScanInv, PathTo
<1>4. /\ folders \in [Homes -> Seq(DirNames) \cup {NoPath}]
      /\ \A d \in Homes : folders[d] \in PathTo(d) \cup {NoPath}
  BY DEF TypedInv, PathsTyped
<1>5. /\ folders' \in [Homes -> Seq(DirNames) \cup {NoPath}]
      /\ \A d \in Homes : folders'[d] \in PathTo(d) \cup {NoPath}
  BY <1>1, <1>3, <1>4 DEF Learn
<1>6. PICK new : /\ DOMAIN new \subseteq Homes /\ \A d \in DOMAIN new : new[d] \in PathTo(d)
                 /\ rel' = Joined(new)
  <2>1. CASE FromCacheTable(i.dir)
    <3>1. folders[i.dir] \in PathTo(i.dir)
      BY <1>2, <1>4, <2>1 DEF FromCacheTable
    <3> QED BY <1>1, <1>2, <2>1, <3>1
  <2>2. CASE ~FromCacheTable(i.dir)
    BY <1>1, <1>2, <1>3, <2>2
  <2> QED BY <2>1, <2>2
<1>7. DOMAIN rel' \subseteq Homes /\ \A d \in DOMAIN rel' : rel'[d] \in PathTo(d)
  BY <1>6, JoinedTyped
<1>8. PathsTyped'
  BY <1>2, <1>5, <1>7 DEF PathsTyped
<1>9. WalkTyped'
  BY <1>2 DEF TypedInv, WalkTyped, Shaped
<1> QED BY <1>8, <1>9

LEMMA ListDoneTyped ==
  ASSUME TypedInv, ListDone
  PROVE  WalkTyped' /\ PathsTyped'
<1>1. run' = [run EXCEPT !.pc = "found"] /\ UNCHANGED listVars /\ \A i \in items : i.dir \in DOMAIN rel
  BY DEF ListDone
<1>2. run'.pc = "found" /\ run'.off = run.off /\ run'.count = run.count /\ Shaped'
  BY <1>1 DEF TypedInv, WalkTyped, Shaped, listVars
<1>3. WalkTyped'
  BY <1>1, <1>2 DEF TypedInv, WalkTyped, listVars, Pcs
<1>4. PathsTyped'
  BY <1>1, <1>2 DEF TypedInv, PathsTyped, listVars
<1> QED BY <1>3, <1>4

LEMMA EnterDirTyped ==
  ASSUME TypedInv, EnterDir
  PROVE  WalkTyped' /\ PathsTyped'
<1>1. /\ run.pc = "walk" /\ walk.stack # <<>> /\ UNCHANGED <<items, rel, hidden>>
      /\ walk.stack \in Seq(Homes) /\ walk.retry \in Seq(Homes) /\ walk.seen \subseteq Homes
      /\ Ahead \subseteq DOMAIN rel
  BY DEF EnterDir, TypedInv, WalkTyped, PathsTyped
<1>2. /\ Front(walk.stack) \in Seq(Homes) /\ Dir \in Homes
      /\ ToSet(walk.stack) = ToSet(Front(walk.stack)) \cup {Dir}
  BY <1>1, LastOf DEF Dir
<1>3. CASE Dir \in walk.seen
  <2>1. run' = run /\ walk' = [walk EXCEPT !.stack = Front(walk.stack)] /\ UNCHANGED folders
    BY <1>3 DEF EnterDir, Pop
  <2>2. /\ walk'.stack = Front(walk.stack) /\ walk'.seen = walk.seen
        /\ walk'.retry = walk.retry /\ walk'.failed = walk.failed /\ Shaped'
    BY <2>1 DEF TypedInv, WalkTyped, Shaped
  <2>3. WalkTyped'
    BY <1>1, <1>2, <2>1, <2>2 DEF TypedInv, WalkTyped
  <2>4. Ahead' \subseteq Ahead
    BY <1>2, <2>2 DEF Ahead
  <2>5. PathsTyped'
    BY <1>1, <2>1, <2>4 DEF TypedInv, PathsTyped
  <2> QED BY <2>3, <2>5
<1>4. CASE Dir \notin walk.seen
  <2>1. /\ run' = [FirstPage EXCEPT !.pc = "page"] /\ walk' = [walk EXCEPT !.seen = @ \cup {Dir}]
        /\ folders' = [folders EXCEPT ![Dir] = rel[Dir]]
    BY <1>4 DEF EnterDir, UpsertFolderEntry
  <2>2. /\ walk'.stack = walk.stack /\ walk'.seen = walk.seen \cup {Dir}
        /\ walk'.retry = walk.retry /\ walk'.failed = walk.failed
    BY <2>1 DEF TypedInv, WalkTyped, Shaped
  <2>3. run'.pc = "page" /\ run'.off = 0 /\ run'.count = 0 /\ Shaped'
    BY <2>1 DEF FirstPage, TypedInv, WalkTyped, Shaped
  <2>4. Cardinality(CloudFiles \cup Dirs) \in Nat
    BY CloudCounts DEF TypedInv
  <2>5. WalkTyped'
    BY <1>1, <1>2, <2>2, <2>3, <2>4 DEF TypedInv, WalkTyped, Pcs
  <2>6. Ahead' = Ahead
    BY <2>2 DEF Ahead
  <2>7. rel[Dir] \in PathTo(Dir) /\ rel[Dir] \in Seq(DirNames)
    BY <1>1, <1>2 DEF TypedInv, PathsTyped, Ahead, PathTo
  <2>8. /\ folders' \in [Homes -> Seq(DirNames) \cup {NoPath}]
        /\ \A d \in Homes : folders'[d] \in PathTo(d) \cup {NoPath}
    BY <1>2, <2>1, <2>7 DEF TypedInv, PathsTyped
  <2>9. PathsTyped'
    BY <1>1, <2>3, <2>6, <2>8 DEF TypedInv, PathsTyped
  <2> QED BY <2>5, <2>9
<1> QED BY <1>3, <1>4

\* A page comes, with more to come or not.
LEMMA DirPageTyped ==
  ASSUME TypedInv, DirPage
  PROVE  WalkTyped' /\ PathsTyped'
<1>1. /\ run.pc = "page" /\ walk.stack # <<>> /\ folders' = folders
      /\ walk.stack \in Seq(Homes) /\ walk.retry \in Seq(Homes)
      /\ walk.seen \cup walk.failed \cup hidden \subseteq Homes
      /\ Ahead \subseteq DOMAIN rel /\ run.off \in Nat
      /\ run.count \in 0 .. Cardinality(CloudFiles \cup Dirs)
  BY DEF DirPage, TypedInv, WalkTyped, PathsTyped
<1>2. /\ Front(walk.stack) \in Seq(Homes) /\ Dir \in Homes
      /\ ToSet(walk.stack) = ToSet(Front(walk.stack)) \cup {Dir}
  BY <1>1, LastOf DEF Dir
<1>3. PICK list : list = DirEntries(Dir)
  OBVIOUS
<1>4. /\ list \in Seq(Dirs \cup CloudFiles) /\ ToSet(list) = {e \in Dirs : Parent[e] = Dir} \cup FilesIn(Dir)
      /\ Len(list) \in 0 .. Cardinality(CloudFiles \cup Dirs) /\ Cardinality(CloudFiles \cup Dirs) \in Nat
  <2>1. CloudKnown
    BY DEF CloudKnown, TypedInv, CloudTyped
  <2> QED BY <1>2, <1>3, <2>1, EntriesAre, ListsShort, CloudCounts DEF TypedInv
<1>5. PICK a \in Answers(list, run.off), unread \in SUBSET Dirs :
        LET data == ToSet(a.data) \ unread
            off == run.off + Len(a.data)
            count == IF a.data # <<>> /\ a.count > 0 THEN a.count ELSE run.count
            w == [walk EXCEPT !.stack = Front(@) \o Among(a.data, Dirs \ unread) \o <<Dir>>, !.streak = 0]
            more == a.data # <<>> /\ (IF a.count > 0 THEN off < a.count ELSE Len(a.data) >= Limit)
        IN /\ items' = items \cup {[file |-> f, dir |-> Dir] : f \in data \ Dirs}
           /\ rel' = Joined([d \in data \cap Dirs |-> Append(rel[Dir], name[d])])
           /\ unread \subseteq ToSet(a.data)
           /\ hidden' = hidden \cup unread \cup
                         (IF ~more /\ count = 0 /\ off < Len(list) THEN {Dir} ELSE {})
           /\ IF more THEN walk' = w /\ run' = [run EXCEPT !.off = off, !.count = count]
              ELSE LeaveDir(w, off, count)
  BY <1>3 DEF DirPage
<1> DEFINE data == ToSet(a.data) \ unread
           off == run.off + Len(a.data)
           count == IF a.data # <<>> /\ a.count > 0 THEN a.count ELSE run.count
           kids == Among(a.data, Dirs \ unread)
           w == [walk EXCEPT !.stack = Front(@) \o kids \o <<Dir>>, !.streak = 0]
           more == a.data # <<>> /\ (IF a.count > 0 THEN off < a.count ELSE Len(a.data) >= Limit)
<1>6. /\ a.data \in Seq(Dirs \cup CloudFiles) /\ data \subseteq {e \in Dirs : Parent[e] = Dir} \cup FilesIn(Dir)
      /\ off \in Nat /\ a.count \in {0, Len(list)}
  <2>1. PICK T : T = Dirs \cup CloudFiles
    OBVIOUS
  <2>2. list \in Seq(T) /\ ScanAssumption
    BY <1>4, <2>1 DEF TypedInv, ScanInv
  <2>3. a.data \in Seq(T) /\ ToSet(a.data) \subseteq ToSet(list) /\ Len(a.data) \in Nat /\ a.count \in {0, Len(list)}
    BY <1>1, <2>2, AnswerFits
  <2> QED BY <1>1, <1>4, <2>1, <2>3
<1>7. count \in 0 .. Cardinality(CloudFiles \cup Dirs)
  BY <1>1, <1>4, <1>6
<1>8. kids \in Seq(Homes) /\ ToSet(kids) = data \cap Dirs
  <2>1. PICK set : set = Dirs \ unread
    OBVIOUS
  <2>2. kids \in Seq(set) /\ ToSet(kids) = ToSet(a.data) \cap set
    BY <1>6, <2>1, AmongIs
  <2>3. kids \in Seq(Dirs) /\ ToSet(kids) = data \cap Dirs
    BY <2>1, <2>2, SeqMonotonic
  <2> QED BY <2>3, SeqMonotonic DEF Homes
<1>9. PICK front : front = Front(walk.stack) \o kids
  OBVIOUS
<1>10. front \in Seq(Homes) /\ ToSet(front) = ToSet(Front(walk.stack)) \cup ToSet(kids)
  <2> HIDE DEF kids
  <2>1. PICK g, k : g = Front(walk.stack) /\ k = kids
    OBVIOUS
  <2>2. g \in Seq(Homes) /\ k \in Seq(Homes)
    BY <1>2, <1>8, <2>1
  <2>3. g \o k \in Seq(Homes) /\ ToSet(g \o k) = ToSet(g) \cup ToSet(k)
    BY <2>2, JoinedSet
  <2> QED BY <1>9, <2>1, <2>3
<1>11. /\ front \o <<Dir>> \in Seq(Homes) /\ front \o <<Dir>> # <<>> /\ Front(front \o <<Dir>>) = front
       /\ ToSet(front \o <<Dir>>) = ToSet(front) \cup {Dir}
  <2>1. PICK g, e : g = front /\ e = Dir
    OBVIOUS
  <2>2. g \in Seq(Homes) /\ e \in Homes
    BY <1>2, <1>10, <2>1
  <2>3. /\ g \o <<e>> \in Seq(Homes) /\ g \o <<e>> # <<>> /\ Last(g \o <<e>>) = e /\ Front(g \o <<e>>) = g
        /\ ToSet(g \o <<e>>) = ToSet(g) \cup {e}
    BY <2>2, Pushed
  <2> QED BY <2>1, <2>3
<1>12. /\ w.stack = front \o <<Dir>> /\ w.seen = walk.seen /\ w.retry = walk.retry /\ w.failed = walk.failed
       /\ w = [stack |-> w.stack, seen |-> w.seen, retry |-> w.retry, failed |-> w.failed,
               streak |-> w.streak, again |-> w.again]
  <2>1. PICK top : top = front \o <<Dir>>
    OBVIOUS
  <2>2. w = [walk EXCEPT !.stack = top, !.streak = 0]
    BY <1>9, <2>1
  <2> HIDE DEF w
  <2> QED BY <2>1, <2>2 DEF TypedInv, WalkTyped, Shaped
<1>13. hidden' \subseteq Homes
  <2>1. hidden' \subseteq hidden \cup unread \cup {Dir}
    BY <1>5
  <2> QED BY <1>1, <1>2, <2>1 DEF Homes
<1>14. items' \subseteq [file : CloudFiles, dir : Homes] /\ \A i \in items' : i \in items \/ i.dir = Dir
  <2>1. \A f \in data \ Dirs : f \in CloudFiles
    BY <1>6 DEF FilesIn
  <2>2. PICK d, new : d = Dir /\ new = data \ Dirs
    OBVIOUS
  <2>3. items' = items \cup {[file |-> f, dir |-> d] : f \in new}
    BY <1>5, <2>2
  <2> HIDE DEF data
  <2> QED BY <1>2, <2>1, <2>2, <2>3 DEF TypedInv, WalkTyped
<1>15. /\ DOMAIN rel' = DOMAIN rel \cup (data \cap Dirs) /\ DOMAIN rel' \subseteq Homes
       /\ \A d \in DOMAIN rel' : rel'[d] \in PathTo(d)
  <2>1. rel[Dir] \in PathTo(Dir) /\ name \in [Dirs -> DirNames] /\ ScanAssumption
    BY <1>1, <1>2 DEF TypedInv, PathsTyped, ScanInv, Ahead
  <2>2. PICK p : p = rel[Dir]
    OBVIOUS
  <2>3. PICK new : new = [d \in data \cap Dirs |-> Append(p, name[d])]
    OBVIOUS
  <2>4. rel' = Joined(new)
    BY <1>5, <2>2, <2>3
  <2>5. \A d \in data \cap Dirs : Append(p, name[d]) \in PathTo(d)
    <3> TAKE d \in data \cap Dirs
    <3>1. d \in Dirs /\ Parent[d] = Dir
      BY <1>6, <2>1 DEF FilesIn, ScanAssumption
    <3>2. PICK n \in DirNames : n = name[d]
      BY <2>1, <3>1
    <3>3. p \in PathTo(Parent[d])
      BY <2>1, <2>2, <3>1
    <3>4. Append(p, n) \in PathTo(d)
      BY <2>1, <3>1, <3>3, OneMoreStep
    <3> QED BY <3>2, <3>4
  <2>6. DOMAIN new = data \cap Dirs /\ \A d \in DOMAIN new : new[d] \in PathTo(d)
    BY <2>3, <2>5
  <2>7. DOMAIN new \subseteq Homes
    BY <2>6 DEF Homes
  <2> QED BY <2>4, <2>6, <2>7, JoinedTyped
<1>16. \/ more /\ walk' = w /\ run' = [run EXCEPT !.off = off, !.count = count]
       \/ LeaveDir(w, off, count)
  BY <1>5
<1>17. ToSet(front) \cup {Dir} \cup ToSet(walk.retry) \subseteq DOMAIN rel'
  BY <1>1, <1>2, <1>8, <1>10, <1>15 DEF Ahead
<1>18. run.pc = "page" /\ \A i \in items' : i.dir \in DOMAIN rel'
  BY <1>1, <1>14, <1>15, <1>17 DEF TypedInv, PathsTyped
<1> HIDE DEF w, count, off, more, kids, data
<1>19. CASE walk' = w /\ run' = [run EXCEPT !.off = off, !.count = count]
  <2>1. run'.pc = "page" /\ run'.off = off /\ run'.count = count /\ Shaped'
    BY <1>1, <1>12, <1>19 DEF TypedInv, WalkTyped, Shaped
  <2>2. WalkTyped'
    BY <1>1, <1>6, <1>7, <1>11, <1>12, <1>13, <1>14, <1>19, <2>1 DEF WalkTyped, Pcs
  <2>3. Ahead' \subseteq DOMAIN rel'
    BY <1>11, <1>12, <1>17, <1>19 DEF Ahead
  <2>4. PathsTyped'
    BY <1>1, <1>15, <1>18, <2>1, <2>3 DEF TypedInv, PathsTyped
  <2> QED BY <2>2, <2>4
<1>20. CASE LeaveDir(w, off, count)
  <2>1. CASE run' = [run EXCEPT !.pc = "failed"] /\ UNCHANGED walk
    BY <1>1, <1>13, <1>14, <1>15, <2>1, FailureTyped
  <2>2. CASE /\ walk' = [w EXCEPT !.stack = Front(@), !.failed = @ \cup Partly(off, count)]
             /\ run' = [run EXCEPT !.pc = "walk"]
    <3>1. run'.pc = "walk" /\ run'.off = run.off /\ run'.count = run.count /\ Shaped'
      BY <1>12, <2>2 DEF TypedInv, WalkTyped, Shaped
    <3>2. /\ walk'.stack = front /\ walk'.seen = walk.seen /\ walk'.retry = walk.retry
          /\ walk'.failed = walk.failed \cup Partly(off, count)
      BY <1>11, <1>12, <2>2
    <3>3. Partly(off, count) \subseteq Homes
      BY <1>2 DEF Partly
    <3>4. WalkTyped'
      BY <1>1, <1>10, <1>13, <1>14, <3>1, <3>2, <3>3 DEF WalkTyped, Pcs
    <3>5. Ahead' \subseteq DOMAIN rel'
      BY <1>17, <3>2 DEF Ahead
    <3>6. PathsTyped'
      BY <1>1, <1>15, <1>18, <3>1, <3>5 DEF TypedInv, PathsTyped
    <3> QED BY <3>4, <3>6
  <2> QED BY <1>20, <2>1, <2>2 DEF LeaveDir
<1> QED BY <1>16, <1>19, <1>20

LEMMA DirFailsTyped ==
  ASSUME TypedInv, DirFails
  PROVE  WalkTyped' /\ PathsTyped'
<1>1. /\ run.pc = "page" /\ walk.stack # <<>> /\ UNCHANGED <<items, rel, folders, hidden>>
      /\ walk.stack \in Seq(Homes) /\ walk.retry \in Seq(Homes)
      /\ walk.seen \cup walk.failed \cup hidden \subseteq Homes
      /\ Ahead \subseteq DOMAIN rel
  BY DEF DirFails, TypedInv, WalkTyped, PathsTyped
<1>2. /\ Front(walk.stack) \in Seq(Homes) /\ Dir \in Homes
      /\ ToSet(walk.stack) = ToSet(Front(walk.stack)) \cup {Dir}
  BY <1>1, LastOf DEF Dir
<1>3. PICK cur : cur = Dir
  OBVIOUS
<1>4. PICK put : put = Append(walk.retry, cur)
  OBVIOUS
<1>5. put \in Seq(Homes) /\ ToSet(put) = ToSet(walk.retry) \cup {cur}
  BY <1>1, <1>2, <1>3, <1>4, AppendedSet
<1>6. /\ items \subseteq [file : CloudFiles, dir : Homes] /\ hidden \subseteq Homes
      /\ DOMAIN rel \subseteq Homes /\ \A d \in DOMAIN rel : rel[d] \in PathTo(d)
  BY DEF TypedInv, WalkTyped, PathsTyped
<1>7. CASE run' = [run EXCEPT !.pc = "failed"] /\ UNCHANGED walk
  BY <1>1, <1>6, <1>7, FailureTyped
<1> DEFINE w == [walk EXCEPT !.streak = @ + 1, !.seen = @ \ {cur}, !.retry = put]
<1>8. CASE LeaveDir(w, run.off, run.count)
  <2>1. /\ w.stack = walk.stack /\ w.seen = walk.seen \ {cur} /\ w.retry = put /\ w.failed = walk.failed
        /\ w = [stack |-> w.stack, seen |-> w.seen, retry |-> w.retry, failed |-> w.failed,
                streak |-> w.streak, again |-> w.again]
    <3>1. PICK left : left = walk.seen \ {cur}
      OBVIOUS
    <3>2. w = [walk EXCEPT !.streak = @ + 1, !.seen = left, !.retry = put]
      BY <3>1
    <3> HIDE DEF w
    <3> QED BY <3>1, <3>2 DEF TypedInv, WalkTyped, Shaped
  <2> HIDE DEF w
  <2>2. CASE /\ walk' = [w EXCEPT !.stack = Front(@), !.failed = @ \cup Partly(run.off, run.count)]
             /\ run' = [run EXCEPT !.pc = "walk"]
    <3>1. run'.pc = "walk" /\ run'.off = run.off /\ run'.count = run.count /\ Shaped'
      BY <2>1, <2>2 DEF TypedInv, WalkTyped, Shaped
    <3>2. /\ walk'.stack = Front(walk.stack) /\ walk'.seen = walk.seen \ {cur} /\ walk'.retry = put
          /\ walk'.failed = walk.failed \cup Partly(run.off, run.count)
      BY <2>1, <2>2
    <3>3. Partly(run.off, run.count) \subseteq Homes
      BY <1>2 DEF Partly
    <3>4. WalkTyped'
      BY <1>1, <1>2, <1>5, <3>1, <3>2, <3>3 DEF TypedInv, WalkTyped, Pcs
    <3>5. Ahead' \subseteq Ahead
      BY <1>2, <1>3, <1>5, <3>2 DEF Ahead
    <3>6. PathsTyped'
      BY <1>1, <3>1, <3>5 DEF TypedInv, PathsTyped
    <3> QED BY <3>4, <3>6
  <2> QED BY <1>7, <1>8, <2>2 DEF LeaveDir
<1> QED BY <1>3, <1>4, <1>7, <1>8 DEF DirFails

LEMMA RetryTyped ==
  ASSUME TypedInv, RetryRound
  PROVE  WalkTyped' /\ PathsTyped'
<1>1. /\ run.pc = "walk" /\ walk.stack = <<>> /\ UNCHANGED <<items, rel, folders, hidden>>
      /\ walk.retry \in Seq(Homes) /\ <<>> \in Seq(Homes) /\ ToSet(<<>>) = {}
  BY EmptySeq DEF RetryRound, TypedInv, WalkTyped, ToSet
<1>2. ToSet(walk.retry) \subseteq Homes
  BY <1>1 DEF ToSet
<1>3. CASE walk' = WalkEnds /\ run' = [run EXCEPT !.pc = "found"]
  <2>1. /\ run'.pc = "found" /\ run'.off = run.off /\ run'.count = run.count /\ Shaped'
        /\ walk'.stack = walk.stack /\ walk'.retry = <<>> /\ walk'.seen = walk.seen
        /\ walk'.failed = walk.failed \cup ToSet(walk.retry)
    BY <1>3 DEF WalkEnds, TypedInv, WalkTyped, Shaped
  <2>2. WalkTyped'
    BY <1>1, <1>2, <2>1 DEF TypedInv, WalkTyped, Pcs
  <2>3. PathsTyped'
    BY <1>1, <2>1 DEF TypedInv, PathsTyped
  <2> QED BY <2>2, <2>3
<1>4. CASE /\ walk' = [walk EXCEPT !.stack = walk.retry, !.retry = <<>>, !.again = TRUE]
           /\ run' = run
  <2>1. /\ walk'.stack = walk.retry /\ walk'.retry = <<>> /\ walk'.seen = walk.seen
        /\ walk'.failed = walk.failed /\ Shaped' /\ run'.pc = "walk"
    BY <1>1, <1>4 DEF TypedInv, WalkTyped, Shaped
  <2>2. WalkTyped'
    BY <1>1, <1>4, <2>1 DEF TypedInv, WalkTyped
  <2>3. Ahead' \subseteq Ahead
    BY <1>1, <2>1 DEF Ahead
  <2>4. PathsTyped'
    BY <1>1, <1>4, <2>1, <2>3 DEF TypedInv, PathsTyped
  <2> QED BY <2>2, <2>4
<1> QED BY <1>3, <1>4 DEF RetryRound

-----------------------------------------------------------------------------
LEMMA FoundPlaces ==
  ASSUME TypedInv, run.pc \in {"found", "clean", "write"}
  PROVE  Found \subseteq AllPlaces
<1> SUFFICES ASSUME NEW i \in items PROVE [file |-> i.file, at |-> rel[i.dir]] \in AllPlaces
  BY DEF Found
<1>1. i.file \in CloudFiles /\ i.dir \in Homes
  BY DEF TypedInv, WalkTyped
<1>2. rel[i.dir] \in PathTo(i.dir)
  BY DEF TypedInv, PathsTyped
<1> QED BY <1>1, <1>2, PlacesFit DEF TypedInv, ScanInv

LEMMA DiskStep ==
  ASSUME TypedInv, [ScanNext]_cloudScanVars
  PROVE  DiskTyped'
<1>1. CASE SomethingMoves
  BY <1>1, CloudTypes DEF TypedInv
<1>2. CASE ListPage \/ ListFails \/ ResolveDir \/ ListDone \/ UNCHANGED cloudScanVars
  <2>1. UNCHANGED diskVars
    BY <1>2 DEF ListPage, ListFails, ResolveDir, ListDone, cloudScanVars
  <2> QED BY <2>1 DEF TypedInv, DiskTyped, diskVars
<1>3. CASE EnterDir \/ DirPage \/ DirFails \/ RetryRound
  <2>1. UNCHANGED diskVars
    BY <1>3 DEF EnterDir, DirPage, DirFails, RetryRound
  <2> QED BY <2>1 DEF TypedInv, DiskTyped, diskVars
<1>4. CASE Reconcile
  <2>1. UNCHANGED <<pathIndex, strms, unwritten, checked>> /\ doomed' \subseteq strms
    BY <1>4 DEF Reconcile, Orphans
  <2> QED BY <2>1 DEF TypedInv, DiskTyped
<1>5. CASE Trash \/ Cancel
  <2>1. UNCHANGED <<pathIndex, unwritten>> /\ doomed' \subseteq doomed /\ strms' \subseteq strms
        /\ checked' \subseteq checked
    BY <1>5 DEF Trash, Cancel, LookFailed
  <2> QED BY <2>1 DEF TypedInv, DiskTyped
<1>10. CASE Asks
  <2>1. UNCHANGED <<pathIndex, unwritten, strms>>
    BY <1>10, AskingStays
  <2>2. doomed' \subseteq doomed /\ checked' \subseteq checked \cup doomed \cup look.cur
    <3>1. ASSUME NEW ps, NEW l, Decide(ps, l)
          PROVE  doomed' \subseteq doomed /\ checked' \subseteq checked \cup ps
      BY <3>1 DEF Decide
    <3>2. CASE NotAsked \/ LoadHere \/ LoadElsewhere
      BY <3>2 DEF NotAsked, LoadHere, LoadElsewhere, LoadFor, diskVars
    <3>3. CASE AskKept
      BY <3>1, <3>3 DEF AskKept
    <3>4. CASE LookPage
      BY <3>1, <3>4 DEF LookPage, LookEnds, LookFailed
    <3>5. CASE LookRefused
      BY <3>5 DEF LookRefused, LookFailed
    <3> QED BY <1>10, <3>2, <3>3, <3>4, <3>5 DEF Asks
  <2> QED BY <2>1, <2>2 DEF TypedInv, DiskTyped, LookTyped
<1>6. CASE WriteIndex
  <2>1. run.pc = "clean" /\ unwritten' = Found /\ UNCHANGED <<strms, doomed, checked>>
    BY <1>6 DEF WriteIndex
  <2>2. pathIndex' \subseteq pathIndex \cup Found
    BY <1>6 DEF WriteIndex, UpsertBatch
  <2> QED BY <2>1, <2>2, FoundPlaces DEF TypedInv, DiskTyped
<1>7. CASE WriteStrm
  <2>1. /\ UNCHANGED <<pathIndex, doomed, checked>> /\ unwritten' \subseteq unwritten
        /\ strms' \subseteq strms \cup unwritten
    BY <1>7 DEF WriteStrm, Media
  <2> QED BY <2>1 DEF TypedInv, DiskTyped
<1>8. CASE Download
  <2>1. UNCHANGED <<pathIndex, strms, doomed, checked>> /\ unwritten' \subseteq unwritten
    BY <1>8 DEF Download
  <2> QED BY <2>1 DEF TypedInv, DiskTyped
<1>9. CASE PurgeOrphanEntries
  <2>1. UNCHANGED <<strms, doomed, unwritten, checked>> /\ pathIndex' \subseteq pathIndex
    BY <1>9 DEF PurgeOrphanEntries
  <2> QED BY <2>1 DEF TypedInv, DiskTyped
<1> QED BY <1>1, <1>2, <1>3, <1>4, <1>5, <1>6, <1>7, <1>8, <1>9, <1>10 DEF ScanNext, Asks, SomethingMoves

\* A listing that begins, or goes on, has places and counts of the cloud.
LEMMA LookBegins ==
  ASSUME TypedInv, NEW ps, ps \subseteq AllPlaces, NEW d \in Homes, LoadFor(ps, d)
  PROVE  LookTyped'
<1>1. PathOf[d] \in CloudPaths
  BY ShortPaths, PathsTo DEF TypedInv, ScanInv
<1>2. Places \subseteq AllPlaces
  BY PathsTo, PlacesFit DEF Places, Placed, TypedInv, ScanInv
<1>3. PICK at, here : at = PathOf[d] /\ here = {p \in Places : p.at = PathOf[d]}
  OBVIOUS
<1>4. here \subseteq AllPlaces /\ at \in CloudPaths
  BY <1>1, <1>2, <1>3
<1>5. look' = [NoLook EXCEPT !.dir = d, !.at = at, !.cur = ps, !.here = here] /\ listings' = listings
  BY <1>3 DEF LoadFor
<1>6. Cardinality(CloudFiles \cup Dirs) \in Nat
  BY CloudCounts DEF TypedInv
<1>7. /\ look'.dir = d /\ look'.at = at /\ look'.cur = ps /\ look'.here = here /\ look'.off = 0
      /\ look'.count = 0 /\ look'.seen = {} /\ look'.torn = FALSE /\ look'.prev = <<>>
      /\ look' = [dir |-> d, at |-> at, cur |-> ps, off |-> 0, count |-> 0, prev |-> <<>>,
                  seen |-> {}, here |-> here, torn |-> FALSE]
  BY <1>5 DEF NoLook
<1>8. listings' \subseteq DirListing /\ look'.cur \cup look'.here \subseteq AllPlaces
  BY <1>4, <1>5, <1>7 DEF TypedInv, LookTyped
<1>9. look' = [dir |-> look'.dir, at |-> look'.at, cur |-> look'.cur, off |-> look'.off, count |-> look'.count,
               prev |-> look'.prev, seen |-> look'.seen, here |-> look'.here, torn |-> look'.torn]
  BY <1>7, Zenon
<1>10. look'.count \in 0 .. Cardinality(CloudFiles \cup Dirs) /\ look'.off \in Nat
  BY <1>6, <1>7
<1>11. /\ look'.dir \in Homes /\ look'.at \in CloudPaths /\ look'.seen \subseteq CloudFiles
       /\ look'.torn \in BOOLEAN
  BY <1>4, <1>7
<1>12. DirListing' = DirListing
  BY DEF DirListing, AllPlaces, CloudPaths
<1> QED BY <1>8, <1>9, <1>10, <1>11, <1>12 DEF LookTyped, Looking

LEMMA LookOver ==
  ASSUME TypedInv, look' = NoLook, listings' \subseteq DirListing
  PROVE  LookTyped'
<1>1. Cardinality(CloudFiles \cup Dirs) \in Nat
  BY CloudCounts DEF TypedInv
<1> QED BY <1>1 DEF LookTyped, NoLook, Looking

LEMMA LookGoesOn ==
  ASSUME TypedInv, LookPage
  PROVE  LookTyped'
<1>1. PICK h \in Homes : look.dir = h
  BY DEF LookPage, Looking, TypedInv, LookTyped
<1>12. PICK list : list = DirEntries(h)
  OBVIOUS
<1>2. /\ list \in Seq(Dirs \cup CloudFiles)
      /\ Len(list) \in 0 .. Cardinality(CloudFiles \cup Dirs) /\ Cardinality(CloudFiles \cup Dirs) \in Nat
  <2>1. CloudKnown
    BY DEF CloudKnown, TypedInv, CloudTyped
  <2> QED BY <1>12, <2>1, EntriesAre, ListsShort, CloudCounts DEF TypedInv
<1>3. PICK a \in Answers(list, look.off) :
        LET off == look.off + Len(a.data)
            count == Larger(a.count, look.count)
            seen == look.seen \cup (ToSet(a.data) \cap CloudFiles)
            listing == [at |-> look.at, seen |-> seen, here |-> look.here, torn |-> look.torn]
        IN \/ LookFailed
           \/ LookEnds(listing)
           \/ /\ look' = [look EXCEPT !.off = off, !.count = count, !.seen = seen, !.prev = FirstOf(a.data)]
              /\ UNCHANGED <<listings, doomed, checked>>
  BY <1>1, <1>12 DEF LookPage
<1>4. /\ listings \subseteq DirListing /\ look.at \in CloudPaths /\ look.off \in Nat
      /\ look.count \in 0 .. Cardinality(CloudFiles \cup Dirs)
      /\ look.here \subseteq AllPlaces /\ look.seen \subseteq CloudFiles /\ look.torn \in BOOLEAN
  BY DEF LookPage, TypedInv, LookTyped
<1>5. Len(a.data) \in Nat /\ a.count \in {0, Len(list)}
  <2>1. PICK T : T = Dirs \cup CloudFiles
    OBVIOUS
  <2>2. list \in Seq(T) /\ ScanAssumption
    BY <1>2, <2>1 DEF TypedInv, ScanInv
  <2> QED BY <1>4, <2>2, AnswerFits
<1> DEFINE off == look.off + Len(a.data)
           count == Larger(a.count, look.count)
           seen == look.seen \cup (ToSet(a.data) \cap CloudFiles)
           listing == [at |-> look.at, seen |-> seen, here |-> look.here, torn |-> look.torn]
<1>6. off \in Nat /\ count \in 0 .. Cardinality(CloudFiles \cup Dirs) /\ seen \subseteq CloudFiles
  BY <1>2, <1>4, <1>5 DEF Larger
<1>7. \/ LookFailed
      \/ LookEnds(listing)
      \/ /\ look' = [look EXCEPT !.off = off, !.count = count, !.seen = seen, !.prev = FirstOf(a.data)]
         /\ listings' = listings
  BY <1>3
<1> HIDE DEF off, count, seen
<1>8. listing \in DirListing
  BY <1>4, <1>6 DEF DirListing
<1>9. CASE LookFailed
  BY <1>4, <1>9, LookOver DEF LookFailed, Others
<1>10. CASE LookEnds(listing)
  BY <1>4, <1>8, <1>10, LookOver DEF LookEnds, Others
<1>11. CASE /\ look' = [look EXCEPT !.off = off, !.count = count, !.seen = seen, !.prev = FirstOf(a.data)]
            /\ listings' = listings
  <2>1. PICK mark : mark = FirstOf(a.data)
    OBVIOUS
  <2>2. look' = [look EXCEPT !.off = off, !.count = count, !.seen = seen, !.prev = mark]
    BY <1>11, <2>1
  <2> QED BY <1>6, <1>11, <2>2 DEF TypedInv, LookTyped, Looking
<1> QED BY <1>7, <1>9, <1>10, <1>11

LEMMA LookStep ==
  ASSUME TypedInv, [ScanNext]_cloudScanVars
  PROVE  LookTyped'
<1>1. CASE SomethingMoves
  BY <1>1, CloudTypes DEF TypedInv
<1>2. CASE \/ ListPage \/ ListFails \/ ResolveDir \/ ListDone \/ EnterDir \/ DirPage \/ DirFails \/ RetryRound
           \/ Reconcile \/ AskKept \/ Trash \/ WriteStrm \/ Download \/ PurgeOrphanEntries
           \/ UNCHANGED cloudScanVars
  <2>1. CASE ListPage \/ ListFails \/ ResolveDir \/ ListDone
    BY <2>1 DEF ListPage, ListFails, ResolveDir, ListDone, lookVars, TypedInv, LookTyped, Looking
  <2>2. CASE EnterDir \/ DirPage \/ DirFails \/ RetryRound
    BY <2>2 DEF EnterDir, DirPage, DirFails, RetryRound, lookVars, TypedInv, LookTyped, Looking
  <2>3. CASE Reconcile \/ AskKept \/ Trash \/ WriteStrm
    BY <2>3 DEF Reconcile, AskKept, Trash, WriteStrm, lookVars, TypedInv, LookTyped, Looking
  <2>4. CASE Download \/ PurgeOrphanEntries \/ UNCHANGED cloudScanVars
    BY <2>4 DEF Download, PurgeOrphanEntries, cloudScanVars, lookVars, TypedInv, LookTyped, Looking
  <2> QED BY <1>2, <2>1, <2>2, <2>3, <2>4
<1>3. CASE NotAsked
  <2>1. listings' \subseteq listings /\ look' = look
    BY <1>3 DEF NotAsked, Others
  <2> QED BY <2>1 DEF TypedInv, LookTyped, Looking
<1>4. CASE LoadHere
  <2>1. PICK p \in doomed, d \in Homes : LoadFor({p}, d)
    BY <1>4 DEF LoadHere
  <2>2. {p} \subseteq AllPlaces
    BY DEF TypedInv, DiskTyped
  <2> QED BY <2>1, <2>2, LookBegins
<1>5. CASE LoadElsewhere
  <2>1. PICK d \in Homes : LoadFor({}, d)
    BY <1>5 DEF LoadElsewhere
  <2> QED BY <2>1, LookBegins
<1>6. CASE LookPage
  BY <1>6, LookGoesOn
<1>7. CASE LookRefused \/ WriteIndex \/ Cancel
  <2>1. CASE look' = NoLook /\ listings' \subseteq listings
    BY <2>1, LookOver DEF TypedInv, LookTyped
  <2>2. CASE UNCHANGED <<look, listings>>
    BY <2>2 DEF TypedInv, LookTyped, Looking
  <2> QED BY <1>7, <2>1, <2>2 DEF LookRefused, LookFailed, WriteIndex, Cancel, lookVars, Others
<1> QED BY <1>1, <1>2, <1>3, <1>4, <1>5, <1>6, <1>7 DEF ScanNext, SomethingMoves

LEMMA TypesStep == TypedInv /\ [ScanNext]_cloudScanVars => TypedInv'
<1> SUFFICES ASSUME TypedInv, [ScanNext]_cloudScanVars PROVE TypedInv'
  OBVIOUS
<1>1. CASE SomethingMoves
  BY <1>1, CloudTypes
<1>2. CASE ~SomethingMoves
  <2>1. ScanInv' /\ CloudTyped' /\ DiskTyped' /\ LookTyped'
    BY <1>2, AnswersCounted, DiskStep, LookStep
  <2>2. CASE ListPage \/ ResolveDir \/ ListDone
    BY <2>1, <2>2, ListPageTyped, ResolveTyped, ListDoneTyped DEF TypedInv
  <2>3. CASE ListFails
    <3>1. UNCHANGED <<folders, hidden>> /\ (Abort \/ ToWalk)
      BY <2>3 DEF ListFails
    <3>2. CASE Abort
      <4>1. run' = [run EXCEPT !.pc = "failed"] /\ UNCHANGED <<walk, items, rel>>
        BY <3>2 DEF Abort
      <4>2. /\ items \subseteq [file : CloudFiles, dir : Homes] /\ hidden \subseteq Homes
            /\ DOMAIN rel \subseteq Homes /\ \A d \in DOMAIN rel : rel[d] \in PathTo(d)
        BY DEF TypedInv, WalkTyped, PathsTyped
      <4> QED BY <2>1, <3>1, <4>1, <4>2, FailureTyped DEF TypedInv
    <3> QED BY <2>1, <3>1, <3>2, ToWalkTyped DEF TypedInv
  <2>4. CASE EnterDir \/ DirPage \/ DirFails \/ RetryRound
    BY <2>1, <2>4, EnterDirTyped, DirPageTyped, DirFailsTyped, RetryTyped DEF TypedInv
  <2>5. CASE Asks \/ Trash \/ WriteStrm \/ Download \/ UNCHANGED cloudScanVars
    <3>1. UNCHANGED <<run, walk, items, rel, folders, hidden>>
      BY <2>5, AskingStays DEF Trash, WriteStrm, Download, cloudScanVars, scanVars, listVars
    <3>2. WalkTyped'
      BY <3>1 DEF TypedInv, WalkTyped, Shaped
    <3>3. PathsTyped'
      BY <3>1 DEF TypedInv, PathsTyped, Ahead
    <3> QED BY <2>1, <3>2, <3>3 DEF TypedInv
  <2>6. CASE Reconcile \/ WriteIndex \/ PurgeOrphanEntries \/ Cancel
    <3>1. UNCHANGED listVars
      BY <2>6 DEF Reconcile, WriteIndex, PurgeOrphanEntries, Cancel
    <3>2. \E pc \in {"clean", "write", "done", "failed"} :
            /\ run' = [run EXCEPT !.pc = pc]
            /\ run.pc \in {"found", "clean", "write"} \/ pc = "failed"
      BY <2>6 DEF Reconcile, WriteIndex, PurgeOrphanEntries, Cancel, RunAt
    <3> QED BY <2>1, <3>1, <3>2, EndTyped DEF TypedInv
  <2> QED BY <1>2, <2>2, <2>3, <2>4, <2>5, <2>6 DEF ScanNext, Asks, SomethingMoves
<1> QED BY <1>1, <1>2

\* A scan keeps its types, for any tree of directories, files, sizes of pages and
\* answers that go wrong: no count exceeds what is in the cloud, every path it
\* has for a directory is as long as that lies deep, and every file it trashes,
\* indexes or writes is at such a path (dirPathResolver, listAllFilesRecursive).
THEOREM ScanTypeCorrect == ScanAssumption /\ ScanSpec => []ScanTypeOK
<1>1. TypedInv => ScanTypeOK
  <2> SUFFICES ASSUME TypedInv PROVE ScanTypeOK
    OBVIOUS
  <2>1. \A d \in Homes : PathTo(d) \subseteq CloudPaths /\ PathOf[d] \in PathTo(d)
    BY ShortPaths, PathsTo DEF TypedInv, ScanInv
  <2>2. folders \in [Homes -> CloudPaths \cup {NoPath}]
    BY <2>1 DEF TypedInv, PathsTyped
  <2>3. /\ listings \subseteq DirListing /\ look.dir \in Homes \cup {Nowhere} /\ look.at \in CloudPaths \cup {NoPath}
        /\ look.off >= 0 /\ look.count \in 0 .. Cardinality(CloudFiles \cup Dirs) /\ look.cur \subseteq AllPlaces
    BY DEF TypedInv, LookTyped
  <2>4. ToSet(walk.stack) \subseteq Homes /\ ToSet(walk.retry) \subseteq Homes
    BY DEF TypedInv, WalkTyped, ToSet
  <2>5. home \in [CloudFiles -> Homes \cup {Nowhere}] /\ ToSet(recency) = Placed /\ name \in [Dirs -> DirNames]
        /\ changes \in 0 .. MaxChanges /\ oddAnswers \in 0 .. MaxOddAnswers /\ calm \in BOOLEAN
    BY DEF TypedInv, ScanInv, CloudTyped
  <2>6. run.pc \in Pcs /\ run.off >= 0 /\ run.count \in 0 .. Cardinality(CloudFiles \cup Dirs)
        /\ walk.seen \cup walk.failed \cup hidden \subseteq Homes
        /\ items \subseteq [file : CloudFiles, dir : Homes] /\ DOMAIN rel \subseteq Homes
    BY DEF TypedInv, WalkTyped, PathsTyped
  <2>7. pathIndex \cup strms \cup doomed \cup checked \subseteq AllPlaces
    BY DEF TypedInv, DiskTyped
  <2> QED BY <2>2, <2>3, <2>4, <2>5, <2>6, <2>7 DEF ScanTypeOK, DirListing
<1> QED BY TypesBegin, TypesStep, <1>1, PTL DEF ScanSpec

-----------------------------------------------------------------------------
(* The listings before a removal.  One that nothing tore has every file that *)
(* was at its path all along: its pages are those of one list, and it ends    *)
(* where that does.                                                          *)
LookSound ==
  \A d \in Homes : look.dir = d /\ ~look.torn =>
    /\ look.off \in 0 .. Len(DirEntries(d)) /\ look.count \in {0, Len(DirEntries(d))}
    /\ \A p \in look.here : p \in Places /\ p.at = PathOf[d]
    /\ {DirEntries(d)[i] : i \in 1 .. look.off} \cap CloudFiles \subseteq look.seen
Complete(l) == l.torn \/ \A p \in l.here : p.file \in l.seen
AskInv ==
  /\ TypedInv /\ LookSound
  /\ \A l \in listings : Complete(l)
  /\ \A p \in look.cur : p.at = look.at

LEMMA AskBegins == ScanAssumption /\ ScanInit => AskInv
<1> SUFFICES ASSUME ScanAssumption, ScanInit PROVE AskInv
  OBVIOUS
<1>1. listings = {} /\ look.dir \notin Homes /\ look.cur = {}
  BY DEF ScanInit, NoLook, ScanAssumption
<1> QED BY <1>1, TypesBegin DEF AskInv, LookSound

\* The files at the path of a directory are in it.
LEMMA HereInside ==
  ASSUME ScanInv, NEW d \in Homes, NEW p \in Places, p.at = PathOf[d]
  PROVE  p.file \in FilesIn(d) /\ p.file \in CloudFiles
<1>1. PICK f \in Placed : p = [file |-> f, at |-> PathOf[home[f]]]
  BY DEF Places
<1>2. home[f] \in Homes /\ PathOf[home[f]] = PathOf[d] /\ f \in CloudFiles
  BY <1>1 DEF Placed, ScanInv
<1>3. home[f] = d
  BY <1>2, PathsDiffer DEF ScanInv
<1> QED BY <1>1, <1>2, <1>3 DEF FilesIn

\* A look that goes on beside a run.
LEMMA LookStays ==
  ASSUME UNCHANGED cloudVars, look' = look, LookSound
  PROVE  LookSound'
<1>1. home' = home /\ recency' = recency /\ name' = name
  BY DEF cloudVars
<1>2. ASSUME NEW d \in Homes PROVE DirEntries(d)' = DirEntries(d)
  BY <1>1 DEF DirEntries, Among, Filtered, Below, FilesIn
<1>3. PathOf' = PathOf
  BY <1>1 DEF PathOf
<1>4. Places' = Places
  BY <1>1, <1>3 DEF Places, Placed
<1> QED BY <1>2, <1>3, <1>4 DEF LookSound

LEMMA PageSeen ==
  ASSUME AskInv, LookPage
  PROVE  /\ LookSound' /\ \A l \in listings' : Complete(l)
         /\ \A p \in look'.cur : p.at = look'.at
         /\ \A p \in checked' \ checked : \E l \in listings' : l.at = p.at /\ (l.torn \/ p \notin l.here)
<1>1. PICK h \in Homes : look.dir = h
  BY DEF LookPage, Looking, AskInv, TypedInv, LookTyped
<1>11. PICK list : list = DirEntries(h)
  OBVIOUS
<1>2. list \in Seq(Dirs \cup CloudFiles) /\ ToSet(list) = {e \in Dirs : Parent[e] = h} \cup FilesIn(h)
  <2>1. CloudKnown
    BY DEF CloudKnown, AskInv, TypedInv, CloudTyped
  <2> QED BY <1>11, <2>1, EntriesAre DEF AskInv, TypedInv
<1>3. PICK a \in Answers(list, look.off) :
        LET off == look.off + Len(a.data)
            count == Larger(a.count, look.count)
            seen == look.seen \cup (ToSet(a.data) \cap CloudFiles)
            listing == [at |-> look.at, seen |-> seen, here |-> look.here, torn |-> look.torn]
        IN \/ LookFailed
           \/ a.data = <<>> /\ ~(look.off < count) /\ LookEnds(listing)
           \/ count > 0 /\ off >= count /\ LookEnds(listing)
           \/ /\ look' = [look EXCEPT !.off = off, !.count = count, !.seen = seen, !.prev = FirstOf(a.data)]
              /\ UNCHANGED <<listings, doomed, checked>>
  BY <1>1, <1>11 DEF LookPage, PagesMissing
<1> DEFINE off == look.off + Len(a.data)
           count == Larger(a.count, look.count)
           seen == look.seen \cup (ToSet(a.data) \cap CloudFiles)
           listing == [at |-> look.at, seen |-> seen, here |-> look.here, torn |-> look.torn]
<1>4. ASSUME ~look.torn
      PROVE  /\ off \in 0 .. Len(list) /\ count \in {0, Len(list)}
             /\ {list[i] : i \in 1 .. off} \cap CloudFiles \subseteq seen
             /\ a.data = <<>> /\ ~(look.off < count) => off = Len(list)
             /\ count > 0 /\ off >= count => off = Len(list)
  <2>1. /\ look.off \in 0 .. Len(list) /\ look.count \in {0, Len(list)}
        /\ {list[i] : i \in 1 .. look.off} \cap CloudFiles \subseteq look.seen
    BY <1>1, <1>11, <1>4 DEF AskInv, LookSound
  <2>2. PICK T : T = Dirs \cup CloudFiles
    OBVIOUS
  <2>3. list \in Seq(T) /\ ScanAssumption /\ Cap \in Nat \ {0}
    BY <1>2, <2>2 DEF AskInv, TypedInv, ScanInv, ScanAssumption
  <2>4. /\ a.data \in Seq(T) /\ a.count \in {0, Len(list)}
        /\ look.off + Len(a.data) \in 0 .. Len(list)
        /\ {list[i] : i \in 1 .. look.off + Len(a.data)} = {list[i] : i \in 1 .. look.off} \cup ToSet(a.data)
    BY <2>1, <2>3, AnswerReads
  <2>5. Len(list) \in Nat
    BY <2>3, LenProperties
  <2>6. count \in {0, Len(list)}
    BY <2>1, <2>4 DEF Larger
  <2>7. {list[i] : i \in 1 .. off} \cap CloudFiles \subseteq seen
    BY <2>1, <2>4
  <2>8. count > 0 /\ off >= count => off = Len(list)
    <3>1. PICK m : m = count /\ m \in {0, Len(list)}
      BY <2>6
    <3>2. PICK o \in 0 .. Len(list) : o = off
      BY <2>4
    <3> HIDE DEF off, count
    <3> QED BY <2>5, <3>1, <3>2
  <2>9. ASSUME a.data = <<>>, ~(look.off < count) PROVE off = Len(list)
    <3>1. off = look.off
      BY <2>1, <2>5, <2>9
    <3>2. CASE count = Len(list)
      BY <2>1, <2>5, <2>9, <3>1, <3>2
    <3>3. CASE count = 0 /\ Len(list) # 0
      <4>1. a.count = 0
        BY <2>4, <2>5, <3>3 DEF Larger
      <4>2. a.data = Page(list, look.off)
        BY <3>3, <4>1 DEF Answers
      <4>3. Page(list, look.off) = <<>> => look.off = Len(list)
        BY <2>1, <2>3, PageOf
      <4> QED BY <2>9, <3>1, <4>2, <4>3
    <3> QED BY <2>6, <3>2, <3>3
  <2> QED BY <2>4, <2>6, <2>7, <2>8, <2>9
<1>5. ASSUME look.torn \/ off = Len(list) PROVE Complete(listing)
  <2>1. CASE look.torn
    BY <2>1 DEF Complete
  <2>2. CASE ~look.torn
    <3>1. off = Len(list)
      BY <1>5, <2>2
    <3>2. {list[i] : i \in 1 .. Len(list)} \cap CloudFiles \subseteq seen
      BY <1>4, <2>2, <3>1
    <3>3. ToSet(list) \cap CloudFiles \subseteq seen
      BY <1>2, <3>2, LenProperties DEF ToSet
    <3>4. \A p \in look.here : p.file \in FilesIn(h) /\ p.file \in CloudFiles
      BY <1>1, <2>2, HereInside DEF AskInv, LookSound, TypedInv
    <3>5. \A p \in look.here : p.file \in seen
      BY <1>2, <3>3, <3>4
    <3> QED BY <3>5 DEF Complete
  <2> QED BY <2>1, <2>2
<1>6. \/ LookFailed
      \/ (look.torn \/ off = Len(list)) /\ LookEnds(listing)
      \/ /\ look' = [look EXCEPT !.off = off, !.count = count, !.seen = seen, !.prev = FirstOf(a.data)]
         /\ UNCHANGED <<listings, doomed, checked>>
  BY <1>3, <1>4
<1>7. UNCHANGED cloudVars
  BY DEF LookPage
<1>12. look' = NoLook => LookSound'
  BY DEF LookSound, NoLook, AskInv, TypedInv, ScanInv, ScanAssumption
<1>8. CASE LookFailed
  <2>1. look' = NoLook /\ listings' \subseteq listings /\ checked' = checked
    BY <1>8 DEF LookFailed, Others
  <2> QED BY <1>12, <2>1 DEF AskInv, NoLook
<1>9. CASE (look.torn \/ off = Len(list)) /\ LookEnds(listing)
  <2>1. Complete(listing)
    BY <1>5, <1>9
  <2>2. PICK l : l = listing
    OBVIOUS
  <2>3. l.at = look.at /\ l.here = look.here /\ l.seen = seen /\ l.torn = look.torn /\ Complete(l)
    BY <2>1, <2>2
  <2>4. LookEnds(l)
    BY <1>9, <2>2
  <2> HIDE DEF listing, seen
  <2>5. look' = NoLook /\ listings' \subseteq listings \cup {l} /\ l \in listings'
    BY <2>4 DEF LookEnds, Others
  <2>6. checked' \ checked \subseteq {p \in look.cur : p.file \notin l.seen}
    BY <2>4 DEF LookEnds, Decide
  <2>7. \A p \in checked' \ checked : l.at = p.at /\ (l.torn \/ p \notin l.here)
    BY <2>3, <2>6 DEF Complete, AskInv
  <2> QED BY <1>12, <2>3, <2>5, <2>7 DEF AskInv, NoLook
<1>10. CASE /\ look' = [look EXCEPT !.off = off, !.count = count, !.seen = seen, !.prev = FirstOf(a.data)]
            /\ UNCHANGED <<listings, doomed, checked>>
  <2>1. PICK mark : mark = FirstOf(a.data)
    OBVIOUS
  <2>2. PICK o, c, s : o = off /\ c = count /\ s = seen
    OBVIOUS
  <2>3. look' = [look EXCEPT !.off = o, !.count = c, !.seen = s, !.prev = mark]
    BY <1>10, <2>1, <2>2
  <2>4. /\ look'.off = o /\ look'.count = c /\ look'.seen = s /\ look'.dir = look.dir /\ look'.at = look.at
        /\ look'.here = look.here /\ look'.torn = look.torn /\ look'.cur = look.cur
    BY <2>3 DEF AskInv, TypedInv, LookTyped
  <2>5. ~look.torn => /\ o \in 0 .. Len(list) /\ c \in {0, Len(list)}
                      /\ {list[i] : i \in 1 .. o} \cap CloudFiles \subseteq s
    BY <1>4, <2>2
  <2> HIDE DEF off, count, seen, listing
  <2>6. home' = home /\ recency' = recency /\ name' = name
    BY <1>7 DEF cloudVars
  <2>7. DirEntries(h)' = list
    BY <1>11, <2>6 DEF DirEntries, Among, Filtered, Below, FilesIn
  <2>8. PathOf' = PathOf
    BY <2>6 DEF PathOf
  <2>9. Places' = Places
    BY <2>6, <2>8 DEF Places, Placed
  <2>10. ~look.torn => \A p \in look.here : p \in Places /\ p.at = PathOf[h]
    BY <1>1 DEF AskInv, LookSound
  <2>11. LookSound'
    <3> SUFFICES ASSUME NEW d \in Homes, look'.dir = d, ~look'.torn
                 PROVE  /\ look'.off \in 0 .. Len(DirEntries(d)') /\ look'.count \in {0, Len(DirEntries(d)')}
                        /\ \A p \in look'.here : p \in Places' /\ p.at = PathOf'[d]
                        /\ {DirEntries(d)'[i] : i \in 1 .. look'.off} \cap CloudFiles \subseteq look'.seen
      BY DEF LookSound
    <3>1. d = h
      BY <1>1, <2>4
    <3> QED BY <2>4, <2>5, <2>7, <2>8, <2>9, <2>10, <3>1
  <2> QED BY <1>10, <2>4, <2>11 DEF AskInv
<1> QED BY <1>6, <1>8, <1>9, <1>10

LEMMA AskStep ==
  ASSUME AskInv, [ScanNext]_cloudScanVars
  PROVE  AskInv' /\ KeepsPresent
<1>1. TypedInv'
  BY TypesStep DEF AskInv
<1>2. ASSUME /\ LookSound' /\ (\A l \in listings' : Complete(l)) /\ \A p \in look'.cur : p.at = look'.at
      PROVE  AskInv'
  BY <1>1, <1>2 DEF AskInv, Complete
<1>3. ASSUME UNCHANGED cloudVars, look' \in {look, NoLook}, listings' \subseteq listings
      PROVE  AskInv'
  <2>1. LookSound'
    <3>1. CASE look' = look
      BY <1>3, <3>1, LookStays DEF AskInv
    <3>2. CASE look' = NoLook
      BY <3>2 DEF LookSound, NoLook, AskInv, TypedInv, ScanInv, ScanAssumption
    <3> QED BY <1>3, <3>1, <3>2
  <2>2. (\A l \in listings' : Complete(l)) /\ \A p \in look'.cur : p.at = look'.at
    BY <1>3 DEF AskInv, NoLook
  <2> QED BY <1>2, <2>1, <2>2
<1>4. CASE SomethingMoves
  <2>1. /\ listings' = {Since(l) : l \in listings}
        /\ look' = [look EXCEPT !.here = @ \cap Places', !.torn = Looking]
    BY <1>4 DEF SomethingMoves, PutFile, DeleteFile, RenameDir, CloudEvent, Since, AskInv, TypedInv, LookTyped
  <2>2. ASSUME NEW l \in listings PROVE Complete(Since(l))
    <3>1. l \in DirListing /\ Complete(l)
      BY DEF AskInv, TypedInv, LookTyped
    <3>2. Since(l).torn = l.torn /\ Since(l).seen = l.seen /\ Since(l).here = l.here \cap Places'
      BY <3>1 DEF Since, DirListing
    <3> QED BY <3>1, <3>2 DEF Complete
  <2>3. \A l \in listings' : Complete(l)
    BY <2>1, <2>2
  <2>4. PICK now, torn : now = look.here \cap Places' /\ torn = Looking
    OBVIOUS
  <2>5. look' = [look EXCEPT !.here = now, !.torn = torn]
    BY <2>1, <2>4
  <2>6. look'.dir = look.dir /\ look'.torn = torn /\ look'.cur = look.cur /\ look'.at = look.at
    BY <2>5 DEF AskInv, TypedInv, LookTyped
  <2>7. LookSound'
    BY <2>4, <2>6 DEF LookSound, Looking, AskInv, TypedInv, ScanInv, ScanAssumption
  <2>8. strms' = strms /\ checked' = checked
    BY <1>4, CloudStep DEF AskInv, TypedInv
  <2> QED BY <1>2, <2>3, <2>6, <2>7, <2>8 DEF AskInv, KeepsPresent
<1>5. CASE ~SomethingMoves
  <2>1. UNCHANGED cloudVars /\ strms \ strms' \subseteq checked /\ (~Asks => checked' \subseteq checked)
    BY <1>5, RunStep
  <2>2. CASE ~Asks
    <3>1. look' \in {look, NoLook} /\ listings' \subseteq listings
      <4>1. CASE ListPage \/ ListFails \/ ResolveDir \/ ListDone
        BY <4>1 DEF ListPage, ListFails, ResolveDir, ListDone, lookVars
      <4>2. CASE EnterDir \/ DirPage \/ DirFails \/ RetryRound
        BY <4>2 DEF EnterDir, DirPage, DirFails, RetryRound, lookVars
      <4>3. CASE Reconcile \/ Trash \/ WriteIndex \/ WriteStrm
        BY <4>3 DEF Reconcile, Trash, WriteIndex, WriteStrm, lookVars
      <4>4. CASE Download \/ PurgeOrphanEntries \/ Cancel \/ UNCHANGED cloudScanVars
        BY <4>4 DEF Download, PurgeOrphanEntries, Cancel, LookFailed, Others, cloudScanVars, lookVars
      <4> QED BY <1>5, <2>2, <4>1, <4>2, <4>3, <4>4 DEF ScanNext, Asks, SomethingMoves
    <3> QED BY <1>3, <2>1, <2>2, <3>1 DEF KeepsPresent
  <2>3. CASE NotAsked
    <3>1. look' = look /\ listings' \subseteq listings /\ checked' = checked
      BY <2>3 DEF NotAsked, Others
    <3> QED BY <1>3, <2>1, <3>1 DEF KeepsPresent
  <2>4. CASE AskKept
    <3>1. look' = look /\ listings' = listings
      BY <2>4 DEF AskKept, lookVars
    <3>2. PICK p \in doomed, l \in listings : p.at = l.at /\ Decide({p}, l)
      BY <2>4 DEF AskKept
    <3>3. checked' \ checked \subseteq {p} /\ (p \in checked' \ checked => p.file \notin l.seen)
      BY <3>2 DEF Decide
    <3>4. KeepsPresent
      BY <2>1, <3>1, <3>2, <3>3 DEF KeepsPresent, AskInv, Complete
    <3> QED BY <1>3, <2>1, <3>1, <3>4
  <2>5. CASE LoadHere \/ LoadElsewhere
    <3>1. PICK d \in Homes, ps \in SUBSET AllPlaces : LoadFor(ps, d) /\ \A p \in ps : p.at = PathOf[d]
      <4>1. CASE LoadHere
        <5>1. PICK p \in doomed, d \in Homes : LoadFor({p}, d) /\ PathOf[d] = p.at
          BY <4>1 DEF LoadHere
        <5>2. {p} \in SUBSET AllPlaces
          BY DEF AskInv, TypedInv, DiskTyped
        <5> QED BY <5>1, <5>2
      <4>2. CASE LoadElsewhere
        <5>1. PICK d \in Homes : LoadFor({}, d)
          BY <4>2 DEF LoadElsewhere
        <5> QED BY <5>1
      <4> QED BY <2>5, <4>1, <4>2
    <3>2. listings' = listings /\ checked' = checked
      BY <3>1 DEF LoadFor, diskVars
    <3>3. PICK at, here : at = PathOf[d] /\ here = {p \in Places : p.at = PathOf[d]}
      OBVIOUS
    <3>4. look' = [NoLook EXCEPT !.dir = d, !.at = at, !.cur = ps, !.here = here]
      BY <3>1, <3>3 DEF LoadFor
    <3>5. /\ look'.dir = d /\ look'.at = at /\ look'.cur = ps /\ look'.here = here
          /\ look'.off = 0 /\ look'.count = 0 /\ look'.seen = {}
      BY <3>4 DEF NoLook
    <3>6. home' = home /\ recency' = recency /\ name' = name
      BY <2>1 DEF cloudVars
    <3>7. PathOf' = PathOf
      BY <3>6 DEF PathOf
    <3>8. Places' = Places
      BY <3>6, <3>7 DEF Places, Placed
    <3>9. DirEntries(d)' = DirEntries(d)
      BY <3>6 DEF DirEntries, Among, Filtered, Below, FilesIn
    <3>10. Len(DirEntries(d)) \in Nat
      <4>1. CloudKnown
        BY DEF CloudKnown, AskInv, TypedInv, CloudTyped
      <4> QED BY <4>1, ListsShort, CloudCounts DEF AskInv, TypedInv
    <3>11. LookSound'
      <4> SUFFICES ASSUME NEW e \in Homes, look'.dir = e, ~look'.torn
                   PROVE  /\ look'.off \in 0 .. Len(DirEntries(e)') /\ look'.count \in {0, Len(DirEntries(e)')}
                          /\ \A p \in look'.here : p \in Places' /\ p.at = PathOf'[e]
                          /\ {DirEntries(e)'[i] : i \in 1 .. look'.off} \cap CloudFiles \subseteq look'.seen
        BY DEF LookSound
      <4>1. e = d
        BY <3>5
      <4>2. {DirEntries(e)'[i] : i \in 1 .. look'.off} = {}
        BY <3>5
      <4> QED BY <3>3, <3>5, <3>7, <3>8, <3>9, <3>10, <4>1, <4>2
    <3> QED BY <1>2, <2>1, <3>1, <3>2, <3>3, <3>5, <3>11 DEF AskInv, KeepsPresent
  <2>6. CASE LookPage
    BY <1>2, <2>1, <2>6, PageSeen DEF KeepsPresent
  <2>7. CASE LookRefused
    <3>1. look' = NoLook /\ listings' \subseteq listings /\ checked' = checked
      BY <2>7 DEF LookRefused, LookFailed, Others
    <3> QED BY <1>3, <2>1, <3>1 DEF KeepsPresent
  <2> QED BY <2>2, <2>3, <2>4, <2>5, <2>6, <2>7 DEF Asks
<1> QED BY <1>4, <1>5

\* A run trashes only what it has just asked for, and StillAbsent says so of no
\* file that was at its path ever since the listing it was asked of began: for
\* any tree of directories, any changes in the cloud, any answers that go wrong
\* and listings of other loops; but for listings that a change tore
\* (StillAbsent, FetchAllFsPages).
THEOREM ScanKeepsPresent == ScanAssumption /\ ScanSpec => PresentKept
<1>1. AskInv /\ [ScanNext]_cloudScanVars => AskInv' /\ [KeepsPresent]_cloudScanVars
  BY AskStep
<1> QED BY AskBegins, <1>1, PTL DEF ScanSpec, PresentKept
=============================================================================
