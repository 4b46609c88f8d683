----------------------------- MODULE CloudScan -----------------------------
(* One run of a task: the listing of the cloud directory and what is done    *)
(* with it (service/task: scan_fulllist.go, executor_utils.go, executor.go). *)
(* The scan asks for one list of all files, page by page, and finds the      *)
(* paths of their directories in the folders table or by a request; where    *)
(* anything about the list is doubtful it walks the directories instead.     *)
(* The result decides which STRM files go to the trash, which rows the path  *)
(* index gets and which STRM files are written.  Before a file goes to the   *)
(* trash its directory is listed once more, for all loops that remove        *)
(* something (service/strm: cloudcheck.go).  The cloud changes while the     *)
(* pages are fetched: what comes newest first shifts under the offset.       *)
EXTENDS Integers, Sequences, FiniteSets, SequencesExt

CONSTANTS CloudFiles, \* media files, known by their pick codes
          Extras,     \* those of them which are downloaded instead
          Dirs,       \* directories below that of the task
          Parent,     \* where they are
          DirNames,   \* names they may have
          Limit, Cap, \* entries asked for, and what the server gives at most
          MaxStreak,  \* failures in a row that end the walk of the directories
          Cfg,        \* the limits of the automatic cleanup
          Modes,      \* modes of the cleanup, to choose from
          MaxChanges, MaxOddAnswers  \* bounds: changes in the cloud, answers that go wrong
Root == "root"
Nowhere == "nowhere"
Homes == Dirs \cup {Root}
Apart(n) == \A d, e \in Dirs : d # e /\ Parent[d] = Parent[e] => n[d] # n[e]
ScanAssumption ==
  /\ IsFiniteSet(CloudFiles) /\ Extras \subseteq CloudFiles
  /\ IsFiniteSet(Dirs) /\ Root \notin Dirs /\ Nowhere \notin Homes /\ Dirs \cap CloudFiles = {}
  \* The directories are a tree, and there are names for those of one directory.
  /\ Parent \in [Dirs -> Homes]
  /\ \E depth \in [Homes -> 0 .. Cardinality(Dirs)] :
       depth[Root] = 0 /\ \A d \in Dirs : depth[d] = depth[Parent[d]] + 1
  /\ \E n \in [Dirs -> DirNames] : Apart(n)
  /\ {Limit, Cap, MaxStreak} \subseteq Nat \ {0} /\ Cap <= Limit
  \* "ask" is auto_clean where the user confirms what exceeds the stable number.
  /\ Modes \subseteq {"off", "mark_only", "auto_clean", "ask"} /\ {MaxChanges, MaxOddAnswers} \subseteq Nat
Policy == INSTANCE CleanupPolicy

VARIABLES
  home, recency, name, \* the cloud: a file's directory, newest first, a directory's name
  folders,            \* the folders table: the path known of a directory
  pathIndex,          \* the path index: files and where they were
  strms,              \* STRM files of the task on disk, each in the managed table
  downloaded,         \* files on disk that are no STRM files
  run,                \* the run: where it is, and the page it asks for
  walk,               \* the walk: directories to list, to try again, failed ones
  items, rel,         \* what the scan found, and the paths of its directories
  doomed, checked,    \* orphans left to remove; the one found missing just now
  listings, look,        \* listings of directories kept for the removal; the one under way
  unwritten,          \* items that are not written yet
  mode, mapped,       \* the settings
  calm,               \* whether nothing changed in the cloud since the run began
  hidden,             \* directories whose answers hid entries without a sign
  changes, oddAnswers
cloudVars == <<home, recency, name, calm, changes>>
lookVars == <<listings, look>>
listVars == <<walk, items, rel, folders, hidden, oddAnswers>>
scanVars == <<run, listVars>>
diskVars == <<strms, downloaded, pathIndex, doomed, checked, unwritten>>
setVars == <<mode, mapped>>
cloudScanVars == <<cloudVars, lookVars, scanVars, diskVars, setVars>>

NoPath == <<"none">>
FirstPage == [pc |-> "list", off |-> 0, count |-> 0, prev |-> <<>>, blank |-> FALSE]
Walk0 == [stack |-> <<>>, seen |-> {}, retry |-> <<>>, failed |-> {}, streak |-> 0, again |-> FALSE]
Pcs == {"list", "paths", "walk", "page", "round", "found", "clean", "index", "write", "purge",
        "done", "failed"}
\* A listing has the files it gave and those at its path ever since it began; it
\* is torn if something changed in the cloud before it ended.
NoLook == [dir |-> Nowhere, at |-> NoPath, cur |-> {}, off |-> 0, count |-> 0, prev |-> <<>>,
           seen |-> {}, here |-> {}, torn |-> FALSE]
Looking == look.dir # Nowhere

PathOf[d \in Homes] == IF d = Root THEN <<>> ELSE Append(PathOf[Parent[d]], name[d])
Above[d \in Homes] == IF d = Root THEN {Root} ELSE Above[Parent[d]] \cup {d}
Placed == {f \in CloudFiles : home[f] # Nowhere}
Places == {[file |-> f, at |-> PathOf[home[f]]] : f \in Placed}
CloudPaths == UNION {[1 .. n -> DirNames] : n \in 0 .. Cardinality(Dirs)}
AllPlaces == [file : CloudFiles, at : CloudPaths]

ScanTypeOK ==
  /\ home \in [CloudFiles -> Homes \cup {Nowhere}] /\ ToSet(recency) = Placed
  /\ name \in [Dirs -> DirNames] /\ folders \in [Homes -> CloudPaths \cup {NoPath}]
  /\ pathIndex \cup strms \cup doomed \cup checked \subseteq AllPlaces
  /\ listings \subseteq [at : CloudPaths, seen : SUBSET CloudFiles, here : SUBSET AllPlaces, torn : BOOLEAN]
  /\ look.dir \in Homes \cup {Nowhere} /\ look.at \in CloudPaths \cup {NoPath} /\ look.off >= 0
  /\ look.count \in 0 .. Cardinality(CloudFiles \cup Dirs) /\ look.cur \subseteq AllPlaces
  /\ run.pc \in Pcs /\ run.off >= 0 /\ run.count \in 0 .. Cardinality(CloudFiles \cup Dirs)
  /\ ToSet(walk.stack) \cup walk.seen \cup ToSet(walk.retry) \cup walk.failed \cup hidden \subseteq Homes
  /\ items \subseteq [file : CloudFiles, dir : Homes] /\ DOMAIN rel \subseteq Homes
  /\ changes \in 0 .. MaxChanges /\ oddAnswers \in 0 .. MaxOddAnswers /\ calm \in BOOLEAN

\* An earlier run wrote the STRM files; events may have changed the tables since.
ScanInit ==
  /\ home \in [CloudFiles -> Homes] /\ recency = SetToSeq(CloudFiles)
  /\ name = CHOOSE n \in [Dirs -> DirNames] : Apart(n)
  /\ folders \in {[h \in Homes |-> NoPath], [h \in Homes |-> PathOf[h]]}
  /\ strms = {p \in Places : p.file \notin Extras}
  /\ pathIndex \in {{}, Places}
  /\ downloaded = {} /\ items = {} /\ rel = [d \in {Root} |-> <<>>]
  /\ run = FirstPage /\ walk = Walk0
  /\ doomed = {} /\ checked = {} /\ unwritten = {} /\ listings = {} /\ look = NoLook
  /\ mode \in Modes /\ mapped \in BOOLEAN
  /\ calm = TRUE /\ hidden = {} /\ changes = 0 /\ oddAnswers = 0

-----------------------------------------------------------------------------
(* The cloud                                                                *)

\* The entries of a list that are in a set, in their order.
Filtered(list, set) ==
  LET kept[i \in 0 .. Len(list)] ==
        IF i = 0 THEN <<>>
        ELSE IF list[i] \in set THEN Append(kept[i - 1], list[i]) ELSE kept[i - 1]
  IN kept
Among(list, set) == Filtered(list, set)[Len(list)]

\* A file that is touched or moved, or comes, is the newest; a file may be
\* deleted, a directory renamed.
Since(l) == [l EXCEPT !.here = @ \cap Places']
CloudEvent(h, o, n) ==
  /\ changes < MaxChanges /\ changes' = changes + 1 /\ run.pc \notin {"done", "failed"}
  /\ home' = h /\ recency' = o /\ name' = n
  /\ calm' = FALSE
  /\ listings' = {Since(l) : l \in listings} /\ look' = [Since(look) EXCEPT !.torn = Looking]
  /\ UNCHANGED <<scanVars, diskVars, setVars>>
PutFile == \E f \in CloudFiles, d \in Homes :
  CloudEvent([home EXCEPT ![f] = d], <<f>> \o Among(recency, CloudFiles \ {f}), name)
DeleteFile == \E f \in Placed :
  CloudEvent([home EXCEPT ![f] = Nowhere], Among(recency, CloudFiles \ {f}), name)
RenameDir == \E d \in Dirs, n \in DirNames :
  /\ \A e \in Dirs : Parent[e] = Parent[d] => name[e] # n
  /\ CloudEvent(home, recency, [name EXCEPT ![d] = n])

\* What the server answers for a list: a page; or, as a fault, a page without
\* the count, or no entries.
OddAnswer == oddAnswers < MaxOddAnswers /\ oddAnswers' = oddAnswers + 1
Page(list, off) == SubSeq(list, off + 1, IF off + Cap < Len(list) THEN off + Cap ELSE Len(list))
Answers(list, off) ==
  {[data |-> Page(list, off), count |-> Len(list), odd |-> FALSE],
   [data |-> Page(list, off), count |-> 0, odd |-> TRUE],
   [data |-> <<>>, count |-> Len(list), odd |-> TRUE]}
OddIf(odd) == IF odd THEN OddAnswer ELSE UNCHANGED oddAnswers
Larger(m, n) == IF m > n THEN m ELSE n
FirstOf(data) == <<Head(data), Len(data)>>

-----------------------------------------------------------------------------
(* One list of all files                                                    *)

\* Nothing of the list is used where it is doubtful.
ToWalk ==
  /\ run' = [FirstPage EXCEPT !.pc = "walk"]
  /\ walk' = [Walk0 EXCEPT !.stack = <<Root>>]
  /\ items' = {} /\ rel' = [d \in {Root} |-> <<>>]

\* Mutant: the list is taken though fewer files came than the server counts.
IncompleteTaken == run.count = 0 /\ run.off > 0
\* The list ends with a page that is empty twice.  Without a count, or with
\* fewer files than counted, it proves nothing; nor does an empty one.
Incomplete == run.count = 0 \/ run.off < run.count \/ run.off = 0

\* One page: the biggest count counts, and a page like the last one shows a
\* server that ignores the offset.
ListPage ==
  /\ run.pc = "list"
  /\ \E a \in Answers(recency, run.off) :
       /\ OddIf(a.odd)
       /\ LET count == Larger(a.count, run.count)
              first == FirstOf(a.data)
          IN \/ /\ a.data = <<>> /\ ~run.blank
                /\ run' = [run EXCEPT !.blank = TRUE, !.count = count]
                /\ UNCHANGED <<walk, items, rel>>
             \/ /\ a.data = <<>> /\ run.blank
                /\ IF Incomplete THEN ToWalk
                   ELSE run' = [run EXCEPT !.pc = "paths", !.count = count] /\ UNCHANGED <<walk, items, rel>>
             \/ /\ a.data # <<>> /\ run.prev = first
                /\ ToWalk
             \/ /\ a.data # <<>> /\ run.prev # first
                /\ run' = [run EXCEPT !.blank = FALSE, !.count = count, !.prev = first,
                                      !.off = run.off + Len(a.data)]
                /\ items' = items \cup {[file |-> f, dir |-> home[f]] : f \in ToSet(a.data)}
                /\ UNCHANGED <<walk, rel>>
  /\ UNCHANGED <<cloudVars, lookVars, diskVars, setVars, folders, hidden>>

\* A request that fails: after an expired cookie, a refusal or exhausted
\* retries the whole run does (isFatalScanError).
Abort == run' = [run EXCEPT !.pc = "failed"] /\ UNCHANGED <<walk, items, rel>>
ListFails ==
  /\ run.pc \in {"list", "paths"} /\ OddAnswer
  /\ (Abort \/ ToWalk)
  /\ UNCHANGED <<cloudVars, lookVars, diskVars, setVars, folders, hidden>>

\* The row of a directory counts if that of its parent agrees with it.
FromCacheTable(d) ==
  /\ folders[d] # NoPath
  /\ d = Root \/ (folders[Parent[d]] # NoPath /\ folders[Parent[d]] = Front(folders[d]))
Learn(d) == [h \in Homes |-> IF h \in Above[d] THEN PathOf[h] ELSE folders[h]]

\* The paths of the directories, with those that have just come.
Joined(new) == [d \in DOMAIN new \cup DOMAIN rel |-> IF d \in DOMAIN new THEN new[d] ELSE rel[d]]

\* resolve: the path of one more directory, from the table or by a request
\* for its ancestors, which fills the table.
ResolveDir ==
  /\ run.pc = "paths"
  /\ \E i \in items :
       /\ i.dir \notin DOMAIN rel
       /\ IF FromCacheTable(i.dir)
          THEN rel' = Joined([d \in {i.dir} |-> folders[d]]) /\ UNCHANGED folders
          ELSE rel' = Joined([d \in {i.dir} |-> PathOf[d]]) /\ folders' = Learn(i.dir)
  /\ UNCHANGED <<cloudVars, lookVars, diskVars, setVars, run, walk, items, hidden, oddAnswers>>
ListDone ==
  /\ run.pc = "paths" /\ \A i \in items : i.dir \in DOMAIN rel
  /\ run' = [run EXCEPT !.pc = "found"]
  /\ UNCHANGED <<cloudVars, lookVars, diskVars, setVars, listVars>>

-----------------------------------------------------------------------------
(* The walk of the directories                                              *)

Dir == Last(walk.stack)
Below(d) == SetToSeq({e \in Dirs : Parent[e] = d})
FilesIn(d) == {f \in CloudFiles : home[f] = d}
DirEntries(d) == Below(d) \o Among(recency, FilesIn(d))
Pop == [walk EXCEPT !.stack = Front(walk.stack)]

UpsertFolderEntry == [folders EXCEPT ![Dir] = rel[Dir]]

\* The next directory, which also gets its row in the folders table.
EnterDir ==
  /\ run.pc = "walk" /\ walk.stack # <<>>
  /\ IF Dir \in walk.seen
     THEN walk' = Pop /\ UNCHANGED <<run, folders>>
     ELSE /\ walk' = [walk EXCEPT !.seen = @ \cup {Dir}]
          /\ folders' = UpsertFolderEntry
          /\ run' = [FirstPage EXCEPT !.pc = "page"]
  /\ UNCHANGED <<cloudVars, lookVars, diskVars, setVars, items, rel, hidden, oddAnswers>>

\* Mutant: a directory with fewer entries than counted is only logged.
PartlyIgnored(off, count) == {}
\* A directory whose pages end before the count is one whose content is unknown.
Partly(off, count) == IF count > 0 /\ off < count THEN {Dir} ELSE {}

\* Leave the directory: the root must be complete, the others may be unknown.
LeaveDir(w, off, count) ==
  IF Dir = Root /\ off < count
  THEN run' = [run EXCEPT !.pc = "failed"] /\ UNCHANGED walk
  ELSE /\ walk' = [w EXCEPT !.stack = Front(@),
                            !.failed = @ \cup Partly(off, count)]
       /\ run' = [run EXCEPT !.pc = "walk"]

\* One page of the directory: the count ends it, or a short page without one.
\* A directory whose id cannot be read is left out without a word.
DirPage ==
  /\ run.pc = "page"
  /\ \E a \in Answers(DirEntries(Dir), run.off), unread \in {{}} \cup {{d} : d \in Dirs} :
       LET data == ToSet(a.data) \ unread
           off == run.off + Len(a.data)
           count == IF a.data # <<>> /\ a.count > 0 THEN a.count ELSE run.count
           w == [walk EXCEPT !.stack = Front(@) \o Among(a.data, Dirs \ unread) \o <<Dir>>, !.streak = 0]
           more == a.data # <<>> /\ (IF a.count > 0 THEN off < a.count ELSE Len(a.data) >= Limit)
       IN /\ unread \subseteq ToSet(a.data) /\ OddIf(a.odd \/ unread # {})
          /\ items' = items \cup {[file |-> f, dir |-> Dir] : f \in data \ Dirs}
          /\ rel' = Joined([d \in data \cap Dirs |-> Append(rel[Dir], name[d])])
          /\ hidden' = hidden \cup unread \cup
                        (IF ~more /\ count = 0 /\ off < Len(DirEntries(Dir)) THEN {Dir} ELSE {})
          /\ IF more THEN walk' = w /\ run' = [run EXCEPT !.off = off, !.count = count]
             ELSE LeaveDir(w, off, count)
  /\ UNCHANGED <<cloudVars, lookVars, diskVars, setVars, folders>>

\* A request for a page fails: fatal at the root and for errors that concern
\* all; else the directory is tried again later, unless too many failed in a row.
DirFails ==
  /\ run.pc = "page" /\ OddAnswer
  /\ \/ run' = [run EXCEPT !.pc = "failed"] /\ UNCHANGED walk
     \/ /\ Dir # Root /\ walk.streak + 1 < MaxStreak
        /\ LeaveDir([walk EXCEPT !.streak = @ + 1, !.seen = @ \ {Dir}, !.retry = Append(@, Dir)],
                    run.off, run.count)
  /\ UNCHANGED <<cloudVars, lookVars, diskVars, setVars, items, rel, folders, hidden>>

\* Mutant: what failed twice is left out without a word.
WalkEndsSilently == walk
\* What failed again after the round of retries is reported as failed.
WalkEnds == [walk EXCEPT !.failed = @ \cup ToSet(walk.retry), !.retry = <<>>]
RetryRound ==
  /\ run.pc = "walk" /\ walk.stack = <<>>
  /\ IF walk.retry = <<>> \/ walk.again
     THEN walk' = WalkEnds /\ run' = [run EXCEPT !.pc = "found"]
     ELSE /\ walk' = [walk EXCEPT !.stack = walk.retry, !.retry = <<>>, !.again = TRUE]
          /\ UNCHANGED run
  /\ UNCHANGED <<cloudVars, lookVars, diskVars, setVars, items, rel, folders, hidden, oddAnswers>>

-----------------------------------------------------------------------------
(* What the run does with the result                                        *)

Found == {[file |-> i.file, at |-> rel[i.dir]] : i \in items}
FoundFiles == {i.file : i \in items}
Media(s) == {p \in s : p.file \notin Extras}
RunAt(pc) == run' = [run EXCEPT !.pc = pc]

\* STRM files in or below a directory that failed are left alone.
FailedDirs == {rel[d] : d \in walk.failed}
InFailedDir(p) == \E d \in FailedDirs : IsPrefix(d, p.at)

\* cleanupOrphanStrms: a file neither the scan nor the index knows, or one the
\* scan found elsewhere; of two places of a file the map has one.
Orphans(current) ==
  {p \in strms : /\ ~InFailedDir(p)
                /\ \/ p.file \notin DOMAIN current /\ p.file \notin {r.file : r \in pathIndex}
                   \/ p.file \in DOMAIN current /\ current[p.file] # p.at}
ScanVerdict(orphans) ==
  Policy!EvaluateCleanup(Cardinality(orphans), Cardinality(strms), Cardinality({p.at : p \in orphans}), Cfg)
Currents == {c \in [FoundFiles \ Extras -> {p.at : p \in Found}] :
               \A f \in DOMAIN c : [file |-> f, at |-> c[f]] \in Found}

\* What needs to be confirmed waits in a queue (Cleanup.tla), unless the user
\* wants to confirm nothing.
Removes(verdict) == \/ mode \in {"auto_clean", "ask"} /\ verdict = "allow"
                    \/ mode = "auto_clean" /\ verdict = "confirm"

\* The walk over the local files.  With nothing found and no index nothing is
\* concluded.
Reconcile ==
  /\ run.pc = "found"
  /\ \E c \in Currents :
       doomed' = IF (DOMAIN c # {} \/ pathIndex # {}) /\ Removes(ScanVerdict(Orphans(c)))
                 THEN Orphans(c) ELSE {}
  /\ RunAt("clean")
  /\ UNCHANGED <<cloudVars, lookVars, setVars, listVars, strms, downloaded, pathIndex, checked, unwritten>>

\* StillAbsent asks the listing of the file's directory: a kept one, for as
\* long as that is fresh, or a new one.  Listings are loaded one at a time.
\* A file it does not give may still be kept, for an entry of the same name.
Idle == run.pc = "clean" /\ checked = {} /\ look.cur = {}
Decide(ps, l) ==
  /\ doomed' = doomed \ ps
  /\ checked' \in {checked, checked \cup {p \in ps : p.file \notin l.seen}}
Others(at) == {l \in listings : l.at # at}

\* The record has changed, the account has gone, or no directory is at the
\* path: the file is kept, and an error is not fresh for anybody.
NotAsked ==
  /\ Idle
  /\ \E p \in doomed : doomed' = doomed \ {p} /\ listings' \in {listings, Others(p.at)}
  /\ UNCHANGED <<cloudVars, scanVars, setVars, strms, downloaded, pathIndex, unwritten, checked, look>>
AskKept ==
  /\ Idle
  /\ \E p \in doomed, l \in listings : p.at = l.at /\ Decide({p}, l)
  /\ UNCHANGED <<cloudVars, scanVars, setVars, strms, downloaded, pathIndex, unwritten, lookVars>>

\* loadDir: for a file of this run, or in the loop of somebody else (one before
\* the first listing of this run bounds these).
LoadFor(ps, d) ==
  /\ ~Looking
  /\ look' = [NoLook EXCEPT !.dir = d, !.at = PathOf[d], !.cur = ps,
                            !.here = {p \in Places : p.at = PathOf[d]}]
  /\ UNCHANGED <<cloudVars, scanVars, setVars, diskVars, listings>>
LoadHere == Idle /\ \E p \in doomed, d \in Homes : PathOf[d] = p.at /\ LoadFor({p}, d)
LoadElsewhere == Idle /\ doomed # {} /\ listings = {} /\ \E d \in Homes : LoadFor({}, d)

\* It ended without an error, or with one.
LookEnds(l) ==
  /\ listings' = Others(look.at) \cup {l} /\ look' = NoLook
  /\ Decide(look.cur, l)
LookFailed ==
  /\ listings' = Others(look.at) /\ look' = NoLook
  /\ doomed' = doomed \ look.cur /\ UNCHANGED checked

EndsShort(count) == FALSE   \* Mutant: an empty page ends the listing.
\* Before the listing has as many entries as were counted, it is incomplete.
PagesMissing(count) == look.off < count

\* FetchAllFsPages: one page more.
LookPage ==
  /\ Looking
  /\ \E a \in Answers(DirEntries(look.dir), look.off) :
       LET off == look.off + Len(a.data)
           count == Larger(a.count, look.count)
           seen == look.seen \cup (ToSet(a.data) \cap CloudFiles)
           listing == [at |-> look.at, seen |-> seen, here |-> look.here, torn |-> look.torn]
       IN /\ OddIf(a.odd)
          /\ \/ a.data = <<>> /\ PagesMissing(count) /\ LookFailed
             \/ a.data = <<>> /\ ~PagesMissing(count) /\ LookEnds(listing)
             \/ a.data # <<>> /\ look.prev = FirstOf(a.data) /\ LookFailed
             \/ /\ a.data # <<>> /\ look.prev # FirstOf(a.data)
                /\ IF count > 0 /\ off >= count THEN LookEnds(listing)
                   ELSE /\ look' = [look EXCEPT !.off = off, !.count = count, !.seen = seen,
                                                !.prev = FirstOf(a.data)]
                        /\ UNCHANGED <<listings, doomed, checked>>
  /\ UNCHANGED <<cloudVars, run, walk, items, rel, folders, hidden, setVars, strms, downloaded, pathIndex, unwritten>>
LookRefused ==
  /\ Looking /\ OddAnswer /\ LookFailed
  /\ UNCHANGED <<cloudVars, run, walk, items, rel, folders, hidden, setVars, strms, downloaded, pathIndex, unwritten>>

Trash ==
  /\ run.pc = "clean" /\ checked # {}
  /\ strms' \in {strms \ checked, strms} /\ checked' = {}
  /\ UNCHANGED <<cloudVars, lookVars, scanVars, setVars, downloaded, pathIndex, doomed, unwritten>>

\* The rows of the files found, by their ids, replace older ones.  The listings
\* matter no more to this run and are forgotten.
UpsertBatch(rows) == {r \in pathIndex : r.file \notin {n.file : n \in rows}} \cup rows
WriteIndex ==
  /\ run.pc = "clean" /\ doomed = {} /\ checked = {}
  /\ \E c \in [FoundFiles -> {p.at : p \in Found}] :
       /\ \A f \in DOMAIN c : [file |-> f, at |-> c[f]] \in Found
       /\ pathIndex' = UpsertBatch({[file |-> f, at |-> c[f]] : f \in DOMAIN c})
  /\ unwritten' = Found
  /\ RunAt("write")
  /\ listings' = {} /\ look' = NoLook
  /\ UNCHANGED <<cloudVars, setVars, listVars, strms, downloaded, doomed, checked>>

\* The workers write the STRM files, in any order; one that cannot be written
\* is counted and left out.
WriteStrm ==
  /\ run.pc = "write"
  /\ \E p \in Media(unwritten) : unwritten' = unwritten \ {p} /\ strms' \in {strms, strms \cup {p}}
  /\ UNCHANGED <<cloudVars, lookVars, scanVars, setVars, downloaded, pathIndex, doomed, checked>>

\* Then the other files are fetched, unless they are there; each replaces its
\* old version once it has come completely.
Download ==
  /\ run.pc = "write" /\ Media(unwritten) = {}
  /\ \E p \in unwritten : unwritten' = unwritten \ {p} /\ downloaded' \in {downloaded, downloaded \cup {p}}
  /\ UNCHANGED <<cloudVars, lookVars, scanVars, setVars, strms, pathIndex, doomed, checked>>

\* Rows whose STRM file is missing go, where a mapping leads into the target.
Ghosts == IF mapped THEN pathIndex \ strms ELSE {}
PurgeOrphanEntries ==
  /\ run.pc = "write" /\ unwritten = {}
  /\ pathIndex' = pathIndex \ Ghosts
  /\ RunAt("done")
  /\ UNCHANGED <<cloudVars, lookVars, setVars, listVars, strms, downloaded, doomed, checked, unwritten>>

\* The user cancels the run, and with it the listing it waits for.
Cancel ==
  /\ run.pc \notin {"done", "failed"}
  /\ RunAt("failed")
  /\ IF look.cur = {} THEN UNCHANGED <<lookVars, doomed, checked>> ELSE LookFailed
  /\ UNCHANGED <<cloudVars, setVars, listVars, strms, downloaded, pathIndex, unwritten>>

ScanNext ==
  \/ PutFile \/ DeleteFile \/ RenameDir
  \/ ListPage \/ ListFails \/ ResolveDir \/ ListDone
  \/ EnterDir \/ DirPage \/ DirFails \/ RetryRound
  \/ Reconcile \/ NotAsked \/ AskKept \/ LoadHere \/ LoadElsewhere \/ LookPage \/ LookRefused
  \/ Trash \/ WriteIndex \/ WriteStrm \/ Download \/ PurgeOrphanEntries \/ Cancel
ScanSpec == ScanInit /\ [][ScanNext]_cloudScanVars

-----------------------------------------------------------------------------
(* Properties                                                               *)

\* Whatever the pages of the scan missed, a run trashes only a file it has just
\* asked for, and StillAbsent says so of no file that was at its path ever since
\* the listing it was asked of began: not after any answers that go wrong, nor
\* by a listing another loop has made, unless the cloud changed while it was
\* loaded.
KeepsPresent ==
  /\ strms \ strms' \subseteq checked
  /\ \A p \in checked' \ checked : \E l \in listings' : l.at = p.at /\ (l.torn \/ p \notin l.here)
PresentKept == [][KeepsPresent]_cloudScanVars

\* While nothing changes in the cloud, a file that is there is found by the
\* scan, or in or below a directory that is reported as failed, so that its
\* STRM file is protected; except where an answer without a count, or one with a
\* directory's id that cannot be read, hid it.
FoundOrReported ==
  run.pc \in {"found", "clean", "write", "done"} /\ calm =>
    \A f \in Placed \ FoundFiles : Above[home[f]] \cap (walk.failed \cup hidden) # {}
=============================================================================
