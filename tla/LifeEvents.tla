----------------------------- MODULE LifeEvents -----------------------------
(* What the monitor does with one life event (service/monitor/event_*.go):  *)
(* it resolves the cloud path of the event, decides by the old and the new  *)
(* path, and creates, moves, renames or trashes STRM files, their records   *)
(* in managed_strms and the rows of its path index, step by step.           *)
(* The cloud has folders with files in them, in the mapped directory or     *)
(* outside of it, and goes on changing while events wait.  A handler is the *)
(* sequence of the stores it leaves behind: a crash leaves any of them.     *)
(* Files are media files with a pickcode of their own; the requests to 115  *)
(* answer.  The deduplicator and the cursor are in LifeMonitor.             *)
EXTENDS Integers, Sequences, FiniteSets, SequencesExt

CONSTANTS MediaFiles, CloudFolders,  \* ids of 115
          FolderNames, FileNames,
          Own, Shared,   \* the names of each alone, or those that pass from one to another
          LifeSettings,  \* the settings to choose from
          OpSets,        \* sets of operations users perform, to choose from
          MaxOps,        \* bound: how many of them
          MaxBacklog,    \* bound: events that wait at a time
          MaxCrashes     \* bound: crashes of the program, after which users rest
Out == "out"        \* the part of the cloud that is not mapped
Mapped == "root"    \* the mapped directory
User == "user"      \* a local file somebody else wrote
NoFile == "none"
LifeAssumption ==
  /\ MediaFiles \cap CloudFolders = {} /\ FolderNames \cap FileNames = {} /\ IsFiniteSet(MediaFiles)
  /\ {User, NoFile} \cap MediaFiles = {}
  /\ {Out, Mapped} \cap (MediaFiles \cup CloudFolders \cup FolderNames \cup FileNames) = {}
  /\ Own \in [MediaFiles \cup CloudFolders -> SUBSET (FolderNames \cup FileNames)]
  /\ LifeSettings \subseteq [recreate : BOOLEAN, keepOld : BOOLEAN, moveOut : BOOLEAN, createNew : BOOLEAN]
  /\ MaxOps \in Nat /\ MaxBacklog \in Nat \ {0} /\ MaxCrashes \in Nat

VARIABLES
  place, dirName,   \* where a folder is: Root, Out, "new" or "gone"; its name
  parent, fileName, \* the folder a file is in: or Out, "new" or "gone"; its name
  events,           \* the events that wait, the first of them next
  store,            \* the local files, the records and the index
  verified,         \* paths of folders that 115 has confirmed (folderVerifyCache)
  dropped,          \* files an event was skipped for, as it had no path
  config, users,    \* the settings, and the operations users perform
  ops, crashes      \* how many there have been
mediaVars == <<place, dirName, parent, fileName>>
lifeVars == <<mediaVars, events, store, verified, dropped, config, users, ops, crashes>>

(* A cloud path is the sequence of its names below the mapping.  A local    *)
(* path is that of the media file it is made for.                           *)
NotKnown == <<>>
LocalPath == {<<d, n>> : d \in FolderNames, n \in FileNames}
InMedia(path) == path # NotKnown /\ path[1] \in FolderNames

(* The record of a local path: the pickcode stands for the file.            *)
NoRow == [file |-> NoFile, at |-> NotKnown, active |-> FALSE]
FolderAt == {NotKnown} \cup {<<d>> : d \in FolderNames} \cup {<<Out, d>> : d \in FolderNames}
FileAt == {NotKnown} \cup LocalPath \cup {<<Out, n>> : n \in FileNames}
            \cup {<<Out, d, n>> : d \in FolderNames, n \in FileNames}
LocalStore ==
  [local : [LocalPath -> MediaFiles \cup {User, NoFile}],
   dirs : SUBSET FolderNames,
   row : [LocalPath -> [file : MediaFiles \cup {NoFile}, at : FileAt, active : BOOLEAN]],
   files : [MediaFiles \cup CloudFolders -> FileAt \cup FolderAt],
   folders : [CloudFolders -> FolderAt],
   marked : SUBSET MediaFiles]   \* files a folder's recursion has done (intent.go)
EmptyStore ==
  [local |-> [p \in LocalPath |-> NoFile], dirs |-> {}, row |-> [p \in LocalPath |-> NoRow],
   files |-> [i \in MediaFiles \cup CloudFolders |-> NotKnown], folders |-> [f \in CloudFolders |-> NotKnown], marked |-> {}]

FileEvent == [type : {"create", "delete", "move", "rename"}, id : MediaFiles,
              parent : CloudFolders \cup {Out}, name : FileNames]
FolderEvent == [type : {"newFolder", "delete", "move", "rename"}, id : CloudFolders,
                parent : {Mapped, Out}, name : FolderNames]

LifeTypeOK ==
  /\ place \in [CloudFolders -> {Mapped, Out, "new", "gone"}] /\ dirName \in [CloudFolders -> FolderNames]
  /\ parent \in [MediaFiles -> CloudFolders \cup {Out, "new", "gone"}] /\ fileName \in [MediaFiles -> FileNames]
  /\ events \in Seq(FileEvent \cup FolderEvent) /\ Len(events) <= MaxBacklog
  /\ store \in LocalStore /\ verified \subseteq CloudFolders \X FolderAt /\ dropped \subseteq MediaFiles
  /\ config \in LifeSettings /\ users \in OpSets
  /\ ops \in 0 .. MaxOps /\ crashes \in 0 .. MaxCrashes

\* Names stay with their files and folders, where users reuse none.
NamesOf(i) == IF "reuse" \in users THEN Shared ELSE Own[i]
NamesFit == /\ \A f \in CloudFolders : dirName[f] \in NamesOf(f)
            /\ \A x \in MediaFiles : fileName[x] \in NamesOf(x)

LifeInit ==
  /\ place = [f \in CloudFolders |-> "new"] /\ dirName \in [CloudFolders -> FolderNames]
  /\ parent = [x \in MediaFiles |-> "new"] /\ fileName \in [MediaFiles -> FileNames]
  /\ events = <<>>
  /\ store = EmptyStore /\ verified = {} /\ dropped = {}
  /\ config \in LifeSettings /\ users \in OpSets /\ NamesFit
  /\ ops = 0 /\ crashes = 0

-----------------------------------------------------------------------------
(* The cloud                                                                *)
FolderPath(f) ==
  IF place[f] = Mapped THEN <<dirName[f]>>
  ELSE IF place[f] = Out THEN <<Out, dirName[f]>> ELSE NotKnown
FilePath(x) ==
  IF parent[x] = Out THEN <<Out, fileName[x]>>
  ELSE IF parent[x] \in CloudFolders /\ FolderPath(parent[x]) # NotKnown
       THEN Append(FolderPath(parent[x]), fileName[x]) ELSE NotKnown
Children(f) == {x \in MediaFiles : parent[x] = f}

(* The paths of all that is there differ.                                   *)
NoClash ==
  /\ \A f, g \in CloudFolders : f # g /\ FolderPath(f) # NotKnown => FolderPath(f) # FolderPath(g)
  /\ \A x, y \in MediaFiles : x # y /\ FilePath(x) # NotKnown => FilePath(x) # FilePath(y)

Event(type, id, above, name) ==
  [type |-> type, id |-> id, parent |-> above, name |-> name]

\* One operation of a user, which 115 records as one event; from is the path of
\* what it is done to.
CloudOp(op, from, event) ==
  /\ (IF InMedia(from) THEN op ELSE "outside") \in users /\ Len(events) < MaxBacklog
  /\ events' = Append(events, event)
  /\ ops' = ops + 1
  /\ UNCHANGED <<store, verified, dropped, config, users, crashes>>
  /\ NoClash' /\ NamesFit'

\* A folder arrives with what is in it, as a single event of type 17.
UploadFolder(f, above, inside) ==
  /\ place[f] = "new" /\ \A x \in inside : parent[x] = "new"
  /\ place' = [place EXCEPT ![f] = above]
  /\ parent' = [x \in MediaFiles |-> IF x \in inside THEN f ELSE parent[x]]
  /\ UNCHANGED <<dirName, fileName>>
  /\ CloudOp("upload", FolderPath(f)', Event("newFolder", f, above, dirName[f]))
UploadFile(x, above) ==
  /\ parent[x] = "new" /\ (above \in CloudFolders => FolderPath(above) # NotKnown)
  /\ parent' = [parent EXCEPT ![x] = above]
  /\ UNCHANGED <<place, dirName, fileName>>
  /\ CloudOp("upload", FilePath(x)', Event("create", x, above, fileName[x]))
EraseFile(x) ==
  /\ FilePath(x) # NotKnown
  /\ parent' = [parent EXCEPT ![x] = "gone"]
  /\ UNCHANGED <<place, dirName, fileName>>
  /\ CloudOp("deleteFile", FilePath(x), Event("delete", x, parent[x], fileName[x]))
DeleteFolder(f) ==
  /\ FolderPath(f) # NotKnown
  /\ place' = [place EXCEPT ![f] = "gone"]
  /\ parent' = [x \in MediaFiles |-> IF parent[x] = f THEN "gone" ELSE parent[x]]
  /\ UNCHANGED <<dirName, fileName>>
  /\ CloudOp("deleteFolder", FolderPath(f), Event("delete", f, place[f], dirName[f]))
MoveFile(x, above) ==
  /\ FilePath(x) # NotKnown /\ above # parent[x]
  /\ above \in CloudFolders => FolderPath(above) # NotKnown
  /\ parent' = [parent EXCEPT ![x] = above]
  /\ UNCHANGED <<place, dirName, fileName>>
  /\ CloudOp("moveFile", FilePath(x), Event("move", x, above, fileName[x]))
MoveFolder(f) ==
  /\ FolderPath(f) # NotKnown
  /\ place' = [place EXCEPT ![f] = IF @ = Mapped THEN Out ELSE Mapped]
  /\ UNCHANGED <<dirName, parent, fileName>>
  /\ CloudOp("moveFolder", FolderPath(f), Event("move", f, place'[f], dirName[f]))
RenameFile(x, name) ==
  /\ FilePath(x) # NotKnown /\ name # fileName[x]
  /\ fileName' = [fileName EXCEPT ![x] = name]
  /\ UNCHANGED <<place, dirName, parent>>
  /\ CloudOp("renameFile", FilePath(x), Event("rename", x, parent[x], name))
RenameFolder(f, name) ==
  /\ FolderPath(f) # NotKnown /\ name # dirName[f]
  /\ dirName' = [dirName EXCEPT ![f] = name]
  /\ UNCHANGED <<place, parent, fileName>>
  /\ CloudOp("renameFolder", FolderPath(f), Event("rename", f, place[f], name))

-----------------------------------------------------------------------------
(* The steps a handler is made of.  T is the sequence of the stores so far. *)
Now(T) == Last(T)

\* An index row is written or removed, a directory is made or, once empty, removed.
Index(T, id, path) == Append(T, [Now(T) EXCEPT !.files = [@ EXCEPT ![id] = path]])
IndexFolder(T, f, path) == Append(T, [Now(T) EXCEPT !.folders = [@ EXCEPT ![f] = path]])
Mkdir(T, d) == Append(T, [Now(T) EXCEPT !.dirs = @ \cup {d}])
NothingIn(S, d) == \A n \in FileNames : S.local[<<d, n>>] = NoFile
RemoveEmptyParents(T, d) ==
  IF NothingIn(Now(T), d) THEN Append(T, [Now(T) EXCEPT !.dirs = @ \ {d}]) ELSE T

\* The rows at or below an old path go, or get a new path.
IsWithin(path, prefix) == IsPrefix(prefix, path)
DeleteByPathPrefix(T, prefix) ==
  LET S == Now(T) IN
  Append(T, [S EXCEPT
    !.files = [i \in DOMAIN @ |-> IF prefix # NotKnown /\ IsWithin(@[i], prefix) THEN NotKnown ELSE @[i]],
    !.folders = [f \in DOMAIN @ |-> IF prefix # NotKnown /\ IsWithin(@[f], prefix) THEN NotKnown ELSE @[f]]])
NewPrefix(path, old, new) ==
  IF IsWithin(path, old) THEN new \o SubSeq(path, Len(old) + 1, Len(path)) ELSE path
UpdatePathPrefix(T, old, new) ==
  Append(T, [Now(T) EXCEPT !.files = [i \in DOMAIN @ |-> NewPrefix(@[i], old, new)]])
UpdateFolderPathPrefix(T, old, new) ==
  Append(T, [Now(T) EXCEPT !.folders = [f \in DOMAIN @ |-> NewPrefix(@[f], old, new)]])

\* WriteStrmFile, then the record of what was written.  A record that brings
\* no cloud path keeps the one that is there.
WriteStrmFile(T, path, x) == Append(T, [Now(T) EXCEPT !.local = [@ EXCEPT ![path] = x]])
Record(T, path, x, at) ==
  LET S == Now(T) IN
  Append(T, [S EXCEPT !.row = [@ EXCEPT ![path] =
    [file |-> x, at |-> IF at = NotKnown THEN S.row[path].at ELSE at, active |-> TRUE]]])
WriteRecorded(T, path, x, at) == Record(WriteStrmFile(T, path, x), path, x, at)

\* UpdateManagedPathPrefix: the records of the paths in moved, a one-to-one
\* map, follow the files; a record that is in the way, in whatever state,
\* makes the whole of it fail.
MigrateManaged(T, moved, old, new) ==
  LET S == Now(T)
      rows == {p \in DOMAIN moved : S.row[p] # NoRow}
      arrived == [q \in {moved[p] : p \in rows} |-> CHOOSE p \in rows : moved[p] = q]
  IN IF \E p \in rows : S.row[moved[p]] # NoRow
     THEN T
     ELSE Append(T, [S EXCEPT !.row = [q \in LocalPath |->
            IF q \in DOMAIN arrived
            THEN [S.row[arrived[q]] EXCEPT !.at = NewPrefix(@, old, new)]
            ELSE IF q \in rows THEN NoRow ELSE S.row[q]]])

\* A file is trashed when it is as its record has it and the record is not of
\* another cloud path; its record is marked.  A tree is trashed file by file,
\* and the records stay as they are.
\* Mutant: the record is believed, and the file is not compared with it.
ManagedByRecord(S, path) == S.row[path].active /\ S.local[path] # NoFile
Managed(S, path) ==
  S.row[path].active /\ S.row[path].file # NoFile /\ S.local[path] = S.row[path].file
Trashable(S, path, expected) ==
  /\ Managed(S, path)
  /\ expected = NotKnown \/ S.row[path].at = NotKnown \/ S.row[path].at = expected
TrashFile(T, path, expected) ==
  LET S == Now(T) IN
  IF ~Trashable(S, path, expected) THEN T
  ELSE LET moved == [S EXCEPT !.local = [@ EXCEPT ![path] = NoFile]] IN
       Append(Append(T, moved), [moved EXCEPT !.row = [@ EXCEPT ![path] =
         [file |-> S.row[path].file, at |-> S.row[path].at, active |-> FALSE]]])
TrashTree(T, d) ==
  LET S == Now(T)
      gone == {p \in LocalPath : p[1] = d /\ Managed(S, p)} IN
  IF gone = {} THEN T
  ELSE RemoveEmptyParents(Append(T, [S EXCEPT !.local =
         [p \in LocalPath |-> IF p \in gone THEN NoFile ELSE @[p]]]), d)

\* findLocalStrmByFileName: by its bare name, in whatever directory.
FindFile(S, name) ==
  IF \E d \in S.dirs : S.local[<<d, name>>] # NoFile
  THEN <<CHOOSE d \in S.dirs : S.local[<<d, name>>] # NoFile, name>> ELSE NotKnown

\* GetFileOrFolderEntry
OldPath(S, id) ==
  IF S.files[id] # NotKnown THEN S.files[id]
  ELSE IF id \in CloudFolders THEN S.folders[id] ELSE NotKnown

-----------------------------------------------------------------------------
(* Creating                                                                 *)

\* The STRM of the path a file had is removed: where the index had it in the
\* mapping, or else the directory in which its bare name is found.
\* Mutant: it stays beside the new one.
KeepOldStrm(T, x, old) == T
CleanupOldStrmByFileID(T, x, old) ==
  LET S == Now(T)
      found == FindFile(S, Last(old))
  IN IF InMedia(old)
     THEN IF S.local[old] = NoFile THEN T ELSE Index(TrashFile(T, old, NotKnown), x, NotKnown)
     ELSE IF found = NotKnown THEN T
     ELSE Index(RemoveEmptyParents(TrashTree(T, found[1]), found[1]), x, NotKnown)

\* createStrmForSingleFile: the index, the directory, the file and its record.
\* Mutant: a file whose row is there is taken to be done.
CreateStrmOnce(T, x, path) ==
  IF OldPath(Now(T), x) = path THEN T
  ELSE WriteRecorded(Mkdir(Index(T, x, path), path[1]), path, x, path)
CreateStrm(T, x, path) ==
  LET old == OldPath(Now(T), x)
      written == WriteRecorded(Mkdir(Index(T, x, path), path[1]), path, x, path)
  IN IF old \in {NotKnown, path} THEN written ELSE CleanupOldStrmByFileID(written, x, old)

\* handleCreateFolderRecursive, with the files 115 lists now: the event of a
\* file it has done is dropped, once.
Mark(T, x) == Append(T, [Now(T) EXCEPT !.marked = @ \cup {x}])
Consume(x) == <<store, [store EXCEPT !.marked = @ \ {x}]>>
CreateChild(T, x, d) == Mark(CreateStrm(T, x, <<d, fileName[x]>>), x)
CreateChildren(T, kids, d) ==
  LET made[i \in 0 .. Len(kids)] == IF i = 0 THEN T ELSE CreateChild(made[i - 1], kids[i], d)
  IN made
CreateFolder(T, f, d) ==
  LET kids == SetToSeq(Children(f))
  IN CreateChildren(IndexFolder(Mkdir(T, d), f, <<d>>), kids, d)[Len(kids)]
Create(T, id, path) ==
  IF id \in CloudFolders THEN CreateFolder(T, id, path[1]) ELSE CreateStrm(T, id, path)

(* Deleting: the file at the path of the event, or one of its name.         *)
HandleDelete(T, e, path) ==
  LET S == Now(T)
      dir == IF path[1] \in S.dirs THEN path[1] ELSE e.name
      file == IF S.local[path] # NoFile THEN path ELSE FindFile(S, e.name)
      trashed == TrashFile(T, file, path)
  IN IF e.id \in CloudFolders THEN IF dir \in S.dirs THEN TrashTree(T, dir) ELSE T
     ELSE IF file = NotKnown \/ trashed = T THEN T
     ELSE RemoveEmptyParents(trashed, file[1])

-----------------------------------------------------------------------------
(* Moves and renames                                                        *)

\* cleanupOldStrmAssets: what the old path had is trashed and forgotten.
CleanupOldStrmAssets(T, id, old) ==
  IF id \in CloudFolders THEN DeleteByPathPrefix(TrashTree(T, old[1]), old)
  ELSE Index(RemoveEmptyParents(TrashFile(T, old, old), old[1]), id, NotKnown)

\* Recreate mode: the old goes, unless it is to be kept, and the new is made.
Recreate(T, id, old, new) ==
  Create(IF config.keepOld THEN T ELSE CleanupOldStrmAssets(T, id, old), id, new)

\* cleanupOldStrmForOtherToMedia, for an old path outside of the mapping.
CleanupForOtherToMedia(T, e, old) ==
  LET S == Now(T)
      first == FindFile(S, IF old = NotKnown THEN e.name ELSE Last(old))
      found == IF first = NotKnown THEN FindFile(S, e.name) ELSE first
      trashed == TrashFile(T, found, old)
  IN IF config.keepOld \/ e.id \in CloudFolders \/ found = NotKnown \/ trashed = T THEN T
     ELSE Index(RemoveEmptyParents(trashed, found[1]), e.id, NotKnown)

\* Inside of the mapping a folder's directory is renamed with all that is in
\* it, and the records and the index follow; it is made anew when it is not
\* there, or its target is.
RenameLocalDir(T, f, old, new) ==
  LET S == Now(T)
      moved == [p \in {q \in LocalPath : q[1] = old[1]} |-> <<new[1], p[2]>>]
      there == Append(T, [S EXCEPT
        !.local = [p \in LocalPath |-> IF p[1] = new[1] THEN @[<<old[1], p[2]>>]
                                       ELSE IF p[1] = old[1] THEN NoFile ELSE @[p]],
        !.dirs = (@ \ {old[1]}) \cup {new[1]}])
      files == UpdatePathPrefix(there, old, new)
      index == IndexFolder(UpdateFolderPathPrefix(files, old, new), f, new)
  IN MigrateManaged(index, moved, old, new)
RelocateFolder(T, f, old, new) ==
  IF config.recreate THEN Recreate(T, f, old, new)
  ELSE IF old[1] \notin Now(T).dirs THEN CreateFolder(T, f, new[1])
  ELSE IF new[1] \in Now(T).dirs
       THEN UpdatePathPrefix(CreateFolder(CleanupOldStrmAssets(T, f, old), f, new[1]), old, new)
  ELSE RenameLocalDir(T, f, old, new)

\* writeStrmFile: the content of the new path, whose record keeps its cloud path.
Sync(T, x, path) == WriteRecorded(T, path, x, NotKnown)

\* A file's STRM is renamed; when the new one is there already the old is trashed.
RenameStrm(T, x, old, new) ==
  LET S == Now(T)
      renamed == Append(Mkdir(T, new[1]),
        [S EXCEPT !.dirs = @ \cup {new[1]},
                  !.local = [@ EXCEPT ![new] = S.local[old], ![old] = NoFile]])
      moved == MigrateManaged(renamed, [p \in {old} |-> new], old, new)
      synced == Index(Sync(moved, x, new), x, new)
  IN IF old[1] = new[1] THEN synced ELSE RemoveEmptyParents(synced, old[1])
MergeStrm(T, x, old, new) == Index(TrashFile(Sync(T, x, new), old, old), x, new)
RelocateFile(T, e, old, new) ==
  LET S == Now(T)
      x == e.id
      oldExists == S.local[old] # NoFile
      newExists == S.local[new] # NoFile
  IN IF config.recreate
     THEN Recreate(T, x, old, new)
     ELSE IF ~oldExists /\ ~newExists
          THEN IF e.type = "move" \/ config.createNew THEN CreateStrm(T, x, new) ELSE T
     ELSE IF ~oldExists THEN IF e.type = "move" THEN Sync(T, x, new) ELSE T
     ELSE IF old = new
          THEN IF e.type = "move" THEN Sync(T, x, new) ELSE Index(Sync(T, x, new), x, new)
     ELSE IF newExists THEN MergeStrm(T, x, old, new)
     ELSE RenameStrm(T, x, old, new)

\* handleMoveOutEvent: by the old path, or else by the bare name.
HandleMoveOut(T, e, old) ==
  LET S == Now(T)
      byName == IF e.id \in CloudFolders THEN IF e.name \in S.dirs THEN <<e.name>> ELSE NotKnown
                ELSE FindFile(S, e.name)
      at == IF InMedia(old) THEN old ELSE byName
      known == IF InMedia(old) THEN old ELSE <<Out, e.name>>  \* the bare name
  IN IF at = NotKnown \/ ~config.moveOut THEN T
     ELSE IF e.id \in CloudFolders THEN DeleteByPathPrefix(TrashTree(T, at[1]), known)
     ELSE Index(RemoveEmptyParents(TrashFile(T, at, known), at[1]), e.id, NotKnown)

\* handleMoveRenameQuadrant.  An event whose path is not resolved is dropped.
HandleMove(T, e, new) ==
  LET old == OldPath(Now(T), e.id) IN
  IF new = NotKnown THEN T
  ELSE IF ~InMedia(new) THEN HandleMoveOut(T, e, old)
  ELSE IF ~InMedia(old) THEN Create(CleanupForOtherToMedia(T, e, old), e.id, new)
  ELSE IF e.id \in CloudFolders THEN RelocateFolder(T, e.id, old, new)
  ELSE RelocateFile(T, e, old, new)

-----------------------------------------------------------------------------
(* processEvent: the path of an event is that of its id in the index, unless *)
(* it moved or was renamed, or that of the folder it is in and its name.    *)
\* Mutant: the path in the index is taken for renames and moves as well.
ResolveCached(e, fresh) == IF OldPath(store, e.id) # NotKnown THEN OldPath(store, e.id)
                    ELSE IF e.parent \in CloudFolders THEN Append(store.folders[e.parent], e.name)
                    ELSE IF e.parent = Mapped THEN <<e.name>> ELSE <<Out, e.name>>
CachedPath(e) == IF e.type \in {"move", "rename"} THEN NotKnown ELSE OldPath(store, e.id)
\* For these 115 must confirm the cached path of the folder, now or not long ago:
\* what was confirmed is believed until it expires, which is any time.
ParentRow(e) == IF e.parent \in CloudFolders THEN store.folders[e.parent] ELSE NotKnown
AskedPath(e) == IF e.parent \in CloudFolders THEN FolderPath(e.parent) ELSE NotKnown
Verifies(e) == e.type \in {"move", "rename"} /\ ParentRow(e) # NotKnown
Beliefs(e) == {fresh \in BOOLEAN : fresh => Verifies(e) /\ <<e.parent, ParentRow(e)>> \in verified}
Confirmed(e, fresh) ==
  IF ~Verifies(e) \/ fresh THEN verified
  ELSE IF ParentRow(e) = AskedPath(e) THEN verified \cup {<<e.parent, ParentRow(e)>>}
  ELSE verified \ {<<e.parent, ParentRow(e)>>}
ParentPath(e, fresh) ==
  IF ParentRow(e) # NotKnown /\ (Verifies(e) => fresh \/ ParentRow(e) = AskedPath(e))
  THEN ParentRow(e) ELSE AskedPath(e)
ResolvePath(e, fresh) ==
  IF CachedPath(e) # NotKnown THEN CachedPath(e)
  ELSE IF e.parent = Mapped THEN <<e.name>>
  ELSE IF e.parent = Out THEN <<Out, e.name>>
  ELSE IF ParentPath(e, fresh) = NotKnown THEN NotKnown ELSE Append(ParentPath(e, fresh), e.name)

\* preProcessEvent: the index is written ahead of whatever is decided then.
WriteAhead(e, path) == IF path = NotKnown THEN <<store>> ELSE Index(<<store>>, e.id, path)
HandleEvent(e, fresh) ==
  LET path == ResolvePath(e, fresh)
      ahead == WriteAhead(e, path)
  IN IF e.type = "create" /\ e.id \in store.marked
     THEN Consume(e.id)
     ELSE IF e.type \in {"move", "rename"} THEN HandleMove(<<store>>, e, path)
     ELSE IF path = NotKnown THEN <<store>>
     ELSE IF ~InMedia(path) THEN ahead
     ELSE IF e.type = "delete" THEN HandleDelete(ahead, e, path)
     ELSE Create(ahead, e.id, path)

\* What was confirmed is forgotten when a folder has got a new path.
Renews(e, path) ==
  LET old == OldPath(store, e.id) IN
  /\ e.type \in {"move", "rename"} /\ e.id \in CloudFolders /\ InMedia(old) /\ InMedia(path)
  /\ ~config.recreate /\ (old[1] \notin store.dirs \/ path[1] \notin store.dirs)
ProcessEvent ==
  /\ events # <<>>
  /\ \E fresh \in Beliefs(Head(events)) :
       LET e == Head(events)
           path == ResolvePath(e, fresh)
       IN /\ store' = Last(HandleEvent(e, fresh))
          /\ verified' = IF Renews(e, path) THEN {} ELSE Confirmed(e, fresh)
          /\ dropped' = IF path = NotKnown THEN dropped \cup ({e.id} \cap MediaFiles) ELSE dropped
  /\ events' = Tail(events)
  /\ UNCHANGED <<mediaVars, config, users, ops, crashes>>

\* Bootstrap: local files without a record get one, when the index knows them.
Bootstrap(S) ==
  [S EXCEPT !.marked = {},
            !.row = [p \in LocalPath |->
    IF @[p] = NoRow /\ S.local[p] \in MediaFiles /\ S.files[S.local[p]] # NotKnown
    THEN [file |-> S.local[p], at |-> S.files[S.local[p]], active |-> TRUE] ELSE @[p]]]

\* The program stops somewhere in a handler; its event is polled again.
HandlerCrash ==
  /\ "crash" \in users /\ crashes < MaxCrashes /\ events # <<>>
  /\ \E fresh \in Beliefs(Head(events)) :
       LET T == HandleEvent(Head(events), fresh)
       IN \E i \in DOMAIN T : store' = Bootstrap(T[i])
  /\ crashes' = crashes + 1 /\ verified' = {}
  /\ UNCHANGED <<mediaVars, events, dropped, config, users, ops>>

\* Somebody else writes a file of a STRM's name.
UserWrites(path) ==
  /\ "userWrites" \in users
  /\ path[1] \in store.dirs /\ store.local[path] # User
  /\ store' = [store EXCEPT !.local = [@ EXCEPT ![path] = User]]
  /\ ops' = ops + 1
  /\ UNCHANGED <<mediaVars, events, verified, dropped, config, users, crashes>>

LifeNext ==
  \/ /\ ops < MaxOps /\ crashes = 0
     /\ \/ \E f \in CloudFolders, above \in {Mapped, Out}, inside \in SUBSET MediaFiles : UploadFolder(f, above, inside)
        \/ \E x \in MediaFiles, above \in CloudFolders \cup {Out} : UploadFile(x, above)
        \/ \E x \in MediaFiles : EraseFile(x)
        \/ \E f \in CloudFolders : DeleteFolder(f)
        \/ \E x \in MediaFiles, above \in CloudFolders \cup {Out} : MoveFile(x, above)
        \/ \E f \in CloudFolders : MoveFolder(f)
        \/ \E x \in MediaFiles, name \in FileNames : RenameFile(x, name)
        \/ \E f \in CloudFolders, name \in FolderNames : RenameFolder(f, name)
        \/ \E path \in LocalPath : UserWrites(path)
  \/ ProcessEvent
  \/ HandlerCrash
LifeSpec == LifeInit /\ [][LifeNext]_lifeVars /\ WF_lifeVars(ProcessEvent)

-----------------------------------------------------------------------------
(* Properties                                                               *)
\* Once every event is handled, every media file of the cloud has its STRM at its
\* path, though later events had changed that path, its folder's and the index
\* while it waited (processEvent, handleMoveRenameQuadrant) -- after a crash too,
\* where files are moved rather than made anew and a missing one is made.
Served ==
  /\ events = <<>>
  /\ crashes = 0 \/ (~config.recreate /\ config.createNew /\ "userWrites" \notin users)
  /\ {"reuse", "outside"} \cap users = {}
  => \A x \in MediaFiles : InMedia(FilePath(x)) => store.local[FilePath(x)] \in {x, User}

\* No STRM is left at a path its file has no more, where events have overtaken each
\* other too, and each has the record without which no later event could remove it
\* (cleanupOldStrmAssets, trashManagedStrmFile).  Files of skipped events are not meant.
NoGhosts ==
  /\ events = <<>> /\ crashes = 0 /\ config.moveOut /\ ~config.keepOld
  /\ {"reuse", "outside", "renameFolder"} \cap users = {}
  => \A p \in LocalPath : store.local[p] \in MediaFiles \ dropped =>
       FilePath(store.local[p]) = p /\ Managed(store, p)

\* Whatever a crash left of a handler's work, the last event that waits gives its
\* file the STRM when it is handled again (processEvent), if a missing one is made.
HandledGives ==
  \/ Len(events) # 1 \/ events' # <<>> \/ {"reuse", "outside"} \cap users # {} \/ (crashes > 0 /\ ~config.createNew)
  \/ \A x \in MediaFiles :
    events[1].id = x /\ InMedia(FilePath(x)) => store'.local[FilePath(x)] \in {x, User}
Redone == [][HandledGives]_lifeVars

\* No step of a handler removes what somebody else wrote (VerifyFile, Rename): it
\* stays where it is, unless the STRM of that path is written over it, or is moved
\* to a path that was free, as its directory is or as the STRM it is taken for.
UserFiles(S) == {p \in LocalPath : S.local[p] = User}
Spares(S, S2) ==
  \E to \in [UserFiles(S) -> LocalPath] :
    /\ IsInjective(to)
    /\ \A p \in UserFiles(S) :
         IF to[p] = p THEN S2.local[p] # NoFile
         ELSE S.local[to[p]] = NoFile /\ S2.local[to[p]] = User
AllSpare(T) == \A i \in 2 .. Len(T) : Spares(T[i - 1], T[i])
UserKept ==
  events # <<>> /\ UserFiles(store) # {} =>
    \A fresh \in Beliefs(Head(events)) : AllSpare(HandleEvent(Head(events), fresh))
=============================================================================
