----------------------------- MODULE EmbyEvents -----------------------------
(* What Emby reports by webhook (service/emby: notifier.go, syncdel.go).     *)
(* Each report is handled by a goroutine of its own.  A deletion in Emby     *)
(* removes the STRM files it names, and their rows; new and deleted episodes *)
(* are collected per series until none came for a while and then told in one *)
(* message, deleted seasons among them; playback is told at once.            *)
EXTENDS Integers, FiniteSets

CONSTANTS Episodes,   \* episodes, each with a STRM file of its own
          Series, SeriesOf, \* series or seasons, each a directory
          Versions,   \* files whose names pass for another version of an episode's
          Saved,      \* settings that are in force at first, or saved
          Threshold,  \* files a directory may hold to be emptied
          Reports,    \* bound: goroutines that handle a report, at a time
          MaxReports, MaxRewrites \* bounds: reports and settings saved; files that come again
EmbySettings == [added : BOOLEAN, removed : BOOLEAN, sync : BOOLEAN, syncNotify : BOOLEAN, dry : BOOLEAN, versions : BOOLEAN]
EventsAssumption ==
  /\ Saved \subseteq EmbySettings
  /\ SeriesOf \in [Episodes -> Series] /\ Episodes \cap Series = {}
  /\ \A e \in Episodes : Versions[e] \subseteq {f \in Episodes : SeriesOf[f] = SeriesOf[e]}
  /\ IsFiniteSet(Reports) /\ {Threshold, MaxReports, MaxRewrites} \subseteq Nat
Kinds == {"added", "deleted"}
Things == Episodes \cup Series
Collected(x) == IF x \in Series THEN x ELSE SeriesOf[x]   \* what it is collected under
NoThing == "none"

VARIABLES
  strm, index,  \* STRM files and their rows in the path index
  hooks,        \* the goroutines that handle a report
  recent,       \* what the sync has handled within the last minute
  buffer,       \* what is collected per kind and series, whether the last came
                \* just now, whether the timer runs, and functions it has started
  hand,         \* messages of new episodes being made, and how far they are
  played,       \* playback told within the last minute
  settings, reports, rewrites
eventVars == <<strm, index, hooks, recent, buffer, hand, played, settings, reports, rewrites>>

NoReport == [at |-> "idle", of |-> NoThing]
Empty == [eps |-> {}, fresh |-> FALSE, armed |-> FALSE, fired |-> 0]
EventsTypeOK ==
  /\ strm \cup index \subseteq Episodes /\ recent \subseteq Things
  /\ hooks \in [Reports -> [at : {"idle", "check", "delete", "rows", "mark", "tell"}, of : Things \cup {NoThing}]]
  /\ buffer \in [Kinds \X Series -> [eps : SUBSET Things, fresh : BOOLEAN, armed : BOOLEAN, fired : 0 .. MaxReports]]
  /\ \A m \in hand : m.eps \subseteq Things
  /\ settings \in EmbySettings /\ reports \in 0 .. MaxReports /\ rewrites \in 0 .. MaxRewrites
  /\ played \in BOOLEAN

EventsInit ==
  /\ strm = Episodes /\ index = Episodes
  /\ hooks = [h \in Reports |-> NoReport] /\ recent = {}
  /\ buffer = [b \in Kinds \X Series |-> Empty] /\ hand = {}
  /\ played = FALSE
  /\ settings \in Saved
  /\ reports = 0 /\ rewrites = 0

-----------------------------------------------------------------------------
(* Collecting episodes                                                      *)

\* One more; the timer starts again, unless its function has been
\* started already.
Collect(k, x) ==
  LET b == <<k, Collected(x)>> IN
  buffer' = [buffer EXCEPT ![b] = [eps |-> @.eps \cup {x}, fresh |-> TRUE, armed |-> TRUE, fired |-> @.fired]]
SeriesEpisodeAdded(e) == Collect("added", e)
SeriesEpisodeDeleted(x) == Collect("deleted", x)

\* Twenty seconds after the last episode the timer's function starts.
TimerStarts(b) ==
  /\ buffer[b].armed
  /\ buffer' = [buffer EXCEPT ![b] = [eps |-> @.eps, fresh |-> FALSE, armed |-> FALSE, fired |-> @.fired + 1]]
  /\ UNCHANGED <<strm, index, hooks, recent, hand, played, settings, reports, rewrites>>

\* Mutant: a buffer that is too fresh is left where it is, without its timer.
LeftBy(b) ==
  IF buffer[b].fresh
  THEN [eps |-> buffer[b].eps, fresh |-> TRUE, armed |-> FALSE, fired |-> buffer[b].fired - 1]
  ELSE [eps |-> {}, fresh |-> FALSE, armed |-> FALSE, fired |-> buffer[b].fired - 1]
\* The function stops the timer of the map, which may be a newer one, and
\* takes the buffer.
Left(b) == [eps |-> {}, fresh |-> FALSE, armed |-> FALSE, fired |-> buffer[b].fired - 1]
Take(b) == buffer[b].fired > 0 /\ buffer' = [buffer EXCEPT ![b] = Left(b)]
\* What is taken is told, unless an episode came between the start of the
\* function and its lock: then it and all others in the buffer are dropped.
Kept(b) == buffer[b].eps # {} /\ ~buffer[b].fresh
FlushAdded(s) ==
  LET b == <<"added", s>> IN
  /\ Take(b)
  /\ IF Kept(b) /\ settings.added
     THEN hand' = hand \cup {[at |-> "asks", eps |-> buffer[b].eps]} ELSE UNCHANGED hand
  /\ UNCHANGED <<strm, index, hooks, recent, played, settings, reports, rewrites>>
\* The message of what was deleted goes out at once, when it is wanted.
FlushDeleted(s) ==
  /\ Take(<<"deleted", s>>)
  /\ UNCHANGED <<strm, index, hooks, recent, hand, played, settings, reports, rewrites>>

\* What Emby knows of the series, as a user who sees everything, as any user,
\* or as no one: nothing yet, nothing of use yet, or all that is needed.
GetItemDetail == {"fails", "empty", "full"}
\* Asked for again and again for 25 seconds; without it the message is dropped.
GetItemDetailWithRetry(m) ==
  /\ m.at = "asks"
  /\ \E detail \in GetItemDetail :
       hand' = (hand \ {m}) \cup (IF detail = "full" THEN {[at |-> "known", eps |-> m.eps]} ELSE {})
  /\ UNCHANGED <<strm, index, hooks, recent, buffer, played, settings, reports, rewrites>>
\* With its poster, or without.
SendAdded(m) ==
  /\ m.at = "known" /\ hand' = hand \ {m}
  /\ UNCHANGED <<strm, index, hooks, recent, buffer, played, settings, reports, rewrites>>

-----------------------------------------------------------------------------
(* Reports                                                                  *)

Report == reports < MaxReports /\ reports' = reports + 1
Proceed(h, at) == hooks' = [hooks EXCEPT ![h] = [at |-> at, of |-> IF at = "idle" THEN NoThing ELSE @.of]]

\* library.new of an episode; the messages of films and whole series, which are
\* made at once, are left out.
MediaAdded(e) ==
  /\ Report
  /\ IF settings.added THEN SeriesEpisodeAdded(e) ELSE UNCHANGED buffer
  /\ UNCHANGED <<strm, index, hooks, recent, hand, played, settings, rewrites>>

\* library.deleted, which Emby may send late and more than once.
MediaDeleted(h, x) ==
  /\ Report /\ hooks[h] = NoReport
  /\ hooks' = [hooks EXCEPT ![h] = [at |-> "check", of |-> x]]
  /\ UNCHANGED <<strm, index, recent, buffer, hand, played, settings, rewrites>>

\* HandleSyncDelete: switched off, handled a moment ago, or only tried out.
HandleSyncDelete(h) ==
  LET x == hooks[h].of IN
  /\ hooks[h].at = "check"
  /\ \/ /\ settings.sync /\ ~settings.dry /\ x \notin recent
        /\ Proceed(h, "delete") /\ UNCHANGED recent
     \/ /\ settings.sync /\ settings.dry /\ x \notin recent
        /\ recent' = recent \cup {x} /\ Proceed(h, "tell")
     \/ /\ ~settings.sync \/ x \in recent
        /\ Proceed(h, "tell") /\ UNCHANGED recent
  /\ UNCHANGED <<strm, index, buffer, hand, played, settings, reports, rewrites>>

\* deleteByItemType: the file of an episode and, if so set, what passes for its
\* versions; or the files of a directory, unless it holds too many.
Named(x) == IF x \in Series THEN {e \in Episodes : SeriesOf[e] = x} ELSE {x}
Counted(x) == Cardinality(strm \cap Named(x))
Removed(x) ==
  IF x \in Series THEN IF Counted(x) > Threshold THEN {} ELSE Named(x)
  ELSE IF settings.versions THEN {x} \cup Versions[x] ELSE {x}
DeleteByItemType(h) ==
  /\ hooks[h].at = "delete" /\ Proceed(h, "rows")
  /\ strm' = strm \ Removed(hooks[h].of)
  /\ UNCHANGED <<index, recent, buffer, hand, played, settings, reports, rewrites>>

\* The rows go, also those of a directory that was spared.
CleanupDbRecords(h) ==
  /\ hooks[h].at = "rows" /\ Proceed(h, "mark")
  /\ index' = index \ Named(hooks[h].of)
  /\ UNCHANGED <<strm, recent, buffer, hand, played, settings, reports, rewrites>>
MarkRecentlyDeleted(h) ==
  /\ hooks[h].at = "mark" /\ Proceed(h, "tell")
  /\ recent' = recent \cup {hooks[h].of}
  /\ UNCHANGED <<strm, index, buffer, hand, played, settings, reports, rewrites>>

\* handleMediaDeleted; a series or season that names no series is told at once.
DeletionNotificationsEnabled == settings.removed \/ (settings.sync /\ settings.syncNotify)
TellDeleted(h) ==
  LET x == hooks[h].of IN
  /\ hooks[h].at = "tell" /\ Proceed(h, "idle")
  /\ \/ DeletionNotificationsEnabled /\ ~(settings.sync /\ settings.dry) /\ SeriesEpisodeDeleted(x)
     \/ /\ x \in Series \/ ~DeletionNotificationsEnabled \/ (settings.sync /\ settings.dry)
        /\ UNCHANGED buffer
  /\ UNCHANGED <<strm, index, recent, hand, played, settings, reports, rewrites>>

\* Playback: told once within a minute.
Playback ==
  /\ Report /\ ~played /\ played' = TRUE
  /\ UNCHANGED <<strm, index, hooks, recent, buffer, hand, settings, rewrites>>
AMinutePasses ==
  /\ recent # {} \/ played
  /\ recent' = {} /\ played' = FALSE
  /\ UNCHANGED <<strm, index, hooks, buffer, hand, settings, reports, rewrites>>

\* A task or an event of the cloud writes a file again.
WriteAgain(e) ==
  /\ e \notin strm /\ rewrites < MaxRewrites /\ rewrites' = rewrites + 1
  /\ strm' = strm \cup {e} /\ index' = index \cup {e}
  /\ UNCHANGED <<hooks, recent, buffer, hand, played, settings, reports>>
SaveSettings ==
  /\ Report /\ settings' \in Saved \ {settings}
  /\ UNCHANGED <<strm, index, hooks, recent, buffer, hand, played, rewrites>>

EventsNext ==
  \/ \E b \in Kinds \X Series : TimerStarts(b)
  \/ \E s \in Series : FlushAdded(s) \/ FlushDeleted(s)
  \/ \E m \in hand : GetItemDetailWithRetry(m) \/ SendAdded(m)
  \/ \E e \in Episodes : MediaAdded(e) \/ WriteAgain(e)
  \/ \E h \in Reports : \/ \E x \in Things : MediaDeleted(h, x)
                        \/ HandleSyncDelete(h) \/ DeleteByItemType(h) \/ CleanupDbRecords(h)
                        \/ MarkRecentlyDeleted(h) \/ TellDeleted(h)
  \/ Playback \/ AMinutePasses \/ SaveSettings
EventsSpec == EventsInit /\ [][EventsNext]_eventVars

-----------------------------------------------------------------------------
(* Properties                                                               *)

\* Nothing that was collected is forgotten: a buffer that holds some has its timer
\* running, or a started function of a timer that is to take it.
CollectedTold ==
  \A b \in Kinds \X Series : buffer[b].eps # {} => buffer[b].armed \/ buffer[b].fired > 0
=============================================================================
