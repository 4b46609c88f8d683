---------------------------- MODULE MCServices ----------------------------
(* Instances for TLC of the monitor and of the services beside it.  Each    *)
(* works on files and rows of its own, so that a behaviour takes one of     *)
(* them, part, and leaves the others as they began.                         *)
EXTENDS MCLifeMonitor, LifeEvents, CloudScan, EmbyRefresh, EmbyEvents, EmbyProxy, TelegramUpdates, Accounts, TLC

VARIABLE part

\* Life events: two files in two folders, each with two names of its own, four
\* operations of users that may all wait at a time, one crash.  Keeping the
\* old is tried without crashes, what is outside of the mapping without recreating,
\* and of the first names one choice stands for those that only exchange names.
CONSTANTS x1, x2, g1, g2, d1, d2, d3, d4, n1, n2, n3, n4
MCOwn == x1 :> {n1, n2} @@ x2 :> {n3, n4} @@ g1 :> {d1, d2} @@ g2 :> {d3, d4}
LifeChoices ==
  {[recreate |-> FALSE, keepOld |-> FALSE, moveOut |-> TRUE, createNew |-> TRUE],
   [recreate |-> FALSE, keepOld |-> TRUE, moveOut |-> FALSE, createNew |-> FALSE],
   [recreate |-> TRUE, keepOld |-> FALSE, moveOut |-> TRUE, createNew |-> TRUE],
   [recreate |-> TRUE, keepOld |-> TRUE, moveOut |-> FALSE, createNew |-> TRUE]}
MappedOps == {"upload", "deleteFile", "deleteFolder", "moveFile", "moveFolder", "renameFile", "renameFolder"}
LifeUsers ==
  {MappedOps, {"upload", "moveFile", "renameFile", "renameFolder", "crash"},
   (MappedOps \ {"renameFolder"}) \cup {"userWrites"},
   {"upload", "outside", "userWrites"},
   {"upload", "renameFile", "reuse", "userWrites"}}
LifeStart == /\ fileName[x1] = n1 /\ dirName[g1] = d1
             /\ "reuse" \notin users => fileName[x2] = n3 /\ dirName[g2] = d3
             /\ users = MappedOps \/ "crash" \in users => ~config.keepOld
             /\ "outside" \in users => ~config.recreate

\* Updates of one bot: two requests at a time, one manager beside the first one,
\* two goroutines that poll, one restart.
CONSTANTS t1, r1, r2, m1, p1, p2

\* A scan: three files, one of them downloaded, one directory below the root and
\* pages of two entries; one change in the cloud, two answers that go wrong.  A mapping
\* leads to the files where the index has them.
CONSTANTS y1, y2, y3, e1
MCParent == [d \in {e1} |-> Root]
MCCfg == [abs |-> 9, ratio |-> 100, dirs |-> 9, stable |-> 1]

\* Refreshes of Emby: a directory in another one, one refresh at a time, three
\* changes and as many timers.
MCFolders == {d1, d2}
MCUp == d1 :> "outside" @@ d2 :> d1

\* Reports of Emby: two episodes of one series, two reports at a time, three in all,
\* settings that are saved after the first ones.
CONSTANTS i1, i2, s1, h1, h2
MCSeriesOf == i1 :> s1 @@ i2 :> s1
MCVersions == i1 :> {i2} @@ i2 :> {}
MCAll == [added |-> TRUE, removed |-> TRUE, sync |-> TRUE, syncNotify |-> TRUE, dry |-> FALSE, versions |-> FALSE]
MCSaved == {MCAll, [MCAll EXCEPT !.versions = TRUE, !.added = FALSE], [MCAll EXCEPT !.dry = TRUE],
            [MCAll EXCEPT !.sync = FALSE, !.removed = FALSE]}

\* Accounts: three names, two requests, one failed write or crash.
CONSTANTS a1, a2, a3
MCNames == {a1, a2, a3}

\* The proxy before Emby: a client of each of two agents and one without identity,
\* an external source and one of the service, two requests, the sources of one
\* device and room for one link.
CONSTANTS c1, c2, c3, sx, ss
MCAuth == c1 :> "u" @@ c2 :> "u" @@ c3 :> "none"
MCAgent == c1 :> "x" @@ c2 :> "y" @@ c3 :> "x"
MCKind == sx :> "external" @@ ss :> "self"

ASSUME InstanceAssumption ==
  /\ LifeAssumption /\ UpdatesAssumption /\ ScanAssumption /\ RefreshAssumption
  /\ EventsAssumption /\ AccountsAssumption /\ EmbyProxyAssumption

-----------------------------------------------------------------------------
Parts == {"monitor", "life", "bot", "scan", "emby", "hook", "acc", "proxy"}
AtRest(p) == part # p
ServicesInit ==
  /\ part \in Parts
  /\ Init
  /\ LifeInit /\ LifeStart
  /\ (AtRest("life") => users = MappedOps /\ config.recreate)
  /\ UpdatesInit /\ (AtRest("bot") => saved = NoSettings)
  /\ ScanInit /\ mapped = (pathIndex # {})
  /\ (AtRest("scan") => /\ pathIndex = {} /\ folders[Root] = <<>>
                        /\ home = [y \in {y1, y2, y3} |-> Root])
  /\ RefreshInit /\ (AtRest("emby") => known = {})
  /\ EventsInit /\ settings = MCAll
  /\ AccountsInit /\ (AtRest("acc") => monitored = {})
  /\ ProxyInit

ServicesNext ==
  /\ \/ part = "monitor" /\ Next
     \/ part = "life" /\ LifeNext
     \/ part = "bot" /\ UpdatesNext
     \/ part = "scan" /\ ScanNext
     \/ part = "emby" /\ RefreshNext
     \/ part = "hook" /\ EventsNext
     \/ part = "acc" /\ AccountsNext
     \/ part = "proxy" /\ ProxyNext
  /\ UNCHANGED part
  /\ (AtRest("monitor") => UNCHANGED vars)
  /\ (AtRest("life") => UNCHANGED lifeVars)
  /\ (AtRest("bot") => UNCHANGED updateVars)
  /\ (AtRest("scan") => UNCHANGED cloudScanVars)
  /\ (AtRest("emby") => UNCHANGED refreshVars)
  /\ (AtRest("hook") => UNCHANGED eventVars)
  /\ (AtRest("acc") => UNCHANGED accountVars)
  /\ (AtRest("proxy") => UNCHANGED proxyVars)
servicesVars == <<part, vars, lifeVars, updateVars, cloudScanVars, refreshVars, eventVars, accountVars, proxyVars>>
ServicesSpec == ServicesInit /\ [][ServicesNext]_servicesVars

-----------------------------------------------------------------------------
\* Every part keeps its types.
ServicesTypeOK ==
  /\ part = "monitor" => TypeOK
  /\ part = "life" => LifeTypeOK
  /\ part = "bot" => UpdatesTypeOK
  /\ part = "scan" => ScanTypeOK
  /\ part = "emby" => RefreshTypeOK
  /\ part = "hook" => EventsTypeOK
  /\ part = "acc" => AccountsTypeOK
  /\ part = "proxy" => ProxyTypeOK
=============================================================================
