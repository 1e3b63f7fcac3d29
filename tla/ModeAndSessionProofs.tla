------------------------ MODULE ModeAndSessionProofs ------------------------
(* Proofs about two parts of the state of SlangServer: what its driver was   *)
(* made from, and the session with a waveform viewer.                        *)
EXTENDS ServerMode, WcpClient, SequenceTheorems, TLAPS

----------------------------------------------------------------------------
(* The mode: reported changes are used, and reloads keep the build, for all  *)
(* values of the constants.                                                  *)

\* What a driver that was made without a failure has in common with the members
\* of the server: it was made with their flags, and if from a build file, from
\* the one in m_buildfile as it is on disk.
Matches(s) ==
  /\ s.driver.flags = s.config.flags
  /\ \A b \in BuildLists :
       s.driver.design = Design("build", b) => s.buildfile = b /\ s.driver.list = disk.list[b]

\* The same in between reports: what differs is pending.
Follows ==
  /\ server.driver.flags = server.config.flags
  /\ server.config.flags = disk.config.flags \/ Json \in pending
  /\ \A b \in BuildLists :
       server.driver.design = Design("build", b) =>
         server.buildfile = b /\ (server.driver.list = disk.list[b] \/ b \in pending)

Inv == TypeOK /\ (~failed => Follows)

\* Making the driver of an explore or build mode keeps the types and, unless it
\* throws, makes a driver that matches.
LEMMA SettersMatch ==
  ASSUME NEW s \in ServerType, disk \in DiskType, NEW fails \in BOOLEAN
  PROVE  /\ ToExplore(s, fails) \in ServerType
         /\ ~fails => Matches(ToExplore(s, fails))
         /\ \A b \in BuildLists : /\ ToBuild(s, b, fails) \in ServerType
                                  /\ ~fails => Matches(ToBuild(s, b, fails))
<1> USE ModeAssumption DEF ServerType, DiskType, Drivers, Designs, Configs, Versions,
                           Replace, Design, Explore
<1>0. [design |-> Explore, flags |-> s.config.flags, list |-> 0] \in Drivers
  OBVIOUS
<1>1. ToExplore(s, fails) \in ServerType
  <2>1. CASE fails
    BY <2>1 DEF ToExplore
  <2>2. CASE ~fails
    <3>1. ToExplore(s, fails) =
            [s EXCEPT !.buildfile = Unset, !.topFile = Unset,
                      !.driver = [design |-> Explore, flags |-> s.config.flags, list |-> 0]]
      BY <2>2 DEF ToExplore
    <3> HIDE DEF Drivers
    <3> QED BY <3>1, <1>0
  <2> QED BY <2>1, <2>2
<1>2. ~fails => Matches(ToExplore(s, fails))
  BY DEF ToExplore, Matches
<1>3. ASSUME NEW b \in BuildLists
      PROVE  ToBuild(s, b, fails) \in ServerType /\ (~fails => Matches(ToBuild(s, b, fails)))
  BY DEF ToBuild, Matches
<1> QED BY <1>1, <1>2, <1>3

\* A reload that completes has read the configuration, matches, and restores
\* the build file there was.
LEMMA ReloadMatches ==
  ASSUME NEW s \in ServerType, disk \in DiskType, NEW config \in Configs,
         NEW fails \in BOOLEAN, NEW failsAgain \in BOOLEAN,
         NEW r, r = Reload(s, config, fails, failsAgain)
  PROVE  /\ r \in ServerType
         /\ r.ok => /\ r.config = config
                    /\ Matches(r)
                    /\ s.buildfile # Unset => r.driver.design = Design("build", s.buildfile)
<1> DEFINE read == [s EXCEPT !.config = config]
           loaded == LoadConfig(s, config, fails)
<1>1. read \in ServerType /\ read.config = config /\ read.ok = s.ok
  BY DEF ServerType
<1>2. loaded \in ServerType
  BY <1>1, SettersMatch DEF LoadConfig, Configs
<1>3. loaded.ok => ~fails /\ loaded.config = config /\ Matches(loaded)
  <2>1. loaded.ok => ~fails /\ loaded.config = config
    BY <1>1 DEF LoadConfig, ToExplore, ToBuild, Replace, ServerType
  <2> QED BY <2>1, <1>1, SettersMatch DEF LoadConfig, Configs
<1> HIDE DEF read, loaded
<1>4. CASE loaded.ok /\ s.buildfile # Unset
  <2>1. r = ToBuild(loaded, s.buildfile, failsAgain) /\ s.buildfile \in BuildLists
    BY <1>4 DEF Reload, loaded, ServerType
  <2>2. r.ok => /\ ~failsAgain /\ r.config = loaded.config
                /\ r.driver.design = Design("build", s.buildfile)
    BY <2>1, <1>2 DEF ToBuild, Replace, ServerType
  <2> QED BY <2>1, <2>2, <1>2, <1>3, <1>4, SettersMatch
<1>5. CASE ~(loaded.ok /\ s.buildfile # Unset)
  <2>1. r = loaded
    BY <1>5 DEF Reload, loaded
  <2> QED BY <2>1, <1>2, <1>3, <1>5
<1> QED BY <1>4, <1>5

\* A reload leaves the invariant behind it; disk may have got a new configuration.
LEMMA ReloadFollows ==
  ASSUME Inv, NEW config \in Configs, config = disk'.config, disk' \in DiskType,
         disk'.list = disk.list, NEW fails \in BOOLEAN, NEW failsAgain \in BOOLEAN,
         NEW r, r = Reload(server, config, fails, failsAgain),
         server' = [r EXCEPT !.ok = TRUE], failed' = ~r.ok,
         pending' \subseteq BuildLists \cup {Json, Source}
  PROVE  Inv'
<1>1. r \in ServerType /\ (r.ok => r.config = config /\ Matches(r))
  BY ReloadMatches DEF Inv, TypeOK
<1>2. server' \in ServerType
  BY <1>1 DEF ServerType
<1>3. TypeOK'
  BY <1>2 DEF TypeOK
<1>4. ASSUME ~failed'  PROVE Follows'
  <2>1. r.config = disk'.config /\ Matches(r)
    BY <1>1, <1>4
  <2>2. /\ server'.driver = r.driver /\ server'.config = r.config
        /\ server'.buildfile = r.buildfile
    BY <1>1 DEF ServerType
  <2> QED BY <2>1, <2>2 DEF Follows, Matches
<1> QED BY <1>3, <1>4 DEF Inv

\* A setter that leaves the disk and the configuration alone keeps the invariant.
LEMMA MatchesFollows ==
  ASSUME Inv, NEW s \in ServerType, NEW fails \in BOOLEAN,
         ~fails => Matches(s), s.ok => ~fails, s.config = server.config,
         server' = [s EXCEPT !.ok = TRUE], server' \in ServerType,
         failed' = (failed \/ ~s.ok), UNCHANGED <<disk, pending>>
  PROVE  Inv'
<1>1. TypeOK'
  BY DEF Inv, TypeOK
<1>2. ASSUME ~failed'  PROVE Follows'
  <2>1. ~failed /\ s.ok
    BY <1>2 DEF Inv, TypeOK, ServerType
  <2>2. Matches(s) /\ Follows
    BY <2>1 DEF Inv
  <2>3. /\ server'.driver = s.driver /\ server'.config = s.config
        /\ server'.buildfile = s.buildfile
    BY DEF ServerType
  <2> QED BY <2>2, <2>3 DEF Follows, Matches
<1> QED BY <1>1, <1>2 DEF Inv

\* The invariant holds initially: the server has loaded its configuration.
LEMMA Inductive == Init => Inv
<1> SUFFICES ASSUME Init PROVE Inv OBVIOUS
<1> USE ModeAssumption DEF Init, Configs, Versions, Design, Explore
<1>1. TypeOK
  <2>1. disk \in DiskType /\ disk.config \in Configs
    BY DEF DiskType
  <2>2. server.driver \in Drivers
    BY <2>1 DEF Drivers, Designs
  <2>3. server \in ServerType
    BY <2>1, <2>2 DEF ServerType
  <2> QED BY <2>1, <2>3 DEF TypeOK
<1>2. Follows
  BY DEF Follows
<1> QED BY <1>1, <1>2 DEF Inv

\* The invariant is kept by every step.
LEMMA Invariance == Inv /\ [Next]_vars => Inv'
<1> SUFFICES ASSUME Inv, [Next]_vars PROVE Inv' OBVIOUS
<1> USE ModeAssumption
<1>t. server \in ServerType /\ disk \in DiskType /\ failed \in BOOLEAN
      /\ pending \subseteq BuildLists \cup {Json, Source}
  BY DEF Inv, TypeOK
<1>1. CASE SetExplore
  <2> PICK fails \in BOOLEAN : LET s == ToExplore(server, fails)
        IN  Handle(s) /\ failed' = (failed \/ ~s.ok) /\ UNCHANGED <<disk, pending>>
    BY <1>1 DEF SetExplore
  <2> DEFINE s == ToExplore(server, fails)
  <2>1. s \in ServerType /\ (~fails => Matches(s))
    BY <1>t, SettersMatch
  <2>2. s.ok => ~fails
    BY <1>t DEF ToExplore, Replace, ServerType
  <2>3. s.config = server.config
    BY <1>t DEF ToExplore, Replace, ServerType
  <2>4. server' = [s EXCEPT !.ok = TRUE] /\ failed' = (failed \/ ~s.ok)
        /\ UNCHANGED <<disk, pending>>
    BY DEF Handle
  <2> HIDE DEF s
  <2>5. server' \in ServerType
    BY <2>1, <2>4 DEF ServerType
  <2> QED BY <2>1, <2>2, <2>3, <2>4, <2>5, MatchesFollows
<1>2. ASSUME NEW b \in BuildLists, SetBuildFile(b) PROVE Inv'
  <2> PICK fails \in BOOLEAN : LET s == ToBuild(server, b, fails)
        IN  Handle(s) /\ failed' = (failed \/ ~s.ok) /\ UNCHANGED <<disk, pending>>
    BY <1>2 DEF SetBuildFile
  <2> DEFINE s == ToBuild(server, b, fails)
  <2>1. s \in ServerType /\ (~fails => Matches(s))
    BY <1>t, SettersMatch
  <2>2. s.ok => ~fails
    BY <1>t DEF ToBuild, Replace, ServerType
  <2>3. s.config = server.config
    BY <1>t DEF ToBuild, Replace, ServerType
  <2>4. server' = [s EXCEPT !.ok = TRUE] /\ failed' = (failed \/ ~s.ok)
        /\ UNCHANGED <<disk, pending>>
    BY DEF Handle
  <2> HIDE DEF s
  <2>5. server' \in ServerType
    BY <2>1, <2>4 DEF ServerType
  <2> QED BY <2>1, <2>2, <2>3, <2>4, <2>5, MatchesFollows
<1>3. ASSUME NEW t \in Tops, SetTopLevel(t) PROVE Inv'
  <2> PICK hasTop \in BOOLEAN, fails \in BOOLEAN : LET s == ToTop(server, t, hasTop, fails)
        IN  Handle(s) /\ failed' = (failed \/ ~s.ok) /\ UNCHANGED <<disk, pending>>
    BY <1>3 DEF SetTopLevel
  <2> DEFINE s == ToTop(server, t, hasTop, fails)
  <2>0. [design |-> IF hasTop THEN Design("top", t) ELSE Explore,
         flags |-> server.config.flags, list |-> 0] \in Drivers
    <3>1. (IF hasTop THEN Design("top", t) ELSE Explore) \in Designs
      BY DEF Designs, Design, Explore
    <3> QED BY <3>1, <1>t DEF ServerType, Drivers, Configs, Versions
  <2>1. s \in ServerType
    BY <2>0, <1>t DEF ToTop, Replace, ServerType
  <2>2. /\ s.config = server.config
        /\ s.ok => /\ s.driver.flags = server.config.flags
                   /\ \A b \in BuildLists : s.driver.design # Design("build", b)
    BY <1>t DEF ToTop, Replace, ServerType, Design, Explore
  <2> QED BY <2>1, <2>2, <1>t DEF Inv, TypeOK, Follows, Handle, ServerType
<1>4. ASSUME NEW batch \in SUBSET pending, WatchedFiles(batch) PROVE Inv'
  <2>1. pending' = pending \ batch /\ disk' = disk
    BY <1>4 DEF WatchedFiles
  <2>2. CASE NeedsReload(batch)
    <3> PICK fails \in BOOLEAN, failsAgain \in BOOLEAN :
          LET s == Reload(server, disk.config, fails, failsAgain) IN Handle(s) /\ failed' = ~s.ok
      BY <1>4, <2>2 DEF WatchedFiles
    <3>1. disk.config \in Configs
      BY <1>t DEF DiskType
    <3> QED BY <3>1, <2>1, <1>t, ReloadFollows DEF Handle
  <2>3. CASE ~NeedsReload(batch)
    <3>1. /\ failed' = failed
          /\ server' = IF Source \in batch THEN [server EXCEPT !.text = disk.source] ELSE server
      BY <1>4, <2>3 DEF WatchedFiles
    <3>2. /\ server' \in ServerType /\ server'.driver = server.driver
          /\ server'.config = server.config /\ server'.buildfile = server.buildfile
      BY <3>1, <1>t DEF ServerType, DiskType
    <3>3. Json \notin batch /\ \A b \in BuildLists : server.driver.design = Design("build", b) => b \notin batch
      BY <2>3 DEF NeedsReload
    <3> QED BY <3>1, <3>2, <3>3, <2>1, <1>t DEF Inv, TypeOK, Follows
  <2> QED BY <2>2, <2>3
<1>5. CASE AddDefine
  <2> PICK fails \in BOOLEAN, failsAgain \in BOOLEAN :
        /\ disk.config.flags < MaxVersion
        /\ disk' = [disk EXCEPT !.config.flags = @ + 1]
        /\ pending' = pending \cup {Json}
        /\ LET s == Reload(server, disk'.config, fails, failsAgain)
           IN  Handle(s) /\ failed' = ~s.ok
    BY <1>5 DEF AddDefine
  <2>1. disk' \in DiskType /\ disk'.list = disk.list /\ disk'.config \in Configs
    BY <1>t DEF DiskType, Configs, Versions
  <2> QED BY <2>1, <1>t, ReloadFollows DEF Handle
<1>6. ASSUME NEW b \in BuildLists \cup {Unset}, WriteConfig(b) PROVE Inv'
  <2>1. disk' \in DiskType /\ disk'.list = disk.list
    BY <1>6, <1>t DEF WriteConfig, DiskType, Configs, Versions
  <2> QED BY <2>1, <1>6, <1>t DEF WriteConfig, Inv, TypeOK, Follows
<1>7. ASSUME NEW b \in BuildLists, WriteBuildFile(b) PROVE Inv'
  <2>1. /\ disk' \in DiskType /\ disk'.config = disk.config
        /\ \A c \in BuildLists : c # b => disk'.list[c] = disk.list[c]
    BY <1>7, <1>t DEF WriteBuildFile, DiskType, Versions
  <2> QED BY <2>1, <1>7, <1>t DEF WriteBuildFile, Inv, TypeOK, Follows
<1>8. CASE WriteSource
  <2>1. disk' \in DiskType /\ disk'.config = disk.config /\ disk'.list = disk.list
    BY <1>8, <1>t DEF WriteSource, DiskType, Versions
  <2> QED BY <2>1, <1>8, <1>t DEF WriteSource, Inv, TypeOK, Follows
<1>9. CASE UNCHANGED vars
  BY <1>9 DEF vars, Inv, TypeOK, Follows
<1> QED BY <1>1, <1>2, <1>3, <1>4, <1>5, <1>6, <1>7, <1>8, <1>9 DEF Next

\* Every value keeps its type, and once every change has been reported the
\* active driver uses it: analysing the handlers of src/SlangServer.cpp one by one.
THEOREM ReportedChangesTheorem == Spec => [](TypeOK /\ ReportedChangesAreUsed)
<1>1. Inv => TypeOK /\ ReportedChangesAreUsed
  BY DEF Inv, Follows, ReportedChangesAreUsed
<1> QED BY <1>1, Inductive, Invariance, PTL DEF Spec

\* A reload that completes keeps the build that is active (src/SlangServer.cpp:838).
THEOREM ReloadKeepsBuildTheorem == Spec => ReloadKeepsBuild
<1>1. ASSUME Inv, Reloads, ~failed, ~failed', server.driver.design.kind = "build"
      PROVE  server'.driver.design = server.driver.design
  <2>1. PICK config \in Configs, fails \in BOOLEAN, failsAgain \in BOOLEAN :
          LET s == Reload(server, config, fails, failsAgain) IN Handle(s) /\ failed' = ~s.ok
    <3>1. CASE AddDefine
      <4>1. disk'.config \in Configs
        <5>1. disk \in DiskType
          BY <1>1 DEF Inv, TypeOK
        <5> QED BY <3>1, <5>1, ModeAssumption DEF AddDefine, DiskType, Configs, Versions
      <4> QED BY <4>1, <3>1 DEF AddDefine
    <3>2. CASE \E batch \in SUBSET pending : NeedsReload(batch) /\ WatchedFiles(batch)
      BY <3>2, <1>1 DEF WatchedFiles, Inv, TypeOK, DiskType
    <3> QED BY <1>1, <3>1, <3>2 DEF Reloads
  <2> DEFINE s == Reload(server, config, fails, failsAgain)
  <2>2. server \in ServerType /\ disk \in DiskType
    BY <1>1 DEF Inv, TypeOK
  <2>3. /\ s \in ServerType /\ s.ok
        /\ server.buildfile # Unset => s.driver.design = Design("build", server.buildfile)
    <3>1. s \in ServerType
      BY <2>2, ReloadMatches
    <3>2. s.ok
      BY <2>1, <3>1, <1>1 DEF ServerType
    <3> QED BY <2>2, <3>1, <3>2, ReloadMatches
  <2>4. PICK b \in BuildLists : server.driver.design = Design("build", b)
    BY <2>2, <1>1 DEF ServerType, Drivers, Designs, Design
  <2>5. server.buildfile = b /\ b # Unset
    BY <2>4, <1>1, ModeAssumption DEF Inv, Follows
  <2> QED BY <2>1, <2>3, <2>4, <2>5 DEF Handle, ServerType
<1>2. Inv /\ [Next]_vars =>
        [Reloads /\ ~failed /\ ~failed' /\ server.driver.design.kind = "build"
           => server'.driver.design = server.driver.design]_vars
  BY <1>1
<1> QED BY <1>2, Inductive, Invariance, PTL DEF Spec, ReloadKeepsBuild

----------------------------------------------------------------------------
(* The waveform session, for any number of messages and commands.            *)

\* A client exists only with a thread, and one that runs has a thread that
\* has not ended: SessionIsServed alone does not say why openWaveform, which
\* sets m_running before the client exists, does not break it.
ServedInv ==
  /\ thread \in {"none", "reading", "handling", "ended"}
  /\ present => thread # "none"
  /\ SessionIsServed

(* Without a client there is nothing to serve.                               *)
LEMMA ServedInit == WcpInit => ServedInv
  BY DEF WcpInit, ServedInv, SessionIsServed

(* No step of the worker, the thread or the viewer breaks it.                *)
LEMMA ServedNext == ServedInv /\ [WcpNext]_wcpVars => ServedInv'
<1> SUFFICES ASSUME ServedInv, [WcpNext]_wcpVars PROVE ServedInv'
  OBVIOUS
<1> USE DEF ServedInv, SessionIsServed, sessionVars, viewerVars
<1>1. CASE ReuseSession  BY <1>1 DEF ReuseSession
<1>2. CASE OpenSession
  <2>1. CASE thread # "none"  BY <1>2, <2>1 DEF OpenSession
  <2>2. CASE thread = "none"
    <3>1. ~present /\ present' = present /\ thread' = thread
      BY <1>2, <2>2 DEF OpenSession
    <3> QED  BY <3>1, <2>2
  <2> QED  BY <2>1, <2>2
<1>3. CASE SocketFails  BY <1>3 DEF SocketFails
<1>4. CASE Accept  BY <1>4 DEF Accept
<1>5. CASE GreetReceive
  <2>1. PICK got \in 0..None :
          IF got = None THEN UNCHANGED <<running, worker, thread, present, handled>>
          ELSE \E ok \in BOOLEAN : GreetWith(ok)
    BY <1>5 DEF GreetReceive
  <2>2. CASE got = None  BY <2>1, <2>2
  <2>3. CASE got # None  BY <2>1, <2>3 DEF GreetWith
  <2> QED  BY <2>2, <2>3
<1>6. CASE GreetDisconnect  BY <1>6 DEF GreetDisconnect, Disconnect
<1>7. CASE GreetTimeout  BY <1>7 DEF GreetTimeout, GreetWith
<1>8. CASE Load  BY <1>8 DEF Load
<1>9. CASE AddToWaveform  BY <1>9 DEF AddToWaveform
<1>10. CASE Exit  BY <1>10 DEF Exit
<1>11. CASE ThreadReceive  BY <1>11 DEF ThreadReceive
<1>12. CASE ThreadDisconnect  BY <1>12 DEF ThreadDisconnect, Disconnect
<1>13. CASE ThreadLocks  BY <1>13 DEF ThreadLocks
<1>14. CASE ThreadHandles  BY <1>14 DEF ThreadHandles
<1>15. CASE ThreadEnds  BY <1>15 DEF ThreadEnds
<1>16. CASE ViewerConnects  BY <1>16 DEF ViewerConnects
<1>17. CASE ViewerSends  BY <1>17 DEF ViewerSends
<1>18. CASE ViewerQuits  BY <1>18 DEF ViewerQuits
<1>19. CASE UNCHANGED wcpVars  BY <1>19 DEF wcpVars
<1> QED
  BY <1>1, <1>2, <1>3, <1>4, <1>5, <1>6, <1>7, <1>8, <1>9, <1>10, <1>11, <1>12, <1>13, <1>14,
     <1>15, <1>16, <1>17, <1>18, <1>19 DEF WcpNext, Worker, Thread, Viewer

(* Whatever messages arrive and however often the greeting fails or the      *)
(* viewer goes away, a session that commands are sent to has a thread that   *)
(* hears the viewer.                                                         *)
THEOREM SessionIsServedTheorem == WcpSpec => []SessionIsServed
<1>1. ServedInv => SessionIsServed  BY DEF ServedInv
<1> QED  BY <1>1, ServedInit, ServedNext, PTL DEF WcpSpec

(***************************************************************************)
(* Messages and bytes.  The fragments are numbered from the first one that *)
(* the viewer sent: message m is the fragments 2m + 1 and 2m + 2.          *)
(***************************************************************************)
Fragment(j) ==
  IF j % 2 = 0 THEN <<(j - 1) \div 2, TRUE>> ELSE <<(j - 1) \div 2, FALSE>>

\* Messages that have been handled, or been taken out of the buffer to be.
TakenCount == IF message = None THEN Len(handled) ELSE Len(handled) + 1

BytesType == handled \in Seq(Nat) /\ message \in 0..None /\ sent \in 0..None

\* A message in hand is the thread's, and the worker receives before there is one.
HandsInv ==
  /\ worker \in {"accept", "greet"} => thread = "none"
  /\ thread = "none" => message = None /\ ~present
  /\ thread = "handling" => message # None

\* The bytes that have arrived, and those on their way, follow k messages.
Numbered(k, bytes, rest) ==
  /\ bytes \in Seq(Nat \X BOOLEAN) /\ rest \in Seq(Nat \X BOOLEAN)
  /\ 2 * k + Len(bytes) + Len(rest) = 2 * sent
  /\ \A i \in 1..Len(bytes) : bytes[i] = Fragment(2 * k + i)
  /\ \A i \in 1..Len(rest) : rest[i] = Fragment(2 * k + Len(bytes) + i)

\* The invariant: what was taken is 0, 1, 2, ..., and the rest follows it.
BytesInv ==
  /\ BytesType /\ HandsInv
  /\ \A i \in 1..Len(handled) : handled[i] = i - 1
  /\ message # None => message = Len(handled)
  /\ Numbered(TakenCount, buffer, stream)

(* What a fragment is, by its number.                                        *)
LEMMA FragmentIs ==
  ASSUME NEW j, NEW m, (j - 1) \div 2 = m
  PROVE  Fragment(j) = <<m, j % 2 = 0>>
<1>1. CASE j % 2 = 0
  <2>1. Fragment(j) = <<m, TRUE>>  BY <1>1, Zenon DEF Fragment
  <2>2. (j % 2 = 0) = TRUE  BY <1>1, Zenon
  <2> QED  BY <2>1, <2>2, Zenon
<1>2. CASE j % 2 # 0
  <2>1. Fragment(j) = <<m, FALSE>>  BY <1>2, Zenon DEF Fragment
  <2>2. (j % 2 = 0) = FALSE  BY <1>2, Zenon
  <2> QED  BY <2>1, <2>2, Zenon
<1> QED  BY <1>1, <1>2, Zenon

(* The two fragments of a message.                                           *)
LEMMA FragmentsOf ==
  ASSUME NEW m \in Nat
  PROVE  Fragment(2 * m + 1) = <<m, FALSE>> /\ Fragment(2 * m + 2) = <<m, TRUE>>
<1>1. (2 * m + 1 - 1) \div 2 = m /\ (2 * m + 2 - 1) \div 2 = m
  BY SMT
<1>2. ((2 * m + 1) % 2 = 0) = FALSE /\ ((2 * m + 2) % 2 = 0) = TRUE
  BY SMT
<1>3. Fragment(2 * m + 1) = <<m, (2 * m + 1) % 2 = 0>>
  BY <1>1, FragmentIs
<1>4. Fragment(2 * m + 2) = <<m, (2 * m + 2) % 2 = 0>>
  BY <1>1, FragmentIs
<1> QED  BY <1>2, <1>3, <1>4, Zenon

(* A fragment, counted from the first of some message.                       *)
LEMMA FragmentFrom ==
  ASSUME NEW k \in Nat, NEW i \in Nat \ {0}
  PROVE  Fragment(2 * k + i) = <<k + (i - 1) \div 2, i % 2 = 0>>
<1>1. (2 * k + i - 1) \div 2 = k + (i - 1) \div 2
  BY SMT
<1>2. ((2 * k + i) % 2 = 0) = (i % 2 = 0)
  BY SMT
<1>3. Fragment(2 * k + i) = <<k + (i - 1) \div 2, (2 * k + i) % 2 = 0>>
  BY <1>1, FragmentIs
<1> QED  BY <1>2, <1>3, Zenon

(* Reading moves bytes from the stream to the buffer.                        *)
LEMMA ReadFollows ==
  ASSUME NEW k \in Nat, sent \in Nat, Numbered(k, buffer, stream), NEW n \in 1..Len(stream)
  PROVE  LET bytes == buffer \o SubSeq(stream, 1, n)
             rest == SubSeq(stream, n + 1, Len(stream))
         IN  Numbered(k, bytes, rest) /\ Len(bytes) \in Nat \ {0}
<1> DEFINE got == SubSeq(stream, 1, n)
           bytes == buffer \o got
           rest == SubSeq(stream, n + 1, Len(stream))
<1>t. buffer \in Seq(Nat \X BOOLEAN) /\ stream \in Seq(Nat \X BOOLEAN)
  BY DEF Numbered
<1>1. got \in Seq(Nat \X BOOLEAN) /\ Len(got) = n /\ \A i \in 1..n : got[i] = stream[i]
  BY <1>t
<1>2. rest \in Seq(Nat \X BOOLEAN) /\ Len(rest) = Len(stream) - n
      /\ \A i \in 1..(Len(stream) - n) : rest[i] = stream[n + i]
  BY <1>t
<1>3. bytes \in Seq(Nat \X BOOLEAN) /\ Len(bytes) = Len(buffer) + n
      /\ \A i \in 1..(Len(buffer) + n) :
            bytes[i] = IF i <= Len(buffer) THEN buffer[i] ELSE got[i - Len(buffer)]
  BY <1>t, <1>1
<1>4. Len(buffer) \in Nat /\ Len(stream) \in Nat /\ n \in Nat \ {0}
  BY <1>t
<1>5. \A i \in 1..Len(bytes) : bytes[i] = Fragment(2 * k + i)
  <2> SUFFICES ASSUME NEW i \in 1..Len(bytes) PROVE bytes[i] = Fragment(2 * k + i)
    OBVIOUS
  <2>1. CASE i <= Len(buffer)  BY <2>1, <1>3, <1>4 DEF Numbered
  <2>2. CASE i > Len(buffer)
    <3>1. i - Len(buffer) \in 1..n /\ i \in 1..(Len(buffer) + n)  BY <2>2, <1>3, <1>4
    <3>2. bytes[i] = stream[i - Len(buffer)]  BY <3>1, <2>2, <1>1, <1>3, <1>4
    <3>3. i - Len(buffer) \in 1..Len(stream)  BY <3>1, <1>4
    <3>4. stream[i - Len(buffer)] = Fragment(2 * k + Len(buffer) + (i - Len(buffer)))
      BY <3>3 DEF Numbered
    <3>5. 2 * k + Len(buffer) + (i - Len(buffer)) = 2 * k + i  BY <1>4
    <3> QED  BY <3>2, <3>4, <3>5
  <2> QED  BY <2>1, <2>2, <1>4
<1>6. \A i \in 1..Len(rest) : rest[i] = Fragment(2 * k + Len(bytes) + i)
  <2> SUFFICES ASSUME NEW i \in 1..Len(rest) PROVE rest[i] = Fragment(2 * k + Len(bytes) + i)
    OBVIOUS
  <2>1. n + i \in 1..Len(stream) /\ rest[i] = stream[n + i]  BY <1>2, <1>4
  <2>2. stream[n + i] = Fragment(2 * k + Len(buffer) + (n + i))  BY <2>1 DEF Numbered
  <2>3. 2 * k + Len(buffer) + (n + i) = 2 * k + Len(bytes) + i  BY <1>3, <1>4
  <2> QED  BY <2>1, <2>2, <2>3
<1>7. 2 * k + Len(bytes) + Len(rest) = 2 * sent
  <2>1. 2 * k + Len(buffer) + Len(stream) = 2 * sent  BY DEF Numbered
  <2>2. Len(bytes) = Len(buffer) + n /\ Len(rest) = Len(stream) - n  BY <1>2, <1>3
  <2> HIDE DEF bytes, rest, got
  <2> QED  BY <2>1, <2>2, <1>4
<1> HIDE DEF bytes, rest, got
<1>8. Numbered(k, bytes, rest)
  BY <1>2, <1>3, <1>5, <1>6, <1>7 DEF Numbered
<1> QED  BY <1>8, <1>3, <1>4 DEF bytes, rest, got

(* getMessage takes the next message if all of it has arrived, and otherwise *)
(* leaves the bytes as they are.                                             *)
LEMMA TakeFollows ==
  ASSUME NEW k \in Nat, sent \in 0..None, NEW bytes, NEW rest, Numbered(k, bytes, rest),
         Len(bytes) \in Nat \ {0}
  PROVE  \/ Taken(bytes) = None /\ Numbered(k, Take(bytes), rest)
         \/ Taken(bytes) = k /\ k < None /\ Numbered(k + 1, Take(bytes), rest)
<1> USE WcpAssumption DEF None
<1>t. bytes \in Seq(Nat \X BOOLEAN) /\ rest \in Seq(Nat \X BOOLEAN) /\ DOMAIN bytes = 1..Len(bytes)
      /\ Len(rest) \in Nat
  BY DEF Numbered
<1>f. bytes[1] = <<k, FALSE>> /\ ~bytes[1][2]
  <2>1. bytes[1] = Fragment(2 * k + 1)  BY <1>t DEF Numbered
  <2>2. bytes[1] = <<k, FALSE>>  BY <2>1, FragmentsOf
  <2>3. <<k, FALSE>>[2] = FALSE  BY SMT
  <2> QED  BY <2>2, <2>3, Zenon
<1>1. CASE Len(bytes) = 1
  <2>1. Ends(bytes) = {}
    <3>1. \A i \in DOMAIN bytes : i = 1  BY <1>1, <1>t
    <3> QED  BY <3>1, <1>f, Zenon DEF Ends
  <2> QED  BY <2>1 DEF Take, Taken
<1>2. CASE Len(bytes) # 1
  <2>1. Len(bytes) >= 2 /\ 2 \in DOMAIN bytes  BY <1>2, <1>t
  <2>2. bytes[2] = <<k, TRUE>> /\ bytes[2][2]
    <3>1. bytes[2] = Fragment(2 * k + 2)  BY <2>1, <1>t DEF Numbered
    <3>2. bytes[2] = <<k, TRUE>>  BY <3>1, FragmentsOf
    <3>3. <<k, TRUE>>[2] = TRUE  BY SMT
    <3> QED  BY <3>2, <3>3, Zenon
  <2>3. 2 \in Ends(bytes) /\ 1 \notin Ends(bytes) /\ Ends(bytes) \subseteq DOMAIN bytes
    BY <2>1, <2>2, <1>f, Zenon DEF Ends
  <2>4. FirstEnd(bytes) = 2
    <3>1. \A j \in Ends(bytes) : 2 <= j  BY <2>3, <1>t
    <3>2. \A i \in Ends(bytes) : (\A j \in Ends(bytes) : i <= j) => i = 2
      BY <3>1, <2>3, <1>t
    <3> QED  BY <3>1, <3>2, <2>3 DEF FirstEnd
  <2>5. Taken(bytes) = k
    BY <2>2, <2>3, <2>4 DEF Taken
  <2>6. 2 * k + Len(bytes) + Len(rest) = 2 * sent  BY DEF Numbered
  <2>7. k < None  BY <2>1, <2>6, <1>t
  <2> DEFINE kept == SubSeq(bytes, 3, Len(bytes))
  <2>8. Take(bytes) = kept
    BY <2>3, <2>4 DEF Take
  <2>9. kept \in Seq(Nat \X BOOLEAN) /\ Len(kept) = Len(bytes) - 2
        /\ \A i \in 1..(Len(bytes) - 2) : kept[i] = bytes[i + 2]
    BY <2>1, <1>t
  <2>10. \A i \in 1..Len(kept) : kept[i] = Fragment(2 * (k + 1) + i)
    <3> SUFFICES ASSUME NEW i \in 1..Len(kept) PROVE kept[i] = Fragment(2 * (k + 1) + i)
      OBVIOUS
    <3>1. i + 2 \in 1..Len(bytes) /\ kept[i] = bytes[i + 2]  BY <2>9, <2>1
    <3>2. bytes[i + 2] = Fragment(2 * k + (i + 2))  BY <3>1 DEF Numbered
    <3>3. 2 * k + (i + 2) = 2 * (k + 1) + i  OBVIOUS
    <3> QED  BY <3>1, <3>2, <3>3
  <2>11. \A i \in 1..Len(rest) : rest[i] = Fragment(2 * (k + 1) + Len(kept) + i)
    <3> SUFFICES ASSUME NEW i \in 1..Len(rest)
                 PROVE  rest[i] = Fragment(2 * (k + 1) + Len(kept) + i)
      OBVIOUS
    <3>1. rest[i] = Fragment(2 * k + Len(bytes) + i)  BY DEF Numbered
    <3>2. Len(kept) = Len(bytes) - 2 /\ Len(bytes) \in Nat /\ i \in Nat  BY <2>9, <1>t
    <3> HIDE DEF kept
    <3>3. 2 * k + Len(bytes) + i = 2 * (k + 1) + Len(kept) + i  BY <3>2
    <3> QED  BY <3>1, <3>3
  <2>12. 2 * (k + 1) + Len(kept) + Len(rest) = 2 * sent
    <3>1. Len(kept) = Len(bytes) - 2  BY <2>9
    <3>2. Len(bytes) \in Nat /\ sent \in Nat /\ Len(rest) \in Nat  BY <1>t
    <3> HIDE WcpAssumption DEF kept, None
    <3>3. 2 * (k + 1) + (Len(bytes) - 2) + Len(rest) = 2 * sent
      BY <3>2, <2>6
    <3> QED  BY <3>1, <3>3, Zenon
  <2> HIDE DEF kept
  <2>13. Numbered(k + 1, kept, rest)  BY <2>9, <2>10, <2>11, <2>12, <1>t DEF Numbered
  <2> QED  BY <2>5, <2>7, <2>8, <2>13
<1> QED  BY <1>1, <1>2

(* What a read of the socket does to the bytes.                              *)
LEMMA ReceiveFollows ==
  ASSUME NEW k \in Nat, sent \in 0..None, Numbered(k, buffer, stream), NEW got, Receive(got)
  PROVE  \/ got = None /\ Numbered(k, buffer', stream')
         \/ got = k /\ k < None /\ Numbered(k + 1, buffer', stream')
<1>1. PICK n \in 1..Len(stream) :
        LET bytes == buffer \o SubSeq(stream, 1, n)
        IN  /\ stream' = SubSeq(stream, n + 1, Len(stream))
            /\ buffer' = Take(bytes)
            /\ got = Taken(bytes)
  BY DEF Receive
<1> DEFINE bytes == buffer \o SubSeq(stream, 1, n)
<1>2. sent \in Nat  BY WcpAssumption DEF None
<1>3. Numbered(k, bytes, stream') /\ Len(bytes) \in Nat \ {0}  BY <1>1, <1>2, ReadFollows
<1>4. buffer' = Take(bytes) /\ got = Taken(bytes)  BY <1>1
<1> HIDE DEF bytes
<1> QED  BY <1>3, <1>4, TakeFollows

(* The start: nothing was sent.                                              *)
LEMMA BytesInit == WcpInit => BytesInv
<1> SUFFICES ASSUME WcpInit PROVE BytesInv
  OBVIOUS
<1> USE WcpAssumption DEF WcpInit, None
<1>1. BytesType /\ HandsInv  BY DEF BytesType, HandsInv
<1>2. TakenCount = 0  BY DEF TakenCount
<1>3. Numbered(0, buffer, stream)  BY DEF Numbered
<1> QED  BY <1>1, <1>2, <1>3 DEF BytesInv

(* A message that the viewer sends goes to the end of the stream.            *)
LEMMA SendFollows ==
  ASSUME NEW k \in Nat, sent \in 0..None, Numbered(k, buffer, stream), ViewerSends
  PROVE  Numbered(k, buffer, stream)'
<1> DEFINE two == <<<<sent, FALSE>>, <<sent, TRUE>>>>
<1>1. /\ sent \in Nat /\ sent' = sent + 1 /\ buffer' = buffer
      /\ stream' = stream \o two
  BY WcpAssumption DEF ViewerSends, None
<1>2. /\ buffer \in Seq(Nat \X BOOLEAN) /\ stream \in Seq(Nat \X BOOLEAN)
      /\ Len(buffer) \in Nat /\ Len(stream) \in Nat
      /\ 2 * k + Len(buffer) + Len(stream) = 2 * sent
  BY DEF Numbered
<1>3. two \in Seq(Nat \X BOOLEAN) /\ Len(two) = 2
      /\ two[1] = Fragment(2 * sent + 1) /\ two[2] = Fragment(2 * sent + 2)
  <2>1. <<sent, FALSE>> \in Nat \X BOOLEAN /\ <<sent, TRUE>> \in Nat \X BOOLEAN
    BY <1>1, Zenon
  <2>2. two \in Seq(Nat \X BOOLEAN) /\ Len(two) = 2  BY <2>1
  <2>3. two[1] = <<sent, FALSE>> /\ two[2] = <<sent, TRUE>>  OBVIOUS
  <2> QED  BY <2>2, <2>3, <1>1, FragmentsOf
<1> HIDE DEF two
<1>4. /\ stream' \in Seq(Nat \X BOOLEAN) /\ Len(stream') = Len(stream) + 2
      /\ \A i \in 1..Len(stream) : stream'[i] = stream[i]
      /\ stream'[Len(stream) + 1] = two[1] /\ stream'[Len(stream) + 2] = two[2]
  <2>1. (stream \o two) \in Seq(Nat \X BOOLEAN) /\ Len(stream \o two) = Len(stream) + 2
        /\ \A i \in 1..(Len(stream) + 2) :
             (stream \o two)[i] = IF i <= Len(stream) THEN stream[i] ELSE two[i - Len(stream)]
    <3>1. Len(stream \o two) = Len(stream) + Len(two)
          /\ \A i \in 1..(Len(stream) + Len(two)) :
               (stream \o two)[i] = IF i <= Len(stream) THEN stream[i] ELSE two[i - Len(stream)]
      BY <1>2, <1>3, ConcatProperties, Zenon
    <3> QED  BY <1>2, <1>3, <3>1, ConcatProperties, Zenon
  <2>2. \A i \in 1..Len(stream) : i \in 1..(Len(stream) + 2) /\ i <= Len(stream)
    BY <1>2
  <2>A. stream' = stream \o two  BY <1>1
  <2>3. /\ Len(stream) + 1 \in 1..(Len(stream) + 2) /\ ~(Len(stream) + 1 <= Len(stream))
        /\ Len(stream) + 2 \in 1..(Len(stream) + 2) /\ ~(Len(stream) + 2 <= Len(stream))
        /\ Len(stream) + 1 - Len(stream) = 1 /\ Len(stream) + 2 - Len(stream) = 2
    BY <1>2
  <2>4. stream' \in Seq(Nat \X BOOLEAN) /\ Len(stream') = Len(stream) + 2
    BY <2>1, <2>A, Zenon
  <2>5. \A i \in 1..Len(stream) : stream'[i] = stream[i]
    BY <2>1, <2>2, <2>A, Zenon
  <2>6. \A i \in 1..(Len(stream) + 2) :
          ~(i <= Len(stream)) => stream'[i] = two[i - Len(stream)]
    BY <2>1, <2>A, Zenon
  <2>7. stream'[Len(stream) + 1] = two[1] /\ stream'[Len(stream) + 2] = two[2]
    BY <2>3, <2>6
  <2> QED  BY <2>4, <2>5, <2>7
<1>5. \A i \in 1..Len(stream') : stream'[i] = Fragment(2 * k + Len(buffer) + i)
  <2> SUFFICES ASSUME NEW i \in 1..Len(stream')
               PROVE  stream'[i] = Fragment(2 * k + Len(buffer) + i)
    OBVIOUS
  <2>0. \A j \in 1..Len(stream) : stream[j] = Fragment(2 * k + Len(buffer) + j)
    BY DEF Numbered
  <2>1. CASE i \in 1..Len(stream)  BY <2>0, <2>1, <1>4
  <2>2. CASE i = Len(stream) + 1
    <3>0. 2 * k + Len(buffer) + (Len(stream) + 1) = 2 * k + Len(buffer) + Len(stream) + 1
      BY <1>2
    <3>1. 2 * k + Len(buffer) + i = 2 * sent + 1  BY <3>0, <2>2, <1>2, Zenon
    <3> QED  BY <3>1, <2>2, <1>3, <1>4
  <2>3. CASE i = Len(stream) + 2
    <3>0. 2 * k + Len(buffer) + (Len(stream) + 2) = 2 * k + Len(buffer) + Len(stream) + 2
      BY <1>2
    <3>1. 2 * k + Len(buffer) + i = 2 * sent + 2  BY <3>0, <2>3, <1>2, Zenon
    <3> QED  BY <3>1, <2>3, <1>3, <1>4
  <2>4. i \in 1..Len(stream) \/ i = Len(stream) + 1 \/ i = Len(stream) + 2
    <3>1. \A n \in Nat : \A m \in 1..(n + 2) : m \in 1..n \/ m = n + 1 \/ m = n + 2
      OBVIOUS
    <3>2. i \in 1..(Len(stream) + 2)  BY <1>4, Zenon
    <3> QED  BY <1>2, <3>1, <3>2, Zenon
  <2> QED  BY <2>1, <2>2, <2>3, <2>4
<1>6. 2 * k + Len(buffer) + Len(stream') = 2 * sent'
  BY <1>1, <1>2, <1>4
<1> QED  BY <1>1, <1>2, <1>4, <1>5, <1>6 DEF Numbered

(* A step that leaves messages and bytes alone only has to keep the rest.    *)
LEMMA BytesUnchanged ==
  ASSUME BytesInv, HandsInv', UNCHANGED <<sent, stream, buffer, message, handled>>
  PROVE  BytesInv'
<1>1. BytesType' /\ TakenCount' = TakenCount
  BY DEF BytesInv, BytesType, TakenCount
<1>2. Numbered(TakenCount, buffer, stream)'
  BY <1>1 DEF BytesInv, Numbered
<1> QED  BY <1>1, <1>2 DEF BytesInv

(* The greeting is read by the worker, which handles it at once.             *)
LEMMA BytesGreet == BytesInv /\ GreetReceive => BytesInv'
<1> SUFFICES ASSUME BytesInv, GreetReceive PROVE BytesInv'
  OBVIOUS
<1> DEFINE k == Len(handled)
<1>1. /\ handled \in Seq(Nat) /\ k \in Nat /\ sent \in 0..None /\ worker = "greet"
      /\ thread = "none" /\ message = None /\ ~present
  BY DEF BytesInv, BytesType, HandsInv, GreetReceive
<1>2. TakenCount = k /\ Numbered(k, buffer, stream)  BY <1>1 DEF TakenCount, BytesInv
<1>3. PICK got \in 0..None :
        /\ Receive(got)
        /\ IF got = None THEN UNCHANGED <<running, worker, thread, present, handled>>
           ELSE /\ \E ok \in BOOLEAN : GreetWith(ok)
                /\ handled' = Append(handled, got)
  BY DEF GreetReceive
<1>4. sent' = sent /\ message' = message  BY DEF GreetReceive, viewerVars
<1>5. \/ got = None /\ Numbered(k, buffer', stream')
      \/ got = k /\ k < None /\ Numbered(k + 1, buffer', stream')
  BY <1>1, <1>2, <1>3, ReceiveFollows
<1>6. CASE got = None /\ Numbered(k, buffer', stream')
  <2>1. UNCHANGED <<worker, thread, present, handled>>  BY <1>3, <1>6
  <2>2. BytesType' /\ HandsInv' /\ TakenCount' = k
    BY <2>1, <1>1, <1>4 DEF BytesInv, BytesType, HandsInv, TakenCount
  <2>3. Numbered(TakenCount, buffer, stream)'  BY <2>2, <1>4, <1>6 DEF Numbered
  <2> QED  BY <2>1, <2>2, <2>3, <1>1, <1>4 DEF BytesInv
<1>7. CASE got = k /\ k < None /\ Numbered(k + 1, buffer', stream')
  <2>0. k # None  BY <1>1, <1>7, WcpAssumption DEF None
  <2>1. worker' = "load" /\ thread' = "reading" /\ handled' = Append(handled, k)
    BY <1>3, <1>7, <2>0 DEF GreetWith
  <2>2. /\ handled' \in Seq(Nat) /\ Len(handled') = k + 1
        /\ \A i \in 1..(k + 1) : handled'[i] = IF i <= k THEN handled[i] ELSE k
    BY <2>1, <1>1
  <2>3. BytesType' /\ HandsInv'
    BY <2>1, <2>2, <1>1, <1>4, WcpAssumption DEF BytesType, HandsInv, None
  <2>A. TakenCount' = k + 1  BY <2>2, <1>1, <1>4 DEF TakenCount
  <2>B. \A i \in 1..k : handled[i] = i - 1  BY DEF BytesInv
  <2>4. \A i \in 1..Len(handled') : handled'[i] = i - 1
    <3> SUFFICES ASSUME NEW i \in 1..(k + 1) PROVE handled'[i] = i - 1
      BY <2>2
    <3>0. k \in Nat /\ handled'[i] = IF i <= k THEN handled[i] ELSE k  BY <2>2, <1>1
    <3> HIDE DEF k
    <3>1. CASE i <= k
      <4>1. i \in 1..k  BY <3>0, <3>1
      <4> QED  BY <4>1, <3>0, <3>1, <2>B, Zenon
    <3>2. CASE ~(i <= k)
      <4>1. i = k + 1 /\ i - 1 = k  BY <3>0, <3>2
      <4> QED  BY <4>1, <3>0, <3>2, Zenon
    <3> QED  BY <3>1, <3>2
  <2>5. Numbered(TakenCount, buffer, stream)'  BY <2>A, <1>4, <1>7 DEF Numbered
  <2> QED  BY <2>3, <2>4, <2>5, <1>1, <1>4 DEF BytesInv
<1> QED  BY <1>5, <1>6, <1>7

(* The thread reads a message before it has the mutex to handle it.          *)
LEMMA BytesRead == BytesInv /\ ThreadReceive => BytesInv'
<1> SUFFICES ASSUME BytesInv, ThreadReceive PROVE BytesInv'
  OBVIOUS
<1> DEFINE k == Len(handled)
<1>1. /\ handled \in Seq(Nat) /\ k \in Nat /\ sent \in 0..None /\ thread = "reading"
      /\ message = None /\ worker \notin {"accept", "greet"}
  BY DEF BytesInv, BytesType, HandsInv, ThreadReceive
<1>2. TakenCount = k /\ Numbered(k, buffer, stream)  BY <1>1 DEF TakenCount, BytesInv
<1>3. Receive(message')  BY DEF ThreadReceive
<1>4. UNCHANGED <<sent, handled, worker, thread, present>>  BY DEF ThreadReceive, viewerVars
<1>5. \/ message' = None /\ Numbered(k, buffer', stream')
      \/ message' = k /\ k < None /\ Numbered(k + 1, buffer', stream')
  BY <1>1, <1>2, <1>3, ReceiveFollows
<1>6. HandsInv'  BY <1>1, <1>4 DEF HandsInv
<1>7. CASE message' = None /\ Numbered(k, buffer', stream')
  <2>1. BytesType' /\ TakenCount' = k
    BY <1>1, <1>4, <1>7, WcpAssumption DEF BytesType, TakenCount, None
  <2>2. Numbered(TakenCount, buffer, stream)'  BY <2>1, <1>4, <1>7 DEF Numbered
  <2> QED  BY <2>1, <2>2, <1>4, <1>6, <1>7 DEF BytesInv
<1>8. CASE message' = k /\ k < None /\ Numbered(k + 1, buffer', stream')
  <2>1. BytesType' /\ TakenCount' = k + 1
    BY <1>1, <1>4, <1>8, WcpAssumption DEF BytesType, TakenCount, None
  <2>2. Numbered(TakenCount, buffer, stream)'  BY <2>1, <1>4, <1>8 DEF Numbered
  <2> QED  BY <2>1, <2>2, <1>4, <1>6, <1>8 DEF BytesInv
<1> QED  BY <1>5, <1>7, <1>8

(* A message that was taken out of the buffer is the next to be handled.     *)
LEMMA BytesHandle == BytesInv /\ ThreadHandles => BytesInv'
<1> SUFFICES ASSUME BytesInv, ThreadHandles PROVE BytesInv'
  OBVIOUS
<1> DEFINE k == Len(handled)
<1>1. /\ handled \in Seq(Nat) /\ k \in Nat /\ sent \in 0..None /\ thread = "handling"
      /\ message # None /\ message = k /\ worker \notin {"accept", "greet"}
  BY DEF BytesInv, BytesType, HandsInv, ThreadHandles
<1>2. /\ UNCHANGED <<sent, stream, buffer, worker, present>>
      /\ thread' = "reading" /\ message' = None /\ handled' = Append(handled, k)
  BY <1>1 DEF ThreadHandles, viewerVars
<1>3. /\ handled' \in Seq(Nat) /\ Len(handled') = k + 1
      /\ \A i \in 1..(k + 1) : handled'[i] = IF i <= k THEN handled[i] ELSE k
  BY <1>1, <1>2
<1>4. TakenCount = k + 1 /\ TakenCount' = k + 1  BY <1>1, <1>2, <1>3 DEF TakenCount
<1>5. BytesType' /\ HandsInv'
  BY <1>1, <1>2, <1>3, WcpAssumption DEF BytesType, HandsInv, None
<1>6. \A i \in 1..Len(handled') : handled'[i] = i - 1
  BY <1>1, <1>3 DEF BytesInv
<1>7. Numbered(TakenCount, buffer, stream)'  BY <1>2, <1>4 DEF BytesInv, Numbered
<1> QED  BY <1>2, <1>5, <1>6, <1>7 DEF BytesInv

(* Every step keeps the order of the messages.                               *)
LEMMA BytesNext == BytesInv /\ [WcpNext]_wcpVars => BytesInv'
<1> SUFFICES ASSUME BytesInv, [WcpNext]_wcpVars PROVE BytesInv'
  OBVIOUS
<1>h. HandsInv  BY DEF BytesInv
<1>1. CASE \/ ReuseSession \/ OpenSession \/ SocketFails \/ Accept \/ GreetDisconnect
           \/ GreetTimeout \/ Load \/ AddToWaveform \/ Exit
  <2>1. UNCHANGED <<sent, stream, buffer, message, handled>>
    BY <1>1 DEF ReuseSession, OpenSession, SocketFails, Accept, GreetDisconnect, GreetTimeout,
                Load, AddToWaveform, Exit, viewerVars, sessionVars
  <2>2. CASE ReuseSession \/ AddToWaveform \/ Exit \/ Load \/ Accept \/ GreetDisconnect
    <3>1. /\ thread' = thread /\ present' = present /\ message' = message
          /\ worker' \in {worker, "idle", "greet"}
          /\ worker' = "greet" => worker \in {"accept", "greet"}
      BY <2>2 DEF ReuseSession, AddToWaveform, Exit, Load, Accept, GreetDisconnect, sessionVars
    <3>2. HandsInv'  BY <3>1, <1>h DEF HandsInv
    <3> QED  BY <3>2, <2>1, BytesUnchanged
  <2>3. CASE SocketFails \/ GreetTimeout
    <3>1. thread' = "reading" /\ worker' = "load"
      BY <2>3 DEF SocketFails, GreetTimeout, GreetWith
    <3>2. HandsInv'  BY <3>1 DEF HandsInv
    <3> QED  BY <3>2, <2>1, BytesUnchanged
  <2>4. CASE OpenSession
    <3>1. /\ thread' = thread /\ present' = present /\ message' = message
          /\ thread = "none" \/ worker' = worker
      BY <2>4, Zenon DEF OpenSession
    <3>2. HandsInv'  BY <3>1, <1>h DEF HandsInv
    <3> QED  BY <3>2, <2>1, BytesUnchanged
  <2> QED  BY <1>1, <2>2, <2>3, <2>4
<1>2. CASE GreetReceive  BY <1>2, BytesGreet
<1>3. CASE ThreadReceive  BY <1>3, BytesRead
<1>4. CASE ThreadHandles  BY <1>4, BytesHandle
<1>5. CASE ThreadDisconnect \/ ThreadLocks \/ ThreadEnds
  <2>1. UNCHANGED <<sent, stream, buffer, message, handled, worker, present>>
    BY <1>5 DEF ThreadDisconnect, ThreadLocks, ThreadEnds, viewerVars
  <2>2. \/ thread' = thread
        \/ thread = "reading" /\ thread' = "handling" /\ message # None
        \/ thread = "reading" /\ thread' = "ended"
    BY <1>5 DEF ThreadDisconnect, ThreadLocks, ThreadEnds
  <2>3. HandsInv'  BY <2>1, <2>2, <1>h DEF HandsInv
  <2> QED  BY <2>1, <2>3, BytesUnchanged
<1>6. CASE ViewerSends
  <2>1. UNCHANGED <<message, handled, worker, thread, present>>
    BY <1>6 DEF ViewerSends
  <2>2. sent \in 0..None /\ TakenCount \in Nat
    BY DEF BytesInv, BytesType, TakenCount
  <2>3. PICK k \in Nat : k = TakenCount  BY <2>2
  <2>4. Numbered(k, buffer, stream)  BY <2>3 DEF BytesInv
  <2>5. Numbered(k, buffer, stream)'  BY <2>2, <2>4, <1>6, SendFollows
  <2>6. TakenCount' = k  BY <2>1, <2>3 DEF TakenCount
  <2>7. Numbered(TakenCount, buffer, stream)'  BY <2>5, <2>6 DEF Numbered
  <2>8. BytesType'
    BY <2>1, <1>6, WcpAssumption DEF BytesInv, BytesType, ViewerSends, None
  <2>9. HandsInv'  BY <2>1, <1>h DEF HandsInv
  <2> QED  BY <2>1, <2>7, <2>8, <2>9 DEF BytesInv
<1>7. CASE ViewerConnects \/ ViewerQuits \/ UNCHANGED wcpVars
  <2>1. UNCHANGED <<sent, stream, buffer, message, handled, worker, thread, present>>
    BY <1>7 DEF ViewerConnects, ViewerQuits, wcpVars, viewerVars, sessionVars
  <2>2. HandsInv'  BY <2>1, <1>h DEF HandsInv
  <2> QED  BY <2>1, <2>2, BytesUnchanged
<1> QED
  BY <1>1, <1>2, <1>3, <1>4, <1>5, <1>6, <1>7 DEF WcpNext, Worker, Thread, Viewer

(* What was taken and what is left, as the property says it.                 *)
LEMMA BytesImplyOrder == BytesInv => NothingLostOrReordered
<1> SUFFICES ASSUME BytesInv PROVE NothingLostOrReordered
  OBVIOUS
<1> DEFINE done == handled \o IF message = None THEN <<>> ELSE <<message>>
           k == Len(done)
           left == buffer \o stream
<1>1. /\ handled \in Seq(Nat) /\ message \in 0..None /\ sent \in Nat
      /\ \A i \in 1..Len(handled) : handled[i] = i - 1
      /\ message # None => message = Len(handled)
  BY WcpAssumption DEF BytesInv, BytesType, None
<1>2. done \in Seq(Nat) /\ k = TakenCount /\ \A i \in 1..k : done[i] = i - 1
  <2>1. CASE message = None  BY <2>1, <1>1 DEF TakenCount
  <2>2. CASE message # None
    <3>1. done = handled \o <<message>> /\ message \in Nat  BY <2>2, <1>1, WcpAssumption DEF None
    <3> QED  BY <3>1, <2>2, <1>1 DEF TakenCount
  <2> QED  BY <2>1, <2>2
<1> HIDE DEF done
<1>3. done = [i \in 1..k |-> i - 1]
  <2>1. DOMAIN done = 1..k /\ done = [i \in DOMAIN done |-> done[i]]  BY <1>2
  <2> QED  BY <2>1, <1>2
<1>4. Numbered(k, buffer, stream) /\ k \in Nat  BY <1>2 DEF BytesInv
<1> HIDE DEF k
<1>5. /\ buffer \in Seq(Nat \X BOOLEAN) /\ stream \in Seq(Nat \X BOOLEAN)
      /\ 2 * k + Len(buffer) + Len(stream) = 2 * sent
  BY <1>4 DEF Numbered
<1>6. /\ left \in Seq(Nat \X BOOLEAN) /\ Len(left) = Len(buffer) + Len(stream)
      /\ \A i \in 1..Len(left) :
            left[i] = IF i <= Len(buffer) THEN buffer[i] ELSE stream[i - Len(buffer)]
  BY <1>5
<1>7. Len(buffer) \in Nat /\ Len(stream) \in Nat  BY <1>5
<1> HIDE DEF left
<1>8. Len(left) = 2 * (sent - k)
  <2>1. 2 * k + Len(buffer) + Len(stream) = 2 * sent /\ sent \in Nat /\ k \in Nat
    BY <1>1, <1>4, <1>5
  <2>2. Len(buffer) + Len(stream) = 2 * (sent - k)  BY <2>1, <1>7
  <2> QED  BY <2>2, <1>6, Zenon
<1>9. \A i \in 1..Len(left) : left[i] = <<k + (i - 1) \div 2, i % 2 = 0>>
  <2> SUFFICES ASSUME NEW i \in 1..Len(left)
               PROVE  left[i] = <<k + (i - 1) \div 2, i % 2 = 0>>
    OBVIOUS
  <2>1. left[i] = Fragment(2 * k + i)
    <3>1. CASE i <= Len(buffer)
      <4>1. i \in 1..Len(buffer) /\ left[i] = buffer[i]  BY <3>1, <1>6, <1>7
      <4> QED  BY <4>1, <1>4 DEF Numbered
    <3>2. CASE i > Len(buffer)
      <4>1. i - Len(buffer) \in 1..Len(stream) /\ left[i] = stream[i - Len(buffer)]
        BY <3>2, <1>6, <1>7
      <4>2. stream[i - Len(buffer)] = Fragment(2 * k + Len(buffer) + (i - Len(buffer)))
        BY <4>1, <1>4 DEF Numbered
      <4>3. 2 * k + Len(buffer) + (i - Len(buffer)) = 2 * k + i  BY <1>4, <1>7
      <4> QED  BY <4>1, <4>2, <4>3
    <3> QED  BY <3>1, <3>2, <1>7
  <2>2. i \in Nat \ {0}  BY <1>6, <1>7
  <2> QED  BY <2>1, <2>2, <1>4, FragmentFrom
<1>10. left = [i \in 1..(2 * (sent - k)) |-> <<k + (i - 1) \div 2, i % 2 = 0>>]
  <2>1. DOMAIN left = 1..(2 * (sent - k)) /\ left = [i \in DOMAIN left |-> left[i]]
    BY <1>6, <1>8
  <2>2. \A i \in 1..(2 * (sent - k)) : left[i] = <<k + (i - 1) \div 2, i % 2 = 0>>
    BY <1>8, <1>9
  <2> QED  BY <2>1, <2>2, Zenon
<1> QED  BY <1>3, <1>10 DEF NothingLostOrReordered, done, k, left

(* However the bytes are cut into reads and whoever reads them, the viewer's *)
(* messages are handled once each and in order, and the rest is still there. *)
THEOREM NothingLostTheorem == WcpSpec => []NothingLostOrReordered
  BY BytesInit, BytesNext, BytesImplyOrder, PTL DEF WcpSpec
=============================================================================
