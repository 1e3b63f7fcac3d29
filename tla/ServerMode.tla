----------------------------- MODULE ServerMode -----------------------------
(* What the active driver was made from, and what a configuration reload     *)
(* brings back (src/SlangServer.cpp): the build file, the top file, the      *)
(* configuration and the files they were read from.                          *)
(*                                                                           *)
(* A file's content is a version number.  One document is open in the        *)
(* editor, without edits.  Making a driver re-opens the documents that are   *)
(* open; an analysis in there may throw (see ServerDriver), and then the     *)
(* handler stops where it is and the old driver stays.                       *)
EXTENDS Naturals

CONSTANTS
  BuildLists,   \* build files (.f)
  Tops,         \* files that can be set as the top level
  Unset,        \* no file
  Json,         \* the configuration files
  Source,       \* the open document
  MaxVersion    \* bound on the versions of a file

ASSUME ModeAssumption ==
  /\ Unset \notin BuildLists \cup Tops
  /\ {Json, Source} \cap BuildLists = {} /\ Json # Source
  /\ MaxVersion \in Nat

VARIABLES
  server,     \* the members of SlangServer
  disk,       \* the files
  pending,    \* files whose change has not been reported
  failed      \* history: a handler was cut short since the last complete reload

vars == <<server, disk, pending, failed>>

Versions == 0..MaxVersion
Configs == [build : BuildLists \cup {Unset}, flags : Versions]
Designs == [kind : {"build"}, file : BuildLists] \cup [kind : {"top"}, file : Tops]
             \cup [kind : {"explore"}, file : {Unset}]
\* A driver: its design, the flags and the version of the build file it was made with.
Drivers == [design : Designs, flags : Versions, list : Versions]

ServerType == [buildfile : BuildLists \cup {Unset},   \* m_buildfile
               topFile : Tops \cup {Unset},           \* m_topFile
               config : Configs,                      \* m_config
               driver : Drivers,                      \* m_driver
               text : Versions,                       \* the open document in the driver
               ok : BOOLEAN]                          \* the handler has not thrown
DiskType == [config : Configs, list : [BuildLists -> Versions], source : Versions]

TypeOK ==
  /\ server \in ServerType /\ disk \in DiskType
  /\ pending \subseteq BuildLists \cup {Json, Source} /\ failed \in BOOLEAN

----------------------------------------------------------------------------
(* The setters, on the members of SlangServer.  fails says whether making    *)
(* the driver throws; what was assigned before stays.                        *)

Design(kind, file) == [kind |-> kind, file |-> file]
Explore == Design("explore", Unset)

Replace(s, design, list, fails) ==
  IF fails THEN [s EXCEPT !.ok = FALSE]
           ELSE [s EXCEPT !.driver = [design |-> design, flags |-> s.config.flags, list |-> list]]

ToExplore(s, fails) ==
  Replace([s EXCEPT !.buildfile = Unset, !.topFile = Unset], Explore, 0, fails)

\* m_topFile is left alone
ToBuild(s, b, fails) ==
  Replace([s EXCEPT !.buildfile = b], Design("build", b), disk.list[b], fails)

\* m_buildfile is left alone; a file without a top module leaves a driver without a design
ToTop(s, t, hasTop, fails) ==
  Replace([s EXCEPT !.topFile = t], IF hasTop THEN Design("top", t) ELSE Explore, 0, fails)

LoadConfig(s, config, fails) ==
  LET read == [s EXCEPT !.config = config]
  IN  IF config.build = Unset THEN ToExplore(read, fails) ELSE ToBuild(read, config.build, fails)

\* (wrong: what is to be restored is read after the configuration is loaded)
ReloadForgetting(s, config, fails, failsAgain) ==
  LET loaded == LoadConfig(s, config, fails)
  IN  IF loaded.ok /\ loaded.buildfile # Unset THEN ToBuild(loaded, loaded.buildfile, failsAgain)
                                               ELSE loaded

\* (wrong: restores a build file even if there was none)
ReloadUnchecked(s, config, fails, failsAgain) ==
  LET loaded == LoadConfig(s, config, fails)
  IN  IF loaded.ok THEN Replace([loaded EXCEPT !.buildfile = s.buildfile],
                                Design("build", s.buildfile), 0, failsAgain)
                   ELSE loaded

\* "Reload config, preserving build file state"
Reload(s, config, fails, failsAgain) ==
  LET loaded == LoadConfig(s, config, fails)
  IN  IF loaded.ok /\ s.buildfile # Unset THEN ToBuild(loaded, s.buildfile, failsAgain)
                                          ELSE loaded

----------------------------------------------------------------------------
(* Handlers                                                                  *)

Init ==
  /\ disk \in [config : [build : BuildLists \cup {Unset}, flags : {0}],
               list : [BuildLists -> {0}], source : {0}]
  /\ LET c == disk.config IN
     server = [buildfile |-> c.build, topFile |-> Unset, config |-> c,
               driver |-> [design |-> IF c.build = Unset THEN Explore ELSE Design("build", c.build),
                           flags |-> 0, list |-> 0],
               text |-> 0, ok |-> TRUE]
  /\ pending = {} /\ failed = FALSE

Handle(s) == server' = [s EXCEPT !.ok = TRUE]

SetExplore == \E fails \in BOOLEAN :
  LET s == ToExplore(server, fails)
  IN  Handle(s) /\ failed' = (failed \/ ~s.ok) /\ UNCHANGED <<disk, pending>>

SetBuildFile(b) == \E fails \in BOOLEAN :
  LET s == ToBuild(server, b, fails)
  IN  Handle(s) /\ failed' = (failed \/ ~s.ok) /\ UNCHANGED <<disk, pending>>

SetTopLevel(t) == \E hasTop, fails \in BOOLEAN :
  LET s == ToTop(server, t, hasTop, fails)
  IN  Handle(s) /\ failed' = (failed \/ ~s.ok) /\ UNCHANGED <<disk, pending>>

\* (wrong: looks for configuration files only)
NeedsReloadForConfig(batch) == Json \in batch

\* A batch of watch events.  A configuration file, or the active driver's
\* build file, reloads everything and ends the handler there.
NeedsReload(batch) ==
  \/ Json \in batch
  \/ \E b \in batch \cap BuildLists : server.driver.design = Design("build", b)

WatchedFiles(batch) ==
  /\ batch # {} /\ batch \subseteq pending
  /\ pending' = pending \ batch
  /\ IF NeedsReload(batch)
       THEN \E fails, failsAgain \in BOOLEAN :
              LET s == Reload(server, disk.config, fails, failsAgain)
              IN  Handle(s) /\ failed' = ~s.ok
       ELSE /\ server' = IF Source \in batch THEN [server EXCEPT !.text = disk.source] ELSE server
            /\ failed' = failed
  /\ UNCHANGED disk

\* Writes the local configuration file and reloads; the watcher will report the write too.
AddDefine == \E fails, failsAgain \in BOOLEAN :
  /\ disk.config.flags < MaxVersion
  /\ disk' = [disk EXCEPT !.config.flags = @ + 1]
  /\ pending' = pending \cup {Json}
  /\ LET s == Reload(server, disk'.config, fails, failsAgain)
     IN  Handle(s) /\ failed' = ~s.ok

\* Other programs
WriteConfig(b) ==
  /\ disk.config.flags < MaxVersion
  /\ disk' = [disk EXCEPT !.config = [build |-> b, flags |-> @.flags + 1]]
  /\ pending' = pending \cup {Json} /\ UNCHANGED <<server, failed>>

WriteBuildFile(b) ==
  /\ disk.list[b] < MaxVersion
  /\ disk' = [disk EXCEPT !.list[b] = @ + 1]
  /\ pending' = pending \cup {b} /\ UNCHANGED <<server, failed>>

WriteSource ==
  /\ disk.source < MaxVersion
  /\ disk' = [disk EXCEPT !.source = @ + 1]
  /\ pending' = pending \cup {Source} /\ UNCHANGED <<server, failed>>

Reloads == AddDefine \/ \E batch \in SUBSET pending : NeedsReload(batch) /\ WatchedFiles(batch)

Next == \/ SetExplore
        \/ \E b \in BuildLists : SetBuildFile(b)
        \/ \E t \in Tops : SetTopLevel(t)
        \/ \E batch \in SUBSET pending : WatchedFiles(batch)
        \/ AddDefine
        \/ \E b \in BuildLists \cup {Unset} : WriteConfig(b)
        \/ \E b \in BuildLists : WriteBuildFile(b)
        \/ WriteSource

Spec == Init /\ [][Next]_vars

----------------------------------------------------------------------------
(* Properties                                                                *)

\* Once every change has been reported, and unless a handler failed, the active
\* driver was made with the flags of the configuration files and, for a build,
\* from what its build file says now (docs/start/config.md:15: "automatically
\* reloading when they are saved").
ReportedChangesAreUsed ==
  pending = {} /\ ~failed =>
    /\ server.driver.flags = disk.config.flags
    /\ \A b \in BuildLists :
         server.driver.design = Design("build", b) => server.driver.list = disk.list[b]

\* A reload that completes does not change the build that is active, whatever
\* the configuration says by now, as long as no handler failed before it.
ReloadKeepsBuild ==
  [][Reloads /\ ~failed /\ ~failed' /\ server.driver.design.kind = "build"
       => server'.driver.design = server.driver.design]_vars

----------------------------------------------------------------------------
(* What comments and tests of the repository say and the code does not keep. *)
(* No standing run checks these: README.md, "Known deviations".              *)

\* "Reload config, preserving build file state" (src/SlangServer.cpp:838): a
\* reload, completed or not, leaves m_buildfile naming the build that is active.
\* One that throws has dropped m_buildfile and kept the driver of the build, so
\* the next reload goes to another design.
ReloadPreservesBuildState ==
  [][Reloads /\ server.driver.design = Design("build", server.buildfile)
       => server'.driver.design = Design("build", server'.buildfile)]_vars

\* Once every change has been reported, and unless a handler failed, the open
\* document has the text of its file (src/SlangServer.cpp:971: "Handle external
\* source file changes").  A batch that also holds a configuration file drops it.
ReportedSourcesAreRead == pending = {} /\ ~failed => server.text = disk.source

\* "Reload config, preserving build file state" (src/SlangServer.cpp:838): a
\* reload does not open a build file that is neither configured nor active.
\* setTopLevel keeps the m_buildfile of the build that it replaces.
ReloadOpensNoOtherBuild ==
  [][Reloads /\ ~failed /\ ~failed' /\ server.driver.design.kind = "top"
       => server'.driver.design \in {server.driver.design, Explore,
                                     Design("build", disk'.config.build)}]_vars
=============================================================================
