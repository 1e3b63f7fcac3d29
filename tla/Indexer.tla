------------------------------ MODULE Indexer ------------------------------
(* The workspace index (src/Indexer.cpp): a crawl of the configured files at *)
(* every load of the configuration, the re-indexing of a document on save,   *)
(* and the handling of file-watch notifications, while editors and other     *)
(* programs keep changing the files.  The three inverse tables are one bag   *)
(* of entries, entries[k, p], the number of times p is listed under key k;   *)
(* the order inside a list is abstracted.  A file's content is the set of    *)
(* names that the parser finds in it.                                        *)
EXTENDS Integers, Sequences, FiniteSets

CONSTANTS
  Paths,        \* the SystemVerilog files
  ConfigFile,   \* a .json under .slang, or the active build file
  Names,        \* symbol (with its kind), macro and reference names
  Contents,     \* the contents a file may have
  Missing,      \* the file does not exist
  Configs,      \* how often each path is matched by the configured directories
  EventTypes,   \* the change types the client reports
  MaxWrites     \* bound on file writes and commands

Tables == {"symbol", "macro", "reference"}
Keys == Tables \X Names
AllContents == [symbols : SUBSET Names, classes : BOOLEAN, macros : SUBSET Names,
                included : SUBSET Names, refs : SUBSET Names]

ASSUME IndexerAssumption ==
  /\ Contents \subseteq AllContents
  /\ Missing \notin Contents
  /\ ConfigFile \notin Paths
  /\ Configs \subseteq [Paths -> Nat]
  /\ EventTypes \subseteq {"Created", "Changed", "Deleted"}
  /\ MaxWrites \in Nat

VARIABLES
  disk,      \* the content of every file
  config,    \* the configuration file: how often each path is to be crawled
  entries,   \* symbolToFiles_, macroToFiles_ and symbolReferences_
  indexed,   \* indexedFiles: the keys recorded for a path
  inbox,     \* messages on their way to the server, in order
  changes,   \* the changes of the notification being handled
  toAdd,     \* pathsToAdd / pathsToIndex, as a bag
  pending,   \* changes the client's watcher has seen and not reported
  writes,    \* writes and commands so far
  readded,   \* history: paths added again while they had a record
  unseen     \* history: paths whose last change the index has not heard of

vars == <<disk, config, entries, indexed, inbox, changes, toAdd, pending,
          writes, readded, unseen>>
server == <<entries, indexed, changes, toAdd, readded>>

Types == {"Created", "Changed", "Deleted"}
Change(p, t) == [path |-> p, type |-> t]
AllChanges == [path : Paths \cup {ConfigFile}, type : Types]
Nothing == [p \in Paths |-> 0]

Save(p, c) == [kind |-> "save", path |-> p, content |-> c]
Watch(cs) == [kind |-> "watch", changes |-> cs]
Load == [kind |-> "load"]
Messages == [kind : {"save"}, path : Paths, content : Contents]
            \cup [kind : {"watch"}, changes : Seq(AllChanges)]
            \cup {Load}

Under(table, names) == {table} \X names

\* What the crawler records for a file: it parses without following includes,
\* and takes macros only from files with neither design units nor classes.
\* A file that cannot be read leaves an empty record.
Crawled(c) ==
  IF c = Missing THEN {}
  ELSE IF c.symbols # {} THEN Under("symbol", c.symbols) \cup Under("reference", c.refs)
  ELSE IF c.classes THEN {} ELSE Under("macro", c.macros)

\* What a save records: the references of every file, and the macros known at
\* the end of the document's tree, included files' macros among them.
Parsed(c) ==
  Under("symbol", c.symbols) \cup Under("reference", c.refs)
  \cup (IF c.symbols = {} THEN Under("macro", c.macros \cup c.included) ELSE {})

\* (wrong: erases at the position found, whether or not there is one)
WithoutUnchecked(e, p, ks) == [kp \in Keys \X Paths |-> IF kp[2] = p THEN e[kp] - 1 ELSE e[kp]]
\* Lists are emptied of every occurrence of the path, and get one more.
Without(e, p, ks) ==
  [kp \in Keys \X Paths |-> IF kp[2] = p /\ kp[1] \in ks THEN 0 ELSE e[kp]]
With(e, p, ks) ==
  [kp \in Keys \X Paths |-> IF kp[2] = p /\ kp[1] \in ks THEN e[kp] + 1 ELSE e[kp]]

\* getFilesForSymbol, getFilesForMacro, getFilesReferencingSymbol
FilesFor(k) == {p \in Paths : entries[<<k, p>>] > 0}
\* the keys under which a path is listed
KeysOf(p) == {k \in Keys : p \in FilesFor(k)}

Idle == changes = <<>> /\ toAdd = Nothing

Init ==
  /\ disk \in [Paths -> Contents \cup {Missing}]
  /\ config \in Configs
  /\ entries = [kp \in Keys \X Paths |-> 0]
  /\ indexed = [p \in Paths |-> {}]
  /\ inbox = <<Load>>
  /\ changes = <<>> /\ toAdd = Nothing /\ pending = <<>> /\ writes = 0
  /\ readded = {}
  /\ unseen = {p \in Paths : disk[p] # Missing}

----------------------------------------------------------------------------
(* Editors, other programs and the client's file watcher                    *)

TypeOfWrite(p, c) ==
  IF disk[p] = Missing THEN "Created" ELSE IF c = Missing THEN "Deleted" ELSE "Changed"

\* A write that the watcher was asked to report becomes a pending change.
WriteDisk(p, c) ==
  LET t == TypeOfWrite(p, c) IN
  /\ writes < MaxWrites /\ writes' = writes + 1
  /\ disk' = [disk EXCEPT ![p] = c]
  /\ pending' = IF t \in EventTypes THEN Append(pending, Change(p, t)) ELSE pending
  /\ unseen' = IF t \in EventTypes THEN unseen ELSE unseen \cup {p}

\* git, a formatter, a build step
WriteFile(p, c) ==
  /\ c # disk[p]
  /\ WriteDisk(p, c)
  /\ UNCHANGED <<config, inbox, server>>

\* The editor saves an open document and says so.
SaveFile(p, c) ==
  /\ c # Missing
  /\ WriteDisk(p, c)
  /\ inbox' = Append(inbox, Save(p, c))
  /\ UNCHANGED <<config, server>>

SaveConfig(f) ==
  /\ writes < MaxWrites /\ writes' = writes + 1
  /\ config' = f
  /\ pending' = Append(pending, Change(ConfigFile, "Changed"))
  /\ UNCHANGED <<disk, inbox, unseen, server>>

\* The editor command that runs addDefine in the server.
AddDefine ==
  /\ writes < MaxWrites /\ writes' = writes + 1
  /\ pending' = Append(pending, Change(ConfigFile, "Changed"))
  /\ inbox' = Append(inbox, Load)
  /\ UNCHANGED <<disk, config, unseen, server>>

\* The client reports the first n changes it has seen, in one notification.
Deliver(n) ==
  /\ inbox' = Append(inbox, Watch(SubSeq(pending, 1, n)))
  /\ pending' = SubSeq(pending, n + 1, Len(pending))
  /\ UNCHANGED <<disk, config, writes, unseen, server>>

----------------------------------------------------------------------------
(* The server                                                                *)

\* (wrong: removes the old entries after adding the new ones; never removes)
UpdateAddsFirst(p, c) ==
  /\ entries' = Without(With(entries, p, Parsed(c)), p, indexed[p])
  /\ indexed' = [indexed EXCEPT ![p] = Parsed(c)]
UpdateKeepsOld(p, c) ==
  /\ entries' = With(entries, p, Parsed(c))
  /\ indexed' = [indexed EXCEPT ![p] = Parsed(c)]

\* Indexer::updateDocument, from ServerDriver::onDocDidSave
UpdateDocument(p, c) ==
  /\ entries' = With(Without(entries, p, indexed[p]), p, Parsed(c))
  /\ indexed' = [indexed EXCEPT ![p] = Parsed(c)]

\* SlangServer::onDocDidSave and ServerDriver::onDocDidSave.  A save is ignored
\* when the server does not have the document open, or throws before the index.
\* An include fragment is recorded under what its owner's tree contains.
HandleSave ==
  /\ Idle /\ inbox # <<>> /\ Head(inbox).kind = "save"
  /\ inbox' = Tail(inbox)
  /\ LET p == Head(inbox).path
         c == Head(inbox).content
     IN  \/ UNCHANGED <<entries, indexed, unseen>>
         \/ /\ UpdateDocument(p, c)
            /\ unseen' = IF disk[p] = c THEN unseen \ {p} ELSE unseen \cup {p}
         \/ /\ \E owner \in Contents : UpdateDocument(p, owner)
            /\ unseen' = unseen \cup {p}
  /\ UNCHANGED <<disk, config, changes, toAdd, pending, writes, readded>>

\* collectFilesFromDirectory: what exists now, once per matching directory
FilesToIndex == [p \in Paths |-> IF disk[p] = Missing THEN 0 ELSE config[p]]

NeedsReload(cs) == \E i \in 1..Len(cs) : cs[i].path = ConfigFile

PathsOf(cs) == {p \in Paths : \E i \in 1..Len(cs) : cs[i].path = p}

\* SlangServer::loadConfig makes the driver first, which may throw; then it
\* indexes again without clearing the index.
LoadConfig == toAdd' = FilesToIndex \/ UNCHANGED toAdd

HandleLoad ==
  /\ Idle /\ inbox # <<>> /\ Head(inbox).kind = "load"
  /\ LoadConfig
  /\ inbox' = Tail(inbox)
  /\ UNCHANGED <<disk, config, entries, indexed, changes, pending, writes, readded, unseen>>

\* onWorkspaceDidChangeWatchedFiles: a notification that names the
\* configuration reloads it and drops its other changes.
HandleReload ==
  /\ Idle /\ inbox # <<>> /\ Head(inbox).kind = "watch" /\ NeedsReload(Head(inbox).changes)
  /\ LoadConfig
  /\ inbox' = Tail(inbox)
  /\ unseen' = unseen \cup PathsOf(Head(inbox).changes)
  /\ UNCHANGED <<disk, config, entries, indexed, changes, pending, writes, readded>>

\* Other changes go to the driver and then to the indexer, which never hears of
\* them when the driver throws.
HandleWatch ==
  /\ Idle /\ inbox # <<>> /\ Head(inbox).kind = "watch" /\ ~NeedsReload(Head(inbox).changes)
  /\ inbox' = Tail(inbox)
  /\ \/ changes' = Head(inbox).changes /\ UNCHANGED unseen
     \/ unseen' = unseen \cup PathsOf(Head(inbox).changes) /\ UNCHANGED changes
  /\ UNCHANGED <<disk, config, entries, indexed, toAdd, pending, writes, readded>>

\* Indexer::removePathFromIndex: only what the record of the path names
RemovePath(p) ==
  /\ entries' = Without(entries, p, indexed[p])
  /\ indexed' = [indexed EXCEPT ![p] = {}]
  /\ unseen' = IF disk[p] = Missing THEN unseen \ {p} ELSE unseen

HandleCreated(p) ==
  /\ changes # <<>> /\ Head(changes) = Change(p, "Created")
  /\ changes' = Tail(changes)
  /\ toAdd' = [toAdd EXCEPT ![p] = @ + 1]
  /\ UNCHANGED <<disk, config, entries, indexed, inbox, pending, writes, readded, unseen>>

\* (wrong: a changed file is only removed; a deleted one is left)
ChangedOnlyRemoves(p) ==
  /\ changes # <<>> /\ Head(changes) = Change(p, "Changed")
  /\ changes' = Tail(changes)
  /\ RemovePath(p)
  /\ UNCHANGED <<disk, config, inbox, toAdd, pending, writes, readded>>
DeletedIsIgnored(p) ==
  /\ changes # <<>> /\ Head(changes) = Change(p, "Deleted")
  /\ changes' = Tail(changes)
  /\ unseen' = IF disk[p] = Missing THEN unseen \ {p} ELSE unseen
  /\ UNCHANGED <<disk, config, entries, indexed, inbox, toAdd, pending, writes, readded>>

HandleChanged(p) ==
  /\ changes # <<>> /\ Head(changes) = Change(p, "Changed")
  /\ changes' = Tail(changes)
  /\ RemovePath(p)
  /\ toAdd' = IF disk[p] # Missing THEN [toAdd EXCEPT ![p] = @ + 1] ELSE toAdd
  /\ UNCHANGED <<disk, config, inbox, pending, writes, readded>>

HandleDeleted(p) ==
  /\ changes # <<>> /\ Head(changes) = Change(p, "Deleted")
  /\ changes' = Tail(changes)
  /\ RemovePath(p)
  /\ UNCHANGED <<disk, config, inbox, toAdd, pending, writes, readded>>

\* indexPaths reads a file and indexPath records it, beside what was there.
AddDocument(p) ==
  LET ks == Crawled(disk[p]) IN
  /\ changes = <<>> /\ toAdd[p] > 0
  /\ toAdd' = [toAdd EXCEPT ![p] = @ - 1]
  /\ entries' = With(entries, p, ks)
  /\ indexed' = [indexed EXCEPT ![p] = ks]
  /\ readded' = IF indexed[p] = {} THEN readded ELSE readded \cup {p}
  /\ unseen' = unseen \ {p}
  /\ UNCHANGED <<disk, config, inbox, changes, pending, writes>>

Environment ==
  \/ \E p \in Paths, c \in Contents \cup {Missing} : WriteFile(p, c) \/ SaveFile(p, c)
  \/ \E f \in Configs : SaveConfig(f)
  \/ AddDefine
  \/ \E n \in 1..Len(pending) : Deliver(n)

Server ==
  \/ HandleSave \/ HandleLoad \/ HandleReload \/ HandleWatch
  \/ \E p \in Paths : \/ HandleCreated(p) \/ HandleChanged(p) \/ HandleDeleted(p)
                      \/ AddDocument(p)

Next == Environment \/ Server

Spec == Init /\ [][Next]_vars

----------------------------------------------------------------------------
(* Properties                                                                *)

TypeOK ==
  /\ disk \in [Paths -> Contents \cup {Missing}]
  /\ config \in Configs
  /\ entries \in [Keys \X Paths -> Nat]
  /\ indexed \in [Paths -> SUBSET Keys]
  /\ inbox \in Seq(Messages)
  /\ changes \in Seq(AllChanges)
  /\ toAdd \in [Paths -> Nat]
  /\ pending \in Seq(AllChanges)
  /\ writes \in Nat
  /\ readded \in SUBSET Paths
  /\ unseen \in SUBSET Paths

(* Whatever order saves, crawls and notifications come in, a recorded file  *)
(* is listed under every key of its record: targeted removal never takes    *)
(* entries that a newer record still needs.                                 *)
IndexedIsFound == \A p \in Paths : \A k \in indexed[p] : p \in FilesFor(k)

(* The tables and the records are inverse to each other, with no duplicate   *)
(* and no entry left behind, for every path that was never added on top of a *)
(* record (by a repeated crawl, or by two changes in one notification).      *)
TablesMatchRecords ==
  \A p \in Paths \ readded : \A k \in Keys :
    entries[<<k, p>>] = IF k \in indexed[p] THEN 1 ELSE 0

Quiet == Idle /\ inbox = <<>> /\ pending = <<>>

(* When nothing is left to report or handle, every file that exists is found *)
(* under what it contains now, unless the index has not heard of its last    *)
(* change: the watcher was not asked for it, its report was dropped with a   *)
(* reload or by a driver that threw, or it was saved as a fragment, under the *)
(* tree of its owner, and not reported after that.                           *)
QuietIndexIsComplete ==
  Quiet => \A p \in Paths \ unseen : Crawled(disk[p]) \subseteq KeysOf(p)

(* ... and it is found under nothing else: a deleted file is not listed and  *)
(* a changed one is not listed under its old names.                          *)
QuietIndexIsSound ==
  Quiet => \A p \in Paths \ (unseen \cup readded) :
             KeysOf(p) \subseteq (IF disk[p] = Missing THEN {} ELSE Parsed(disk[p]))

----------------------------------------------------------------------------
(* What comments and tests of the repository say and the code does not keep. *)
(* No standing run checks these: README.md, "Known deviations".              *)

(* Indexer.cpp:387, "Re-index the file: remove old entries, add new ones":   *)
(* once a change is handled no older entry of the file is left.              *)
ChangedRemovesOldEntries ==
  [][\A p \in Paths : HandleChanged(p) => \A k \in Keys : entries'[<<k, p>>] = 0]_vars

(* Indexer.cpp:66, "Only add macros defined in this file (not included       *)
(* files)": a save records no macro that the file itself does not define.    *)
SavedMacrosAreOwn ==
  [][HandleSave =>
       LET m == Head(inbox) IN
       indexed'[m.path] \cap Under("macro", Names) \subseteq Under("macro", m.content.macros)]_vars
=============================================================================
