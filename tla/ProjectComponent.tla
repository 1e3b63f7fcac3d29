--------------------------- MODULE ProjectComponent ---------------------------
(***************************************************************************)
(* The hierarchy view of the VS Code extension                             *)
(* (clients/vscode/src/sidebar/ProjectComponent.ts, with updateModules of  *)
(* InstancesView.ts): which design the user chose, the tree that shows it, *)
(* the selection in it and the search.                                     *)
(*                                                                         *)
(* JavaScript runs one segment at a time, from one await to the next, and  *)
(* any other command, event or answer may run in between.  A command is a  *)
(* task; an action is a segment.  The requests reach the server in the     *)
(* order they are sent, and so do its answers.  What a waiting command     *)
(* goes on with (its local variables) is its record in tasks.              *)
(***************************************************************************)
EXTENDS Naturals, Sequences, FiniteSets

CONSTANTS
    Files, Tops, Commands,  \* build files, top files and build commands to choose from
    Paths,                  \* hierarchical paths
    Root,                   \* path |-> the top-level instance it starts at
    Contents,               \* name of a build file, top or command |-> the paths of its design
    Queries, NoText,        \* what may be typed into the search, and the empty text
    None,                   \* nothing
    MaxTasks,               \* bound: commands and events
    MaxBusy,                \* bound: commands under way at a time
    MaxTyped,               \* bound: changes of the search text
    MaxReloads              \* bound: reloads that the server makes of itself

Source(type, name) == [type |-> type, name |-> name]
NoSource == Source("none", None)
Sources == {NoSource} \cup {Source("filelist", f) : f \in Files}
               \cup {Source("topfile", f) : f \in Tops}
               \cup {Source("commandBuild", c) : c \in Commands}

ASSUME ProjectAssumption ==
    /\ None \notin Files \cup Tops \cup Commands \cup Paths \cup Queries \cup {NoText}
    /\ Root \in [Paths -> Paths]
    /\ Contents \in [Files \cup Tops \cup Commands -> SUBSET Paths]
    /\ \A f \in DOMAIN Contents : \A p \in Contents[f] : Root[p] \in Contents[f]
    /\ {MaxTasks, MaxBusy, MaxTyped, MaxReloads} \subseteq Nat

VARIABLES
    source,         \* compilationSource: the choice of the user
    watcher,        \* the command whose source file activeBuildWatcher watches, or None
    unit,           \* the tree: the design it was fetched from and what is cached of it
    modules,        \* InstancesView.modules: the revision they are of, or 0
    focused,        \* the selected item: its tree and path
    interaction,    \* interactionSource, or None
    tasks,          \* the commands
    typed,          \* changes of the search text so far
    toServer,       \* requests on their way
    fromServer,     \* answers on their way
    server,         \* external: the design of the server and its revision
    refused,        \* history: the server failed to make the last design asked for
    saved,          \* external: the build file that the server restores, m_buildfile
    reloads,        \* reloads so far
    reload,         \* history: how reloads since the last design asked for have gone
    untold          \* history: reloaded since it was last asked for the tree

vars == <<source, watcher, unit, modules, focused, interaction, tasks, typed, toServer,
          fromServer, server, refused, saved, reloads, reload, untold>>

(***************************************************************************)
(* Trees and items.                                                        *)
(***************************************************************************)
NoUnit == [design |-> NoSource, rev |-> 0, known |-> {}]
NoItem == [rev |-> 0, path |-> None]
Item(u, p) == [rev |-> u.rev, path |-> p]
PathsOf(design) == IF design = NoSource THEN {} ELSE Contents[design.name]
RootsOf(design) == {p \in PathsOf(design) : Root[p] = p}

(***************************************************************************)
(* Tasks.                                                                  *)
(***************************************************************************)
Tasks == 1..MaxTasks
Idle == [at |-> "free", goal |-> NoSource, tracks |-> FALSE, refreshes |-> TRUE,
         preserve |-> FALSE, reveals |-> FALSE, previous |-> None, tree |-> NoUnit,
         path |-> None, item |-> NoItem, opens |-> FALSE, opened |-> None,
         activates |-> FALSE, acts |-> None, owner |-> FALSE, query |-> NoText,
         pending |-> None, searching |-> FALSE, shown |-> None,
         found |-> FALSE]
Done == [Idle EXCEPT !.at = "done"]

\* The next command to be started.
Fresh(t) == /\ tasks[t].at = "free"
            /\ \A s \in 1..(t - 1) : tasks[s].at # "free"
            /\ Cardinality({s \in Tasks : tasks[s].at \notin {"free", "done"}}) < MaxBusy

Ask(kind, t, arg) == [kind |-> kind, task |-> t, arg |-> arg]
Send(requests) == toServer' = toServer \o requests
Goes(t, task) == tasks' = [tasks EXCEPT ![t] = task]

\* The command returns or throws; finally gives the interaction source back that
\* it set.  held is what interactionSource was until then.
Ends(t, task, held) ==
    /\ Goes(t, Done)
    /\ interaction' = IF task.owner THEN None ELSE held

Tree == <<unit, modules, focused>>
Wires == <<toServer, fromServer>>
Reloads == <<saved, reloads, reload, untold>>

Init ==
    /\ source = NoSource /\ watcher = None
    /\ unit = NoUnit /\ modules = 0 /\ focused = NoItem
    /\ interaction = None
    /\ tasks = [t \in Tasks |-> IF t = 1 THEN [Idle EXCEPT !.at = "unit", !.preserve = TRUE]
                                ELSE Idle]
    /\ typed = 0
    /\ toServer = <<Ask("unit", 1, None)>> /\ fromServer = <<>>
    /\ \E design \in {NoSource} \cup {Source("filelist", f) : f \in Files} :
           server = [design |-> design, rev |-> 1]
    /\ refused = FALSE
    /\ saved = server.design
    /\ reloads = 0 /\ reload = "none" /\ untold = FALSE

(***************************************************************************)
(* The server, as the extension sees it.                                   *)
(***************************************************************************)
Reply(request, ok, value) == [request |-> request, ok |-> ok, value |-> value]

\* It answers in order.  Making a design may fail, and then the old one stays.  A
\* build file is remembered before it is tried, and a top file is not.
ServerMakes ==
    /\ toServer # <<>> /\ Head(toServer).kind = "set"
    /\ \E ok \in BOOLEAN :
           /\ server' = IF ok THEN [design |-> Head(toServer).arg, rev |-> server.rev + 1]
                        ELSE server
           /\ refused' = ~ok
           /\ reload' = IF ok THEN "none" ELSE reload
           /\ untold' = (untold /\ ~ok)
           /\ fromServer' = Append(fromServer, Reply(Head(toServer), ok, server))
    /\ saved' = IF Head(toServer).arg.type = "topfile" THEN saved ELSE Head(toServer).arg
    /\ toServer' = Tail(toServer)
    /\ UNCHANGED <<source, watcher, Tree, interaction, tasks, typed, reloads>>

ServerAnswers ==
    /\ toServer # <<>> /\ Head(toServer).kind # "set"
    /\ \E ok \in BOOLEAN :
           /\ Head(toServer).kind \in {"unit", "modules"} => ok
           /\ fromServer' = Append(fromServer, Reply(Head(toServer), ok, server))
    /\ untold' = (untold /\ Head(toServer).kind # "unit")
    /\ toServer' = Tail(toServer)
    /\ UNCHANGED <<source, watcher, Tree, interaction, tasks, typed, server, refused,
                   saved, reloads, reload>>

\* A configuration or build file changed, or a define was added: the design of the
\* configuration is made, and then that of the build file the server had, if any.
\* Either may fail.  The extension is told of no design.
Remade(design, ok) ==
    /\ server' = [design |-> design, rev |-> server.rev + 1]
    /\ reload' = IF ok /\ reload # "failed" THEN "done" ELSE "failed"
    /\ untold' = TRUE

ServerReloads ==
    /\ reloads < MaxReloads /\ reloads' = reloads + 1
    /\ \E configured \in {NoSource} \cup {Source("filelist", f) : f \in Files} :
           \/ /\ saved' = configured /\ reload' = "failed"
              /\ UNCHANGED <<server, untold>>
           \/ /\ saved = NoSource /\ saved' = configured
              /\ Remade(configured, TRUE)
           \/ /\ saved # NoSource /\ saved' = saved
              /\ Remade(saved, TRUE) \/ Remade(configured, FALSE)
    /\ UNCHANGED <<source, watcher, Tree, interaction, tasks, typed, Wires, refused>>

Answered(t, kind, ok) ==
    /\ fromServer # <<>>
    /\ Head(fromServer).request.kind = kind
    /\ Head(fromServer).request.task = t
    /\ Head(fromServer).ok = ok
    /\ fromServer' = Tail(fromServer)

(***************************************************************************)
(* Choosing the design.  What is assigned and what is sent belong to one   *)
(* segment.                                                                *)
(***************************************************************************)
Waiting(at, goal) == [Idle EXCEPT !.at = at, !.goal = goal, !.reveals = TRUE]

\* setTopLevel, and selectBuildFile with a plain build file (setDirectBuildFile).
Choose(t, goal) ==
    /\ Fresh(t)
    /\ source' = goal /\ watcher' = None
    /\ Send(<<Ask("set", t, goal)>>)
    /\ Goes(t, Waiting("set", goal))
    /\ UNCHANGED <<Tree, interaction, typed, fromServer, server, refused, Reloads>>

\* Wrong variant of RunCommand: the choice is recorded before the command has run.
RunCommandChosen(t, task) ==
    /\ Fresh(t)
    /\ source' = task.goal
    /\ Goes(t, task)
    /\ UNCHANGED <<watcher, Tree, interaction, typed, Wires, server, refused, Reloads>>

\* selectBuildFile with a build command, or refreshCompilation of one: nothing
\* changes until the command has run.
RunCommand(t, task) ==
    /\ Fresh(t)
    /\ Goes(t, task)
    /\ UNCHANGED <<source, watcher, Tree, interaction, typed, Wires, server, refused, Reloads>>

ChooseCommand(t, c) ==
    RunCommand(t, [Waiting("generate", Source("commandBuild", c)) EXCEPT !.tracks = TRUE])

\* refreshCompilation: the choice is made again.
RefreshCompilation(t) ==
    \/ /\ source.type = "commandBuild"
       /\ RunCommand(t, [Waiting("generate", source) EXCEPT !.tracks = TRUE,
                                                            !.preserve = TRUE])
    \/ /\ source.type \in {"filelist", "topfile"}
       /\ Fresh(t)
       /\ Send(<<Ask("set", t, source)>>)
       /\ Goes(t, [Waiting("set", source) EXCEPT !.preserve = TRUE])
       /\ UNCHANGED <<source, watcher, Tree, interaction, typed, fromServer, server, refused,
                      Reloads>>

\* rerun: the watched source file of the command changed.
CommandSourceChanges(t) ==
    /\ watcher # None /\ source = Source("commandBuild", watcher)
    /\ RunCommand(t, [Waiting("generate", source) EXCEPT !.preserve = TRUE,
                                                         !.reveals = FALSE])

\* The command has run: what was chosen meanwhile is replaced.
CommandRuns(t) ==
    /\ tasks[t].at = "generate"
    /\ source' = tasks[t].goal
    /\ Goes(t, [tasks[t] EXCEPT !.at = "set"])
    /\ Send(<<Ask("set", t, tasks[t].goal)>>)
    /\ UNCHANGED <<watcher, Tree, interaction, typed, fromServer, server, refused, Reloads>>

CommandFails(t) ==
    /\ tasks[t].at = "generate"
    /\ Goes(t, Done)
    /\ UNCHANGED <<source, watcher, Tree, interaction, typed, Wires, server, refused, Reloads>>

\* clearTopLevel: the tree is cleared at once, and not fetched again.
ClearTopLevel(t) ==
    /\ Fresh(t)
    /\ source' = NoSource /\ watcher' = None
    /\ unit' = NoUnit /\ modules' = 0 /\ focused' = NoItem
    /\ Send(<<Ask("set", t, NoSource)>>)
    /\ Goes(t, [Waiting("set", NoSource) EXCEPT !.refreshes = FALSE])
    /\ UNCHANGED <<interaction, typed, fromServer, server, refused, Reloads>>

(***************************************************************************)
(* refreshSlangCompilation.                                                *)
(***************************************************************************)
\* Up to its first await.
Refreshing(task) ==
    [task EXCEPT !.at = "unit", !.previous = IF task.preserve THEN focused.path ELSE None]

\* Wrong variant of BuildFileSaved: the tree is asked for before the file is loaded.
BuildFileSavedTreeFirst(t) ==
    /\ Fresh(t)
    /\ source.type \in {"filelist", "commandBuild"}
    /\ Send(<<Ask("unit", t, None), Ask("set", 0, source)>>)
    /\ Goes(t, Refreshing([Idle EXCEPT !.preserve = TRUE, !.reveals = TRUE]))
    /\ UNCHANGED <<source, watcher, Tree, interaction, typed, fromServer, server, refused, Reloads>>

\* A document was saved: the build file, which is loaded again without waiting
\* for the server, or an HDL file.
BuildFileSaved(t) ==
    /\ Fresh(t)
    /\ source.type \in {"filelist", "commandBuild"}
    /\ Send(<<Ask("set", 0, source), Ask("unit", t, None)>>)
    /\ Goes(t, Refreshing([Idle EXCEPT !.preserve = TRUE, !.reveals = TRUE]))
    /\ UNCHANGED <<source, watcher, Tree, interaction, typed, fromServer, server, refused, Reloads>>

HdlSaved(t) ==
    /\ Fresh(t)
    /\ unit # NoUnit
    /\ Send(<<Ask("unit", t, None)>>)
    /\ Goes(t, Refreshing([Idle EXCEPT !.preserve = TRUE]))
    /\ UNCHANGED <<source, watcher, Tree, interaction, typed, fromServer, server, refused, Reloads>>

\* The server has made the design, or failed.
SetAnswered(t) ==
    /\ tasks[t].at = "set"
    /\ \/ /\ Answered(t, "set", TRUE) /\ tasks[t].refreshes
          /\ watcher' = IF tasks[t].tracks THEN tasks[t].goal.name ELSE watcher
          /\ Send(<<Ask("unit", t, None)>>)
          /\ Goes(t, Refreshing(tasks[t]))
       \/ /\ \/ Answered(t, "set", TRUE) /\ ~tasks[t].refreshes
             \/ Answered(t, "set", FALSE)
          /\ Goes(t, Done)
          /\ UNCHANGED <<watcher, toServer>>
    /\ UNCHANGED <<source, Tree, interaction, typed, server, refused, Reloads>>

\* The answer to the request of BuildFileSaved, which nobody waits for.
UnawaitedAnswered ==
    /\ \E ok \in BOOLEAN : Answered(0, "set", ok)
    /\ UNCHANGED <<source, watcher, Tree, interaction, tasks, typed, toServer, server, refused,
                   Reloads>>

UnitAnswered(t) ==
    /\ tasks[t].at = "unit" /\ Answered(t, "unit", TRUE)
    /\ LET answer == Head(fromServer).value IN
       IF PathsOf(answer.design) = {}
       THEN /\ unit' = NoUnit /\ modules' = 0 /\ focused' = NoItem
            /\ Goes(t, Done)
            /\ UNCHANGED toServer
       ELSE /\ unit' = [design |-> answer.design, rev |-> answer.rev, known |-> {}]
            /\ focused' = IF tasks[t].preserve THEN focused ELSE NoItem
            /\ Send(<<Ask("modules", t, None)>>)
            /\ Goes(t, [tasks[t] EXCEPT !.at = "modules", !.tree = unit'])
            /\ UNCHANGED modules
    /\ UNCHANGED <<source, watcher, interaction, typed, server, refused, Reloads>>

(***************************************************************************)
(* setInstance.  A selection keeps the interaction source of whoever began *)
(* first; what it does depends on the source that it found.                *)
(***************************************************************************)
Selection(task, src, already) ==
    LET owner == src # None /\ interaction = None
        acts == IF owner THEN src ELSE interaction
    IN  [task EXCEPT !.owner = owner, !.acts = acts, !.activates = ~already,
                     !.opens = ~already /\ acts # "editor", !.opened = None]

Held(task) == IF task.owner THEN task.acts ELSE interaction

Continues(t, task, requests) ==
    /\ Goes(t, task)
    /\ Send(requests)
    /\ interaction' = Held(task)

\* The location of what was selected, unless it was opened already.
ShowStep(t, task) ==
    \/ /\ task.opens /\ task.opened # task.item.path
       /\ Continues(t, [task EXCEPT !.at = "show"], <<Ask("show", t, task.item.path)>>)
    \/ /\ ~(task.opens /\ task.opened # task.item.path)
       /\ Ends(t, task, interaction) /\ UNCHANGED toServer

ActivateStep(t, task) ==
    \/ /\ task.activates
       /\ Continues(t, [task EXCEPT !.at = "activate"],
                    <<Ask("activate", t, task.item.path)>>)
    \/ ~task.activates /\ ShowStep(t, task)

\* A click into the tree is not revealed in it.
FocusStep(t, task) ==
    /\ focused' = task.item
    /\ \/ task.acts = "hierarchy" /\ ActivateStep(t, task)
       \/ task.acts # "hierarchy" /\ Continues(t, [task EXCEPT !.at = "reveal"], <<>>)

\* resolveHierarchyPath, up to its request.
Cached(path) == path \in RootsOf(unit.design) \cup unit.known
ResolveStep(t, task) ==
    \/ /\ Cached(task.path)
       /\ FocusStep(t, [task EXCEPT !.item = Item(unit, task.path)])
    \/ /\ ~Cached(task.path)
       /\ Continues(t, [task EXCEPT !.at = "resolve"], <<Ask("scopes", t, task.path)>>)
       /\ UNCHANGED focused

PathStep(t, task) ==
    \/ /\ unit = NoUnit
       /\ Continues(t, [task EXCEPT !.at = "message", !.item = NoItem], <<>>)
       /\ UNCHANGED focused
    \/ /\ unit # NoUnit /\ task.opens
       /\ Continues(t, [task EXCEPT !.at = "open"], <<Ask("show", t, task.path)>>)
       /\ UNCHANGED focused
    \/ unit # NoUnit /\ ~task.opens /\ ResolveStep(t, task)

Choices == <<source, watcher>>

\* A click into the tree, on any item that it shows.
SelectItem(t) ==
    /\ Fresh(t) /\ unit # NoUnit
    /\ \E p \in RootsOf(unit.design) \cup unit.known :
           FocusStep(t, [Selection(Idle, "hierarchy", FALSE) EXCEPT !.item = Item(unit, p)])
    /\ UNCHANGED <<Choices, unit, modules, typed, fromServer, server, refused, Reloads>>

\* A path, from a link in the terminal (src is "terminal"), or told by the server,
\* which has activated it (src is "editor").
SelectPath(t, src) ==
    /\ Fresh(t)
    /\ \E p \in PathsOf(server.design) :
           PathStep(t, [Selection(Idle, src, src = "editor") EXCEPT !.path = p])
    /\ UNCHANGED <<Choices, unit, modules, typed, fromServer, server, refused, Reloads>>

\* The editor has opened the path, or failed to.
OpenAnswered(t) ==
    /\ tasks[t].at = "open"
    /\ \/ /\ Answered(t, "show", TRUE) /\ unit # NoUnit
          /\ ResolveStep(t, [tasks[t] EXCEPT !.opened = tasks[t].path])
       \/ /\ Answered(t, "show", TRUE) /\ unit = NoUnit
          /\ Continues(t, [tasks[t] EXCEPT !.at = "message", !.item = NoItem], <<>>)
          /\ UNCHANGED focused
       \/ /\ Answered(t, "show", FALSE)
          /\ Ends(t, tasks[t], interaction)
          /\ UNCHANGED <<focused, toServer>>
    /\ UNCHANGED <<Choices, unit, modules, typed, server, refused, Reloads>>

\* What the scopes of the server and the tree resolve a path to, or NoItem.
Resolved(path, scopes) ==
    CASE Root[path] \notin RootsOf(unit.design) -> NoItem
      [] path \in scopes                        -> Item(unit, path)
      [] OTHER                                  -> Item(unit, Root[path])
WithKnown(path) == unit' = [unit EXCEPT !.known = @ \cup {path}]

\* The scopes have come; without a tree (cleared meanwhile) the walk throws.  What
\* is found only in part, or not at all, is told the user first.
ResolveAnswered(t) ==
    /\ tasks[t].at = "resolve"
    /\ \/ /\ Answered(t, "scopes", TRUE) /\ unit # NoUnit
          /\ LET p == tasks[t].path
                 item == Resolved(p, PathsOf(Head(fromServer).value.design))
                 task == [tasks[t] EXCEPT !.item = item]
             IN  \/ /\ item.path = p
                    /\ WithKnown(p) /\ FocusStep(t, task)
                 \/ /\ item.path # p
                    /\ Continues(t, [task EXCEPT !.at = "message"], <<>>)
                    /\ UNCHANGED <<unit, focused>>
       \/ /\ \/ Answered(t, "scopes", TRUE) /\ unit = NoUnit
             \/ Answered(t, "scopes", FALSE)
          /\ Ends(t, tasks[t], interaction)
          /\ UNCHANGED <<unit, focused, toServer>>
    /\ UNCHANGED <<Choices, modules, typed, server, refused, Reloads>>

\* The user closes the message.
MessageDismissed(t) ==
    /\ tasks[t].at = "message"
    /\ \/ tasks[t].item # NoItem /\ FocusStep(t, tasks[t])
       \/ /\ tasks[t].item = NoItem
          /\ Ends(t, tasks[t], interaction) /\ UNCHANGED <<focused, toServer>>
    /\ UNCHANGED <<Choices, unit, modules, typed, fromServer, server, refused, Reloads>>

\* The view has shown the item, or has failed since the tree is another one.
RevealDone(t) ==
    /\ tasks[t].at = "reveal"
    /\ \/ ActivateStep(t, tasks[t])
       \/ /\ tasks[t].item.rev # unit.rev
          /\ Ends(t, tasks[t], interaction) /\ UNCHANGED toServer
    /\ UNCHANGED <<Choices, Tree, typed, fromServer, server, refused, Reloads>>

ActivateAnswered(t) ==
    /\ tasks[t].at = "activate"
    /\ \/ Answered(t, "activate", TRUE) /\ ShowStep(t, tasks[t])
       \/ /\ Answered(t, "activate", FALSE)
          /\ Ends(t, tasks[t], interaction) /\ UNCHANGED toServer
    /\ UNCHANGED <<Choices, Tree, typed, server, refused, Reloads>>

ShowAnswered(t) ==
    /\ tasks[t].at = "show"
    /\ \E ok \in BOOLEAN : Answered(t, "show", ok)
    /\ Ends(t, tasks[t], interaction)
    /\ UNCHANGED <<Choices, Tree, typed, toServer, server, refused, Reloads>>

(***************************************************************************)
(* The end of refreshSlangCompilation.                                     *)
(***************************************************************************)
\* The selection is restored, or the only top of the tree that this refresh made
\* (which another may have replaced) is selected.
Restored(t, task, item) ==
    LET next == [Selection(Idle, None, FALSE) EXCEPT !.item = item] IN
    \/ task.reveals /\ FocusStep(t, next)
    \/ ~task.reveals /\ focused' = item /\ Ends(t, task, interaction) /\ UNCHANGED toServer

NotRestored(t, task) ==
    LET tops == RootsOf(task.tree.design)
        selects == task.reveals /\ Cardinality(tops) = 1
    IN  \/ /\ selects
           /\ \E p \in tops :
                  FocusStep(t, [Selection(Idle, None, FALSE) EXCEPT !.item = Item(task.tree, p)])
        \/ ~selects /\ Ends(t, task, interaction) /\ UNCHANGED <<focused, toServer>>

ModulesAnswered(t) ==
    /\ tasks[t].at = "modules" /\ Answered(t, "modules", TRUE)
    /\ modules' = Head(fromServer).value.rev
    /\ LET p == tasks[t].previous IN
       \/ (p = None \/ unit = NoUnit) /\ NotRestored(t, tasks[t])
       \/ /\ p # None /\ unit # NoUnit /\ Cached(p)
          /\ Restored(t, tasks[t], Item(unit, p))
       \/ /\ p # None /\ unit # NoUnit /\ ~Cached(p)
          /\ Continues(t, [tasks[t] EXCEPT !.at = "restore"], <<Ask("scopes", t, p)>>)
          /\ UNCHANGED focused
    /\ UNCHANGED <<Choices, unit, typed, server, refused, Reloads>>

RestoreAnswered(t) ==
    /\ tasks[t].at = "restore"
    /\ \/ /\ Answered(t, "scopes", TRUE) /\ unit # NoUnit
          /\ LET p == tasks[t].previous
                 item == Resolved(p, PathsOf(Head(fromServer).value.design))
             IN  /\ \/ item # NoItem /\ Restored(t, tasks[t], item)
                    \/ item = NoItem /\ NotRestored(t, tasks[t])
                 /\ IF item.path = p THEN WithKnown(p) ELSE UNCHANGED unit
       \/ /\ \/ Answered(t, "scopes", TRUE) /\ unit = NoUnit
             \/ Answered(t, "scopes", FALSE)
          /\ Ends(t, tasks[t], interaction)
          /\ UNCHANGED <<unit, focused, toServer>>
    /\ UNCHANGED <<Choices, modules, typed, server, refused, Reloads>>

(***************************************************************************)
(* showHierarchySearch.                                                    *)
(***************************************************************************)
\* The picker opens and the empty text is searched for.
StartSearch(t) ==
    /\ Fresh(t)
    /\ Goes(t, [Idle EXCEPT !.at = "pick", !.searching = TRUE])
    /\ Send(<<Ask("search", t, NoText)>>)
    /\ UNCHANGED <<Choices, Tree, interaction, typed, fromServer, server, refused, Reloads>>

\* Wrong variant of ApplyFilter: what is typed during a search is not remembered.
ApplyFilterUnlessBusy(t, q) ==
    \/ /\ tasks[t].searching
       /\ Goes(t, [tasks[t] EXCEPT !.query = q])
       /\ UNCHANGED toServer
    \/ /\ ~tasks[t].searching
       /\ Goes(t, [tasks[t] EXCEPT !.query = q, !.searching = TRUE])
       /\ Send(<<Ask("search", t, q)>>)

\* applyFilter: one search at a time; the newest text waits.
ApplyFilter(t, q) ==
    \/ /\ tasks[t].searching
       /\ Goes(t, [tasks[t] EXCEPT !.query = q, !.pending = q])
       /\ UNCHANGED toServer
    \/ /\ ~tasks[t].searching
       /\ Goes(t, [tasks[t] EXCEPT !.query = q, !.searching = TRUE])
       /\ Send(<<Ask("search", t, q)>>)

Type(t, q) ==
    /\ tasks[t].at = "pick" /\ q # tasks[t].query
    /\ typed < MaxTyped /\ typed' = typed + 1
    /\ ApplyFilter(t, q)
    /\ UNCHANGED <<Choices, Tree, interaction, fromServer, server, refused, Reloads>>

\* The results, or the failure, are shown unless the text has changed; then the
\* waiting text is searched for.
SearchAnswered(t) ==
    /\ tasks[t].at = "pick"
    /\ \E ok \in BOOLEAN : Answered(t, "search", ok)
    /\ LET q == Head(fromServer).request.arg
           task == IF q # tasks[t].query THEN tasks[t]
                   ELSE [tasks[t] EXCEPT !.shown = q, !.found = Head(fromServer).ok]
       IN  IF task.pending # None
           THEN /\ Goes(t, [task EXCEPT !.pending = None])
                /\ Send(<<Ask("search", t, task.pending)>>)
           ELSE Goes(t, [task EXCEPT !.searching = FALSE]) /\ UNCHANGED toServer
    /\ UNCHANGED <<Choices, Tree, interaction, typed, server, refused, Reloads>>

\* The picker has been closed: the answer is dropped.
LateSearchAnswered(t) ==
    /\ tasks[t].at # "pick"
    /\ \E ok \in BOOLEAN : Answered(t, "search", ok)
    /\ UNCHANGED <<Choices, Tree, interaction, tasks, typed, toServer, server, refused, Reloads>>

\* One of the results shown is accepted, or the picker is left.
Accept(t) ==
    /\ tasks[t].at = "pick" /\ tasks[t].found
    /\ \E p \in Paths : PathStep(t, [Selection(Idle, None, FALSE) EXCEPT !.path = p])
    /\ UNCHANGED <<Choices, unit, modules, typed, fromServer, server, refused, Reloads>>

Hide(t) ==
    /\ tasks[t].at = "pick"
    /\ Goes(t, Done)
    /\ UNCHANGED <<Choices, Tree, interaction, typed, Wires, server, refused, Reloads>>

(***************************************************************************)
(* The specification.                                                      *)
(***************************************************************************)
Quiet == /\ toServer = <<>> /\ fromServer = <<>>
         /\ \A t \in Tasks : tasks[t].at \in {"free", "done"}

\* Every command of the bound has been given and has ended.
Terminated ==
    /\ Quiet /\ \A t \in Tasks : tasks[t].at = "done"
    /\ UNCHANGED vars

Commanded(t) ==
    \/ \E f \in Files : Choose(t, Source("filelist", f))
    \/ \E f \in Tops : Choose(t, Source("topfile", f))
    \/ \E c \in Commands : ChooseCommand(t, c)
    \/ RefreshCompilation(t) \/ CommandSourceChanges(t) \/ ClearTopLevel(t)
    \/ BuildFileSaved(t) \/ HdlSaved(t)
    \/ SelectItem(t) \/ SelectPath(t, "terminal") \/ SelectPath(t, "editor")
    \/ StartSearch(t)

Continued(t) ==
    \/ CommandRuns(t) \/ CommandFails(t)
    \/ SetAnswered(t) \/ UnitAnswered(t) \/ ModulesAnswered(t) \/ RestoreAnswered(t)
    \/ OpenAnswered(t) \/ ResolveAnswered(t) \/ MessageDismissed(t) \/ RevealDone(t)
    \/ ActivateAnswered(t) \/ ShowAnswered(t)
    \/ \E q \in Queries : Type(t, q)
    \/ SearchAnswered(t) \/ LateSearchAnswered(t) \/ Accept(t) \/ Hide(t)

Next ==
    \/ \E t \in Tasks : Commanded(t) \/ Continued(t)
    \/ ServerMakes \/ ServerAnswers \/ ServerReloads \/ UnawaitedAnswered
    \/ Terminated

Spec == Init /\ [][Next]_vars

(***************************************************************************)
(* Properties.                                                             *)
(***************************************************************************)
\* What was chosen still stands, whatever the server has reloaded since: it could
\* complete the reloads, and restores anything but a top file.
Stands == reload = "none" \/ (reload = "done" /\ source.type # "topfile")

\* When no choice is on its way to the server, its design is the one the extension
\* takes for chosen, if that stands and the server could make it: however long a
\* build command runs, whether it fails, whatever is chosen meanwhile, and although
\* the server makes its design anew, of itself, at any moment.
ServerFollowsSource ==
    /\ source # NoSource /\ ~refused /\ Stands
    /\ \A i \in 1..Len(toServer) : toServer[i].kind # "set"
    => server.design = source

\* When nothing is under way the tree and the modules are of the design that the
\* server has, although several commands refresh them at once, each with two
\* requests, and may be cleared in between, unless the server has reloaded it of
\* itself and was not asked for the tree since.  (A request refused by the server
\* ends its command without a refresh.)
QuietTreeShowsDesign ==
    Quiet /\ source # NoSource /\ ~refused /\ ~untold =>
        IF PathsOf(server.design) = {} THEN unit = NoUnit
        ELSE unit.rev = server.rev /\ modules = server.rev

\* An open picker that no longer searches shows the results of the text in it.
SearchSettles ==
    \A t \in Tasks : tasks[t].at = "pick" /\ ~tasks[t].searching
        => tasks[t].shown = tasks[t].query

\* The ranges of the variables.
TypeOK ==
    /\ source \in Sources /\ watcher \in Commands \cup {None}
    /\ unit.known \subseteq Paths /\ modules \in Nat
    /\ focused.path \in Paths \cup {None}
    /\ interaction \in {None, "hierarchy", "terminal", "editor"}
    /\ typed \in 0..MaxTyped
    /\ server.design \in Sources /\ refused \in BOOLEAN
    /\ saved \in Sources /\ reloads \in 0..MaxReloads
    /\ reload \in {"none", "done", "failed"} /\ untold \in BOOLEAN
=============================================================================
