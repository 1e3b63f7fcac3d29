# slang-server in TLA+

This directory holds a verification development of slang-server, a SystemVerilog language
server (C++20). The modules are translated from the server's source under `src/` and `include/`
of the repository, and one from the VS Code extension (`clients/vscode/src/`); paths below are
relative to the repository. The vendored libraries and the slang compiler (a git submodule that is
not in the repository) appear only as far as the server's code uses them.

Contents: 1 the system, 2 modules and how they correspond to the code, 3 runs, bounds and what
they show, 4 fairness, 5 what is proved, 6 findings, 7 known deviations, 8 what is not modelled,
9 plan.

## 1. The system

One process talks JSON-RPC with an editor over stdin/stdout and, when a waveform is open, the
Waveform Control Protocol (WCP) with a viewer over a TCP socket.

| part | state it keeps | operations | talks to |
|---|---|---|---|
| JSON-RPC transport (`include/lsp/JsonRpcServer.h`, `RequestContext.h`, `JsonRpc.h`) | queue of messages, active requests, pending document changes, cancelled and started flags | read, register, enqueue, cancel, pop, handle, answer, shut down | client; takes `serverStateMutex` around every handler |
| Server (`SlangServer.cpp`) | configuration, build file, top file, current driver, indexer, WCP client | initialize; open, change, save, close; set build file, top level, explore; reload; watched files; waveform commands | owns driver, indexer, WCP client |
| Driver (`ServerDriver.cpp`) | loaded documents, open documents, compilation, sources of the build, diagnostics client | open, change, save, close, reload, publish, hand the open documents to a new driver | documents, compilation, indexer, diagnostics client |
| Document (`document/SlangDoc.cpp`) | buffer, syntax tree, analysis, owners of an include fragment | edit, re-parse, analysis on demand, report diagnostics | source manager, diagnostics client |
| Diagnostics client (`ServerDiagClient.cpp`) | diagnostics and dirty flag of each document | report, clear one or all, push, clear and push | client (`publishDiagnostics`) |
| Indexer (`Indexer.cpp`) | symbol, macro and reference maps, record of each file | crawl, re-index on save, watch events, queries | driver (which file defines a name) |
| Compilation (`ast/ServerCompilation.cpp`) | elaborated design, active instances and generate scopes | refresh, select an instance, look one up | driver, hierarchy view |
| WCP client (`ast/WcpClient.cpp`) | socket, receive buffer, running flag, receiving thread | start, greet, receive, load, add items, stop | viewer; server, through callbacks |
| Include fragments (`ServerDriver.cpp:304-354, 563-661`, `SlangDoc.cpp:94-135`) | owners of each document object, cached analyses | find and bind owners, adopt orphans, analyse owners with a fragment | documents, diagnostics client |
| References and rename (`ServerDriver.cpp:684-744, 1080-1130, 1392-1673`) | the cached analysis of each document, the index | dependent trees, definitions, references, rename | indexer, other documents |
| Language features (hovers, completions, inlay hints, code actions, formatting, hierarchy, cone tracing) | none of their own | functions of a document and its analysis | driver |
| Hierarchy view of the VS Code extension (`clients/vscode/src/sidebar/ProjectComponent.ts`, `InstancesView.ts`) | the source of the compilation, the watched command, the tree, the selection, the search | choose a build, refresh, select, restore, search | server (commands and answers), editor, waveform viewer |
| Other parts of the clients (`clients/vscode`, `clients/neovim`) | settings, keys, views | | server |

Three kinds of thread run for as long as the server does: the reader (JSON-RPC input), the worker
(every LSP handler) and the WCP thread. Handlers of the last two exclude each other through
`serverStateMutex`, so between them the state of the server changes one handler at a time. A
handler may end early all the same: a cancellation makes an analysis throw where it next asks for
it, a file that cannot be read makes `SlangDoc::open` throw, and a buffer that is gone makes a
parse throw. What the handler had done by then stays, and what it would have done next, such as
telling the indexer, is not done. The indexer adds a crawl in a thread pool behind its own lock.
Nothing is persisted.

What is hard, and what makes each part correct:

- *Transport*: cancellations race the handler they are meant for; ids are reused; a newer edit
  supersedes the analysis of an older one but never its text; end of input or `shutdown` races a
  full queue. Correct: one answer per request, nothing cancelled that cannot be, edits in order,
  the last text analysed, everything queued is handled before the process ends, no lost wakeup.
- *Documents and diagnostics*: five caches (text, analysis, compilation, collected diagnostics,
  diagnostics on screen) change at different moments, and handlers are cut short between them.
  Correct: the text is the editor's; what is on screen belongs to the text and, after a save, to
  the texts it depends on; nothing stays on screen that the server no longer holds.
- *Mode changes*: a new driver replaces the old one, takes over its open documents and must
  withdraw its diagnostics; it may fail half way. Correct: as above, across drivers.
- *Configuration and reload*: files and commands both change the mode; reports come late and in
  batches. Correct: what is active was made from what the files say; a reload keeps the build.
- *Index*: saves, crawls and watch events re-index the same file in any order. Correct: every
  file is found under what it contains, and under nothing else.
- *Active instances*: selections are paths into a design that every save replaces, one selection
  writes several modules several times, and the analyses of the documents copy what was selected.
  Correct: the last selection is what the editor shows, it survives a refresh as far as it still
  exists, and no analysis shows an instance or a design that is no longer current.
- *WCP session*: bytes cut anywhere, a viewer that is silent, late or gone, a thread that
  outlives its client. Correct: messages once and in order, a session in use has a live thread,
  the worker comes back from a greeting.
- *Include fragments*: which files own a fragment is decided when a file is opened or read and then
  kept, while every text may change. Correct: owners are never followed in a circle, a change or
  save reaches every open document that sees the text, and what is bound has a reason to be.
- *References*: the occurrences in other files come out of analyses made at different times, and
  one token may stand for two symbols, which joins them. Correct: nothing is returned that is
  something else, all of it is when analyses and index are current, a renaming changes no meaning.
- *Edits of a text*: each change of a notification is relative to what the earlier ones left, in
  units that only sometimes are bytes. Correct: the server has the editor's text.
- *Hierarchy view*: each command is cut at its awaits; commands, answers, file events and key
  strokes run between the pieces. Correct: the design that is shown as chosen is the server's, the
  tree and the modules at rest are of it, the search shows the results of its text.

`PROJECT.json` lists every component, modelled or not, and every hazard at its line.

## 2. Modules

| module | models | state | actions |
|---|---|---|---|
| `RpcService` | abstract: what the transport promises a client | arrivals, phase of each message, answers | `Arrive`, `AnswerAtOnce`, `Cancel`, `Begin`, `Finish` |
| `JsonRpcServer` | transport: reader, worker and WCP threads, queue and condition variable, cancellation contexts, the mutex, frames | the members of `JsonRpcServer`, the program counters of the threads, the text and the diagnostics of each document as edit numbers | one per stretch of code between two points where another thread can act |
| `MCJsonRpcServer` | the same for TLC | | |
| `ServerDiagClient` | the diagnostics client | `diags`, `dirty`, what the editor `shown` | `Report`, `ClearUri`, `ClearAll`, `ClearAndPush`, `PushDiags` |
| `ServerDriver` | documents of the active driver and its replacement | `srv`: one driver record (texts, open documents, index, analyses, compilation, diagnostics client); the files, the editor, unreported file changes | one per LSP message and mode command, plus the editor and other programs |
| `MCServerDriver` | a module, its package, a build of both | | |
| `ServerMode` | build file, top file, configuration, reloads | members of `SlangServer`, the files, unreported changes | commands, reloads, watch events, other programs |
| `Indexer` | workspace index | `entries` (the three inverse tables as one bag), `indexed` (the record of each file), the notification being handled, files still to add | saves, loads, reloads, each kind of watch event, each file that is added |
| `MCIndexer` | contents of files, configured directories | | |
| `ActiveInstances` | instances and generate iterations selected in a design, and the analyses made with them | `m_activeInstancesByModule`, `m_activeGenerateScopesByArray`, the current design, `m_analysis` of each document | select a path, go to a definition, query, edit, save, new build, new top level |
| `MCActiveInstances` | two versions of one design, two documents in it and one beside it | | |
| `WcpClient` | the session with a waveform viewer | `m_wcpClient`, `m_running`, `m_recvBuffer`, `m_clientThread`, the stream of bytes, the process | the worker in `openWaveform`, the thread, the viewer |
| `IncludeFragments` | owners of include fragments | objects `<<file, n>>` (the n-th made for a file), `owners`, `open`, `analysis`, `diags`, the texts on disk, in the editor and latest in the server | `DidOpen`, `Navigate`, `DidChange`, `DidChangeCut` (a change whose analyses are cut off at any point), `DidSave`, `DidClose`, `Query` |
| `MCIncludeFragments` | three projects of three files: a fragment shared by two modules, a fragment in a fragment, two guarded files that include each other | | |
| `References` | references, rename, definitions, dependent trees | `text`, `indexedText`, `analysis`, `open` | `Open`, `Edit`, `SaveText`, `FindReferences`, `FindDefinitions`, `Rename` |
| `MCReferences` | four workspaces: ports of instances, one of them named like its module; a package spelled out, imported as a whole and by name; a smaller one with imports by name; trees through packages and interfaces | | |
| `DocumentEdits` | the text arithmetic of `onChange` | the editor's text (`typed`), the bytes of `buffer` | `ChangeText` with one or two changes, `SaveText` |
| `MCDocumentEdits` | texts with a letter, a letter of two bytes and a newline | | |
| `ProjectComponent` | the hierarchy view of the VS Code extension | `source`, `watcher`, `unit`, `modules`, `focused`, `interaction`; what each command goes on with (`tasks`); requests and answers on their way; the server, with the build file it would restore, as an external | one per segment of a command between two awaits; `ServerReloads`, the server's own change of design |
| `MCProjectComponent` | a build file, a top file and a command with designs that share paths | | |
| `JsonRpcServerProofs`, `ServerDriverProofs`, `ActiveInstancesProofs`, `ProjectComponentProofs` | theorems about the module they extend; those of `ServerDriver` with its diagnostics client | | |
| `ModeAndSessionProofs` | theorems about `ServerMode` and `WcpClient` | | |
| `WorkspaceProofs` | theorems about `Indexer` and `References` | | |
| `DocumentTextProofs` | theorems about `DocumentEdits` and `IncludeFragments` | | |
| `FoldTheorems` | induction over folds and iterations; the proofs instantiate it with the body of each loop and what it keeps | | |

`ServerDriver` composes with `ServerDiagClient`: it instantiates the module with the `dc` field
of its driver record and uses its operators, so every handler that reports, clears or pushes
changes the state of the verified component. `ServerMode` stands beside `ServerDriver`: the first
keeps what a driver was made *from*, the second what it *holds*; a failure in making a driver is a
free choice in the first and a consequence of unreadable files in the second. `ActiveInstances`
looks at the same saves and builds from the side of the compilation: `ServerDriver` keeps which
texts an analysis has seen, `ActiveInstances` which instances it was bound to. `JsonRpcServer` is
the reason the other models may take a handler as one action; the edit handler, the only one whose
interruption the transport decides, is cut into its steps there and into cancellation points in
`ServerDriver`.

`IncludeFragments`, `References` and `DocumentEdits` enlarge what `ServerDriver` takes as one step
or leaves out: which documents an analysis visits, what one analysis knows of other files, and how
a new text comes out of an old one. They are not composed with it; `IncludeFragments` has its own,
smaller account of diagnostics. `ProjectComponent` is the other end of the commands of `ServerMode`
and `ActiveInstances`: its server answers each request in order and makes a design or fails, and
at any moment reloads the build file or the configuration of itself, as `ServerMode` does on a
watch event or `addDefine`, without a word to the extension.

Where a module stands beside another in the same proofs, its `Init`, `Next` and `Spec` bear its
name (`RefSpec`, `WcpSpec`).

Names follow the source: a handler's action has the handler's name without the `on`/`Doc`
prefix or the method's name (`DidOpen`, `DidSave`, `SetBuildFile`, `WatchedFiles`), a member keeps
its own name or is named in the comment at its declaration. `PROJECT.json` maps each definition to
its lines. In `ServerDriver` and `ServerMode` a handler is a function from one record to the next
with a field `ok`; `IfOk` and `Then` chain steps and stop where one has failed, which is how the
early exits of the C++ (exceptions, cancellations) keep the first half of a handler.

Data is abstracted to what the properties tell apart. A text is a version number, a diagnostics
report is its kind together with the texts it was computed from, a file in the index is the set of
names that the parser finds, a WCP message is its number in two fragments (the text, and the
terminating null byte), a JSON-RPC message is its arrival number. In `IncludeFragments` a text is
what the code asks of it (does it declare a unit, does it parse alone) and what it includes, in
`References` a sequence of declarations and uses, in `DocumentEdits` real characters with a width,
in `ProjectComponent` a design is a set of paths. An edit made against another
text than the server's turns the server's text into `Garbled`. Variables marked *history* are
written and never read by the program's actions; they name the known exceptions of a property
(for example `clobbered`: documents that a watch event reloaded over the editor's text).

Definitions whose comment starts with "(wrong: ...)" are slips a programmer could make. No action
uses them; each run's properties are known to fail when one of them replaces the right one.

## 3. Runs

| run | module, bounds | what it shows |
|---|---|---|
| `json_rpc` | `MCJsonRpcServer`; 2 ids, 2 documents, 3 messages, 1 viewer message; handlers that throw before and after a text is installed | one answer at most, no cancellation of what cannot be cancelled, cancellations reach every pending request, edits in order and the last one analysed unless that throws, nothing dropped at exit; under fairness the end of input ends the process, and the transport implements `RpcService` with its fairness (so every registered request is answered) |
| `index_all_events` | `MCIndexer`; 2 files, 3 contents, 2 configurations, 2 writes; batches and reloads whose driver throws first, saves that are ignored or of a fragment | tables and records are inverse, and a quiet index is complete and sound for every file whose last change it heard of, for saves, crawls, reloads and watch events of all kinds in every order |
| `driver_explore` | `MCServerDriver`; 2 edits or writes, no mode change | what open documents show belongs to their text and, after a save, to their dependencies' |
| `driver_modes` | `MCServerDriver`; 1 edit or write, 2 mode changes, files missing from the start, a client that asks for inactive regions | across drivers: nothing of an old driver stays, texts survive, a save refreshes the build, whatever the inactive regions load or throw |
| `driver_save_hidden` (violation) | as `driver_explore` | finding 1 |
| `wcp_session` | `WcpClient`; the greeting and 3 viewer messages, 3 commands | messages once and in order, a session in use is served, greetings return |
| `mode_reloads` | `ServerMode`; 2 build files, 1 top, 1 change of each file | once changes are reported the active driver was made from them; a reload keeps the build |
| `active_instances` | `MCActiveInstances`; 2 designs, 5 modules, 3 documents | selected instances exist and are the last ones selected, nested loops show the selected iterations, a save keeps what still exists, analyses follow |
| `fragments` | `MCIncludeFragments`; 3 projects of 3 files, 2 objects for a file, 1 edit, 2 owners analysed | following owners ends; changes and saves refresh what sees the text; whoever includes a fragment owns it, whatever was opened first |
| `references` | `MCReferences`; 4 workspaces of up to 4 files, 1 edit, 2 open files | references are occurrences, and all of them when everything is current; a renaming changes no meaning; units are found from stale analyses; dependent trees are the closure of what is named |
| `document_edits` | `MCDocumentEdits`; texts of 3 characters, 2 notifications of up to 2 changes between saves | the server follows every change whose positions are the same in bytes and units, and has the whole text again after a save; no change is out of its bounds |
| `project_view` | `MCProjectComponent`; 3 commands or events, all under way at once, 2 changes of the search text, 1 reload of the server of itself | the server's design is the chosen one, the tree at rest is of it, a search that rests shows its own results |

Why the bounds are enough. *Transport*: the interesting collisions need a running handler, a
message behind it, and a cancellation, a superseding edit, a reused id or a shutdown: three
messages, and two documents, whose superseding contexts must not mix. No symmetry is declared
because the run checks liveness. The safety properties hold for any number by proof.
*Index*: every hazard is about one path re-added over its own record; two writes give a
change whose report overlaps another, and the second path shows that lists are not disturbed
across files. Three writes (7.9 million states) pass as well and are left out for time.
*Driver*: staleness is between one document and one dependency; two edits let one overtake the
other's report or save. A run of two edits with one mode change and every property of both runs
(2.7 million states) passes too. *WCP*: a greeting and three more messages, so a read
can end inside each, join any two, and leave one behind; the third command is the first that can
find a session opened after one that ended. *ServerMode*: version numbers only tell "old" from
"new". *Active instances*: nothing is bounded but the designs. They hold several instances of
leaf, interface and lane modules, an interface connected directly and one forwarded through a
port, a port without a connection, a loop in a loop whose entries do not start with index 0, an
instance inside the inner loop, and between the two designs an instance that goes, one that comes,
iterations that go, and a path that becomes an instance of another module and contains an
instance of the same module. The third document declares a module of the design a second time, and
is left out when a top level is set.
*Fragments*: a fragment with two owners, an owner that becomes a fragment when its own includer is
opened, and files that include each other need three files; a second object for a file is what a
replaced buffer leaves behind; the limit on owners analysed is 2, and
a third owner comes with a replaced object.
*References*: the index and one analysis can differ by one edit; joining through a file that
neither the symbol nor the question is in needs a third file, trees through a package of an
interface a fourth. Imports by name take a path of their own through the search, and an instance
named like its module one more; each has a workspace in which the other kinds of use stand
beside it. *Edits*: two changes in one notification, the second at a line that the first
moved or removed. *Hierarchy view*: the hazards are between two commands, one of which is at an
await, and a reload of the server between their segments; the third command is the start-up.
Two reloads were checked once and pass.

Deadlock is checked wherever the system goes on for ever or says when it has stopped (`json_rpc`,
`mode_reloads`, `active_instances`, `fragments`, `document_edits`, `project_view`). It is off in
the driver, index and reference runs, where the bounds on edits, writes and mode
changes leave a state with every message handled and nothing more to do, and in the WCP run,
where the process may end, and where a viewer that cannot be started leaves the server in
`accept()` (section 7).

`WatchedFiles` and `Indexer` take events of all three kinds, though the server registers its
watchers for changes only (`SlangServer.cpp:305-329`): the handlers are written for all three, and
every behaviour with changes only is among those checked.

Type invariants are proved, or were checked on the way to a proof; the standing runs spend
their time on the others.

## 4. Fairness

*Transport* (`FairSpec`): the worker, the reader's own steps (pushing what it has read, notifying,
joining) and the second half of a viewer frame go on while they can: threads of the operating
system that hold no resource another one needs for ever. There is no fairness on input: nobody has
to send anything, and the client may stop at any time. `ImplementsFairRpcService` therefore says
that an answer needs nothing further from outside; a wakeup lost between the test of the queue and
the wait breaks it, as it breaks `InputEndTerminates`.

*WCP* (`FairSpec`): the receiving thread and the worker inside a command go on while they can.
The viewer has no fairness, and nobody has to start a command. `GreetTimeout` is part of
the worker: the two-second limit always passes. `GreetReturns` is the promise of that limit;
`DisconnectIsNoticed`, also defined there, holds under the same fairness.

The other modules have safety properties only: their handlers are single steps of a worker that
the transport serves, and the commands of `ProjectComponent` wait for a server and for a user
about which nothing is assumed.

## 5. What is proved

TLAPS checks these for every value of the constants, from the named assumptions of each module
(sets of constants are disjoint from the values that mean "none", bounds are naturals).

| theorem | says | inductive invariant |
|---|---|---|
| `JsonRpcServerProofs!TypeCorrect` | every context in queue, tables, flags and answers is one that was received | `TypeInv`: `TypeOK`, and what the reader has in hand and the worker's place imply about `incoming` and `current` |
| `JsonRpcServerProofs!UncancellableTheorem` | a handler without a context that has begun is never cancelled, nor answered as cancelled | `CancelInv`: the tables of contexts say what their entries are, a cancelled answer is of a marked context, no marked context is a started uncancellable one. The property alone does not say why a cancellation cannot hit a reused id's old context |
| `JsonRpcServerProofs!SupersededTheorem` | only a newer change of the same document supersedes a change | the same `CancelInv` |
| `JsonRpcServerProofs!AtMostOneReplyTheorem` | no message is answered twice, or answered and still to be handled | `FlowInv`: the message that the worker has, the queued ones and the one just read are in the order of their arrival (`InOrder`), a registered request is in one of these places or answered (`NotLost`), an answered one is in no place any more (`AnsweredIsOver`), and the worker leaves only behind an empty queue (`Leaving`) |
| `JsonRpcServerProofs!PendingRequestTheorem` | a pending request is found by a cancellation | `FlowInv` |
| `JsonRpcServerProofs!NothingDroppedTheorem` | at exit nothing is queued | `FlowInv` |
| `JsonRpcServerProofs!EditsInOrderTheorem` | the texts of a document only go forward | `FlowInv` |
| `JsonRpcServerProofs!SettledTheorem` | once every change of a document is handled, the buffer holds the newest one whose handler did not throw (or a newer one), and the diagnostics are the buffer's, unless the analysis of that change threw or a newer change superseded it and then threw | `EditsInv`: `CancelInv`, `FlowInv`, every change that arrived is applied, failed or pending (`EditsArrive`), the worker handles the change it holds, and a text without analysis has a newer change coming or one that failed (`AnalysedUnlessNewer`) |
| `JsonRpcServerProofs!ServiceRefinementTheorem` | the transport implements the abstract service (its safety part) under the mapping `PhaseOf`: every step is a step of `RpcService` or stutters | `ServiceInv`, which adds to `FlowInv` what a message's phase follows from |
| `WorkspaceProofs!IndexTypeCorrect` | types; no list ever holds a path a negative number of times | `IInv`: the types and the two properties below, inductive only together: a removal keeps counts natural and leaves the other entries alone because each recorded key has an entry |
| `WorkspaceProofs!IndexedIsFoundTheorem` | every recorded key of a file leads to it, for any order of saves, crawls and notifications | the same `IInv` |
| `WorkspaceProofs!TablesMatchRecordsTheorem` | tables and records are inverse for such paths | the same `IInv` |
| `WorkspaceProofs!QuietCompleteTheorem`, `QuietSoundTheorem` | an index with nothing left to handle finds every file under what it contains, and (unless the file was re-added) under nothing else, except files whose last change the index has not heard of (`unseen`): the watcher was not asked for it, the driver or the reload threw before the indexer's turn, or it was saved as a fragment and not reported after that | `IInv` and `Rest`: for every file whose last change is not in `unseen`, either a report of it is still coming (`Coming`: with the client, on its way, at hand or queued to be added) or its record is of the file as it is (`Current`); and the last report on a file that exists is never of a deletion (`Fine`), since handling a deletion does not look at the disk. Hypothesis `SeesRecreation`: a watcher that reports deletions reports creations. The server's own watcher reports changes only, so it holds; for a watcher of deletions alone the properties fail |
| `ServerDriverProofs!CallsCleanTheorem` | the editor shows what was collected, except for documents the next push updates | inductive with the types |
| `ServerDriverProofs!CallsWithdrawingTheorem` | withdrawing leaves the editor with nothing | from the same invariant: a document with something on screen is still known to the client |
| `ServerDriverProofs!TypeCorrect` | types of the driver, the files and the editor; open documents and those of the compilation are loaded | `Inv`: the driver's record has its types (`Sound`), the files and the editor theirs (`Setting`), open documents follow the editor (`Following`), and every diagnostics list is what the code at its stage has reported of which texts (`Diagnosed`) |
| `ServerDriverProofs!CleanMeansShownTheorem` | no handler, wherever it is cut short, leaves something else on screen than the driver holds without a push being due | the same `Inv`; every step of every handler keeps it, failed or not |
| `ServerDriverProofs!OpenTextTheorem` | the text of an open document is the editor's, unless it was reloaded under the editor | the same `Inv` (`Following`) |
| `ServerDriverProofs!ShowTheirTextTheorem`, `SavedDependenciesTheorem` | in explore mode an open document shows one parse and one shallow report, of its text and, after a save, of the saved dependencies. Excepted are, until its next analysis, a document whose last one was cut short by a newer change or an exception (`cut`, set where the handler ends, whatever it has reported), and for the dependencies one that a query has analysed again (`rebuilt`) | the same `Inv` (`Diagnosed`). The property speaks of a document that waits for no push; the invariant speaks of what was collected, whenever |
| `ServerDriverProofs!SaveRefreshesBuildTheorem` | a save in a build shows every document that was loaded before it its parse and design diagnostics, of all the texts there are. The inactive regions come last: they may load documents, which get their reports with the next save, or throw, and change nothing that was published | the same `Inv`, and lemmas on what publication leaves after so many documents and on what a load adds behind it |
| `ModeAndSessionProofs!ReportedChangesTheorem` | once all changes are reported, the active driver was made from them | `Inv`: while no handler has failed, what differs between driver, members and files is in `pending` |
| `ModeAndSessionProofs!ReloadKeepsBuildTheorem` | a completed reload keeps the active build | the same `Inv` (the build that is active is the one in `m_buildfile`) |
| `ActiveInstancesProofs!TypeCorrect` | types; a generate array is only given its own iterations | `Inv`: the types and the next two |
| `ActiveInstancesProofs!SelectionsExistTheorem` | a selected instance is one of its module in the current design | the same `Inv` |
| `ActiveInstancesProofs!AnalysesUseSelectionTheorem` | analyses are of the current design and of what is active in it, but after a selection that failed half way, and but for documents that `setTopLevel` analysed before there was a design and left out of it (`Undesigned`): what they declare of the design another document declares too | the same `Inv`, with two lemmas that carry it: what a selection sets are instances of the design (`SelectKeeps`), and one that fails without a trace changes nothing an analysis shows (`FailedSelectKeeps`) |
| `ActiveInstancesProofs!LastSelectionTheorem` | after a selection its place is active, and every instance around it that no later write of the same selection replaces | `Inv` and `Took`: the tables hold what the selection writes last for each module and array. That this is what the code's loop leaves is `SelectTook` |
| `ActiveInstancesProofs!SelectedIterationsTheorem` | every loop around the selected place shows the iteration the place is in, unless the place is an instance of the same module again or connected to one | the same |
| `ActiveInstancesProofs!RefreshKeepsTheorem` | a new version of the design keeps each selection that still names an instance of its module, and drops the others | types; an action property |
| `DocumentTextProofs!OwnersEndTheorem` | any set of objects has one that none of the set owns, so recursion through owners ends, whatever includes what | the owners found for a file are other documents and no fragments at that time: every new edge leads to an object that has none of its own |
| `DocumentTextProofs!IncludersAreOwnersTheorem` | whatever is a fragment, or would be one, is owned by every loaded document that includes it and is no fragment, in any order of opening, reopening and reading; except where a change of a text after both had looked has made it so, or the includer was only read on the way to a definition (`missed`) | inductive with the types. An object is either new, and finds the includers there are, or was there when the includer was opened, which adopts it; a change that makes a new pair puts it in `missed` |
| `DocumentTextProofs!EditsStayInBoundsHolds` | no change throws for a line that is not there or takes bytes behind the buffer, though earlier ones went to wrong columns | `EditsInv`: the buffer is in `Chunks`, one or more bytes for each character of the editor's text, and its ends of lines are the editor's. This is weaker than being the text and survives edits at wrong columns (`ReplacedInChunks`): both ends of a range are found in the right lines (`LineFound`), in order, and no further than where they should be (`EndIs`, `EndsInOrder`) |
| `DocumentTextProofs!ExactChangesAreFollowedHolds` | the buffer is the editor's text while columns are the same in bytes, and again after each save | the same `EditsInv`; an exact offset is the length of the bytes before it (`ExactEnd`), and bytes of texts put together are put together (`BytesConcat`), so replacing both is one edit (`ExactReplaced`) |
| `WorkspaceProofs!RefTypeCorrect` | texts keep their form, analyses have trees of workspace files | `RefInv`: the types; no two files declare one unit (`UnitsDiffer`); what a use stands for is of its sort (`UsesFit`); every text is one of the workspace's with names replaced, and the members of a unit still differ (`FromWorkspace`) |
| `WorkspaceProofs!UnitsAreFoundTheorem` | with an index of the latest texts the definition of a unit is found, whatever analyses are cached | `RefInv` |
| `WorkspaceProofs!TreesAreClosureTheorem` | the search for dependent trees ends with the closure of what the file refers to | `RefInv`, and for the search `ClosureGood`: what is loaded is reachable, and what a loaded file refers to is loaded or still to be looked at; each round loads something new, so that it ends |
| `WorkspaceProofs!ReferencesAreOccurrencesTheorem` | references are occurrences of the component that was asked for, whatever is stale, or types that have the name of an instance in it (`Namesakes`) | `RefInv`, and for the search `FollowGood`: targets and results are of the component |
| `WorkspaceProofs!ReferencesAreCompleteTheorem` | they are all of its occurrences when index and analyses are up to date, unless a file imports a member of the component by its name only (`PickedAlone`) | `RefInv`, and for the search `LoopGood`: the results of the targets already taken are there, and what they join is taken or a target. That a file's own trees suffice to resolve its tokens is `TreesSuffice`; that the index leads to every file with the name of a target is `TargetFinds`; that a set closed under both is the component is `ReferencesAreClosed` |
| `WorkspaceProofs!RenameKeepsMeaningTheorem` | a renaming, under the same condition and to a name that no token has, leaves each token its symbols, but for these two and for imports by that name of what is not there (`Dangles`) | the theorem before: the tokens that are replaced are all of a component (`Renames`), so old and new texts fit (`Fits`) and each token resolves as before (`SameMeaning`) |
| `ProjectComponentProofs!TypeCorrect` | types of the view, its commands and what is on its way | `Inv`, below |
| `ProjectComponentProofs!ServerFollowsTheorem` | once no choice is on its way the server's design is the one chosen, unless the server could not make it, could not complete a reload of itself, or reloaded under a top file | `Inv`: types (`Typed`), each waiting command has one request or answer (`Waits`), and what differs from the choice is explained by a request or answer of a command (`Follows`, `TreeFollows`, `SearchFollows`). A reload restores the choice because the build file the server has saved is the one of the last design it made (`SavedIsSource`). The key is `Line`: unanswered and answered requests are in one order, that in which they were sent (`InOrder`) |
| `ProjectComponentProofs!QuietTreeTheorem` | the tree and the modules at rest are of the server's design, unless it has reloaded of itself since it was last asked for the tree | the same `Inv` |
| `ProjectComponentProofs!SearchSettlesTheorem` | a picker that no longer searches shows the results of its text | the same `Inv` |
| `FoldTheorems!FoldInduction`, `FoldAppend`, `IterationInduction` | what holds before a loop and is kept by each round holds after it; a fold takes one element after the other | a smallest round after which it fails has a predecessor. The library's induction takes the property as a parameter of the theorem, which the provers cannot fill in; here it is a constant of the module, filled in by `INSTANCE` |
| `ModeAndSessionProofs!SessionIsServedTheorem` | a session that commands go to has a live thread | `ServedInv`: a client exists only with a thread, which explains why setting `m_running` before the client exists does no harm |
| `ModeAndSessionProofs!NothingLostTheorem` | the viewer's messages are handled once and in order, and the rest is still there, byte by byte | `BytesInv`: the fragments in the buffer and then in the stream are those that follow the messages taken (`Follows`). Three lemmas carry it: a read moves bytes (`ReadFollows`), `getMessage` takes the next message or nothing (`TakeFollows`), the viewer appends (`SendFollows`). That the worker and the thread never read at once is `HandsInv` |

The last step of each is the same: the invariant holds initially, every action keeps it (one
lemma or step per action, in the proof modules), it implies the property, and temporal logic
combines the three. The invariants of `ServerDriver`, `ProjectComponent` and `References` were
checked by TLC on the instances of their runs, or smaller ones, before they were proved.

Loops over data are folds and iterations in the modules, so that nothing recursive stands in the
way: the documents that a mode change copies, the reports that are published, the files of a batch
of watch events (`ServerDriver`), targets and trees (`References`), the characters of a text and the
changes of a notification (`DocumentEdits`). Each has an instance of
`FoldTheorems` with its body and a predicate of the result so far.

Only model-checked:

- the liveness properties and the fair half of the refinement (fairness and ENABLED are out of the
  prover's reach);
- `ChangeRefreshesOwners` and `SaveRefreshesViews` of `IncludeFragments`, whose reports come out of
  recursive functions over orders of owners.

What the theorems assume is named in the modules and evaluated by TLC in their runs:

- `DesignsAssumption` and `LoopsAssumption`: what `setActiveInstance` relies on in a design. An
  instance's connections are instances, a loop's entries are blocks, a block's array is an array.
- `DriverAssumption`: finitely many documents, none of which depends on itself.
- `WorkspaceAssumption`: finitely many files. Each text is a unit with members and uses, the members
  of a unit have different names, a unit is used as what it is (an instance names a module), no
  name is a new name of a renaming, and no unit is in two files. This is a workspace that
  compiles; for names with two declarations the code takes the index's first, which the module does
  not describe.
- `EditsAssumption`: a character has one to three bytes, the end of a line one. Characters of
  four bytes, which are two UTF-16 units, are left out.
- `ProjectAssumption`: a design that has a path has the top the path is in.

Two theorems have a condition in their property. `TreesAreClosure` is for an index that has no
other file under the name of a file (`IndexMisnames`): after an edit the index may still have the
name for the file that had it before, and then the tree of the other file is loaded too.
`SelectedIterationsShown` excepts a place that is an instance of the module around it, or is
connected to one: that instance is then the active one of the module, and the loop is shown in it.

## 6. Findings

A run that is expected to end in a violation; the shortest behaviour is this.

1. `driver_save_hidden`: a module and its package are open, the package is edited, a hover on the
   module rebuilds the module's analysis, the package is saved. `onDocDidSave` re-analyses open
   documents *without* an analysis (`ServerDriver.cpp:219`), so the module keeps the diagnostics
   of the old package, against `ServerDriver.cpp:209`.

## 7. Known deviations

Places where the code does other than a comment or test says, seen while modelling and without a
standing run. Where a property is named it is defined at the end of its module; checking it with
the configuration of the module's other runs gives the behaviour.

- `Indexer!ChangedRemovesOldEntries`: the crawl of a reload records a file over its old record
  without removing that record's entries, and the removal on a later change only knows the new
  one; names the file no longer has stay listed (`Indexer.cpp:229`, against `:387`).
- `Indexer!SavedMacrosAreOwn`: re-indexing on save records the macros of included files too
  (against `Indexer.cpp:66`).
- `ServerDriver!OpeningKeepsDesignDiagnostics`: only drivers made from a build file fill
  `m_buildSourceUris`; opening a member of a top-level design replaces its design diagnostics by
  shallow ones (`ServerDriver.cpp:425`, against the comment at `:427` and `DiagTests.cpp:393`).
- `ServerDriver!OpenedDocumentsAreTracked`: a document whose first analysis throws is not in
  `m_openDocs` although the client has opened it (`ServerDriver.cpp:432`, against
  `ServerDriver.h:211`); its saves and file changes are then ignored.
- `ServerDriver!NoDuplicateDiagnostics`: when a build file is set while an edited document is
  open, the document's parse diagnostics are reported twice (`ServerDriver.cpp:301`, against
  `DiagTests.cpp:379`).
- `ServerDriver!SetTopLevelKeepsDiagnostics`: a top level that cannot be read throws instead of
  being reported (`ServerDriver.cpp:773-775`), after all the old driver's diagnostics have been
  withdrawn.
- `ServerDriver!OwnSaveIsNotReloaded`: open, save, edit, then the watch event of that save. The
  buffer is read again from disk (`ServerDriver.cpp:536`) over the newer text, though
  `SlangDoc.h:170` keeps `reloadBuffer` for external changes; the next incremental edit goes to the
  wrong text.
- `WcpClient!OpenLaunchesViewer`: opening a waveform after a session has ended destroys a client
  whose thread was never joined, which ends the process (`SlangServer.cpp:624`), where
  `docs/features/hdl/neovim.md:92` promises a new viewer.
- `WcpClient!EveryMessageHandled`: a second message that arrives in the same read waits in the
  buffer until more bytes come, since `select()` looks at the socket only.
- `ServerMode!ReloadPreservesBuildState`: a reload that throws has dropped `m_buildfile` and kept
  the driver of the build (`SlangServer.cpp:838`).
- `ServerMode!ReloadOpensNoOtherBuild`: `setTopLevel` leaves `m_buildfile` as it was, so any reload
  after it goes back to the build file that the top level had replaced (`SlangServer.cpp:372`,
  against `:838`), which is neither active nor configured.
- `ActiveInstances!ContainedPathsAreSelected`: for an interface port without a connection
  `setActiveInstance` selects the port's instance and iterations and then returns false
  (`ServerCompilation.cpp:636-671`, against `ServerCompilation.h:78`). The driver takes that for
  "nothing has changed" and keeps the analyses: hovers show the old instance and lenses the new
  one, until the next save or selection. `AnalysesUseSelection` excepts exactly this (`half`).
- `ServerMode!ReportedSourcesAreRead`: a batch of watch events with a configuration file in it
  ends after the reload; source changes in the batch are not read (`SlangServer.cpp:952-971`).
- `IncludeFragments!SaveRefreshesFragments`: after the save of one of two owners, a fragment whose
  analysis is still that of the other is not analysed again (`ServerDriver.cpp:219`, against
  `:209`), so the half of its diagnostics that belongs to the saved owner is old.
- `References!ReferencesSpanWorkspace`: unless a file imports a whole package, only `package::name`
  is looked for in it (`ServerDriver.cpp:1364`). With `import P::k` the import and the uses of `k`
  in that file are missing from the references to `k`, and a rename leaves them behind, against
  `README.md:61` ("Find references across your entire workspace"), although the analysis of that
  file resolves them (`ShallowAnalysis.cpp:726-738`). Also, an analysis that was cached before
  another file was indexed does not have that file's unit, and references through it are missed
  until the next edit; `ReferencesAreComplete` excepts both (`PickedAlone`, `UpToDate`).
- `IncludeFragments!OpenedDocumentsFindFragments`: the scan for orphaned fragments is skipped for
  every document that is loaded with the same text (`ServerDriver.cpp:449`), as "its set of included
  files hasn't changed since the last time this scan had a chance to run for it" (`:443-446`). A
  document that `getDocument` has read on the way to a definition never had that scan: a fragment
  that was opened before stays an orphan when its includer is then opened.
- `DocumentEdits!Utf16PositionsAreFollowed`: columns are added to a line's offset in bytes
  (`SlangDoc.cpp:246`), while the server leaves the encoding at UTF-16 (`LspTypes.h:80-84`); an edit
  behind a character of several bytes goes to a wrong place of its line until the next save. It
  never throws or leaves the buffer (`EditsStayInBounds`).
- Without a property: generate blocks outside the innermost instance around a path are not selected
  with it (the parent of an instance body is its definition's scope, `ServerCompilation.cpp:157`),
  so selecting an instance two levels below a block leaves that block's loop as it was, against
  `docs/features/hdl/hdl.md:28`; recorded iterations of arrays that are gone are never dropped.
- Without a property: `accept()` waits for ever, under the state mutex, for a viewer that could
  not be started (`WcpClient.cpp:141`); requests of unregistered methods are never answered
  (`JsonRpcServer.h:286`); refusals by the reading thread can mix with a frame of another thread
  (`JsonRpcServer.h:480`).
- Include fragments, without a property: an object that was replaced while it owned a fragment is
  analysed in the place of the document that is open; the parse errors of a fragment are reported
  once for each open owner; the comment "owners are never fragments themselves"
  (`ServerDriver.cpp:191`) does not hold for nested includes, though `OwnersEnd` does;
  `m_includeOwners` is never pruned.
- References, without a property: for an instance every type token with the instance's name is
  returned, and renamed with it (`ServerDriver.cpp:1539-1543`): where an instance is named like its
  module, renaming it renames uses of the module. The properties name it (`Namesakes`). An escaped
  identifier is compared by its raw text in one place and by its value in another.
- Driver, without a property: a document that the inactive regions load after a publication
  (`ServerDriver.cpp:230, 429, 1658`) has no parse report until the next save, and an exception
  there ends an open or a save after everything else is done.
- Index, without a property: the driver hears of a batch of watch events before the indexer
  (`SlangServer.cpp:973-974`), and a reload makes its driver before it starts indexing
  (`:732-738`). If the driver throws, the index never hears of the batch. The save of a
  fragment records the tree of its owner under the fragment's path (`ServerDriver.cpp:205`).
- Active instances, without a property: `setTopLevel` analyses open documents while there is no
  design yet (`ServerDriver.cpp:772, 827`), and those it leaves out of the design keep that
  analysis until their next change.
- Hierarchy view, without a property: the extension is not told when the server reloads its design
  of itself (`extension.ts:256-259` only stores the configuration). The tree stays that of the old
  design until the next refresh, and a chosen top file gives way to the build file or the
  configuration while the view still calls it chosen. A tree that is fetched while the top level is
  cleared comes back, and stays if the next choice is refused; a build command that ends replaces
  whatever was chosen while it ran (`ProjectComponent.ts:1517`) and may leave the watcher on
  another command's file; a selection during another one uses the other's origin; a superseded
  refresh selects a top of its old tree; a path that no longer exists leaves the selection in the
  old tree; `getInstances` stores an empty map before its await (`InstancesView.ts:45-53`).

## 8. What is not modelled

- What the slang compiler computes (parsing, elaboration, symbols): its source is not in the
  repository. A parse or an analysis is a function of the texts it sees; `ServerDriver` keeps
  exactly that set of texts.
- Hovers, completions, inlay hints, code actions, formatting, hierarchy and cone queries: functions
  of a syntax tree or an analysis, without state of their own. That such a query rebuilds an
  analysis is the action `Query`. They are most of the server's remaining lines
  (`ShallowAnalysis.cpp`, `DefinitionInfo.cpp`, `Completions`, `SystemTaskDocs.cpp`), and what they
  return is decided by trees of the compiler that the repository does not contain.
- Conversions of paths, layout, logging, the generated LSP types and dispatch tables
  (`LspTypes.h`, `LspServer.h`), the vendored libraries and the designs under `examples/`. With
  these and the queries the map stays well below a third of the implementation's lines.
- In `IncludeFragments`: exceptions while a document is opened or saved, and cancellations
  inside a fragment's report; a change is cut off before, in and between the analyses it makes.
- How the compiler looks up a name that is both declared and imported, and which of two imports
  decides: in `References` an import of the name itself goes before one of its whole package.
- Selections while there is no design: `ActiveInstances` begins with one. A top level without top
  modules, which leaves the driver without a design, is in `ServerDriver` only.
- Of the extension: `ProjectComponent` leaves out the waveform entry points, visibility filters,
  children that are fetched one by one, the instances view beyond its list of modules, and a restart
  of the server; a save of a source file keeps the server's design, and `getUnit` and the modules
  are assumed to be answered. The other parts of the extension and the Neovim plugin are not
  modelled.
- The composition of `IncludeFragments`, `References` and `DocumentEdits` with `ServerDriver`: each
  is about data that the other takes as one version number.
- The index's readers: their lock and the "indexing in progress" flag only delay a query.
- Which of several files for one name comes first in an index list.
- File descriptors of the WCP socket (a second `stop()` closes numbers again).

## 9. Plan

Done, in the order of what every message goes through: transport and its service specification
with the refinement proved, index, diagnostics client, driver with modes, WCP session,
configuration reload, active instances, include fragments, references, edits of a text, the
hierarchy view of the extension.

What would come next:

1. `ChangeRefreshesOwners` and `SaveRefreshesViews` of `IncludeFragments`, with the recursion over
   owners as an iteration: `OwnersEnd`, which is proved, says that it ends;
2. the owners of `IncludeFragments` as part of the documents of `ServerDriver`;
3. the selection of `ProjectComponent` against `ActiveInstances`, with a server in between that
   both modules describe.
