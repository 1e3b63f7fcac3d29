---------------------------- MODULE ServerDriver ----------------------------
(* The documents of the active driver (src/ServerDriver.cpp and              *)
(* src/document/SlangDoc.cpp): their texts, their cached analyses, the       *)
(* diagnostics sent to the editor, and the replacement of the driver when    *)
(* the mode changes (src/SlangServer.cpp).  A handler runs as a whole, since *)
(* the worker handles one message at a time; it may still be cut short, by a *)
(* cancellation or by an exception, and then its first steps stay.           *)
(*                                                                           *)
(* A text is a version number: two texts are equal iff their numbers are.    *)
(* A report stands for the diagnostics computed from some texts, its view.   *)
EXTENDS Integers, Sequences, FiniteSets, SequencesExt

CONSTANTS
  Uris, Deps,        \* documents, and those each one needs, directly or not
  BuildFiles,        \* the files of the build file
  InactiveRegions,   \* whether the client asked for inactive regions
  Missing, NoDoc, Closed, Garbled,
  MaxEdits,          \* bound on edits and external writes
  MaxSwitches        \* bound on changes of mode

Texts == 0..MaxEdits \cup {Garbled}

ASSUME DriverAssumption ==
  /\ Deps \in [Uris -> SUBSET Uris] /\ \A u \in Uris : u \notin Deps[u]
  /\ BuildFiles \subseteq Uris /\ IsFiniteSet(Uris) /\ InactiveRegions \in BOOLEAN
  /\ NoDoc \notin Uris /\ {Missing, NoDoc, Closed} \cap Texts = {}
  /\ MaxEdits \in Nat /\ MaxSwitches \in Nat

VARIABLES
  srv,        \* the active driver
  disk,       \* the content of the files
  editor,     \* the text of the documents open in the editor
  clean,      \* those among them without unsaved edits
  pending,    \* changes the watcher has not reported: <<uri, type>>
  edits, switches,
  unsaved,    \* history: documents changed since the last completed save
  rebuilt,    \* history: documents re-analysed by a query, not by a refresh
  clobbered,  \* history: documents reloaded from disk under the editor
  echo        \* history: files last written by the editor

history == <<unsaved, rebuilt, clobbered, echo>>
vars == <<srv, disk, editor, clean, pending, edits, switches, history>>

Views == UNION {[us -> Texts] : us \in SUBSET Uris}
Reports == {"parse", "shallow", "design"} \X Views

DC == INSTANCE ServerDiagClient WITH dc <- srv.dc, MaxReports <- 0

\* Handlers are functions on driver records; ok says whether one ran to its end.
Drivers == [text : [Uris -> Texts \cup {NoDoc}],  \* docs
            open : SUBSET Uris,                   \* m_openDocs
            index : SUBSET Uris,                  \* files whose symbols m_indexer knows
            ana : [Uris -> SUBSET Uris],          \* buffers of a valid m_analysis
            comp : SUBSET Uris,                   \* documents of the compilation
            sources : SUBSET Uris,                \* m_buildSourceUris
            view : Views,                         \* texts the compilation was built from
            dc : DC!DiagClients,
            cut : SUBSET Uris,                    \* history: their last analysis was cut short
            ok : BOOLEAN]

NewDriver(shown, index) ==
  [text |-> [u \in Uris |-> NoDoc], open |-> {}, index |-> index, ana |-> [u \in Uris |-> {}],
   comp |-> {}, sources |-> {}, view |-> <<>>, dc |-> DC!NewClient(shown), cut |-> {},
   ok |-> TRUE]

Begin == [srv EXCEPT !.ok = TRUE]
Abort(s) == [s EXCEPT !.ok = FALSE]

\* one step after another, until one fails
IfOk(Step(_), s) == IF s.ok THEN Step(s) ELSE s
Then(step(_, _), s, us) == FoldLeft(LAMBDA acc, u : IF acc.ok THEN step(acc, u) ELSE acc, s, us)
Orders(us) == {q \in [1..Cardinality(us) -> us] : \A i, j \in DOMAIN q : q[i] = q[j] => i = j}

----------------------------------------------------------------------------
(* Documents                                                                 *)

\* (wrong: trusts an analysis without looking at its buffers)
SetTextKeepingAnalyses(s, u, t) == [s EXCEPT !.text[u] = t, !.ana[u] = {}]

\* A new buffer for the document: every analysis that holds the old one is
\* invalid from now on, and the document's own is dropped.
SetText(s, u, t) ==
  [s EXCEPT !.text[u] = t,
            !.ana = [v \in Uris |-> IF v = u \/ u \in s.ana[v] THEN {} ELSE s.ana[v]]]

\* (wrong: goes on when the file cannot be read)
GetDocumentUnchecked(s, u) == IF s.text[u] # NoDoc THEN s ELSE [s EXCEPT !.text[u] = disk[u]]

\* getDocument: a document that was never loaded is read from disk, and the
\* read throws when there is no file.
GetDocument(s, u) ==
  IF s.text[u] # NoDoc THEN s
  ELSE IF disk[u] = Missing THEN Abort(s) ELSE [s EXCEPT !.text[u] = disk[u]]

\* getDependentTrees: the files that the index names for u's symbols
Dependencies(s, u) == Deps[u] \cap s.index

\* refreshAnalysis
RefreshAnalysis(s, u) ==
  IfOk(LAMBDA x : [x EXCEPT !.ana[u] = {u} \cup Dependencies(x, u)],
       Then(GetDocument, s, SetToSeq(Dependencies(s, u))))

\* getAnalysis
GetAnalysis(s, u) == IF s.ana[u] = {} THEN RefreshAnalysis(s, u) ELSE s

ParseReport(s, u) == <<"parse", [v \in {u} |-> s.text[v]]>>
ShallowReport(s, u) == <<"shallow", [v \in {u} \cup Dependencies(s, u) |-> s.text[v]]>>
DesignReport(s) == <<"design", s.view>>

Report(s, u, r) == [s EXCEPT !.dc = DC!Report(s.dc, u, r)]
Push(s) == [s EXCEPT !.dc = DC!PushDiags(s.dc)]

\* publishInactiveRegions: they are read off the document's analysis.
PublishInactiveRegions(s, u) == IF InactiveRegions THEN GetAnalysis(s, u) ELSE s

\* An analysis that was begun is cut short unless it comes to its push.
Begun(s, u) == [s EXCEPT !.cut = @ \cup {u}]
PushOf(s, u) == [Push(s) EXCEPT !.cut = @ \ {u}]

\* Where a change's analysis may be cancelled by a newer change.
Stages == {"start", "cleared", "parsed", "reported", "pushed", "end"}

Parse(s, u) == IfOk(LAMBDA x : Report(x, u, ParseReport(x, u)), RefreshAnalysis(s, u))
Shallow(s, u) == Report(s, u, ShallowReport(s, u))

\* (wrong: forgets to clear what was reported before)
AnalyzeToUncleared(s, u, stage) ==
  LET Cut(x, at) == IF stage = at THEN Abort(x) ELSE x
      cleared == Cut(Cut(Begun(s, u), "start"), "cleared")
      parsed == Cut(IfOk(LAMBDA x : Parse(x, u), cleared), "parsed")
      reported == Cut(IfOk(LAMBDA x : Shallow(x, u), parsed), "reported")
      pushed == Cut(IfOk(LAMBDA x : PushOf(x, u), reported), "pushed")
  IN IfOk(LAMBDA x : PublishInactiveRegions(x, u), pushed)

\* analyzeDocument, up to a stage
AnalyzeTo(s, u, stage) ==
  LET Cut(x, at) == IF stage = at THEN Abort(x) ELSE x
      Clear(x) == [x EXCEPT !.dc = DC!ClearUri(@, u)]
      cleared == Cut(IfOk(Clear, Cut(Begun(s, u), "start")), "cleared")
      parsed == Cut(IfOk(LAMBDA x : Parse(x, u), cleared), "parsed")
      reported == Cut(IfOk(LAMBDA x : Shallow(x, u), parsed), "reported")
      pushed == Cut(IfOk(LAMBDA x : PushOf(x, u), reported), "pushed")
  IN IfOk(LAMBDA x : PublishInactiveRegions(x, u), pushed)

Analyze(s, u) == AnalyzeTo(s, u, "end")

\* openDocument: the document is open only once its analysis has succeeded.
\* A member of the build that is opened as it was compiled is not reported.
OpenDocument(s, u, t) ==
  LET known == s.text[u] = t
      current == IF known THEN s ELSE SetText(s, u, t)
      compiled == s.comp # {} /\ known /\ u \in s.sources
  IN IfOk(LAMBDA x : [x EXCEPT !.open = @ \cup {u}],
          IF compiled THEN PublishInactiveRegions(current, u) ELSE Analyze(current, u))

\* closeDocument: the document stays loaded, with the text it had.
CloseDocument(s, u) ==
  [s EXCEPT !.open = @ \ {u}, !.cut = @ \ {u},
            !.dc = IF s.comp = {} THEN DC!ClearUri(@, u) ELSE @]

\* publishCompilationDiagnostics
Publish(s) ==
  LET docs == SetToSeq({u \in Uris : s.text[u] # NoDoc})
      parsed == Then(LAMBDA x, u : Report(x, u, ParseReport(x, u)), s, docs)
  IN Push(Then(LAMBDA x, u : Report(x, u, DesignReport(x)), parsed, SetToSeq(s.comp)))

\* ServerCompilation::refresh
Refresh(s) == [s EXCEPT !.view = [u \in s.comp |-> s.text[u]]]

\* (wrong: the compilation is published without a refresh; only the saved
\* document is analysed)
SaveUnrefreshed(s, u, others) ==
  IF s.comp = {} THEN Analyze(s, u)
  ELSE PublishInactiveRegions(
         Publish([s EXCEPT !.dc = DC!ClearAll(s.dc), !.ana = [v \in Uris |-> {}]]), u)

\* ServerDriver::onDocDidSave
SaveDocument(s, u, others) ==
  LET indexed == [s EXCEPT !.index = @ \cup {u}]
      cleared == [indexed EXCEPT !.dc = DC!ClearAll(s.dc)]
  IN IF s.comp = {}
     THEN Then(LAMBDA x, v : IF x.ana[v] = {} THEN Analyze(x, v) ELSE x,
               Analyze(indexed, u), others)
     ELSE PublishInactiveRegions(Publish([Refresh(cleared) EXCEPT !.ana = [v \in Uris |-> {}]]), u)

\* reloadBuffer: fails, and is skipped, when the file cannot be read
ReloadBuffer(s, u) == IF disk[u] = Missing THEN s ELSE SetText(s, u, disk[u])

----------------------------------------------------------------------------
(* Replacing the driver                                                      *)

\* (wrong: the diagnostics of the old driver are left to the editor)
CopyWithoutClearing(new, order) ==
  Then(LAMBDA s, u : OpenDocument(s, u, srv.text[u]), new, order)

\* (wrong: reads the documents again)
CopyFromDisk(new, order) ==
  Then(LAMBDA s, u : OpenDocument(s, u, IF disk[u] = Missing THEN srv.text[u] ELSE disk[u]),
       [new EXCEPT !.dc.shown = DC!ClearAndPush(srv.dc).shown], order)

\* copyOpenDocumentsFrom: the old driver withdraws all its diagnostics, and
\* its open documents are opened again with the texts they had.
CopyOpenDocuments(new, order) ==
  Then(LAMBDA s, u : OpenDocument(s, u, srv.text[u]),
       [new EXCEPT !.dc.shown = DC!ClearAndPush(srv.dc).shown], order)

\* A driver that could not be built is destroyed: its diagnostics are
\* withdrawn, and the old driver stays, its own diagnostics already gone
\* (history: as if the analysis of its open documents had been cut short).
Replace(new) ==
  IF new.ok THEN new
  ELSE [srv EXCEPT !.dc = DC!NewClient(DC!ClearAndPush(new.dc).shown),
                   !.cut = @ \cup srv.open, !.ok = FALSE]

NewExplore(order) == CopyOpenDocuments(NewDriver(srv.dc.shown, srv.index), order)

\* createFromFileLists
NewBuild(order) ==
  LET files == {u \in BuildFiles : disk[u] # Missing}
      texts == [u \in Uris |-> IF u \in files THEN disk[u] ELSE NoDoc]
      parsed == [NewDriver(srv.dc.shown, srv.index) EXCEPT !.text = texts, !.sources = files]
  IN IfOk(LAMBDA x : IF files = {} THEN x ELSE Publish(x),
          CopyOpenDocuments(Refresh([parsed EXCEPT !.comp = files]), order))

\* createFromTop: the compilation's documents replace those of the new driver.
LoadTop(s, u) ==
  LET found == {u} \cup {v \in Dependencies(s, u) : s.text[v] # NoDoc \/ disk[v] # Missing}
  IN [s EXCEPT !.text = [v \in Uris |-> IF v \in found /\ @[v] = NoDoc THEN disk[v] ELSE @[v]],
               !.ana = [v \in Uris |-> IF v \in found THEN {} ELSE @[v]],
               !.comp = found]

\* A file without top modules leaves the new driver in explore mode.
NewTop(u, hasTop, order) ==
  IfOk(LAMBDA x : IF hasTop THEN Publish(Refresh(LoadTop(x, u))) ELSE x,
       IfOk(LAMBDA x : GetDocument(x, u), NewExplore(order)))

----------------------------------------------------------------------------
(* Initial state and messages                                                *)

\* The files there are at the start are indexed.
Init ==
  /\ disk \in [Uris -> {0, Missing}]
  /\ srv = NewDriver(DC!NoDiags, {u \in Uris : disk[u] # Missing})
  /\ editor = [u \in Uris |-> Closed]
  /\ clean = {} /\ pending = {} /\ edits = 0 /\ switches = 0
  /\ unsaved = {} /\ rebuilt = {} /\ clobbered = {} /\ echo = {}

\* Documents whose buffer differs from before.
Changed == {u \in Uris : srv'.text[u] # srv.text[u] /\ srv.text[u] # NoDoc}

\* What the handler's outcome says about the documents.
Note ==
  /\ rebuilt' = {u \in rebuilt : srv'.dc.diags[u] = srv.dc.diags[u]}
  /\ clobbered' = {u \in clobbered : editor'[u] # Closed /\ srv'.text[u] # editor'[u]}

DidOpen(u) ==
  /\ editor[u] = Closed /\ disk[u] # Missing
  /\ editor' = [editor EXCEPT ![u] = disk[u]]
  /\ clean' = clean \cup {u}
  /\ srv' = OpenDocument(Begin, u, disk[u])
  /\ unsaved' = unsaved \cup Changed
  /\ UNCHANGED <<disk, pending, edits, switches, echo>>
  /\ Note

\* ServerDriver::onDocDidChange.  An edit made for another text than the one
\* the server has garbles it or is out of range.
Change(u, new, stage) ==
  LET doc == GetDocument(Begin, u) IN
  /\ editor' = [editor EXCEPT ![u] = new]
  /\ \/ ~doc.ok /\ srv' = doc
     \/ doc.ok /\ doc.text[u] # editor[u] /\ srv' = Abort(doc)
     \/ /\ doc.ok
        /\ srv' = AnalyzeTo(SetText(doc, u, IF doc.text[u] = editor[u] THEN new ELSE Garbled),
                            u, stage)
  /\ unsaved' = unsaved \cup Changed
  /\ UNCHANGED <<disk, pending, switches, echo>>
  /\ Note

DidChange(u, stage) ==
  /\ editor[u] # Closed /\ edits < MaxEdits /\ edits' = edits + 1
  /\ clean' = clean \ {u}
  /\ Change(u, edits + 1, stage)

\* The editor follows the disk for a document without unsaved edits.
EditorReloads(u) ==
  /\ u \in clean /\ disk[u] # Missing /\ editor[u] \notin {Closed, disk[u]}
  /\ Change(u, disk[u], "end")
  /\ UNCHANGED <<clean, edits>>

\* SlangServer::onDocDidSave: only for open documents, and with the saved text.
DidSave(u) ==
  /\ editor[u] # Closed
  /\ disk' = [disk EXCEPT ![u] = editor[u]]
  /\ clean' = clean \cup {u} /\ echo' = echo \cup {u}
  /\ pending' = pending \cup {<<u, "Changed">>}
  /\ IF u \notin srv.open THEN srv' = Begin
     ELSE \E others \in Orders(srv.open \ {u}) :
            srv' = IfOk(LAMBDA x : SaveDocument(x, u, others),
                        IF srv.text[u] = editor[u] THEN Begin ELSE OpenDocument(Begin, u, editor[u]))
  /\ unsaved' = IF u \in srv.open /\ srv'.ok THEN {} ELSE unsaved \cup Changed
  /\ UNCHANGED <<editor, edits, switches>>
  /\ Note

DidClose(u) ==
  /\ editor[u] # Closed
  /\ editor' = [editor EXCEPT ![u] = Closed]
  /\ clean' = clean \ {u}
  /\ srv' = CloseDocument(Begin, u)
  /\ UNCHANGED <<disk, pending, edits, switches, unsaved, echo>>
  /\ Note

\* A hover, a completion, a goto: it needs the analysis of the document.
Query(u) ==
  /\ editor[u] # Closed
  /\ srv' = LET doc == GetDocument(Begin, u) IN IF doc.ok THEN GetAnalysis(doc, u) ELSE doc
  /\ srv' # srv
  /\ rebuilt' = IF srv'.ana[u] # srv.ana[u] THEN rebuilt \cup {u} ELSE rebuilt
  /\ UNCHANGED <<disk, editor, clean, pending, edits, switches, unsaved,
                 clobbered, echo>>

\* git, a formatter, a generator
WriteFile(u, t) ==
  /\ edits < MaxEdits /\ edits' = edits + 1
  /\ t \in {edits + 1, Missing} /\ t # disk[u]
  /\ disk' = [disk EXCEPT ![u] = t]
  /\ pending' = pending \cup {<<u, IF t = Missing THEN "Deleted" ELSE
                                   IF disk[u] = Missing THEN "Created" ELSE "Changed">>}
  /\ echo' = echo \ {u}
  /\ UNCHANGED <<srv, editor, clean, switches, unsaved, rebuilt, clobbered>>

\* The documents that are open at their change's turn and could be read.
Updated(batch) ==
  [i \in DOMAIN batch |->
     LET u == batch[i][1] IN
     IF /\ batch[i][2] = "Changed" /\ u \in srv.open /\ disk[u] # Missing
        /\ \A j \in 1..(i - 1) : batch[j] # <<u, "Deleted">>
     THEN u ELSE NoDoc]

\* ServerDriver::onWorkspaceDidChangeWatchedFiles: all buffers are read again
\* before any document is analysed.  After an exception in one analysis the
\* turn of the others does not come (history: theirs are cut short too).
HandleWatched(s, batch) ==
  LET handled == Then(LAMBDA x, ch :
                        IF ch[2] = "Changed" /\ ch[1] \in x.open THEN ReloadBuffer(x, ch[1])
                        ELSE IF ch[2] = "Deleted" THEN CloseDocument(x, ch[1]) ELSE x, s, batch)
      Update(x, u) == IF u = NoDoc THEN x ELSE IF x.ok THEN Analyze(x, u) ELSE Begun(x, u)
  IN FoldLeft(Update, handled, Updated(batch))

\* Indexer::onWorkspaceDidChangeWatchedFiles comes second, so it does not hear
\* of the changes when the driver fails.
IndexWatched(s, batch) ==
  LET changed == {ch[1] : ch \in ToSet(batch)} IN
  IF s.ok THEN [s EXCEPT !.index = (@ \ changed) \cup {u \in changed : disk[u] # Missing}] ELSE s

WatchedFiles ==
  \E cs \in (SUBSET pending) \ {{}} : \E batch \in Orders(cs) :
    /\ pending' = pending \ cs
    /\ srv' = IndexWatched(HandleWatched(Begin, batch), batch)
    /\ unsaved' = unsaved \cup Changed
    /\ rebuilt' = {u \in rebuilt : srv'.dc.diags[u] = srv.dc.diags[u]}
    /\ clobbered' = {u \in clobbered \cup Changed : editor[u] \notin {Closed, srv'.text[u]}}
    /\ UNCHANGED <<disk, editor, clean, edits, switches, echo>>

\* The new driver's documents are opened in the order of a hash table: one is
\* analysed with the disk's text of those that are opened after it.
Switch(New(_)) ==
  /\ switches < MaxSwitches /\ switches' = switches + 1
  /\ \E order \in Orders(srv.open) : srv' = Replace(New(order))
  /\ unsaved' = unsaved \cup {u \in srv.open : disk[u] # srv.text[u]}
  /\ rebuilt' = {}
  /\ clobbered' = {u \in clobbered : srv'.text[u] # editor[u]}
  /\ UNCHANGED <<disk, editor, clean, pending, edits, echo>>

SetExplore == Switch(NewExplore)
SetBuildFile == Switch(NewBuild)
SetTopLevel(u) == \E hasTop \in BOOLEAN : Switch(LAMBDA order : NewTop(u, hasTop, order))

Next ==
  \/ \E u \in Uris : \/ DidOpen(u) \/ DidSave(u) \/ DidClose(u) \/ Query(u) \/ EditorReloads(u)
                     \/ SetTopLevel(u)
                     \/ \E stage \in Stages : DidChange(u, stage)
                     \/ \E t \in 1..MaxEdits \cup {Missing} : WriteFile(u, t)
  \/ WatchedFiles \/ SetExplore \/ SetBuildFile

Spec == Init /\ [][Next]_vars

----------------------------------------------------------------------------
(* Properties                                                                *)

TypeOK ==
  /\ srv \in Drivers
  /\ srv.open \subseteq {u \in Uris : srv.text[u] # NoDoc}
  /\ \A u \in Uris : srv.ana[u] # {} => u \in srv.ana[u] /\ srv.ana[u] \subseteq {u} \cup Deps[u]
  /\ srv.comp \subseteq {u \in Uris : srv.text[u] # NoDoc}
  /\ DOMAIN srv.view = srv.comp
  /\ disk \in [Uris -> Texts \cup {Missing}]
  /\ editor \in [Uris -> Texts \cup {Closed}]
  /\ clean \subseteq Uris /\ \A u \in clean : editor[u] # Closed

Explore == srv.comp = {}

(* Whatever a handler does and wherever it is cut short, and whichever driver *)
(* is active, the editor shows the driver's diagnostics except for documents  *)
(* that the next push will bring up to date.                                  *)
CleanMeansShown == DC!CleanMeansShown

(* In explore mode an open document has the parse and shallow diagnostics of *)
(* the text it has now, once each, unless a newer change or an exception cut *)
(* its last analysis short, and then only until the next one.                *)
OpenDocumentsShowTheirText ==
  Explore => \A u \in srv.open \ srv.cut :
               /\ Len(srv.dc.diags[u]) = 2
               /\ srv.dc.diags[u][1] = ParseReport(srv, u)
               /\ srv.dc.diags[u][2][1] = "shallow" /\ srv.dc.diags[u][2][2][u] = srv.text[u]

\* the documents that u's shallow diagnostics saw with another text
StaleDeps(u) == {v \in Deps[u] : \E i \in DOMAIN srv.dc.diags[u] :
                   /\ srv.dc.diags[u][i][1] = "shallow" /\ v \in DOMAIN srv.dc.diags[u][i][2]
                   /\ srv.dc.diags[u][i][2][v] # srv.text[v]}

(* A completed save brings the diagnostics of all open documents up to date  *)
(* with the texts they depend on, except those that a query re-analysed in   *)
(* between, and only later changes make them stale.                          *)
OpenDocumentsShowSavedDependencies ==
  Explore => \A u \in srv.open \ (srv.cut \cup rebuilt) :
               StaleDeps(u) \subseteq unsaved

(* ServerDriver.cpp:209, "Reanalyze open documents whose dependency buffers  *)
(* were invalidated": the same without the exception for queries.            *)
SaveRefreshesDependents ==
  Explore => \A u \in srv.open \ srv.cut :
               StaleDeps(u) \subseteq unsaved

(* The server's text of an open document is the editor's, across edits,      *)
(* cancelled analyses, failing handlers and new drivers, unless the document *)
(* was reloaded from disk under the editor.                                  *)
OpenTextIsEditors ==
  \A u \in srv.open : editor[u] # Closed => srv.text[u] = editor[u] \/ u \in clobbered

(* After a save in a build every document there was has its parse            *)
(* diagnostics once and, in the compilation, the design's, all of the texts  *)
(* there are now.  The inactive regions, which come last, change none of it, *)
(* whatever they load or throw; only a save whose document was opened again  *)
(* on the way may fail before.                                               *)
SaveRefreshesBuild ==
  [][\A u \in Uris :
       DidSave(u) /\ u \in srv.open /\ srv.comp # {} /\ (srv'.ok \/ srv.text[u] = editor[u]) =>
       \A v \in Uris : srv.text[v] # NoDoc =>
         srv'.dc.shown[v] =
           <<<<"parse", [x \in {v} |-> srv'.text[v]]>>>> \o
           (IF v \in srv'.comp THEN <<<<"design", [x \in srv'.comp |-> srv'.text[x]]>>>> ELSE <<>>)]_vars

(* SlangDoc.h:170, "used for external file changes": hearing of the editor's *)
(* own save does not change the text that the server has.                    *)
OwnSaveIsNotReloaded ==
  [][\A u \in echo : WatchedFiles => srv'.text[u] = srv.text[u]]_vars

----------------------------------------------------------------------------
(* What comments and tests of the repository say and the code does not keep. *)
(* No standing run checks these: README.md, "Known deviations".              *)

(* ServerDriver.cpp:775 means to report a top level that does not exist and  *)
(* to go on with the new driver: the open documents keep diagnostics.        *)
SetTopLevelKeepsDiagnostics ==
  [][(\E u \in Uris : SetTopLevel(u)) =>
       \A u \in srv.open : srv.dc.shown[u] # <<>> => srv'.dc.shown[u] # <<>>]_vars

(* ServerDriver.cpp:427, "File is already part of the compilation -          *)
(* compilation diags were already published, so skip shallow diags".         *)
OpeningKeepsDesignDiagnostics ==
  [][\A u \in srv.comp : DidOpen(u) /\ srv.text[u] = disk[u] =>
       srv'.dc.diags[u] = srv.dc.diags[u]]_vars

(* ServerDriver.h:211, "Set of URIs for documents that are explicitly opened *)
(* by the client".                                                           *)
OpenedDocumentsAreTracked == \A u \in Uris : editor[u] # Closed => u \in srv.open

(* DiagTests.cpp:379, "no duplicates": in a build, no document has the       *)
(* diagnostics of one kind twice.                                            *)
NoDuplicateDiagnostics ==
  srv.sources # {} => \A u \in Uris : \A i, j \in DOMAIN srv.dc.diags[u] :
    srv.dc.diags[u][i][1] = srv.dc.diags[u][j][1] => i = j
=============================================================================
