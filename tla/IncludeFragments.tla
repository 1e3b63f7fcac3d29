-------------------------- MODULE IncludeFragments --------------------------
(* Files that only make sense inside the files that include them, and how a  *)
(* driver without a compilation binds them to those owners                   *)
(* (src/ServerDriver.cpp and src/document/SlangDoc.cpp): opening, editing,   *)
(* saving and closing documents, and loading them on the way to a definition.*)
(*                                                                           *)
(* A document object is a pair <<file, n>>, the n-th that was made for its   *)
(* file; owners are objects, and an object that has been replaced may still  *)
(* own fragments.  Syntax trees are not kept: an object parses again when a  *)
(* buffer in its tree is not the latest, so a tree is a function of `latest'.*)
(* Cached analyses are, for what they make the server skip.                  *)
EXTENDS Integers, Sequences, FiniteSets, SequencesExt

CONSTANTS
  Files, Closed,
  Projects,          \* the texts that each file may have: functions on Files
  ResolveFragments,  \* the setting resolveIncludeFragments
  MaxOwnersAnalyzed, \* kMaxFragmentOwnersAnalyzed
  MaxObjects,        \* bound on the objects made for a file
  MaxEdits           \* bound on edits

\* What a text contains: "unit" declares a module, a package or a class,
\* "clean" parses by itself, "body" only inside a unit, "broken" nowhere.
Kinds == {"unit", "clean", "body", "broken"}
IsText(t) == t.kind \in Kinds /\ t.inc \subseteq Files

ASSUME FragmentAssumption ==
  /\ IsFiniteSet(Files)
  /\ \A p \in Projects : \A f \in Files : Closed \notin p[f] /\ \A t \in p[f] : IsText(t)
  /\ ResolveFragments \in BOOLEAN
  /\ MaxOwnersAnalyzed \in Nat \ {0} /\ MaxObjects \in Nat \ {0} /\ MaxEdits \in Nat

Objects == Files \X (1..MaxObjects)

VARIABLES
  project, sources,  \* the texts there may be, m_buildSourceUris
  disk, editor,      \* the files, and the texts of those open in the editor
  latest,            \* the text of the latest buffer of each file
  made,              \* the number of objects made for a file; docs has the last
  owners,            \* m_includeOwners of the objects
  open,              \* m_openDocs
  analysis,          \* files in the buffers of a valid m_analysis, or {}
  diags,             \* what the diagnostics client holds, for the editor after the
                     \* next push: how often each diagnostic (2: twice or more)
  edits,
  unreported,        \* history: analysed again, or withdrawn, without a report
  missed             \* history: <<f, g>> when g was read, or has come to include f,
                     \* or f not to hold together, after each looked for the other

cache == <<analysis, diags>>
vars == <<project, sources, disk, editor, latest, made, owners, open, cache, edits, unreported, missed>>

----------------------------------------------------------------------------
(* Texts and trees                                                           *)

\* The files of the tree of f: f and what it includes, directly or not.
TreeFiles(l, f) ==
  LET Reach[n \in 0..Cardinality(Files)] ==
        IF n = 0 THEN {} ELSE UNION {l[g].inc : g \in {f} \cup Reach[n-1]}
  IN  {f} \cup Reach[Cardinality(Files)]

Included(l, f) == TreeFiles(l, f) \ {f}

\* The files of the tree in which the parser finds an error.
Errors(l, f) ==
  LET fs == TreeFiles(l, f)
      inUnit == \E g \in fs : l[g].kind = "unit"
  IN  {g \in fs : l[g].kind = "broken" \/ (l[g].kind = "body" /\ ~inUnit)}

\* classifyStandaloneParse
Standalone(l, f) == Errors(l, f) = {} \/ \E g \in TreeFiles(l, f) : l[g].kind = "unit"

Object(f) == <<f, made[f]>>
Loaded == {f \in Files : made[f] > 0}
IsFragment(ow, d) == ow[d] # <<>>

\* (wrong: a fragment's tree, its owner's, is searched as well)
FindOwnersAnywhere(f) ==
  IF ~ResolveFragments THEN {}
  ELSE {Object(g) : g \in {g \in Loaded \ {f} : f \in Included(latest, g)}}

\* findIncludeOwners
FindOwners(f) ==
  IF ~ResolveFragments THEN {}
  ELSE {Object(g) : g \in {g \in Loaded \ {f} : /\ ~IsFragment(owners, Object(g))
                                                /\ f \in Included(latest, g)}}

\* docs is a hash table: what is collected from it comes in any order.
Orders(S) == {q \in [1..Cardinality(S) -> S] : \A i, j \in DOMAIN q : q[i] = q[j] => i = j}

\* The file whose tree an object has: a fragment borrows its first owner's.
Root(ow, d) ==
  LET R[n \in 0..Cardinality(Objects)] ==
        [x \in Objects |-> IF n = 0 \/ ow[x] = <<>> THEN x[1] ELSE R[n-1][ow[x][1]]]
  IN  R[Cardinality(Objects)][d]

\* A new buffer for f: analyses that hold the old one are no longer valid.
Invalidate(an, f) == [d \in Objects |-> IF f \in an[d] THEN {} ELSE an[d]]

----------------------------------------------------------------------------
(* Diagnostics                                                               *)

ParseError(l, f) == <<"parse", f, [g \in {f} |-> l[g]]>>
Semantic(l, root) == <<"semantic", root, [g \in TreeFiles(l, root) |-> l[g]]>>

Nothing == [x \in {} |-> 0]
Issue(bag, items) ==
  [x \in DOMAIN bag \cup items |->
     IF x \notin DOMAIN bag THEN 1 ELSE IF x \in items THEN 2 ELSE bag[x]]

\* The owners whose view of a fragment is reported: those open first, up to the limit.
Analyzed(ow, op, d) ==
  LET isOpen(o) == o[1] \in op
      isNot(o) == ~isOpen(o)
      ordered == SelectSeq(ow[d], isOpen) \o SelectSeq(ow[d], isNot)
  IN  {ordered[i] : i \in 1..IF Len(ordered) < MaxOwnersAnalyzed
                             THEN Len(ordered) ELSE MaxOwnersAnalyzed}

\* Of those, the ones that still include it.
Viewers(ow, op, l, d) == {o \in Analyzed(ow, op, d) : d[1] \in TreeFiles(l, Root(ow, o))}

\* issueIncludeFragmentDiagnostics: each problem once, whoever sees it
FragmentReport(ow, op, l, d) ==
  LET roots == {Root(ow, o) : o \in Viewers(ow, op, l, d)}
  IN  {Semantic(l, r) : r \in roots}
      \cup {ParseError(l, d[1]) : r \in {r \in roots : d[1] \in Errors(l, r)}}

\* What the diagnostics of a document should be made of.
Expected(ow, op, l, d) ==
  IF IsFragment(ow, d) THEN {Semantic(l, Root(ow, o)) : o \in Viewers(ow, op, l, d)}
  ELSE {Semantic(l, d[1])}
Shown(f) == {x \in DOMAIN diags[f] : x[1] = "semantic"}

\* refreshAnalysis of a document, getAnalysis of an owner
Analyze1(c, ow, op, l, d) ==
  LET f == d[1]
      fresh(o) == TreeFiles(l, Root(ow, o))
      used == IF IsFragment(ow, d) THEN Viewers(ow, op, l, d) \cup {d} ELSE {d}
  IN  [analysis |-> [o \in Objects |->
         IF o \in used /\ (c.analysis[o] = {} \/ ~IsFragment(ow, d)) THEN fresh(o)
         ELSE c.analysis[o]],
       diags |->
         IF IsFragment(ow, d)
         THEN [c.diags EXCEPT ![f] = Issue(Nothing, FragmentReport(ow, op, l, d))]
         ELSE [g \in Files |->
                 Issue(IF g = f THEN Nothing ELSE c.diags[g],
                       {ParseError(l, h) : h \in Errors(l, f) \cap {g}}
                         \cup IF g = f THEN {Semantic(l, f)} ELSE {})]]

\* (wrong: closed owners as well)
VisitsAll(ow, op, d) ==
  LET V[n \in 0..Cardinality(Files)] ==
        [x \in Objects |->
           IF n = 0 THEN <<x>>
           ELSE <<x>> \o FlattenSeq([i \in DOMAIN ow[x] |-> V[n-1][ow[x][i]]])]
  IN  V[Cardinality(Files)][d]

\* The documents that analyzeDocument(d) analyses: d, and by recursion the open
\* owners of a fragment.
Visits(ow, op, d) ==
  LET V[n \in 0..Cardinality(Files)] ==
        [x \in Objects |->
           IF n = 0 THEN <<x>>
           ELSE <<x>> \o FlattenSeq([i \in DOMAIN ow[x] |->
                           IF ow[x][i][1] \in op THEN V[n-1][ow[x][i]] ELSE <<>>])]
  IN  V[Cardinality(Files)][d]

\* (wrong: the owners of a fragment are not refreshed)
AnalyzeAlone(c, ow, op, l, d) == Analyze1(c, ow, op, l, d)

\* analyzeDocument: clear, report and push
Analyze(c, ow, op, l, d) ==
  FoldLeft(LAMBDA x, v : Analyze1(x, ow, op, l, v), c, Visits(ow, op, d))

\* Of one document when it is cancelled, or fails: withdrawn, and a document
\* that is no fragment perhaps analysed, with nothing but its parse errors issued.
Stages == {"before", "withdrawn", "parsed"}
Begun(c, ow, op, l, d, stage) ==
  LET OnlyParse(bag) == [x \in {y \in DOMAIN bag : y[1] = "parse"} |-> bag[x]]
  IN  CASE stage = "before" -> c
        [] stage = "withdrawn" -> [c EXCEPT !.diags[d[1]] = Nothing]
        [] stage = "parsed" -> [Analyze1(c, ow, op, l, d) EXCEPT !.diags[d[1]] = OnlyParse(@)]

\* analyzeDocument that gets as far as that with the document after the k-th.
AnalyzeCut(c, ow, op, l, d, k, stage) ==
  LET vs == Visits(ow, op, d)
      done == FoldLeft(LAMBDA x, v : Analyze1(x, ow, op, l, v), c, SubSeq(vs, 1, k))
  IN  Begun(done, ow, op, l, vs[k + 1], stage)

----------------------------------------------------------------------------
(* Opening                                                                   *)

\* resolveDocument: the owners of the object that is made for f.  The text that
\* it looks at is the one in the cache, which need not be the one being opened.
Resolve(f) == IF Standalone(latest, f) THEN {<<>>} ELSE Orders(FindOwners(f))

\* Whether docs has the document with the text that the editor opens.
Matches(f) == f \in Loaded /\ latest[f] = disk[f]

\* The owners that a document found in docs is bound to.
Rebind(f) ==
  IF IsFragment(owners, Object(f)) \/ Standalone(latest, f) THEN {<<>>}
  ELSE Orders(FindOwners(f))

\* A member of the build that was never opened is read as it is.
ReadsBuildFile(f) ==
  f \in sources \ Loaded /\ Standalone(latest, f) /\ latest[f] = disk[f]

\* (wrong: a fragment that already has another owner is passed over)
OrphansAlone(m, ow, l, d) ==
  IF ~ResolveFragments THEN {}
  ELSE {x \in {<<f, m[f]>> : f \in {f \in Files : m[f] > 0 /\ f \in Included(l, d[1])}} :
          ~IsFragment(ow, x) /\ ~Standalone(l, x[1])}

\* adoptOrphanFragments: the documents that are bound to the new document d
Orphans(m, ow, l, d) ==
  IF ~ResolveFragments THEN {}
  ELSE {x \in {<<f, m[f]>> : f \in {f \in Files : m[f] > 0 /\ f \in Included(l, d[1])}} :
          /\ d \notin Range(ow[x])
          /\ IsFragment(ow, x) \/ ~Standalone(l, x[1])}

AddOwner(ow, adopted, d) ==
  [x \in Objects |-> IF x \in adopted THEN Append(ow[x], d) ELSE ow[x]]

\* One orphan after the other: its text is put into the owner's tree, and it is
\* analysed if it is open.
Adopt(c, ow, op, l, d, order) ==
  FoldLeft(LAMBDA x, i :
             LET bound == AddOwner(ow, {order[j] : j \in 1..i}, d)
                 synced == [x EXCEPT !.analysis = Invalidate(@, order[i][1])]
             IN  IF order[i][1] \in op THEN Analyze(synced, bound, op, l, order[i]) ELSE synced,
           c, [i \in DOMAIN order |-> i])

\* What a handler leaves unreported: an open document whose analysis it has
\* built while the diagnostics it sent are not that document's.  The analyses
\* that were valid when it began to analyse are given.
Note(valid, reports) ==
  LET built == {f \in open' : analysis'[Object(f)'] # {} /\ valid[Object(f)'] = {}}
  IN  unreported' = ((unreported \cup built) \ reports) \cap open'

\* What a new text changes for fragments and includers that have looked.
Parted(m, old, new) ==
  {x \in Files \X Files : /\ m[x[1]] > 0 /\ m[x[2]] > 0
                          /\ \/ x[1] \in Included(new, x[2]) \ Included(old, x[2])
                             \/ Standalone(old, x[1]) /\ ~Standalone(new, x[1])}
Reports(ow, op, ds) == {x[1] : x \in UNION {Range(Visits(ow, op, d)) : d \in ds}}

\* openDocument: m and ow say which object the document is and what owns it,
\* known that it was loaded, with this text, and not bound just now, and
\* sameBuffer that its buffer stays.
Opened(f, m, ow, known, sameBuffer) ==
  LET d == <<f, m[f]>>
      l == [latest EXCEPT ![f] = disk[f]]
      op == open \cup {f}
      c == [analysis |-> IF sameBuffer THEN analysis ELSE Invalidate(analysis, f),
            diags |-> diags]
      adopted == IF known \/ IsFragment(ow, d) THEN {} ELSE Orphans(m, ow, l, d)
      bound == AddOwner(ow, adopted, d)
  IN  /\ editor' = [editor EXCEPT ![f] = disk[f]]
      /\ latest' = l /\ open' = op /\ made' = m /\ owners' = bound
      /\ \E order \in Orders(adopted) :
           LET after == Adopt(Analyze(c, ow, open, l, d), ow, op, l, d, order)
           IN  analysis' = after.analysis /\ diags' = after.diags
      /\ Note([x \in Objects |->
                 IF c.analysis[x] \cap {y[1] : y \in adopted} = {} THEN c.analysis[x] ELSE {}],
              Reports(bound, op, {d} \cup {x \in adopted : x[1] \in op}))
      /\ LET asked == IF IsFragment(owners, d) THEN {} ELSE {f} \X Files
             scanned == IF known \/ IsFragment(ow, d) THEN {} ELSE Files \X {f}
         IN  missed' = ((missed \ asked) \cup Parted(m, latest, l)) \ scanned
      /\ UNCHANGED <<project, sources, disk, edits>>

DidOpen(f) ==
  /\ editor[f] = Closed
  /\ \/ /\ Matches(f)
        /\ \E bound \in Rebind(f) :
             Opened(f, made, [owners EXCEPT ![Object(f)] = @ \o bound],
                    bound = <<>>, bound = <<>>)
     \/ /\ ~Matches(f) /\ made[f] < MaxObjects
        /\ \E bound \in Resolve(f) :
             Opened(f, [made EXCEPT ![f] = @ + 1], [owners EXCEPT ![<<f, made[f] + 1>>] = bound],
                    FALSE, ReadsBuildFile(f))

\* getDocument, on the way to a definition, for references or for a dependency
Navigate(f) ==
  /\ f \notin Loaded
  /\ \E bound \in Resolve(f) : owners' = [owners EXCEPT ![<<f, 1>>] = bound]
  /\ made' = [made EXCEPT ![f] = 1]
  /\ missed' = (missed \ ({f} \X Files)) \cup ((Included(latest, f) \cap Loaded) \X {f})
  /\ UNCHANGED <<project, sources, disk, editor, latest, open, cache, edits, unreported>>

----------------------------------------------------------------------------
(* Edits, saves, closes and queries                                          *)

Session == [analysis |-> analysis, diags |-> diags]

\* An edit, what the analyses after it leave, which of them reported, and the
\* document that one which was cut off has left without its diagnostics.
Typed(f, t, after, reports, cut) ==
  LET l == [latest EXCEPT ![f] = t]
      d == Object(f)
  IN  /\ edits < MaxEdits
      /\ t \in project[f] \ {editor[f]}
      /\ edits' = edits + 1
      /\ editor' = [editor EXCEPT ![f] = t]
      /\ latest' = l
      /\ analysis' = after.analysis /\ diags' = after.diags
      /\ LET valid == [Invalidate(analysis, f) EXCEPT ![d] = {}]
             built == {g \in open : analysis'[Object(g)] # {} /\ valid[Object(g)] = {}}
         IN  unreported' = ((unreported \cup built) \ reports) \cup (cut \cap open)
      /\ missed' = missed \cup Parted(made, latest, l)
      /\ UNCHANGED <<project, sources, disk, made, owners, open>>
Stale(f) == [Session EXCEPT !.analysis = [Invalidate(@, f) EXCEPT ![Object(f)] = {}]]

\* ServerDriver::onDocDidChange, to its end.
DidChange(f, t) ==
  /\ f \in open
  /\ Typed(f, t, Analyze(Stale(f), owners, open, [latest EXCEPT ![f] = t], Object(f)),
          Reports(owners, open, {Object(f)}), {})

\* A newer change cancels it, or an analysis fails: before or in the analysis
\* of the document or of one of the owners that are to follow.
DidChangeCut(f, t) ==
  /\ f \in open
  /\ LET d == Object(f)
         vs == Visits(owners, open, d)
     IN  \E k \in 0..(Len(vs) - 1), stage \in Stages :
           /\ stage = "parsed" => ~IsFragment(owners, vs[k + 1])
           /\ Typed(f, t,
                   AnalyzeCut(Stale(f), owners, open, [latest EXCEPT ![f] = t], d, k, stage),
                   {vs[i][1] : i \in 1..k},
                   IF stage = "before" THEN {} ELSE {vs[k + 1][1]})

\* (wrong: only the saved document)
SavedAlone(c, d, others) == Analyze(c, owners, open, latest, d)

\* ServerDriver::onDocDidSave: then the open documents whose analysis is not valid
Saved(c, d, others) ==
  FoldLeft(LAMBDA x, f : IF x.analysis[Object(f)] = {}
                         THEN Analyze(x, owners, open, latest, Object(f)) ELSE x,
           Analyze(c, owners, open, latest, d), others)

DidSave(f) ==
  /\ f \in open
  /\ disk' = [disk EXCEPT ![f] = editor[f]]
  /\ \E others \in Orders(open \ {f}) :
       LET after == Saved(Session, Object(f), others)
       IN  analysis' = after.analysis /\ diags' = after.diags
  /\ UNCHANGED <<project, sources, editor, latest, made, owners, open, edits, missed>>
  /\ Note(analysis,
          Reports(owners, open, {Object(g) : g \in {f} \cup {g \in open : analysis[Object(g)] = {}}}))

\* ServerDriver::closeDocument: the object stays, with its text.
DidClose(f) ==
  /\ f \in open
  /\ editor' = [editor EXCEPT ![f] = Closed]
  /\ open' = open \ {f}
  /\ diags' = [diags EXCEPT ![f] = Nothing]
  /\ unreported' = unreported \ {f}
  /\ UNCHANGED <<project, sources, disk, latest, made, owners, analysis, edits, missed>>

\* A hover, a completion, a goto: it needs the analysis of the document.
Query(f) ==
  /\ f \in open /\ analysis[Object(f)] = {}
  /\ analysis' = [analysis EXCEPT ![Object(f)] = TreeFiles(latest, Root(owners, Object(f)))]
  /\ unreported' = unreported \cup {f}
  /\ UNCHANGED <<project, sources, disk, editor, latest, made, owners, open, diags, edits, missed>>

\* A driver made for some files of a build has parsed those that are units.
Init ==
  /\ project \in Projects
  /\ disk \in {t \in [Files -> UNION {project[f] : f \in Files}] : \A f \in Files : t[f] \in project[f]}
  /\ latest = disk
  /\ \E built \in SUBSET Files :
       /\ \A f \in built : disk[f].kind = "unit"
       /\ made = [f \in Files |-> IF f \in built THEN 1 ELSE 0]
       /\ sources = UNION {TreeFiles(disk, f) : f \in built}
  /\ editor = [f \in Files |-> Closed]
  /\ owners = [d \in Objects |-> <<>>]
  /\ open = {} /\ edits = 0 /\ unreported = {} /\ missed = {}
  /\ analysis = [d \in Objects |-> {}]
  /\ diags = [f \in Files |-> Nothing]

Next ==
  \E f \in Files :
    \/ DidOpen(f)
    \/ Navigate(f)
    \/ \E t \in project[f] : DidChange(f, t)
    \/ \E t \in project[f] : DidChangeCut(f, t)
    \/ DidSave(f)
    \/ DidClose(f)
    \/ Query(f)

Spec == Init /\ [][Next]_vars

----------------------------------------------------------------------------
(* Properties                                                                *)

TypeOK ==
  /\ project \in Projects /\ sources \subseteq Files
  /\ \A f \in Files : /\ disk[f] \in project[f] /\ latest[f] \in project[f]
                      /\ editor[f] \in project[f] \cup {Closed}
  /\ made \in [Files -> 0..MaxObjects]
  /\ owners \in [Objects -> Seq(Objects)]
  /\ open \subseteq Loaded /\ unreported \subseteq open /\ missed \subseteq Files \X Files
  /\ analysis \in [Objects -> SUBSET Files]
  /\ edits \in 0..MaxEdits

(* Following owners always ends: any set of documents has one that none of   *)
(* the set owns, so analyzeDocument, which analyses the open owners of a     *)
(* fragment, and getSyntaxTree, which asks the first owner, do not recurse   *)
(* for ever (src/ServerDriver.cpp:181, src/document/SlangDoc.cpp:142).  An   *)
(* owner may well become a fragment later, when an outer file is opened.     *)
OwnersEnd ==
  \A ds \in (SUBSET Objects) \ {{}} : \E d \in ds : Range(owners[d]) \cap ds = {}

(* The diagnostics of a closed document are withdrawn, and none come back    *)
(* when its owners, its fragments or those that adopt it are analysed; only  *)
(* its parse errors do, as an includer reports those of its whole tree.      *)
ClosedHaveNoDiagnostics == \A f \in Files \ open : Shown(f) = {}

Current(f) == Shown(f) = Expected(owners, open, latest, Object(f))

\* The roots of the trees in which a document is seen, by the objects that were
\* replaced as well: they may still own an open fragment, and are analysed in
\* the document's place, as owners are open or not by their URI.
Views(f) ==
  UNION {IF IsFragment(owners, <<f, n>>)
         THEN {Root(owners, o) : o \in Range(owners[<<f, n>>])} ELSE {f} : n \in 1..made[f]}
OneView(f) == Cardinality(Views(f)) <= 1

(* A change of a fragment that is not superseded brings up to date the       *)
(* fragment, in the view of all its owners, and every open owner that has    *)
(* one view.                                                                 *)
ChangeRefreshesOwners ==
  [][\A f \in open : (\E t \in project[f] : DidChange(f, t)) =>
       \A g \in {f} \cup {o[1] : o \in Range(owners[Object(f)])} :
          g \in open /\ (g = f \/ OneView(g)) => Current(g)']_vars

(* After a save every open document shows diagnostics of the current texts,  *)
(* except when a query has renewed its analysis without a report, or a       *)
(* change that was cut off has done so or withdrawn its diagnostics, and     *)
(* except for documents with several views: "Reanalyze                       *)
(* open documents whose dependency buffers were invalidated"                 *)
(* (src/ServerDriver.cpp:209).                                               *)
SaveRefreshesViews ==
  [][\A f \in open : DidSave(f) =>
       \A g \in open \ unreported : OneView(g) => Current(g)']_vars

(* The same without the last exception, which the code does not live up to.  *)
SaveRefreshesFragments ==
  [][\A f \in open : DidSave(f) => \A g \in open \ unreported : Current(g)']_vars

(* A loaded file that is a fragment, or does not hold together, is bound to  *)
(* every loaded document that includes it and is no fragment, in whatever    *)
(* order they were opened, reopened and read: it finds those that are there  *)
(* (findIncludeOwners), and those that are opened later find it              *)
(* (adoptOrphanFragments).  Except where one of them has come to include it, *)
(* or it not to hold together, by a change of some text after both had       *)
(* looked, and where the includer was read on the way to a definition, as    *)
(* getDocument does not look for fragments (src/ServerDriver.cpp:454).       *)
IncludersAreOwners ==
  ResolveFragments =>
    \A g \in Loaded : \A f \in Included(latest, g) \cap Loaded :
      (/\ IsFragment(owners, Object(f)) \/ ~Standalone(latest, f)
       /\ ~IsFragment(owners, Object(g))
       /\ <<f, g>> \notin missed) => Object(g) \in Range(owners[Object(f)])

(* A document that is opened finds the fragments that it includes: "its set  *)
(* of included files hasn't changed since the last time this scan had a      *)
(* chance to run for it" (src/ServerDriver.cpp:446).  For a document that    *)
(* was read on the way to a definition it never had that chance.             *)
OpenedDocumentsFindFragments ==
  [][\A g \in Files : ResolveFragments /\ DidOpen(g) =>
       \A f \in Included(latest, g)' \cap Loaded' :
         \/ IsFragment(owners', Object(g)') \/ Standalone(latest, f)'
         \/ Object(g)' \in Range(owners'[Object(f)'])]_vars
=============================================================================
