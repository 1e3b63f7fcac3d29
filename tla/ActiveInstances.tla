--------------------------- MODULE ActiveInstances ---------------------------
(***************************************************************************)
(* The active instances of a design: for every module or interface the     *)
(* server keeps the instance whose parameters, types and connections the   *)
(* editor shows, and for every generate array the iteration that is shown. *)
(* A selection is a path into an elaborated design that every save         *)
(* replaces, and the analyses of the documents copy what was selected when *)
(* they were made.                                                         *)
(*                                                                         *)
(* Sources: src/ast/ServerCompilation.cpp, include/ast/InstanceIndexer.h,  *)
(* src/ServerDriver.cpp (setActiveInstance, onDocDidSave), and             *)
(* src/SlangServer.cpp (getDocDefinition).                                 *)
(*                                                                         *)
(* The slang compiler is external: a design is a function from the paths   *)
(* of the symbols that can be selected to what the code reads of them.  A  *)
(* path is the sequence of its names, an index belonging to its name, so   *)
(* that its length is one more than the number of its dots.                *)
(* Without a design (explore mode, a build or a top that has none) nothing *)
(* can be selected: the module begins with a design.                       *)
(***************************************************************************)
EXTENDS Naturals, Sequences, FiniteSets

CONSTANTS Sources,   \* what the texts of the documents may say, all together
          Designs,   \* the design that is elaborated from each
          Modules,   \* names of modules and interfaces
          Docs,      \* documents
          Declares,  \* the modules each document declares
          Reads,     \* the documents whose trees its analysis is made from
          None

Instances == [s \in Sources |->
                {p \in DOMAIN Designs[s] : Designs[s][p].kind = "instance"}]
Arrays    == [s \in Sources |->
                {p \in DOMAIN Designs[s] : Designs[s][p].kind = "array"}]
Blocks    == [s \in Sources |->
                {p \in DOMAIN Designs[s] : Designs[s][p].kind = "block"}]

\* instances.moduleToInstances[m]
InstancesOf == [s \in Sources |-> [m \in Modules |->
                  {p \in Instances[s] : Designs[s][p].module = m}]]

ArrayPaths == UNION {Arrays[s] : s \in Sources}
Paths      == UNION {DOMAIN Designs[s] : s \in Sources}

(***************************************************************************)
(* What the code relies on in a design: an instance has a module, a place  *)
(* in the order of locations and paths, and the interface instances its    *)
(* ports are connected to, in port order with the elements of an array one *)
(* by one.  A generate array has its loop and its iterations, which differ *)
(* from its path in the index only.  A generate block has its array, if    *)
(* its construct is a loop.  An interface port has the symbols its         *)
(* connection goes through and the one it ends at, if any, which may be    *)
(* the last of them.                                                       *)
(***************************************************************************)
ASSUME DesignsAssumption ==
  \A s \in Sources : \A p \in DOMAIN Designs[s] :
    LET D == Designs[s] IN
    /\ p \in Seq(STRING)
    /\ D[p].kind = "instance" =>
         D[p].module \in Modules /\ D[p].conn \in Seq(Instances[s]) /\ D[p].rank \in Nat
    /\ D[p].kind = "array" => D[p].entries \in Seq(Blocks[s]) /\ D[p].rank \in Nat
    /\ D[p].kind = "block" => D[p].array \in Arrays[s] \cup {None}
    /\ D[p].kind = "block" /\ D[p].array # None =>
         /\ \E i \in DOMAIN D[D[p].array].entries : D[D[p].array].entries[i] = p
         /\ Len(p) = Len(D[p].array)
         /\ \A i \in 1..(Len(p) - 1) : p[i] = D[p].array[i]
    /\ D[p].kind = "port" =>
         /\ D[p].via \in Seq(DOMAIN D) /\ D[p].end \in DOMAIN D \cup {None}
         /\ (\E i \in DOMAIN D[p].via : D[p].via[i] = D[p].end) =>
              D[p].via[Len(D[p].via)] = D[p].end

ASSUME NoneAssumption == None \notin Paths

ASSUME DocsAssumption ==
  /\ Declares \in [Docs -> SUBSET Modules]
  /\ Reads \in [Docs -> SUBSET Docs] /\ \A d \in Docs : d \in Reads[d]

VARIABLES
  source,    \* what the texts of the documents say
  design,    \* what m_analysis was elaborated from
  active,    \* m_activeInstancesByModule
  gen,       \* m_activeGenerateScopesByArray
  analyses,  \* m_analysis of each document: the design and the instances its
             \* ActiveDesignContext is bound to
  selected,  \* the last path selected, if that succeeded, in this design
  half       \* history: a selection that failed has changed active, and the
             \* analyses have not been invalidated since

vars == <<source, design, active, gen, analyses, selected, half>>
-----------------------------------------------------------------------------
\* Places in a design.

Inside(q, p) == Len(q) < Len(p) /\ SubSeq(p, 1, Len(q)) = q

\* getEnclosingInstance, again and again.
Around == [s \in Sources |-> [p \in DOMAIN Designs[s] |->
             {q \in Instances[s] : Inside(q, p)}]]

\* The instances that setActiveInstanceChain visits for a symbol: its
\* enclosing instance for a symbol that is none.
Chain == [s \in Sources |-> [p \in DOMAIN Designs[s] |->
            Around[s][p] \cup (Instances[s] \cap {p})]]

Innermost(C) == {q \in C : \A r \in C : Len(r) <= Len(q)}

\* The iterations around a symbol that setActiveGenerateScopes finds: parent
\* scopes end at the body of the innermost instance, whose own parent is
\* the scope of its definition.
ScopesAround ==
  [s \in Sources |-> [p \in DOMAIN Designs[s] |->
     {b \in Blocks[s] : /\ Designs[s][b].array # None
                        /\ b = p \/ Inside(b, p)
                        /\ \A q \in Around[s][p] : Len(q) < Len(b)}]]

\* One loop of a module makes one array in an instance, or one in each
\* iteration of the loops around it.
ASSUME LoopsAssumption ==
  \A s \in Sources : \A a1, a2 \in Arrays[s] :
    (/\ a1 # a2 /\ Designs[s][a1].loop = Designs[s][a2].loop
     /\ Innermost(Around[s][a1]) \cap Innermost(Around[s][a2]) # {}) =>
    \E b1 \in ScopesAround[s][a1], b2 \in ScopesAround[s][a2] :
      b1 # b2 /\ Designs[s][b1].array = Designs[s][b2].array

OneOf(S) == IF S = {} THEN None ELSE CHOOSE x \in S : TRUE

\* choosePreferredInstance: closest to the root, then by location and path.
Preferred ==
  [s \in Sources |-> [m \in Modules |->
     OneOf({p \in InstancesOf[s][m] :
              \A q \in InstancesOf[s][m] :
                \/ Len(p) < Len(q)
                \/ Len(p) = Len(q) /\ Designs[s][p].rank <= Designs[s][q].rank})]]

GetActiveInstanceSymbol(s, act, m) ==
  IF act[m] \in InstancesOf[s][m] THEN act[m] ELSE Preferred[s][m]
-----------------------------------------------------------------------------
\* Selecting.

\* What one instance of a chain sets for module m: first the interfaces it
\* is connected to, in order, then itself.
Connected(D, q, m) == {i \in DOMAIN D[q].conn : D[D[q].conn[i]].module = m}
Writes(D, q, m)    == D[q].module = m \/ Connected(D, q, m) # {}
Written(D, q, m)   ==
  IF D[q].module = m THEN {q}
  ELSE {D[q].conn[i] : i \in {k \in Connected(D, q, m) :
                               \A j \in Connected(D, q, m) : j <= k}}

\* The chains that selecting p sets one after the other.
Chains(s, p) ==
  LET sym == Designs[s][p] IN
  IF sym.kind # "port" THEN <<Chain[s][p]>>
  ELSE <<Chain[s][p]>>
       \o [i \in DOMAIN sym.via |->
             IF Designs[s][sym.via[i]].kind = "port" THEN Chain[s][sym.via[i]] ELSE {}]
       \o (IF sym.end = None THEN <<>> ELSE <<Chain[s][sym.end]>>)

\* Each chain is set from the root down, so the last chain that has anything
\* for m and in it the deepest instance decides.
\* (wrong: the chain is not reversed, so that the outermost decides)
LastWritersUp(s, cs, m) ==
  LET W == {w \in (DOMAIN cs) \X Instances[s] :
              w[2] \in cs[w[1]] /\ Writes(Designs[s], w[2], m)}
  IN  {w \in W : \A v \in W : \/ v[1] < w[1]
                              \/ v[1] = w[1] /\ Len(v[2]) >= Len(w[2])}
LastWriters(s, cs, m) ==
  LET W == {w \in (DOMAIN cs) \X Instances[s] :
              w[2] \in cs[w[1]] /\ Writes(Designs[s], w[2], m)}
  IN  {w \in W : \A v \in W : \/ v[1] < w[1]
                              \/ v[1] = w[1] /\ Len(v[2]) <= Len(w[2])}

\* The symbols whose generate scopes selecting p sets one after the other.
ScopeSymbols(s, p) ==
  LET sym == Designs[s][p] IN
  IF sym.kind # "port" THEN <<p>>
  ELSE <<p>> \o sym.via
       \o (IF sym.end = None \/ \E i \in DOMAIN sym.via : sym.via[i] = sym.end
           THEN <<>> ELSE <<sym.end>>)
\* (wrong: stops at the first iteration around the symbol)
LastScopesNearest(s, us, a) ==
  {w \in (DOMAIN us) \X Blocks[s] :
     /\ w[2] \in Innermost(ScopesAround[s][us[w[1]]])
     /\ Designs[s][w[2]].array = a}
LastScopes(s, us, a) ==
  LET found == {w \in (DOMAIN us) \X Blocks[s] :
                  w[2] \in ScopesAround[s][us[w[1]]] /\ Designs[s][w[2]].array = a}
  IN  {w \in found : \A v \in found : v[1] <= w[1]}

\* setActiveInstance: what selecting each path of each design sets, for a
\* module the instance and for an array the iteration, or None.
InstanceSet ==
  [s \in Sources |-> [p \in DOMAIN Designs[s] |-> [m \in Modules |->
     OneOf(UNION {Written(Designs[s], w[2], m) :
                    w \in LastWriters(s, Chains(s, p), m)})]]]
\* (wrong: remembers the symbol selected and not the iteration around it)
ScopeSetOfSymbol ==
  [s \in Sources |-> [p \in DOMAIN Designs[s] |-> [a \in ArrayPaths |->
     OneOf({ScopeSymbols(s, p)[w[1]] : w \in LastScopes(s, ScopeSymbols(s, p), a)})]]]
ScopeSet ==
  [s \in Sources |-> [p \in DOMAIN Designs[s] |-> [a \in ArrayPaths |->
     OneOf({w[2] : w \in LastScopes(s, ScopeSymbols(s, p), a)})]]]
Overlay(old, new) == [x \in DOMAIN old |-> IF new[x] = None THEN old[x] ELSE new[x]]

\* The symbol a selection ends at, and what setActiveInstance returns.
Target(s, p) == IF Designs[s][p].kind = "port" THEN Designs[s][p].end ELSE p
Succeeds(s, p) ==
  /\ p \in DOMAIN Designs[s]
  /\ Target(s, p) # None
  /\ Chain[s][Target(s, p)] # {}

\* getDependentTrees: all that its shallow compilation has definitions of.
Sees == [d \in Docs |-> UNION {Declares[e] : e \in Reads[d]}]

\* What the analysis of a document is bound to: createActiveDesignContext.
Analysis(d, s, act) ==
  [of    |-> s,
   bound |-> [m \in Modules |-> IF m \in Sees[d]
                                THEN GetActiveInstanceSymbol(s, act, m)
                                ELSE None]]
NoAnalyses == [d \in Docs |-> None]

\* What it is bound to when it is made while there is no design.
Undesigned == [of |-> None, bound |-> [m \in Modules |-> None]]

\* SlangDoc::getAnalysis.
GetAnalysis(d) ==
  IF analyses[d] = None THEN Analysis(d, design, active) ELSE analyses[d]
-----------------------------------------------------------------------------
\* Refreshing.

\* (wrong: keeps a selection that no longer exists)
SyncVerbatim(s, act) ==
  [m \in Modules |->
     IF act[m] # None THEN act[m]
     ELSE IF \E p \in InstancesOf[s][m] : InstancesOf[s][m] = {p}
     THEN OneOf(InstancesOf[s][m])
     ELSE None]
\* (wrong: starts from the defaults)
SyncAfresh(s, act) ==
  [m \in Modules |->
     IF \E p \in InstancesOf[s][m] : InstancesOf[s][m] = {p}
     THEN OneOf(InstancesOf[s][m])
     ELSE None]
\* syncActiveInstances: what still exists stays, a module that has one
\* instance takes it.
SyncActiveInstances(s, act) ==
  [m \in Modules |->
     IF act[m] \in InstancesOf[s][m] THEN act[m]
     ELSE IF \E p \in InstancesOf[s][m] : InstancesOf[s][m] = {p}
     THEN OneOf(InstancesOf[s][m])
     ELSE None]

NothingActive == [m \in Modules |-> None]
NoGen         == [a \in ArrayPaths |-> None]
-----------------------------------------------------------------------------
\* The loops whose iteration is shown.

\* getActiveAncestorCount has no value: another iteration is selected for an
\* array around this one.
OffSelection(s, g, a) ==
  \E b \in ScopesAround[s][a] : g[Designs[s][b].array] \notin {None, b}
ActiveAncestorCount(s, g, a) ==
  IF OffSelection(s, g, a) THEN 0
  ELSE Cardinality({b \in ScopesAround[s][a] : g[Designs[s][b].array] = b})

\* chooseGenerateArray: not off the selection, then more selected iterations
\* around it, then the first path.
Better(s, g, a, b) ==
  IF OffSelection(s, g, a) # OffSelection(s, g, b) THEN OffSelection(s, g, b)
  ELSE IF ActiveAncestorCount(s, g, a) # ActiveAncestorCount(s, g, b)
  THEN ActiveAncestorCount(s, g, a) > ActiveAncestorCount(s, g, b)
  ELSE Designs[s][a].rank <= Designs[s][b].rank
\* (wrong: the first path whatever is selected around it)
ChooseFirstArray(s, g, as) ==
  CHOOSE a \in as : \A b \in as : Designs[s][a].rank <= Designs[s][b].rank
ChooseGenerateArray(s, g, as) ==
  CHOOSE a \in as : \A b \in as : Better(s, g, a, b)

\* collectGenerateArrays: the arrays of a loop in the body of instance q.
ArraysOfLoop(s, q, l) ==
  {a \in Arrays[s] : Designs[s][a].loop = l /\ q \in Innermost(Around[s][a])}

\* getActiveGenerateLoop: the iteration of loop l that the lens of module m
\* shows.
IterationShown(g, array, entries) ==
  IF \E i \in DOMAIN entries : entries[i] = g[array] THEN g[array]
  ELSE IF entries = <<>> THEN None
  ELSE entries[1]
LoopOf(s, g, as) ==
  IF as = {} THEN None
  ELSE LET a == ChooseGenerateArray(s, g, as)
       IN  IterationShown(g, a, Designs[s][a].entries)
GetActiveGenerateLoop(s, act, g, m, l) ==
  LoopOf(s, g, ArraysOfLoop(s, GetActiveInstanceSymbol(s, act, m), l))
-----------------------------------------------------------------------------
Init ==
  /\ source \in Sources
  /\ design \in Sources
  /\ active = SyncActiveInstances(design, NothingActive)
  /\ gen = NoGen
  /\ analyses = NoAnalyses
  /\ selected = None
  /\ half = FALSE

\* ServerCompilation::setActiveInstance: what it has changed when it fails
\* stays.
Select(p) ==
  LET succeeds == Succeeds(design, p) IN
  /\ IF p \in DOMAIN Designs[design]
     THEN /\ active' = Overlay(active, InstanceSet[design][p])
          /\ gen' = Overlay(gen, ScopeSet[design][p])
     ELSE UNCHANGED <<active, gen>>
  /\ selected' = IF succeeds THEN p ELSE None
  /\ half' = (~succeeds /\ (half \/ active' # active))
  /\ UNCHANGED <<source, design>>

\* ServerDriver::setActiveInstance: a selection that succeeds invalidates
\* the analyses of all documents.
\* (wrong: nothing is invalidated)
InvalidateNothing == UNCHANGED analyses
InvalidateAnalyses == analyses' = NoAnalyses
ActivateInstance(p) ==
  /\ Select(p)
  /\ IF Succeeds(design, p) THEN InvalidateAnalyses ELSE UNCHANGED analyses

\* getDocDefinition of an instantiation in document d: the design instance
\* comes from the document's analysis (an instance of a module declared in
\* d, and in it the instance that the text and that design have), is
\* activated, and the definition is looked up in an analysis made after that.
GotoDefinition(d, p) ==
  LET an == GetAnalysis(d) IN
  /\ an.of # None
  /\ p \in Instances[an.of] \cap Instances[source]
  /\ \E m \in Declares[d] :
       an.bound[m] \in Innermost(Around[an.of][p])
    /\ Select(p)
  /\ analyses' =
       IF Succeeds(design, p)
       THEN [NoAnalyses EXCEPT ![d] = Analysis(d, design, active')]
       ELSE [analyses EXCEPT ![d] = an]

\* A request that needs the analysis of a document.
Query(d) ==
  /\ analyses' = [analyses EXCEPT ![d] = GetAnalysis(d)]
  /\ UNCHANGED <<source, design, active, gen, selected, half>>

\* onDocDidChange: the buffers of the analyses that contain the document are
\* no longer valid; the document itself is analysed again unless a newer
\* edit or a cancellation comes first.
DidChange(d, s) ==
  /\ s # source
  /\ source' = s
  /\ \E again \in {None, Analysis(d, design, active)} :
       analyses' = [e \in Docs |->
                      IF e = d THEN again
                      ELSE IF d \in Reads[e] THEN None
                      ELSE analyses[e]]
  /\ UNCHANGED <<design, active, gen, selected, half>>

\* What the analyses are after a refresh: those of T are made at once.
Refreshed(T) ==
  [e \in Docs |-> IF e \in T THEN Analysis(e, design', active') ELSE None]

\* onDocDidSave: refresh, then invalidate, then the inactive regions of the
\* document, for a client that shows them.
DidSave(d) ==
  /\ design' = source
  /\ active' = SyncActiveInstances(source, active)
  /\ selected' = None
  /\ half' = FALSE
  /\ \E T \in SUBSET {d} : analyses' = Refreshed(T)
  /\ UNCHANGED <<source, gen>>

\* What a new compilation of design s begins with.
Begin(s) ==
  /\ design' = s
  /\ active' = SyncActiveInstances(s, NothingActive)
  /\ gen' = NoGen
  /\ selected' = None
  /\ half' = FALSE
  /\ UNCHANGED source

\* setBuildFile: a new compilation of the files, in which the open documents
\* are then opened with the texts of the editor.
NewCompilation(s) ==
  /\ Begin(s)
  /\ \E T \in SUBSET Docs : analyses' = Refreshed(T)

\* The documents whose files createFromTop may leave out of a design: of the
\* files that declare a module it takes one.
MayBeOutside(s) ==
  {O \in SUBSET Docs :
     \A d \in O : \A m \in Declares[d] :
       InstancesOf[s][m] # {} => \E e \in Docs \ O : m \in Declares[e]}

\* setTopLevel: the open documents are analysed first, while there is no
\* design.  Those whose files the design is then made of are replaced by
\* documents without an analysis, the others (O) keep theirs.
NewTopLevel(s) ==
  /\ Begin(s)
  /\ \E O \in MayBeOutside(s) : \E T \in SUBSET O :
       analyses' = [e \in Docs |-> IF e \in T THEN Undesigned ELSE None]

Next ==
  \/ \E p \in Paths : ActivateInstance(p)
  \/ \E d \in Docs, p \in Paths : GotoDefinition(d, p)
  \/ \E d \in Docs : Query(d)
  \/ \E d \in Docs, s \in Sources : DidChange(d, s)
  \/ \E d \in Docs : DidSave(d)
  \/ \E s \in Sources : NewCompilation(s)
  \/ \E s \in Sources : NewTopLevel(s)

Spec == Init /\ [][Next]_vars
-----------------------------------------------------------------------------
Iterations(a) ==
  {b \in UNION {Blocks[s] : s \in Sources} :
     \E s \in Sources : b \in Blocks[s] /\ Designs[s][b].array = a}
Analyses == [of : Sources \cup {None}, bound : [Modules -> Paths \cup {None}]]

\* Types.  A generate array is only ever given one of its own iterations, in
\* some design (src/ast/ServerCompilation.cpp:142).
TypeOK ==
  /\ source \in Sources /\ design \in Sources
  /\ active \in [Modules -> Paths \cup {None}]
  /\ gen \in [ArrayPaths -> Paths \cup {None}]
  /\ \A a \in ArrayPaths : gen[a] \in Iterations(a) \cup {None}
  /\ analyses \in [Docs -> Analyses \cup {None}]
  /\ half \in BOOLEAN

\* Whatever is selected, edited, saved and rebuilt, a selected instance is an
\* instance of its module in the current design: the path that a client is
\* told (getActiveInstance returns it without looking it up) is the instance
\* that the lenses, the tree and the analyses use.
SelectionsExist ==
  \A m \in Modules :
    active[m] # None => active[m] \in InstancesOf[design][m]

\* A document that has an analysis has it from the current design and from
\* the instances that are active now, so a hover never shows the parameters
\* of an instance that is no longer selected, nor of a design that a save or
\* a build has replaced (ServerDriver.cpp:226, :680).  Except after a selection
\* that failed half way, and for a document that setTopLevel left out of the
\* design (ServerDriver.cpp:772): its analysis shows no instance at all, and
\* what the design has instances of is declared by another document too.
AnalysesUseSelection ==
  ~half => \A d \in Docs :
    analyses[d] # None =>
      \/ analyses[d] = Analysis(d, design, active)
      \/ /\ analyses[d] = Undesigned
         /\ \A m \in Declares[d] : InstancesOf[design][m] # {} =>
              \E e \in Docs \ {d} : m \in Declares[e]

\* After a selection that succeeded, the instance selected or the innermost
\* one around the place selected is active, the modules around it have an
\* active instance on the way down to it, and its interfaces are ones it is
\* connected to (docs/features/hdl/hdl.md:30).
LastSelectionIsActive ==
  selected # None =>
    LET D == Designs[design]
        C == Chain[design][Target(design, selected)]
        Of(S) == {D[q].module : q \in S}
        Conn(S) == UNION {{D[q].conn[i] : i \in DOMAIN D[q].conn} : q \in S}
    IN  \A q \in Innermost(C) :
          /\ active[D[q].module] = q
          /\ \A m \in Of(C) \ Of(Conn(C)) : active[m] \in C
          /\ \A m \in Of(Conn({q})) \ {D[q].module} : active[m] \in Conn({q})

\* After a selection that succeeded, each loop around the place selected, in
\* the innermost instance, shows the iteration that the place is in, however
\* the loops are nested and whatever was selected in other iterations
\* (test ActiveInstanceTracksGenerateScope, CodeLensTests.cpp:166).  Unless the
\* place is an instance of the same module again, or is connected to one: then
\* that one is active.
SelectedIterationsShown ==
  selected # None =>
    LET D == Designs[design]
        p == Target(design, selected)
    IN  \A b \in ScopesAround[design][p], q \in Innermost(Around[design][p]) :
          ~(p \in Instances[design] /\ Writes(D, p, D[q].module)) =>
          GetActiveGenerateLoop(design, active, gen, D[q].module, D[D[b].array].loop) = b

\* A loop inside a selected iteration of another loop shows an iteration
\* inside that one, if there is any.
ShownIterationsNest ==
  LET D == Designs[design] IN
  \A a \in Arrays[design], b \in Blocks[design] :
    (/\ b \in ScopesAround[design][a]
     /\ \A c \in ScopesAround[design][b] : gen[D[c].array] = c
     /\ D[a].entries # <<>>) =>
    \A q \in Innermost(Around[design][a]) :
      GetActiveInstanceSymbol(design, active, D[q].module) = q =>
        Inside(b, GetActiveGenerateLoop(design, active, gen, D[q].module, D[a].loop))

\* A save keeps every selection that the new design still has: the instances,
\* and in an instance that is kept the iterations, if those around them are
\* selected too ("Selections that still exist are preserved when the design
\* is recompiled", docs/features/hdl/hdl.md:30).
RefreshKeepsSelections ==
  [][\A d \in Docs : DidSave(d) =>
       \A m \in Modules :
         active[m] \in InstancesOf[design'][m] =>
           /\ GetActiveInstanceSymbol(design', active', m) = active[m]
           /\ \A a \in Arrays[design'] :
                LET D == Designs[design'] IN
                (/\ active[m] \in Innermost(Around[design'][a])
                 /\ \E i \in DOMAIN D[a].entries : D[a].entries[i] = gen[a]
                 /\ \A b \in ScopesAround[design'][a] : gen[D[b].array] = b) =>
                GetActiveGenerateLoop(design', active', gen', m, D[a].loop) = gen[a]]_vars
-----------------------------------------------------------------------------
\* What a comment of the repository says and the code does not keep.  No
\* standing run checks it: README.md, "Known deviations".

\* "Returns false if the path isn't contained by an instance" (ServerCompilation.h:78),
\* and only then: a path inside an instance can be selected.  For an interface
\* port that is not connected setActiveInstance returns false, after it has
\* selected the instance and the iterations around the port.
ContainedPathsAreSelected ==
  [][\A p \in DOMAIN Designs[design] :
       ActivateInstance(p) /\ Around[design][p] # {} => selected' = p]_vars
=============================================================================
