----------------------------- MODULE References -----------------------------
(* References, renaming and definitions across the workspace                 *)
(* (src/ServerDriver.cpp): each file is analysed together with the files     *)
(* that it depends on only, the index says which other files to look at, and *)
(* the symbols that one token stands for are joined into one component.      *)
(*                                                                           *)
(* A text is a sequence of items, the first of which declares its unit.  A   *)
(* token is <<file, item, part>>, and a symbol is the token that declares it.*)
EXTENDS Integers, Sequences, FiniteSets, SequencesExt

CONSTANTS
  Files,
  Workspaces,     \* the texts that each file may have: functions on Files
  NewNames,       \* names that a symbol may be given, and no text has
  MaxEdits,       \* bound on edits and renames
  MaxOpen         \* bound on the files that the user opens

\* "use" is a name in an expression, "port" the .name(...) of the instance at
\* item `of', "short" the same without parentheses, "iport" an interface port,
\* "value" a value of an enumeration; "import" imports all of a package and
\* "pick" one name of it.  An instance is a member with the name `name'.
UnitSorts == {"module", "interface", "package"}
PortSorts == {"member", "value"}
MemberSorts == PortSorts \cup {"inst"}
UnitUses == {"inst", "iport", "import", "pick", "scoped"}
NameUses == {"use", "port", "short", "pick", "scoped"}
\* the uses of a unit
UsesOf(sort) == CASE sort = "module" -> {"inst"}
                  [] sort = "interface" -> {"inst", "iport"}
                  [] sort = "package" -> {"import", "pick", "scoped"}
IsText(tx) ==
  /\ Len(tx) \in Nat \ {0} /\ DOMAIN tx = 1..Len(tx)
  /\ tx[1].sort \in UnitSorts
  /\ \A i \in 2..Len(tx) : tx[i].sort \in MemberSorts \cup UnitUses \cup NameUses
  /\ \A i \in DOMAIN tx :
        /\ DOMAIN tx[i] = {"sort", "unit", "name", "of"}
        /\ tx[i].sort \in {"port", "short"} => tx[i].of \in DOMAIN tx /\ tx[tx[i].of].sort = "inst"
        /\ tx[i].sort = "value" => tx[1].sort = "package"
        /\ tx[i].sort = "inst" => tx[1].sort # "package"

\* The uses of a unit are of its sort, and a unit has no name twice.
AreUses(tx, unit) ==
  \A i \in DOMAIN tx : tx[i].sort \in UnitUses /\ tx[i].unit = unit.name => tx[i].sort \in UsesOf(unit.sort)
MembersDiffer(tx) ==
  \A i, j \in DOMAIN tx : {tx[i].sort, tx[j].sort} \subseteq MemberSorts /\ tx[i].name = tx[j].name => i = j

ASSUME WorkspaceAssumption ==
  /\ IsFiniteSet(Files)
  /\ \A w \in Workspaces : \A f \in Files : \A tx \in w[f] :
        /\ IsText(tx) /\ MembersDiffer(tx)
        /\ \A i \in DOMAIN tx : {tx[i].name, tx[i].unit} \cap NewNames = {}
        /\ \A g \in Files : \A ty \in w[g] : AreUses(tx, ty[1])
  /\ \A w \in Workspaces : \A f, g \in Files :       \* no unit in two files
       f # g => {tx[1].name : tx \in w[f]} \cap {tx[1].name : tx \in w[g]} = {}
  /\ MaxEdits \in Nat /\ MaxOpen \in Nat

VARIABLES
  workspace,
  text,        \* the latest text of each file, saved or not
  indexedText, \* the text of each file that the index knows
  analysis,    \* m_analysis: the files whose trees it has, or {} if not valid
  open,        \* m_openDocs
  edits
refVars == <<workspace, text, indexedText, analysis, open, edits>>

----------------------------------------------------------------------------
(* Tokens and what they stand for in a set of files                          *)

Tokens(tx, f) ==
  {<<f, i, "name">> : i \in {i \in DOMAIN tx[f] : tx[f][i].sort \in UnitSorts \cup MemberSorts \cup NameUses}}
  \cup {<<f, i, "unit">> : i \in {i \in DOMAIN tx[f] : tx[f][i].sort \in UnitUses}}
AllTokens(tx) == UNION {Tokens(tx, f) : f \in Files}
Symbols(tx) == {t \in AllTokens(tx) : t[3] = "name" /\ tx[t[1]][t[2]].sort \in UnitSorts \cup MemberSorts}

Item(tx, t) == tx[t[1]][t[2]]
Name(tx, t) == IF t[3] = "unit" THEN Item(tx, t).unit ELSE Item(tx, t).name
UnitName(tx, f) == tx[f][1].name
IsUnit(s) == s[2] = 1

Units(tx, trees, n) == {<<f, 1, "name">> : f \in {f \in trees : UnitName(tx, f) = n}}
Members(tx, f, n) ==
  {<<f, i, "name">> : i \in {i \in DOMAIN tx[f] : tx[f][i].sort \in MemberSorts /\ tx[f][i].name = n}}
MembersOf(tx, trees, unit, n) == UNION {Members(tx, u[1], n) : u \in Units(tx, trees, unit)}

\* The imports that a name may come from: of the name, or else of everything
Imports(tx, f, n) ==
  LET picked == {i \in DOMAIN tx[f] : tx[f][i].sort = "pick" /\ tx[f][i].name = n}
  IN  IF picked # {} THEN picked ELSE {i \in DOMAIN tx[f] : tx[f][i].sort = "import"}

\* A name in an expression: the unit's own, or else one of an imported package.
Lookup(tx, trees, f, n) ==
  IF Members(tx, f, n) # {} THEN Members(tx, f, n)
  ELSE UNION {MembersOf(tx, trees, tx[f][i].unit, n) : i \in Imports(tx, f, n)}

\* indexInstanceSyntax: a connection without parentheses is the port and what
\* its name is outside, and nothing when there is no such port.
Connected(tx, trees, t) ==
  LET it == Item(tx, t)
      inner == {s \in MembersOf(tx, trees, tx[t[1]][it.of].unit, it.name) : Item(tx, s).sort \in PortSorts}
  IN  inner \cup IF inner # {} /\ it.sort = "short" THEN Lookup(tx, trees, t[1], it.name) ELSE {}

\* getSymbolsAtToken
SymbolsAt(tx, trees, t) ==
  LET it == Item(tx, t)
  IN  CASE t[3] = "unit" -> Units(tx, trees, it.unit)
        [] t[3] = "name" /\ it.sort \in UnitSorts \cup MemberSorts -> {t}
        [] it.sort = "use" -> Lookup(tx, trees, t[1], it.name)
        [] t[3] = "name" /\ it.sort \in {"scoped", "pick"} -> MembersOf(tx, trees, it.unit, it.name)
        [] it.sort \in {"port", "short"} -> Connected(tx, trees, t)

----------------------------------------------------------------------------
(* The index and the trees of an analysis                                    *)

Referenced(tx, f) == {tx[f][i].unit : i \in {i \in DOMAIN tx[f] : tx[f][i].sort \in UnitUses}}

\* getFirstSymbolLoc, getFilesForSymbol and getFilesReferencingSymbol
Declaring(n) == {f \in Files : UnitName(indexedText, f) = n}
Referencing(n) == {f \in Files : n \in Referenced(indexedText, f)}

\* (wrong: only packages are looked into for more)
TreesOfPackages(tx, f) ==
  LET Sees(g) == UNION {Declaring(m) : m \in Referenced(tx, g)}
      T[n \in 0..Cardinality(Files)] ==
        IF n = 0 THEN {f}
        ELSE LET s == T[n-1]
             IN  s \cup UNION {Sees(g) : g \in {g \in s : g = f \/ tx[g][1].sort = "package"}}
  IN  T[Cardinality(Files)]

\* getDependentTrees, with the file itself: the trees that are still to be
\* looked at, the names met so far and the files loaded.
LoadNext(s, tx) ==
  LET g == CHOOSE g \in s.todo : TRUE
      known == s.known \cup {UnitName(tx, g)}
      new == (UNION {Declaring(m) : m \in Referenced(tx, g) \ known}) \ s.loaded
  IN  IF s.todo = {} THEN s
      ELSE [todo |-> (s.todo \ {g}) \cup {h \in new : tx[h][1].sort \in {"package", "interface"}},
            known |-> known \cup Referenced(tx, g),
            loaded |-> s.loaded \cup new]
TreesIn(tx, f) ==
  LET S[n \in 0..Cardinality(Files) + 1] ==
        IF n = 0 THEN [todo |-> {f}, known |-> {}, loaded |-> {}] ELSE LoadNext(S[n-1], tx)
  IN  {f} \cup S[Cardinality(Files) + 1].loaded

Trees(f) == TreesIn(text, f)

\* SlangDoc::getAnalysis
Analyse(an, f) == IF an[f] = {} THEN [an EXCEPT ![f] = Trees(f)] ELSE an

----------------------------------------------------------------------------
(* getDocReferences                                                          *)

\* (wrong: by the name alone)
SameName(an, f, symbol, name) == {t \in Tokens(text, f) : Name(text, t) = name}

\* addLocalReferences
LocalReferences(an, f, symbol, name) ==
  {t \in Tokens(text, f) : Name(text, t) = name /\ symbol \in SymbolsAt(text, an[f], t)}

\* What the references to a unit in another file are, by their name alone.
UnitReferences(f, sort, name) ==
  {t \in Tokens(text, f) :
     /\ t[3] = "unit" /\ Name(text, t) = name
     /\ Item(text, t).sort \in UsesOf(sort)}

\* Without an import of everything only package::name is looked for, and no
\* analysis is made.
SpelledOut(f, package) ==
  \A i \in DOMAIN text[f] : text[f][i].sort = "import" => text[f][i].unit # package
ScopedReferences(f, package, name) ==
  {t \in Tokens(text, f) : /\ t[3] = "name" /\ Item(text, t).sort = "scoped"
                           /\ Item(text, t).unit = package /\ Item(text, t).name = name}

\* addMemberReferences: the references in other files, and the analyses made
MemberReferences(an, symbol, name) ==
  LET f == symbol[1]
      others == Referencing(UnitName(text, f)) \ {f}
      syntactic == {g \in others : /\ text[f][1].sort = "package" /\ Item(text, symbol).sort = "member"
                                   /\ SpelledOut(g, UnitName(text, f))}
      after == [g \in Files |-> IF g \in others \ syntactic THEN Analyse(an, g)[g] ELSE an[g]]
  IN  [an |-> after,
       found |-> UNION {IF g \in syntactic THEN ScopedReferences(g, UnitName(text, f), name)
                        ELSE LocalReferences(after, g, symbol, name) : g \in others}]

\* The references to one target, in its own file and in the others.  For an
\* instance of a known unit these are the types that have its name, in the
\* files that refer to that unit.
TargetReferences(an, symbol, name, includeDeclaration) ==
  LET f == symbol[1]
      here == Analyse(an, f)
      local == LocalReferences(here, f, symbol, name) \ IF includeDeclaration THEN {} ELSE {symbol}
      unit == Item(text, symbol).unit
  IN  IF IsUnit(symbol)
      THEN [an |-> here,
            found |-> local \cup UNION {UnitReferences(g, text[f][1].sort, UnitName(text, f)) :
                                          g \in Referencing(UnitName(text, f)) \ {f}}]
      ELSE IF Item(text, symbol).sort = "inst" /\ Units(text, here[f], unit) # {}
      THEN [an |-> here,
            found |-> local \cup UNION {UnitReferences(g, "module", name) : g \in Referencing(unit) \ {f}}]
      ELSE LET members == MemberReferences(here, symbol, name)
           IN  [members EXCEPT !.found = @ \cup local]

\* (wrong: the targets stay those of the token asked about)
JoinNothing(an, found) == {}

\* The symbols that tokens with several symbols join into the component.
Join(an, found) ==
  UNION {syms \in {SymbolsAt(text, an[t[1]], t) : t \in {t \in found : an[t[1]] # {}}} :
           Cardinality(syms) >= 2}

\* The loop over the targets, which grow as references are found.
Follow(s, asked) ==
  LET target == CHOOSE target \in s.targets \ s.done : TRUE
      r == TargetReferences(s.an, target, asked.name, asked.declaration)
  IN  IF s.targets = s.done THEN s
      ELSE [an |-> r.an,
            done |-> s.done \cup {target},
            targets |-> s.targets \cup Join(r.an, r.found),
            refs |-> s.refs \cup r.found]
References(an, token, includeDeclaration) ==
  LET first == Analyse(an, token[1])
      asked == [name |-> Name(text, token), declaration |-> includeDeclaration]
      S[n \in 0..Cardinality(Symbols(text))] ==
        IF n = 0 THEN [an |-> first, refs |-> {}, done |-> {},
                       targets |-> SymbolsAt(text, first[token[1]], token)]
        ELSE Follow(S[n-1], asked)
  IN  S[Cardinality(Symbols(text))]

\* getDocRename, and the edits as the editor applies them
Renamed(tx, tokens, name) ==
  [f \in Files |-> [i \in DOMAIN tx[f] |->
     LET it == tx[f][i]
     IN  [it EXCEPT !.name = IF <<f, i, "name">> \in tokens THEN name ELSE @,
                    !.unit = IF <<f, i, "unit">> \in tokens THEN name ELSE @]]]

\* (wrong: what the analysis does not know is not looked up)
DefinitionsInAnalysis(an, token) ==
  [an |-> Analyse(an, token[1]), found |-> SymbolsAt(text, Analyse(an, token[1])[token[1]], token)]

\* getDefinitionInfoAt: the index is searched too when nothing is found, or
\* what is found is a unit of another file.
Definitions(an, token) ==
  LET f == token[1]
      here == Analyse(an, f)
      local == SymbolsAt(text, here[f], token)
      search == local = {} \/ \E s \in local : IsUnit(s) /\ \A u \in local : IsUnit(u) => u[1] # f
      others == IF search THEN Declaring(Name(text, token)) ELSE {}
      sorts == {Item(text, s).sort : s \in local}
  IN  [an |-> [g \in Files |-> IF g \in others THEN Analyse(here, g)[g] ELSE here[g]],
       found |-> local \cup {u \in Units(text, others, Name(text, token)) :
                               local = {} \/ Item(text, u).sort \in sorts}]

----------------------------------------------------------------------------
(* Edits and queries                                                         *)

RefInit ==
  /\ workspace \in Workspaces
  /\ text \in {tx \in [Files -> UNION {workspace[f] : f \in Files}] :
                 \A f \in Files : tx[f] \in workspace[f]}
  /\ indexedText = text
  /\ analysis = [f \in Files |-> {}]
  /\ open = {}
  /\ edits = 0

Open(f) ==
  /\ f \notin open /\ Cardinality(open) < MaxOpen
  /\ open' = open \cup {f}
  /\ analysis' = Analyse(analysis, f)
  /\ UNCHANGED <<workspace, text, indexedText, edits>>

\* A document gets a new text and is analysed; analyses that have the old
\* text are not valid any more.
Changed(s, change) ==
  LET f == change.file
      tx == [s.text EXCEPT ![f] = change.text]
  IN  [text |-> tx,
       analysis |-> [g \in Files |-> IF g = f THEN TreesIn(tx, f)
                                    ELSE IF f \in s.analysis[g] THEN {} ELSE s.analysis[g]]]

\* The changes of several documents, one after the other
ChangeAll(changes) ==
  LET after == FoldLeft(Changed, [text |-> text, analysis |-> analysis], changes)
  IN  /\ edits < MaxEdits
      /\ text' = after.text
      /\ analysis' = after.analysis
      /\ open' = open \cup {changes[i].file : i \in DOMAIN changes}
      /\ edits' = edits + 1
      /\ UNCHANGED <<workspace, indexedText>>

Edit(f, tx) == f \in open /\ tx # text[f] /\ ChangeAll(<<[file |-> f, text |-> tx]>>)

\* The index gets the text, and open documents without a valid analysis are
\* analysed.
SaveText(f) ==
  /\ f \in open
  /\ indexedText' = [indexedText EXCEPT ![f] = text[f]]
  /\ UNCHANGED <<workspace, text, open, edits>>
  /\ analysis' = [g \in Files |-> IF g \in open /\ analysis[g] = {} THEN Trees(g)' ELSE analysis[g]]

FindReferences(token) ==
  /\ analysis' = References(analysis, token, TRUE).an
  /\ UNCHANGED <<workspace, text, indexedText, open, edits>>

FindDefinitions(token) ==
  /\ analysis' = Definitions(analysis, token).an
  /\ UNCHANGED <<workspace, text, indexedText, open, edits>>

\* The editor opens the files that it edits, and sends their changes in some
\* order.
RenamedBy(token, name) == Renamed(text, References(analysis, token, TRUE).refs, name)
Rename(token, name) ==
  /\ edits < MaxEdits
  /\ \A t \in AllTokens(text) : Name(text, t) # name
  /\ LET new == RenamedBy(token, name)
     IN  \E order \in SetToSeqs({f \in Files : new[f] # text[f]}) :
           ChangeAll([i \in DOMAIN order |-> [file |-> order[i], text |-> new[order[i]]]])

RefNext ==
  \/ \E f \in Files : Open(f)
  \/ \E f \in Files : \E tx \in workspace[f] : Edit(f, tx)
  \/ \E f \in Files : SaveText(f)
  \/ \E t \in AllTokens(text) : FindReferences(t)
  \/ \E t \in AllTokens(text) : FindDefinitions(t)
  \/ \E t \in AllTokens(text), name \in NewNames : Rename(t, name)

RefSpec == RefInit /\ [][RefNext]_refVars

----------------------------------------------------------------------------
(* Properties                                                                *)

RefTypeOK ==
  /\ workspace \in Workspaces
  /\ DOMAIN text = Files /\ \A f \in Files : IsText(text[f])
  /\ DOMAIN indexedText = Files /\ \A f \in Files : IsText(indexedText[f])
  /\ analysis \in [Files -> SUBSET Files]
  /\ open \in SUBSET Files
  /\ edits \in 0..MaxEdits

\* What tokens stand for when the whole workspace is taken together.
Meaning(tx) == [t \in AllTokens(tx) |-> SymbolsAt(tx, Files, t)]

\* The symbols joined to those of a token by any token of the workspace.
Joined(c, m) == c \cup UNION {m[t] : t \in {t \in DOMAIN m : m[t] \cap c # {}}}
Component(m, token) ==
  LET C[n \in 0..Cardinality(Symbols(text))] == IF n = 0 THEN m[token] ELSE Joined(C[n-1], m)
  IN  C[Cardinality(Symbols(text))]
Occurrences(m, c, declaration) == {t \in DOMAIN m : m[t] \cap c # {}} \ IF declaration THEN {} ELSE c

\* The index has the latest texts, and no analysis is older than the index.
UpToDate ==
  /\ indexedText = text
  /\ \A f \in Files : analysis[f] # {} => analysis[f] = Trees(f)

\* The types in other files that have the name of an instance among c
Namesakes(c, name) ==
  {u \in AllTokens(text) :
     /\ u[3] = "unit" /\ Item(text, u).sort = "inst" /\ Name(text, u) = name
     /\ \E s \in c : Item(text, s).sort = "inst" /\ s[1] # u[1]}

\* A member of a package among c is imported by its name only.
PickedAlone(c) ==
  \E s \in c, g \in Files :
    /\ g # s[1] /\ text[s[1]][1].sort = "package" /\ Item(text, s).sort = "member"
    /\ SpelledOut(g, UnitName(text, s[1]))
    /\ \E i \in DOMAIN text[g] :
         text[g][i].sort = "pick" /\ text[g][i].unit = UnitName(text, s[1]) /\ text[g][i].name = Name(text, s)

\* An import of that name, of something that is not there
Dangles(m, name) ==
  \E u \in DOMAIN m : u[3] = "name" /\ Item(text, u).sort = "pick" /\ Name(text, u) = name /\ m[u] = {}

(* Only occurrences of what was asked for are returned, whatever is unsaved  *)
(* or stale, and the declarations only when asked for                        *)
(* (getDocReferences, src/ServerDriver.cpp:1397).  The exception are the     *)
(* types that have the name of an instance (src/ServerDriver.cpp:1539).      *)
ReferencesAreOccurrences ==
  LET m == Meaning(text)
  IN  \A t \in AllTokens(text) :
        LET c == Component(m, t)
        IN  \A decl \in BOOLEAN :
              References(analysis, t, decl).refs \subseteq Occurrences(m, c, decl) \cup Namesakes(c, Name(text, t))

(* All occurrences in the workspace are returned when index and analyses are *)
(* up to date: also those that only a connection without parentheses, in     *)
(* some other file, joins to the symbol.  The exception are members of a     *)
(* package that a file imports by their name and not with the whole package: *)
(* there only package::name is found (src/ServerDriver.cpp:1364).            *)
ReferencesAreComplete ==
  LET m == Meaning(text)
  IN  UpToDate => \A t \in AllTokens(text) :
        LET c == Component(m, t)
        IN  \/ PickedAlone(c)
            \/ \A decl \in BOOLEAN : Occurrences(m, c, decl) \subseteq References(analysis, t, decl).refs

(* "Find references across your entire workspace" (README.md:61), also to    *)
(* what is imported by its name.                                             *)
ReferencesSpanWorkspace ==
  LET m == Meaning(text)
  IN  UpToDate => \A t \in AllTokens(text) :
        Occurrences(m, Component(m, t), TRUE) \subseteq References(analysis, t, TRUE).refs

(* A renaming changes no meaning: every token stands for the symbol that it  *)
(* stood for before (getDocRename, src/ServerDriver.cpp:1635).  That is with *)
(* the two exceptions above, and but for imports of what is not there.       *)
RenameKeepsMeaning ==
  LET m == Meaning(text)
  IN  UpToDate => \A t \in AllTokens(text), name \in NewNames :
        LET c == Component(m, t)
        IN  \/ PickedAlone(c) \/ Namesakes(c, Name(text, t)) # {} \/ Dangles(m, Name(text, t))
            \/ (\A u \in AllTokens(text) : Name(text, u) # name) => Meaning(RenamedBy(t, name)) = m

(* The definition of a unit is found wherever it is, also from a file that   *)
(* was analysed before the unit was there.                                   *)
UnitsAreFound ==
  indexedText = text => \A t \in {t \in AllTokens(text) : t[3] = "unit"} :
    Definitions(analysis, t).found = SymbolsAt(text, Files, t)

(* The trees of an analysis: what the file refers to, and what the packages  *)
(* and interfaces among that refer to, and nothing else (getDependentTrees,  *)
(* src/ServerDriver.cpp:684).  That is unless a file has the name that the   *)
(* index has for another: what a tree declares itself is not looked up.      *)
IndexMisnames == \E f, g \in Files : f # g /\ UnitName(text, f) = UnitName(indexedText, g)
TreesAreClosure ==
  ~IndexMisnames => \A f \in Files :
    LET opened == {g \in Trees(f) : g = f \/ text[g][1].sort \in {"package", "interface"}}
        needed(S) == {f} \cup UNION {UNION {Declaring(n) : n \in Referenced(text, g)} : g \in S}
    IN  /\ needed(opened) = Trees(f)
        /\ \A S \in SUBSET opened : f \in S /\ needed(S) \cap opened \subseteq S => S = opened
=============================================================================
