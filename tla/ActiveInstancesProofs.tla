----------------------- MODULE ActiveInstancesProofs -----------------------
(***************************************************************************)
(* For all designs, documents and sequences of selections, edits, saves    *)
(* and builds: types, the selected instances exist in the current design,  *)
(* and the analyses are those of what is selected.                         *)
(***************************************************************************)
EXTENDS ActiveInstances, SequenceTheorems, WellFoundedInduction, TLAPS

LEMMA OneOfMember ==
  ASSUME NEW S
  PROVE  (OneOf(S) = None /\ S = {}) \/ OneOf(S) \in S
BY DEF OneOf

\* A design has a path for every instance, and None is no path.
LEMMA InstancesArePaths ==
  ASSUME NEW s \in Sources, NEW m \in Modules
  PROVE  /\ InstancesOf[s][m] \subseteq Instances[s]
         /\ Instances[s] \subseteq DOMAIN Designs[s]
         /\ DOMAIN Designs[s] \subseteq Paths
         /\ None \notin InstancesOf[s][m]
<1>1. /\ InstancesOf[s][m] \subseteq Instances[s]
      /\ Instances[s] \subseteq DOMAIN Designs[s]
  BY DEF InstancesOf, Instances
<1>2. DOMAIN Designs[s] \subseteq Paths
  BY DEF Paths
<1> QED
  BY <1>1, <1>2, NoneAssumption

\* What one instance of a chain sets for a module are instances of that module.
LEMMA WrittenType ==
  ASSUME NEW s \in Sources, NEW m \in Modules, NEW q \in Instances[s]
  PROVE  Written(Designs[s], q, m) \subseteq InstancesOf[s][m]
<1>1. CASE Designs[s][q].module = m
  BY <1>1 DEF Written, InstancesOf
<1>2. CASE Designs[s][q].module # m
  <2>1. Designs[s][q].conn \in Seq(Instances[s])
    BY DesignsAssumption DEF Instances
  <2>2. \A i \in Connected(Designs[s], q, m) : Designs[s][q].conn[i] \in InstancesOf[s][m]
    BY <2>1 DEF Connected, InstancesOf
  <2> QED
    BY <1>2, <2>2 DEF Written
<1> QED
  BY <1>1, <1>2

\* What selecting a path sets: for a module one of its instances, for an
\* array one of its iterations.
LEMMA InstanceSetType ==
  ASSUME NEW s \in Sources, NEW p \in DOMAIN Designs[s], NEW m \in Modules
  PROVE  InstanceSet[s][p][m] \in InstancesOf[s][m] \cup {None}
<1> DEFINE W == LastWriters(s, Chains(s, p), m)
           S == UNION {Written(Designs[s], w[2], m) : w \in W}
<1>1. \A w \in W : w[2] \in Instances[s]
  BY DEF LastWriters
<1>2. S \subseteq InstancesOf[s][m]
  BY <1>1, WrittenType
<1>3. InstanceSet[s][p][m] = OneOf(S)
  BY DEF InstanceSet
<1> HIDE DEF S, W
<1> QED
  BY <1>2, <1>3, OneOfMember

LEMMA ScopeSetType ==
  ASSUME NEW s \in Sources, NEW p \in DOMAIN Designs[s], NEW a \in ArrayPaths
  PROVE  ScopeSet[s][p][a] \in Iterations(a) \cup {None}
<1> DEFINE W == LastScopes(s, ScopeSymbols(s, p), a)
           S == {w[2] : w \in W}
<1>1. \A w \in W : w[2] \in Blocks[s] /\ Designs[s][w[2]].array = a
  BY DEF LastScopes
<1>2. S \subseteq Iterations(a)
  BY <1>1 DEF Iterations
<1>3. ScopeSet[s][p][a] = OneOf(S)
  BY DEF ScopeSet
<1> HIDE DEF S, W
<1> QED
  BY <1>2, <1>3, OneOfMember

\* syncActiveInstances keeps or takes instances of the design.
LEMMA SyncType ==
  ASSUME NEW s \in Sources, NEW act
  PROVE  SyncActiveInstances(s, act) \in [Modules -> Paths \cup {None}]
         /\ \A m \in Modules : SyncActiveInstances(s, act)[m] \in InstancesOf[s][m] \cup {None}
<1>1. ASSUME NEW m \in Modules
      PROVE  SyncActiveInstances(s, act)[m] \in InstancesOf[s][m] \cup {None}
  BY OneOfMember DEF SyncActiveInstances
<1>2. \A m \in Modules : InstancesOf[s][m] \subseteq Paths
  BY InstancesArePaths
<1>3. SyncActiveInstances(s, act) = [m \in Modules |-> SyncActiveInstances(s, act)[m]]
  BY DEF SyncActiveInstances
<1>4. SyncActiveInstances(s, act) \in [Modules -> Paths \cup {None}]
  BY <1>1, <1>2, <1>3
<1> QED
  BY <1>1, <1>4

\* Whatever is selected, the analysis of a document has its type.
LEMMA AnalysisType ==
  ASSUME NEW s \in Sources, NEW act, NEW d \in Docs
  PROVE  Analysis(d, s, act) \in Analyses
<1>1. ASSUME NEW m \in Modules
      PROVE  GetActiveInstanceSymbol(s, act, m) \in Paths \cup {None}
  <2> DEFINE S == {p \in InstancesOf[s][m] :
                     \A q \in InstancesOf[s][m] :
                       \/ Len(p) < Len(q)
                       \/ Len(p) = Len(q) /\ Designs[s][p].rank <= Designs[s][q].rank}
  <2>1. Preferred[s][m] = OneOf(S)
    BY DEF Preferred
  <2>2. S \subseteq InstancesOf[s][m]
    OBVIOUS
  <2> HIDE DEF S
  <2> QED
    BY <2>1, <2>2, OneOfMember, InstancesArePaths DEF GetActiveInstanceSymbol
<1> QED
  BY <1>1 DEF Analysis, Analyses

LEMMA UndesignedType == Undesigned \in Analyses
BY DEF Undesigned, Analyses

----------------------------------------------------------------------------
(* The inductive invariant.                                                *)

Inv == TypeOK /\ SelectionsExist /\ AnalysesUseSelection

\* Init and refreshes: the instances come from the new design, and the
\* analyses are made afterwards.
LEMMA SyncedSelections ==
  ASSUME design' \in Sources, NEW act, active' = SyncActiveInstances(design', act)
  PROVE  /\ active' \in [Modules -> Paths \cup {None}]
         /\ SelectionsExist'
BY SyncType DEF SelectionsExist

LEMMA RefreshedAnalyses ==
  ASSUME NEW T \in SUBSET Docs, design' \in Sources, analyses' = Refreshed(T)
  PROVE  /\ analyses' \in [Docs -> Analyses \cup {None}]
         /\ AnalysesUseSelection'
<1>1. \A e \in Docs : Analysis(e, design', active') \in Analyses
  BY AnalysisType
<1> QED
  BY <1>1 DEF Refreshed, AnalysesUseSelection

\* A selection, whether it succeeds or fails half way, sets instances of the
\* design and iterations of their arrays.
LEMMA SelectKeeps ==
  ASSUME Inv, NEW p \in Paths, Select(p)
  PROVE  /\ source' = source /\ design' = design
         /\ active' \in [Modules -> Paths \cup {None}]
         /\ gen' \in [ArrayPaths -> Paths \cup {None}]
         /\ \A a \in ArrayPaths : gen'[a] \in Iterations(a) \cup {None}
         /\ half' \in BOOLEAN
         /\ SelectionsExist'
<1>1. source' = source /\ design' = design /\ half' \in BOOLEAN
  BY DEF Select, Inv, TypeOK
<1>2. CASE p \notin DOMAIN Designs[design]
  BY <1>1, <1>2 DEF Select, Inv, TypeOK, SelectionsExist
<1>3. CASE p \in DOMAIN Designs[design]
  <2>1. design \in Sources
    BY DEF Inv, TypeOK
  <2>2. /\ active' = [m \in Modules |-> IF InstanceSet[design][p][m] = None
                                         THEN active[m] ELSE InstanceSet[design][p][m]]
        /\ gen' = [a \in ArrayPaths |-> IF ScopeSet[design][p][a] = None
                                        THEN gen[a] ELSE ScopeSet[design][p][a]]
    BY <1>3 DEF Select, Overlay, Inv, TypeOK
  <2>3. \A m \in Modules : active'[m] \in InstancesOf[design][m] \cup {None}
    <3>1. \A m \in Modules : active[m] \in InstancesOf[design][m] \cup {None}
      BY DEF Inv, SelectionsExist
    <3> QED
      BY <1>3, <2>1, <2>2, <3>1, InstanceSetType
  <2>4. \A m \in Modules : InstancesOf[design][m] \subseteq Paths
    BY <2>1, InstancesArePaths
  <2>5. \A a \in ArrayPaths : gen'[a] \in Iterations(a) \cup {None}
    BY <1>3, <2>1, <2>2, ScopeSetType DEF Inv, TypeOK
  <2>6. \A a \in ArrayPaths : Iterations(a) \subseteq Paths
    BY DEF Iterations, Blocks, Paths
  <2>7. active' \in [Modules -> Paths \cup {None}] /\ SelectionsExist'
    BY <1>1, <2>2, <2>3, <2>4 DEF SelectionsExist
  <2>8. gen' \in [ArrayPaths -> Paths \cup {None}]
    BY <2>2, <2>5, <2>6
  <2> QED
    BY <1>1, <2>5, <2>7, <2>8
<1> QED
  BY <1>2, <1>3

\* As long as no failure is outstanding, a selection that fails has changed
\* nothing that an analysis shows.
LEMMA FailedSelectKeeps ==
  ASSUME NEW p \in Paths, Select(p), ~Succeeds(design, p), ~half'
  PROVE  ~half /\ active' = active /\ design' = design
BY DEF Select

\* What a new compilation begins with.
LEMMA BeginKeeps ==
  ASSUME Inv, NEW s \in Sources, Begin(s)
  PROVE  /\ source' \in Sources /\ design' = s
         /\ active' \in [Modules -> Paths \cup {None}]
         /\ gen' \in [ArrayPaths -> Paths \cup {None}]
         /\ \A a \in ArrayPaths : gen'[a] \in Iterations(a) \cup {None}
         /\ half' \in BOOLEAN
         /\ SelectionsExist'
<1>1. design' \in Sources /\ active' = SyncActiveInstances(design', NothingActive)
  BY DEF Begin
<1> QED
  BY <1>1, SyncedSelections DEF Begin, NoGen, Inv, TypeOK

LEMMA InitInv == Init => Inv
<1> SUFFICES ASSUME Init PROVE Inv
  OBVIOUS
<1>1. design \in Sources
  BY DEF Init
<1>2. /\ active \in [Modules -> Paths \cup {None}]
      /\ \A m \in Modules : active[m] \in InstancesOf[design][m] \cup {None}
  BY <1>1, SyncType DEF Init
<1>3. TypeOK
  BY <1>2 DEF Init, TypeOK, NoGen, NoAnalyses
<1> QED
  BY <1>2, <1>3 DEF Inv, SelectionsExist, AnalysesUseSelection, Init, NoAnalyses

LEMMA NextInv == Inv /\ [Next]_vars => Inv'
<1> SUFFICES ASSUME Inv, [Next]_vars PROVE Inv'
  OBVIOUS
<1> USE DEF Inv
<1>1. ASSUME NEW p \in Paths, ActivateInstance(p)
      PROVE  Inv'
  <2>1. Select(p)
    BY <1>1 DEF ActivateInstance
  <2>2. TypeOK'
    BY <1>1, <2>1, SelectKeeps DEF TypeOK, ActivateInstance, InvalidateAnalyses, NoAnalyses
  <2>3. AnalysesUseSelection'
    <3>1. CASE Succeeds(design, p)
      BY <1>1, <3>1 DEF ActivateInstance, InvalidateAnalyses, NoAnalyses, AnalysesUseSelection
    <3>2. CASE ~Succeeds(design, p)
      BY <1>1, <2>1, <3>2, FailedSelectKeeps DEF ActivateInstance, AnalysesUseSelection
    <3> QED
      BY <3>1, <3>2
  <2> QED
    BY <2>1, <2>2, <2>3, SelectKeeps
<1>2. ASSUME NEW d \in Docs, NEW p \in Paths, GotoDefinition(d, p)
      PROVE  Inv'
  <2>1. Select(p)
    BY <1>2 DEF GotoDefinition
  <2>2. /\ Succeeds(design, p) =>
             analyses' = [NoAnalyses EXCEPT ![d] = Analysis(d, design, active')]
        /\ ~Succeeds(design, p) => analyses' = [analyses EXCEPT ![d] = GetAnalysis(d)]
    BY <1>2 DEF GotoDefinition
  <2>3. /\ Analysis(d, design, active') \in Analyses
        /\ GetAnalysis(d) \in Analyses
    BY AnalysisType DEF TypeOK, GetAnalysis
  <2>4. analyses' \in [Docs -> Analyses \cup {None}]
    BY <2>2, <2>3 DEF TypeOK, NoAnalyses
  <2>5. TypeOK'
    BY <2>1, <2>4, SelectKeeps DEF TypeOK
  <2>6. AnalysesUseSelection'
    <3>1. CASE Succeeds(design, p)
      BY <2>1, <2>2, <3>1, SelectKeeps DEF NoAnalyses, AnalysesUseSelection
    <3>2. CASE ~Succeeds(design, p)
      <4> SUFFICES ASSUME ~half'
                   PROVE  AnalysesUseSelection'
        BY DEF AnalysesUseSelection
      <4>1. ~half /\ active' = active /\ design' = design
        BY <2>1, <3>2, FailedSelectKeeps
      <4> QED
        BY <2>2, <3>2, <4>1 DEF TypeOK, AnalysesUseSelection, GetAnalysis
    <3> QED
      BY <3>1, <3>2
  <2> QED
    BY <2>1, <2>5, <2>6, SelectKeeps
<1>3. ASSUME NEW d \in Docs, Query(d)
      PROVE  Inv'
  <2>1. GetAnalysis(d) \in Analyses
    BY AnalysisType DEF TypeOK, GetAnalysis
  <2>2. TypeOK' /\ SelectionsExist'
    BY <1>3, <2>1 DEF Query, TypeOK, SelectionsExist
  <2>3. AnalysesUseSelection'
    BY <1>3 DEF Query, TypeOK, AnalysesUseSelection, GetAnalysis
  <2> QED
    BY <2>2, <2>3
<1>4. ASSUME NEW d \in Docs, NEW s \in Sources, DidChange(d, s)
      PROVE  Inv'
  <2>1. Analysis(d, design, active) \in Analyses
    BY AnalysisType DEF TypeOK
  <2>2. TypeOK' /\ SelectionsExist'
    BY <1>4, <2>1 DEF DidChange, TypeOK, SelectionsExist
  <2>3. AnalysesUseSelection'
    BY <1>4 DEF DidChange, TypeOK, AnalysesUseSelection
  <2> QED
    BY <2>2, <2>3
<1>5. ASSUME NEW d \in Docs, DidSave(d)
      PROVE  Inv'
  <2>1. design' \in Sources /\ active' = SyncActiveInstances(design', active)
    BY <1>5 DEF DidSave, TypeOK
  <2>2. PICK T \in SUBSET Docs : analyses' = Refreshed(T)
    BY <1>5 DEF DidSave
  <2>3. TypeOK'
    BY <1>5, <2>1, <2>2, SyncedSelections, RefreshedAnalyses DEF DidSave, TypeOK
  <2> QED
    BY <2>1, <2>2, <2>3, SyncedSelections, RefreshedAnalyses
<1>6. ASSUME NEW s \in Sources, NewCompilation(s)
      PROVE  Inv'
  <2>1. Begin(s)
    BY <1>6 DEF NewCompilation
  <2>2. PICK T \in SUBSET Docs : analyses' = Refreshed(T)
    BY <1>6 DEF NewCompilation
  <2>3. design' \in Sources
    BY <2>1, BeginKeeps
  <2> QED
    BY <2>1, <2>2, <2>3, BeginKeeps, RefreshedAnalyses DEF TypeOK
<1>7. ASSUME NEW s \in Sources, NewTopLevel(s)
      PROVE  Inv'
  <2>1. Begin(s)
    BY <1>7 DEF NewTopLevel
  <2>2. PICK O \in MayBeOutside(s) : \E T \in SUBSET O :
          analyses' = [e \in Docs |-> IF e \in T THEN Undesigned ELSE None]
    BY <1>7 DEF NewTopLevel
  <2>3. PICK T \in SUBSET O :
          analyses' = [e \in Docs |-> IF e \in T THEN Undesigned ELSE None]
    BY <2>2
  <2>4. ASSUME NEW d \in Docs, analyses'[d] # None, NEW m \in Declares[d],
               InstancesOf[s][m] # {}
        PROVE  analyses'[d] = Undesigned /\ \E e \in Docs \ {d} : m \in Declares[e]
    <3>1. analyses'[d] = Undesigned /\ d \in O
      BY <2>3, <2>4
    <3> QED
      BY <2>2, <2>4, <3>1 DEF MayBeOutside
  <2>5. analyses' \in [Docs -> Analyses \cup {None}]
    BY <2>3, UndesignedType
  <2>6. \A d \in Docs : analyses'[d] # None => analyses'[d] = Undesigned
    BY <2>3
  <2>7. AnalysesUseSelection'
    BY <2>1, <2>4, <2>6, BeginKeeps DEF AnalysesUseSelection
  <2> QED
    BY <2>1, <2>5, <2>7, BeginKeeps DEF TypeOK
<1>8. CASE UNCHANGED vars
  BY <1>8 DEF vars, TypeOK, SelectionsExist, AnalysesUseSelection
<1> QED
  BY <1>1, <1>2, <1>3, <1>4, <1>5, <1>6, <1>7, <1>8 DEF Next

LEMMA InvAlways == Spec => []Inv
BY InitInv, NextInv, PTL DEF Spec

----------------------------------------------------------------------------
(* The theorems.                                                           *)

\* Types, and each generate array has one of its own iterations: whatever is
\* selected in whatever designs follow each other.
THEOREM TypeCorrect == Spec => []TypeOK
BY InvAlways, PTL DEF Inv

\* A selected instance is an instance of its module in the current design: no
\* refresh leaves a path behind that getActiveInstance would hand out.
THEOREM SelectionsExistTheorem == Spec => []SelectionsExist
BY InvAlways, PTL DEF Inv

\* The analyses of the documents are of the current design and of what is
\* active in it, unless a selection has failed half way; a document that is no
\* part of the design may have one that was made before it.
THEOREM AnalysesUseSelectionTheorem == Spec => []AnalysesUseSelection
BY InvAlways, PTL DEF Inv
----------------------------------------------------------------------------
(* Places in a design.                                                     *)

\* a record of the design, and the paths in it
LEMMA PathsAreNames ==
  ASSUME NEW s \in Sources, NEW p \in DOMAIN Designs[s]
  PROVE  p \in Seq(STRING) /\ Len(p) \in Nat
<1>1. p \in Seq(STRING)
  BY DesignsAssumption
<1> QED
  BY <1>1

\* A place is inside another one iff it starts with the names of that one.
LEMMA InsideIs ==
  ASSUME NEW q \in Seq(STRING), NEW p \in Seq(STRING)
  PROVE  Inside(q, p) <=> Len(q) < Len(p) /\ \A i \in 1..Len(q) : q[i] = p[i]
<1>1. Len(q) \in Nat /\ Len(p) \in Nat
  OBVIOUS
<1>2. CASE ~(Len(q) < Len(p))
  BY <1>2 DEF Inside
<1>3. CASE Len(q) < Len(p)
  <2>1. /\ SubSeq(p, 1, Len(q)) \in Seq(STRING)
        /\ Len(SubSeq(p, 1, Len(q))) = Len(q)
        /\ \A i \in 1..Len(q) : SubSeq(p, 1, Len(q))[i] = p[i]
    BY <1>1, <1>3
  <2>2. ASSUME \A i \in 1..Len(q) : q[i] = p[i]
        PROVE  SubSeq(p, 1, Len(q)) = q
    BY <2>1, <2>2, SeqEqual
  <2> QED
    BY <1>3, <2>1, <2>2 DEF Inside
<1> QED
  BY <1>2, <1>3

\* what a place is inside of, or is
At(q, p) == q = p \/ Inside(q, p)

LEMMA AtIs ==
  ASSUME NEW q \in Seq(STRING), NEW p \in Seq(STRING)
  PROVE  At(q, p) <=> Len(q) <= Len(p) /\ \A i \in 1..Len(q) : q[i] = p[i]
<1>1. Len(q) \in Nat /\ Len(p) \in Nat
  OBVIOUS
<1>2. ASSUME Len(q) = Len(p), \A i \in 1..Len(q) : q[i] = p[i]
      PROVE  q = p
  BY <1>2, SeqEqual
<1> QED
  BY <1>1, <1>2, InsideIs DEF At

\* Two places around a third with the same number of names are the same.
LEMMA SameDepth ==
  ASSUME NEW p \in Seq(STRING), NEW q \in Seq(STRING), NEW r \in Seq(STRING),
         At(q, p), At(r, p), Len(q) = Len(r)
  PROVE  q = r
<1>1. \A i \in 1..Len(q) : q[i] = r[i]
  BY AtIs
<1> QED
  BY <1>1, SeqEqual

\* Of two places around a third one is around the other.
LEMMA Nested ==
  ASSUME NEW p \in Seq(STRING), NEW q \in Seq(STRING), NEW r \in Seq(STRING),
         At(q, p), At(r, p), Len(q) < Len(r)
  PROVE  Inside(q, r)
<1>1. \A i \in 1..Len(q) : q[i] = r[i]
  BY AtIs
<1> QED
  BY <1>1, InsideIs

\* a bounded measure has a largest value
LEMMA Largest ==
  ASSUME NEW S, S # {}, NEW f \in [S -> Nat], NEW n \in Nat, \A x \in S : f[x] <= n
  PROVE  \E x \in S : \A y \in S : f[y] <= f[x]
<1> DEFINE T == {n - f[x] : x \in S}
           R == OpToRel(<, Nat)
<1>1. T \subseteq Nat /\ T # {}
  OBVIOUS
<1>2. IsWellFoundedOn(R, Nat)
  BY NatLessThanWellFounded
<1>3. \A x, y \in Nat : x < y => <<x, y>> \in R
  BY DEF OpToRel
<1> HIDE DEF R, T
<1>4. PICK t \in T : \A y \in T : <<y, t>> \notin R
  BY <1>1, <1>2, WFMin, Zenon
<1>5. PICK x \in S : t = n - f[x]
  BY <1>4 DEF T
<1>6. ASSUME NEW y \in S PROVE f[y] <= f[x]
  <2>1. n - f[y] \in T /\ n - f[y] \in Nat /\ t \in Nat
    BY <1>1, <1>4 DEF T
  <2>2. ~(n - f[y] < t)
    BY <1>3, <1>4, <2>1
  <2> QED
    BY <1>5, <2>1, <2>2
<1> QED
  BY <1>6
----------------------------------------------------------------------------
(* What a selection sets.                                                  *)

\* The chain of a place: instances that it is inside of, or is, each with its
\* own number of names.
LEMMA ChainIs ==
  ASSUME NEW s \in Sources, NEW p \in DOMAIN Designs[s]
  PROVE  /\ Chain[s][p] \subseteq Instances[s]
         /\ \A q \in Chain[s][p] : Len(q) \in Nat /\ Len(q) <= Len(p) /\ At(q, p)
         /\ \A q, r \in Chain[s][p] : Len(q) = Len(r) => q = r
<1>1. /\ Chain[s][p] = Around[s][p] \cup (Instances[s] \cap {p})
      /\ Around[s][p] = {q \in Instances[s] : Inside(q, p)}
  BY DEF Chain, Around
<1>2. Chain[s][p] \subseteq Instances[s] /\ \A q \in Chain[s][p] : At(q, p)
  BY <1>1 DEF At
<1>3. p \in Seq(STRING) /\ \A q \in Instances[s] : q \in Seq(STRING) /\ Len(q) \in Nat
  BY PathsAreNames DEF Instances
<1>4. \A q \in Chain[s][p] : Len(q) \in Nat /\ Len(q) <= Len(p)
  BY <1>2, <1>3, AtIs
<1>5. \A q, r \in Chain[s][p] : Len(q) = Len(r) => q = r
  BY <1>2, <1>3, SameDepth
<1> QED
  BY <1>2, <1>4, <1>5

\* What one instance sets, if it sets anything.
LEMMA WrittenIs ==
  ASSUME NEW s \in Sources, NEW m \in Modules, NEW q \in Instances[s], Writes(Designs[s], q, m)
  PROVE  /\ Written(Designs[s], q, m) # {}
         /\ Designs[s][q].module = m => Written(Designs[s], q, m) = {q}
         /\ Designs[s][q].module # m =>
              Written(Designs[s], q, m) \subseteq {Designs[s][q].conn[i] : i \in DOMAIN Designs[s][q].conn}
<1>1. CASE Designs[s][q].module = m
  BY <1>1 DEF Written
<1>2. CASE Designs[s][q].module # m
  <2> DEFINE c == Designs[s][q].conn
             K == Connected(Designs[s], q, m)
  <2>1. c \in Seq(Instances[s])
    BY DesignsAssumption DEF Instances
  <2>2. Len(c) \in Nat /\ DOMAIN c = 1..Len(c)
    BY <2>1
  <2>3. K # {} /\ K \subseteq 1..Len(c)
    BY <1>2, <2>2 DEF Writes, Connected
  <2>4. Written(Designs[s], q, m) = {c[i] : i \in {k \in K : \A j \in K : j <= k}}
    BY <1>2 DEF Written
  <2>5. PICK k \in K : \A j \in K : j <= k
    <3> DEFINE f == [k \in K |-> k]
    <3>1. f \in [K -> Nat] /\ \A k \in K : f[k] <= Len(c)
      BY <2>2, <2>3
    <3>2. \E k \in K : \A j \in K : f[j] <= f[k]
      <4> HIDE DEF f, K, c
      <4> QED  BY <2>2, <2>3, <3>1, Largest
    <3> QED
      BY <3>2
  <2>6. c[k] \in Written(Designs[s], q, m)
    BY <2>4, <2>5
  <2>7. Written(Designs[s], q, m) \subseteq {c[i] : i \in DOMAIN c}
    BY <2>2, <2>3, <2>4
  <2> QED
    BY <1>2, <2>6, <2>7
<1> QED
  BY <1>1, <1>2

\* chains, the last of which is that of p
EndsIn(s, cs, p) ==
  cs \in Seq(SUBSET Instances[s]) /\ cs # <<>> /\ cs[Len(cs)] = Chain[s][p]

\* the deepest instance in p's chain that has anything for m
Decides(s, p, m, q) ==
  /\ q \in Chain[s][p] /\ Writes(Designs[s], q, m)
  /\ \A r \in Chain[s][p] : Writes(Designs[s], r, m) => Len(r) <= Len(q)

\* The deepest instance of the last chain decides.
LEMMA LastWriterIs ==
  ASSUME NEW s \in Sources, NEW p \in DOMAIN Designs[s], NEW m \in Modules,
         NEW cs, EndsIn(s, cs, p), NEW o \in Chain[s][p], Writes(Designs[s], o, m)
  PROVE  \E q : Decides(s, p, m, q) /\ LastWriters(s, cs, m) = {<<Len(cs), q>>}
<1>0. cs \in Seq(SUBSET Instances[s]) /\ cs # <<>> /\ cs[Len(cs)] = Chain[s][p]
  BY DEF EndsIn
<1> DEFINE N == Len(cs)
           C == Chain[s][p]
           V == {q \in C : Writes(Designs[s], q, m)}
           f == [q \in V |-> Len(q)]
           W == {w \in (DOMAIN cs) \X Instances[s] :
                   w[2] \in cs[w[1]] /\ Writes(Designs[s], w[2], m)}
<1>1. N \in Nat /\ N \in DOMAIN cs /\ \A i \in DOMAIN cs : i \in Nat /\ i <= N
  BY <1>0
<1>2. /\ C \subseteq Instances[s]
      /\ \A q \in C : Len(q) \in Nat /\ Len(q) <= Len(p)
      /\ \A q, r \in C : Len(q) = Len(r) => q = r
      /\ Len(p) \in Nat
  BY ChainIs, PathsAreNames
<1>3. V # {} /\ f \in [V -> Nat] /\ \A q \in V : f[q] <= Len(p)
  BY <1>2
<1>4. PICK q \in V : \A r \in V : f[r] <= f[q]
  <2> HIDE DEF V, f
  <2> QED  BY <1>2, <1>3, Largest
<1>5. \A r \in V : Len(r) <= Len(q)
  BY <1>4
<1>6. <<N, q>> \in W /\ \A w \in W : w[1] \in Nat /\ w[1] <= N /\ (w[1] = N => w[2] \in V)
  BY <1>0, <1>1, <1>2
<1>7. LastWriters(s, cs, m) =
        {w \in W : \A v \in W : v[1] < w[1] \/ (v[1] = w[1] /\ Len(v[2]) <= Len(w[2]))}
  BY DEF LastWriters
<1>8. \A r \in V : Len(r) \in Nat
  BY <1>2
<1> HIDE DEF W, N
<1>9. <<N, q>> \in LastWriters(s, cs, m)
  <2> SUFFICES ASSUME NEW v \in W
               PROVE  v[1] < N \/ (v[1] = N /\ Len(v[2]) <= Len(q))
    BY <1>6, <1>7
  <2>1. CASE v[1] = N
    BY <1>5, <1>6, <2>1
  <2>2. CASE v[1] # N
    BY <1>1, <1>6, <2>2
  <2> QED
    BY <2>1, <2>2
<1>10. ASSUME NEW w \in LastWriters(s, cs, m)
       PROVE  w = <<N, q>>
  <2>1. /\ w \in W
        /\ N < w[1] \/ (N = w[1] /\ Len(q) <= Len(w[2]))
    BY <1>6, <1>7
  <2>2. w[1] = N /\ w[2] \in V /\ Len(q) <= Len(w[2])
    BY <1>1, <1>6, <2>1
  <2>3. Len(w[2]) = Len(q)
    BY <1>5, <1>8, <2>2
  <2>4. w[2] = q
    BY <1>2, <2>2, <2>3
  <2>5. w = <<w[1], w[2]>>
    BY <2>1 DEF W
  <2> QED
    BY <2>2, <2>4, <2>5
<1>11. LastWriters(s, cs, m) = {<<N, q>>}
  BY <1>9, <1>10
<1>12. Decides(s, p, m, q)
  BY <1>5 DEF Decides
<1> QED
  BY <1>11, <1>12 DEF N
\* the end of three sequences joined
LEMMA JoinedEnd ==
  ASSUME NEW S, NEW x \in S, NEW v \in Seq(S), NEW y \in S
  PROVE  /\ <<x>> \o v \in Seq(S) /\ <<x>> \o v # <<>>
         /\ Len(<<x>> \o v) = 1 + Len(v)
         /\ v # <<>> => (<<x>> \o v)[Len(<<x>> \o v)] = v[Len(v)]
         /\ <<x>> \o v \o <<y>> \in Seq(S) /\ <<x>> \o v \o <<y>> # <<>>
         /\ (<<x>> \o v \o <<y>>)[Len(<<x>> \o v \o <<y>>)] = y
<1>1. <<x>> \in Seq(S) /\ <<y>> \in Seq(S) /\ Len(<<x>>) = 1 /\ Len(<<y>>) = 1 /\ <<y>>[1] = y
  OBVIOUS
<1>2. PICK z : z = <<x>> \o v
  OBVIOUS
<1>3. /\ z \in Seq(S) /\ Len(z) = 1 + Len(v) /\ Len(v) \in Nat
      /\ \A i \in 1..(1 + Len(v)) : z[i] = IF i <= 1 THEN <<x>>[i] ELSE v[i - 1]
  BY <1>1, <1>2, ConcatProperties
<1>4. z # <<>>
  BY <1>3
<1>5. v # <<>> => z[Len(z)] = v[Len(v)]
  BY <1>3
<1>6. PICK w : w = z \o <<y>>
  OBVIOUS
<1>7. /\ w \in Seq(S) /\ Len(w) = Len(z) + 1
      /\ \A i \in 1..(Len(z) + 1) : w[i] = IF i <= Len(z) THEN z[i] ELSE <<y>>[i - Len(z)]
  BY <1>1, <1>3, <1>6, ConcatProperties
<1>8. w # <<>> /\ w[Len(w)] = y
  BY <1>1, <1>3, <1>7
<1> QED
  BY <1>2, <1>3, <1>4, <1>5, <1>6, <1>7, <1>8

\* A selection that succeeds ends at a symbol of the design.
LEMMA TargetIs ==
  ASSUME NEW s \in Sources, NEW p, Succeeds(s, p)
  PROVE  p \in DOMAIN Designs[s] /\ Target(s, p) \in DOMAIN Designs[s]
<1>1. p \in DOMAIN Designs[s] /\ Target(s, p) # None
  BY DEF Succeeds
<1>2. Designs[s][p].kind = "port" => Designs[s][p].end \in DOMAIN Designs[s] \cup {None}
  BY <1>1, DesignsAssumption
<1> QED
  BY <1>1, <1>2 DEF Target

\* The chain of that symbol is the last one to be set.
LEMMA LastChain ==
  ASSUME NEW s \in Sources, NEW p, Succeeds(s, p)
  PROVE  EndsIn(s, Chains(s, p), Target(s, p))
<1> DEFINE D == Designs[s]
           S == SUBSET Instances[s]
<1>1. p \in DOMAIN D /\ Target(s, p) \in DOMAIN D /\ Target(s, p) # None
  BY TargetIs DEF Succeeds
<1>2. \A q \in DOMAIN D : Chain[s][q] \in S
  BY ChainIs
<1>3. CASE D[p].kind # "port"
  <2>1. Chains(s, p) = <<Chain[s][p]>> /\ Target(s, p) = p
    BY <1>3 DEF Chains, Target
  <2>2. Chain[s][p] \in S
    BY <1>1, <1>2
  <2> HIDE DEF S, D
  <2>3. <<Chain[s][p]>> \in Seq(S) /\ Len(<<Chain[s][p]>>) = 1
    BY <2>2
  <2> QED
    BY <2>1, <2>3 DEF EndsIn, S
<1>4. CASE D[p].kind = "port"
  <2> DEFINE via == [i \in DOMAIN D[p].via |->
                       IF D[D[p].via[i]].kind = "port" THEN Chain[s][D[p].via[i]] ELSE {}]
  <2>1. D[p].via \in Seq(DOMAIN D)
    BY <1>1, <1>4, DesignsAssumption
  <2>2. via \in Seq(S)
    <3>1. \A i \in DOMAIN D[p].via : D[p].via[i] \in DOMAIN D
      BY <2>1
    <3>2. \A i \in DOMAIN D[p].via :
            (IF D[D[p].via[i]].kind = "port" THEN Chain[s][D[p].via[i]] ELSE {}) \in S
      BY <1>2, <3>1
    <3>3. DOMAIN D[p].via = 1..Len(D[p].via) /\ Len(D[p].via) \in Nat
      BY <2>1
    <3>4. via \in [1..Len(D[p].via) -> S]
      BY <3>2, <3>3
    <3> HIDE DEF via
    <3> QED
      BY <3>3, <3>4
  <2>3. Target(s, p) = D[p].end /\ D[p].end # None
    BY <1>1, <1>4, SMTT(30) DEF Target
  <2>4. Chains(s, p) = <<Chain[s][p]>> \o via \o <<Chain[s][Target(s, p)]>>
    BY <1>4, <2>3 DEF Chains
  <2>5. Chain[s][p] \in S /\ Chain[s][Target(s, p)] \in S
    BY <1>1, <1>2
  <2> HIDE DEF via, S
  <2>6. /\ Chains(s, p) \in Seq(S) /\ Chains(s, p) # <<>>
        /\ Chains(s, p)[Len(Chains(s, p))] = Chain[s][Target(s, p)]
    BY <2>2, <2>4, <2>5, JoinedEnd
  <2> QED
    BY <2>6 DEF EndsIn, S
<1> QED
  BY <1>3, <1>4

\* What a selection sets for a module that its last chain has something for.
LEMMA InstanceSetIs ==
  ASSUME NEW s \in Sources, NEW p, Succeeds(s, p), NEW m \in Modules,
         NEW o \in Chain[s][Target(s, p)], Writes(Designs[s], o, m)
  PROVE  \E q : Decides(s, Target(s, p), m, q) /\ InstanceSet[s][p][m] \in Written(Designs[s], q, m)
<1>1. p \in DOMAIN Designs[s] /\ Target(s, p) \in DOMAIN Designs[s]
  BY TargetIs
<1>2. EndsIn(s, Chains(s, p), Target(s, p))
  BY LastChain
<1>3. InstanceSet[s][p][m] =
        OneOf(UNION {Written(Designs[s], w[2], m) : w \in LastWriters(s, Chains(s, p), m)})
  BY <1>1 DEF InstanceSet
<1>5. PICK q : /\ Decides(s, Target(s, p), m, q)
               /\ LastWriters(s, Chains(s, p), m) = {<<Len(Chains(s, p)), q>>}
  BY <1>1, <1>2, LastWriterIs
<1>6. UNION {Written(Designs[s], w[2], m) : w \in LastWriters(s, Chains(s, p), m)}
        = Written(Designs[s], q, m)
  BY <1>5
<1>7. q \in Instances[s] /\ Writes(Designs[s], q, m)
  BY <1>1, <1>5, ChainIs DEF Decides
<1>8. Written(Designs[s], q, m) # {}
  BY <1>7, WrittenIs
<1>9. InstanceSet[s][p][m] \in Written(Designs[s], q, m)
  BY <1>3, <1>6, <1>8, OneOfMember
<1> QED
  BY <1>5, <1>9

\* The innermost instance decides on what it has something for.
LEMMA InnermostDecides ==
  ASSUME NEW s \in Sources, NEW t \in DOMAIN Designs[s], NEW m,
         NEW q \in Innermost(Chain[s][t]), Writes(Designs[s], q, m),
         NEW r, Decides(s, t, m, r)
  PROVE  r = q
<1>1. /\ q \in Chain[s][t] /\ r \in Chain[s][t]
      /\ Len(r) <= Len(q) /\ Len(q) <= Len(r)
  BY DEF Innermost, Decides
<1>2. Len(q) \in Nat /\ Len(r) \in Nat
  BY <1>1, ChainIs
<1>3. Len(q) = Len(r)
  BY <1>1, <1>2
<1> QED
  BY <1>1, <1>3, ChainIs

\* The last selection, as long as it is remembered, has taken effect: what it
\* sets is still set, because a refresh or a failure forgets it.
Took ==
  selected # None =>
    /\ Succeeds(design, selected)
    /\ \A m \in Modules : InstanceSet[design][selected][m] \in {None, active[m]}
    /\ \A a \in ArrayPaths : ScopeSet[design][selected][a] \in {None, gen[a]}

LEMMA SelectTook ==
  ASSUME TypeOK, NEW p \in Paths, Select(p)
  PROVE  Took'
<1>1. design' = design /\ selected' = IF Succeeds(design, p) THEN p ELSE None
  BY DEF Select
<1>2. CASE ~Succeeds(design, p)
  BY <1>1, <1>2 DEF Took
<1>3. CASE Succeeds(design, p)
  <2>1. p \in DOMAIN Designs[design]
    BY <1>3 DEF Succeeds
  <2>2. /\ active' = [m \in Modules |-> IF InstanceSet[design][p][m] = None
                                         THEN active[m] ELSE InstanceSet[design][p][m]]
        /\ gen' = [a \in ArrayPaths |-> IF ScopeSet[design][p][a] = None
                                        THEN gen[a] ELSE ScopeSet[design][p][a]]
    BY <2>1 DEF Select, Overlay, TypeOK
  <2>3. /\ \A m \in Modules : InstanceSet[design][p][m] \in {None, active'[m]}
        /\ \A a \in ArrayPaths : ScopeSet[design][p][a] \in {None, gen'[a]}
    BY <2>2
  <2>4. selected' = p /\ Succeeds(design', selected')
    BY <1>1, <1>3
  <2> QED
    BY <1>1, <2>3, <2>4 DEF Took
<1> QED
  BY <1>2, <1>3

LEMMA InitTook == Init => Took
BY DEF Init, Took

LEMMA NextTook == TypeOK /\ Took /\ [Next]_vars => Took'
<1> SUFFICES ASSUME TypeOK, Took, [Next]_vars PROVE Took'
  OBVIOUS
<1>1. ASSUME NEW p \in Paths, ActivateInstance(p) PROVE Took'
  BY <1>1, SelectTook DEF ActivateInstance
<1>2. ASSUME NEW d \in Docs, NEW p \in Paths, GotoDefinition(d, p) PROVE Took'
  BY <1>2, SelectTook DEF GotoDefinition
<1>3. ASSUME NEW d \in Docs, Query(d) PROVE Took'
  BY <1>3 DEF Query, Took
<1>4. ASSUME NEW d \in Docs, NEW s \in Sources, DidChange(d, s) PROVE Took'
  BY <1>4 DEF DidChange, Took
<1>5. ASSUME NEW d \in Docs, DidSave(d) PROVE Took'
  BY <1>5 DEF DidSave, Took
<1>6. ASSUME NEW s \in Sources, NewCompilation(s) PROVE Took'
  BY <1>6 DEF NewCompilation, Begin, Took
<1>7. ASSUME NEW s \in Sources, NewTopLevel(s) PROVE Took'
  BY <1>7 DEF NewTopLevel, Begin, Took
<1>8. CASE UNCHANGED vars
  BY <1>8 DEF vars, Took
<1> QED
  BY <1>1, <1>2, <1>3, <1>4, <1>5, <1>6, <1>7, <1>8 DEF Next

LEMMA TookAlways == Spec => []Took
BY InitTook, NextTook, TypeCorrect, PTL DEF Spec

\* What a module's active instance is after a selection that had something
\* for the module: a value that is set is the value there is.
LEMMA TookInstance ==
  ASSUME TypeOK, Took, selected # None, NEW m \in Modules,
         NEW o \in Chain[design][Target(design, selected)], Writes(Designs[design], o, m)
  PROVE  \E q : /\ Decides(design, Target(design, selected), m, q)
                /\ active[m] \in Written(Designs[design], q, m)
<1>1. design \in Sources /\ Succeeds(design, selected)
  BY DEF TypeOK, Took
<1>2. PICK q : /\ Decides(design, Target(design, selected), m, q)
               /\ InstanceSet[design][selected][m] \in Written(Designs[design], q, m)
  BY <1>1, InstanceSetIs
<1>3. q \in Instances[design]
  BY <1>1, <1>2, TargetIs, ChainIs DEF Decides
<1>4. InstanceSet[design][selected][m] \in InstancesOf[design][m]
  BY <1>1, <1>2, <1>3, WrittenType
<1>5. InstanceSet[design][selected][m] # None
  BY <1>1, <1>4, InstancesArePaths
<1>6. InstanceSet[design][selected][m] = active[m]
  BY <1>5 DEF Took
<1> QED
  BY <1>2, <1>6

\* After setActiveInstance of a path, the instance there or around it is
\* active, and so are instances on the way down to it and interfaces that it
\* is connected to, whatever chains the connection of a port goes through.
THEOREM LastSelectionTheorem == Spec => []LastSelectionIsActive
<1>1. ASSUME TypeOK, Took, selected # None,
             NEW q \in Innermost(Chain[design][Target(design, selected)])
      PROVE  LET D == Designs[design]
                 C == Chain[design][Target(design, selected)]
                 Of(S) == {D[r].module : r \in S}
                 Conn(S) == UNION {{D[r].conn[i] : i \in DOMAIN D[r].conn} : r \in S}
             IN  /\ active[D[q].module] = q
                 /\ \A m \in Of(C) \ Of(Conn(C)) : active[m] \in C
                 /\ \A m \in Of(Conn({q})) \ {D[q].module} : active[m] \in Conn({q})
  <2> DEFINE D == Designs[design]
             t == Target(design, selected)
             C == Chain[design][t]
             Of(S) == {D[r].module : r \in S}
             Conn(S) == UNION {{D[r].conn[i] : i \in DOMAIN D[r].conn} : r \in S}
  <2>1. design \in Sources /\ t \in DOMAIN D
    BY <1>1, TargetIs DEF TypeOK, Took
  <2>2. C \subseteq Instances[design] /\ q \in C
    BY <1>1, <2>1, ChainIs DEF Innermost
  <2>3. \A r \in C : D[r].module \in Modules /\ D[r].conn \in Seq(Instances[design])
    BY <2>1, <2>2, DesignsAssumption DEF Instances
  <2>4. active[D[q].module] = q
    <3>1. Writes(D, q, D[q].module) /\ D[q].module \in Modules
      BY <2>2, <2>3 DEF Writes
    <3>2. PICK r : Decides(design, t, D[q].module, r) /\ active[D[q].module] \in Written(D, r, D[q].module)
      BY <1>1, <2>2, <3>1, TookInstance
    <3>3. r = q
      BY <1>1, <2>1, <3>1, <3>2, InnermostDecides
    <3>4. Written(D, q, D[q].module) = {q}
      BY DEF Written
    <3> QED
      BY <3>2, <3>3, <3>4
  <2>5. ASSUME NEW m \in Of(C) \ Of(Conn(C)) PROVE active[m] \in C
    <3>1. PICK o \in C : D[o].module = m
      BY <2>5
    <3>2. m \in Modules /\ Writes(D, o, m)
      BY <2>3, <3>1 DEF Writes
    <3>3. PICK r : Decides(design, t, m, r) /\ active[m] \in Written(D, r, m)
      BY <1>1, <3>1, <3>2, TookInstance
    <3>4. r \in C /\ Writes(D, r, m)
      BY <3>3 DEF Decides
    <3>5. D[r].module = m
      <4> SUFFICES ASSUME D[r].module # m PROVE FALSE
        OBVIOUS
      <4>1. PICK i \in DOMAIN D[r].conn : D[D[r].conn[i]].module = m
        BY <3>4 DEF Writes, Connected
      <4>2. D[r].conn[i] \in Conn(C)
        BY <3>4
      <4>3. m \in Of(Conn(C))
        BY <4>1, <4>2
      <4> QED
        BY <2>5, <4>3
    <3> QED
      BY <2>1, <2>2, <3>2, <3>3, <3>4, <3>5, WrittenIs, SMTT(30)
  <2>6. ASSUME NEW m \in Of(Conn({q})) \ {D[q].module} PROVE active[m] \in Conn({q})
    <3>1. PICK i \in DOMAIN D[q].conn : D[D[q].conn[i]].module = m
      BY <2>6
    <3>2. D[q].conn[i] \in Instances[design]
      BY <2>2, <2>3
    <3>3. m \in Modules /\ Writes(D, q, m)
      BY <2>1, <3>1, <3>2, DesignsAssumption DEF Writes, Connected, Instances
    <3>4. PICK r : Decides(design, t, m, r) /\ active[m] \in Written(D, r, m)
      BY <1>1, <2>2, <3>3, TookInstance
    <3>5. r = q
      BY <1>1, <2>1, <3>3, <3>4, InnermostDecides
    <3>6. active[m] \in {D[q].conn[j] : j \in DOMAIN D[q].conn}
      BY <2>1, <2>2, <2>6, <3>3, <3>4, <3>5, WrittenIs
    <3> QED
      BY <3>6
  <2> QED
    BY <2>4, <2>5, <2>6
<1>2. TypeOK /\ Took => LastSelectionIsActive
  BY <1>1 DEF LastSelectionIsActive
<1> QED
  BY <1>2, TypeCorrect, TookAlways, PTL
----------------------------------------------------------------------------
(* The loops around a place that is selected.                              *)

\* An iteration around a place: a block of an array, with the array's number
\* of names, deeper than the instances around the place.
LEMMA ScopeIs ==
  ASSUME NEW s \in Sources, NEW p \in DOMAIN Designs[s], NEW b \in ScopesAround[s][p]
  PROVE  /\ b \in Blocks[s] /\ b \in DOMAIN Designs[s] /\ At(b, p)
         /\ Designs[s][b].array \in Arrays[s] /\ Designs[s][b].array \in ArrayPaths
         /\ \E i \in DOMAIN Designs[s][Designs[s][b].array].entries :
              Designs[s][Designs[s][b].array].entries[i] = b
         /\ Len(b) = Len(Designs[s][b].array)
         /\ \A i \in 1..(Len(b) - 1) : b[i] = Designs[s][b].array[i]
         /\ \A q \in Around[s][p] : Len(q) < Len(b)
<1>1. /\ b \in Blocks[s] /\ Designs[s][b].array # None
      /\ b = p \/ Inside(b, p)
      /\ \A q \in Around[s][p] : Len(q) < Len(b)
  BY DEF ScopesAround
<1>2. b \in DOMAIN Designs[s] /\ Designs[s][b].kind = "block"
  BY <1>1 DEF Blocks
<1>3. Designs[s][b].array \in Arrays[s]
  BY <1>1, <1>2, DesignsAssumption
<1>4. Designs[s][b].array \in ArrayPaths
  BY <1>3 DEF ArrayPaths
<1>5. /\ \E i \in DOMAIN Designs[s][Designs[s][b].array].entries :
           Designs[s][Designs[s][b].array].entries[i] = b
      /\ Len(b) = Len(Designs[s][b].array)
      /\ \A i \in 1..(Len(b) - 1) : b[i] = Designs[s][b].array[i]
  BY <1>1, <1>2, DesignsAssumption
<1> QED
  BY <1>1, <1>2, <1>3, <1>4, <1>5 DEF At

\* A place is in one iteration of an array at most.
LEMMA OneIteration ==
  ASSUME NEW s \in Sources, NEW p \in DOMAIN Designs[s],
         NEW b \in ScopesAround[s][p], NEW c \in ScopesAround[s][p],
         Designs[s][b].array = Designs[s][c].array
  PROVE  b = c
<1>1. At(b, p) /\ At(c, p) /\ Len(b) = Len(c) /\ b \in DOMAIN Designs[s] /\ c \in DOMAIN Designs[s]
  BY ScopeIs
<1> QED
  BY <1>1, PathsAreNames, SameDepth

\* The symbol that the selection ends at is the last one of those whose scopes
\* are set.
LEMMA LastSymbol ==
  ASSUME NEW s \in Sources, NEW p, Succeeds(s, p)
  PROVE  /\ ScopeSymbols(s, p) \in Seq(DOMAIN Designs[s]) /\ ScopeSymbols(s, p) # <<>>
         /\ ScopeSymbols(s, p)[Len(ScopeSymbols(s, p))] = Target(s, p)
<1> DEFINE D == Designs[s]
           S == DOMAIN Designs[s]
           us == ScopeSymbols(s, p)
<1>1. p \in S /\ Target(s, p) \in S
  BY TargetIs
<1> HIDE DEF S
<1>2. CASE D[p].kind # "port"
  <2>1. us = <<p>> /\ Target(s, p) = p
    BY <1>2 DEF ScopeSymbols, Target
  <2>2. <<p>> \in Seq(S) /\ Len(<<p>>) = 1
    BY <1>1
  <2> HIDE DEF us, D
  <2> QED
    BY <2>1, <2>2 DEF us, S
<1>3. CASE D[p].kind = "port"
  <2> DEFINE via == D[p].via
             e == D[p].end
  <2>1. e = Target(s, p) /\ e # None /\ e \in S
    BY <1>1, <1>3 DEF Target, Succeeds
  <2>2. /\ via \in Seq(S)
        /\ (\E i \in DOMAIN via : via[i] = e) => via[Len(via)] = e
    BY <1>1, <1>3, DesignsAssumption DEF S
  <2>3. us = <<p>> \o via \o (IF \E i \in DOMAIN via : via[i] = e THEN <<>> ELSE <<e>>)
    BY <1>3, <2>1 DEF ScopeSymbols
  <2> HIDE DEF us, via, e, D
  <2>4. CASE \E i \in DOMAIN via : via[i] = e
    <3>1. via # <<>> /\ via[Len(via)] = e
      BY <2>2, <2>4
    <3>2. us = <<p>> \o via \o <<>>
      BY <2>3, <2>4
    <3>3. /\ <<p>> \o via \in Seq(S) /\ <<p>> \o via # <<>>
          /\ (<<p>> \o via)[Len(<<p>> \o via)] = via[Len(via)]
      BY <1>1, <2>1, <2>2, <3>1, JoinedEnd
    <3>4. us = <<p>> \o via
      BY <3>2, <3>3, ConcatEmptySeq
    <3> QED
      BY <2>1, <3>1, <3>3, <3>4 DEF us, S
  <2>5. CASE ~\E i \in DOMAIN via : via[i] = e
    <3>1. us = <<p>> \o via \o <<e>>
      BY <2>3, <2>5
    <3>2. /\ <<p>> \o via \o <<e>> \in Seq(S) /\ <<p>> \o via \o <<e>> # <<>>
          /\ (<<p>> \o via \o <<e>>)[Len(<<p>> \o via \o <<e>>)] = e
      BY <1>1, <2>1, <2>2, JoinedEnd
    <3> QED
      BY <2>1, <3>1, <3>2 DEF us, S
  <2> QED
    BY <2>4, <2>5
<1> QED
  BY <1>2, <1>3

\* So the iterations around that symbol are what the selection sets.
LEMMA ScopeSetIs ==
  ASSUME NEW s \in Sources, NEW p, Succeeds(s, p), NEW b \in ScopesAround[s][Target(s, p)]
  PROVE  ScopeSet[s][p][Designs[s][b].array] = b
<1> DEFINE us == ScopeSymbols(s, p)
           a == Designs[s][b].array
           t == Target(s, p)
           N == Len(us)
           found == {w \in (DOMAIN us) \X Blocks[s] :
                       w[2] \in ScopesAround[s][us[w[1]]] /\ Designs[s][w[2]].array = a}
<1>1. p \in DOMAIN Designs[s] /\ t \in DOMAIN Designs[s] /\ b \in Blocks[s] /\ a \in ArrayPaths
  BY TargetIs, ScopeIs
<1>2. /\ N \in DOMAIN us /\ N \in Nat /\ us[N] = t
      /\ \A i \in DOMAIN us : i \in Nat /\ i <= N
  <2>1. us \in Seq(DOMAIN Designs[s]) /\ us # <<>> /\ us[N] = t
    BY LastSymbol
  <2> HIDE DEF us
  <2> QED
    BY <2>1
<1>3. <<N, b>> \in found
  BY <1>1, <1>2
<1>4. \A w \in found : w[1] \in Nat /\ w[1] <= N /\ w = <<w[1], w[2]>>
  BY <1>2
<1>5. \A w \in found : w[1] = N => w[2] = b
  BY <1>1, <1>2, OneIteration
<1>6. LastScopes(s, us, a) = {w \in found : \A v \in found : v[1] <= w[1]}
  BY DEF LastScopes
<1> HIDE DEF found, us, N
<1>7. LastScopes(s, us, a) = {<<N, b>>}
  <2>1. <<N, b>> \in LastScopes(s, us, a)
    BY <1>3, <1>4, <1>6
  <2>2. ASSUME NEW w \in LastScopes(s, us, a) PROVE w = <<N, b>>
    <3>1. w \in found /\ N <= w[1]
      BY <1>3, <1>6
    <3>2. w[1] = N
      BY <1>2, <1>4, <3>1
    <3> QED
      BY <1>4, <1>5, <3>1, <3>2
  <2> QED
    BY <2>1, <2>2
<1>8. ScopeSet[s][p][a] = OneOf({w[2] : w \in LastScopes(s, us, a)})
  BY <1>1 DEF ScopeSet, us
<1>9. {w[2] : w \in LastScopes(s, us, a)} = {b}
  BY <1>7
<1>10. OneOf({b}) \in {b}
  BY OneOfMember
<1> QED
  BY <1>8, <1>9, <1>10
\* An array, the iterations around which are all selected, is the one of its
\* loop that is shown: every other one is in an iteration that is not.
LEMMA ChosenArray ==
  ASSUME NEW s \in Sources, NEW g, NEW a \in Arrays[s], NEW q \in Innermost(Around[s][a]),
         \A b \in ScopesAround[s][a] : g[Designs[s][b].array] = b
  PROVE  LET as == ArraysOfLoop(s, q, Designs[s][a].loop)
         IN  a \in as /\ ChooseGenerateArray(s, g, as) = a
<1> DEFINE as == ArraysOfLoop(s, q, Designs[s][a].loop)
<1>1. a \in as
  BY DEF ArraysOfLoop
<1>2. ~OffSelection(s, g, a)
  BY DEF OffSelection
<1>3. ASSUME NEW x \in as, x # a PROVE OffSelection(s, g, x)
  <2>1. x \in Arrays[s] /\ Designs[s][x].loop = Designs[s][a].loop /\ q \in Innermost(Around[s][x])
    BY <1>3 DEF ArraysOfLoop
  <2>2. Innermost(Around[s][a]) \cap Innermost(Around[s][x]) # {}
    BY <2>1
  <2>3. PICK b1 \in ScopesAround[s][a], b2 \in ScopesAround[s][x] :
          b1 # b2 /\ Designs[s][b1].array = Designs[s][b2].array
    BY <1>3, <2>1, <2>2, LoopsAssumption, Zenon
  <2>4. a \in DOMAIN Designs[s]
    BY DEF Arrays
  <2>5. b1 \in DOMAIN Designs[s]
    BY <2>4, ScopeIs
  <2>6. b1 # None
    BY <2>5, NoneAssumption DEF Paths
  <2>7. g[Designs[s][b2].array] = b1
    BY <2>3
  <2> QED
    BY <2>3, <2>6, <2>7 DEF OffSelection
<1>4. Better(s, g, a, a)
  <2>1. Designs[s][a].rank \in Nat
    BY DesignsAssumption DEF Arrays
  <2>2. Designs[s][a].rank <= Designs[s][a].rank
    BY <2>1
  <2> QED
    BY <2>2, Zenon DEF Better
<1>5. ASSUME NEW x \in as, x # a PROVE Better(s, g, a, x) /\ ~Better(s, g, x, a)
  BY <1>2, <1>3, <1>5, Zenon DEF Better
<1> HIDE DEF as
<1>6. \A x \in as : Better(s, g, a, x)
  BY <1>4, <1>5
<1>7. (CHOOSE x \in as : \A y \in as : Better(s, g, x, y)) = a
  <2>1. \E x \in as : \A y \in as : Better(s, g, x, y)
    BY <1>1, <1>6
  <2>2. PICK z : z = CHOOSE x \in as : \A y \in as : Better(s, g, x, y)
    OBVIOUS
  <2>3. z \in as /\ \A y \in as : Better(s, g, z, y)
    BY <2>1, <2>2, Zenon
  <2>4. z = a
    BY <1>1, <1>5, <2>3
  <2> QED
    BY <2>2, <2>4
<1>8. ChooseGenerateArray(s, g, as) = a
  BY <1>7 DEF ChooseGenerateArray
<1> QED
  BY <1>1, <1>8 DEF as

LEMMA LoopShown ==
  ASSUME NEW s \in Sources, NEW g, NEW a \in Arrays[s], NEW q \in Innermost(Around[s][a]),
         \A b \in ScopesAround[s][a] : g[Designs[s][b].array] = b,
         \E i \in DOMAIN Designs[s][a].entries : Designs[s][a].entries[i] = g[a],
         NEW act, NEW m, GetActiveInstanceSymbol(s, act, m) = q
  PROVE  GetActiveGenerateLoop(s, act, g, m, Designs[s][a].loop) = g[a]
<1> DEFINE as == ArraysOfLoop(s, q, Designs[s][a].loop)
<1>1. a \in as /\ ChooseGenerateArray(s, g, as) = a
  BY ChosenArray
<1>2. GetActiveGenerateLoop(s, act, g, m, Designs[s][a].loop) = LoopOf(s, g, as)
  BY DEF GetActiveGenerateLoop
<1> HIDE DEF as
<1>3. LoopOf(s, g, as) = IterationShown(g, a, Designs[s][a].entries)
  BY <1>1 DEF LoopOf
<1>4. IterationShown(g, a, Designs[s][a].entries) = g[a]
  BY DEF IterationShown
<1> QED
  BY <1>2, <1>3, <1>4

\* Around an array there is what is around the place in one of its iterations.
LEMMA AroundArray ==
  ASSUME NEW s \in Sources, NEW p \in DOMAIN Designs[s], NEW b \in ScopesAround[s][p]
  PROVE  /\ Around[s][Designs[s][b].array] = Around[s][p]
         /\ ScopesAround[s][Designs[s][b].array] \subseteq ScopesAround[s][p]
<1> DEFINE a == Designs[s][b].array
<1>1. /\ b \in DOMAIN Designs[s] /\ At(b, p) /\ a \in Arrays[s]
      /\ Len(b) = Len(a) /\ \A i \in 1..(Len(b) - 1) : b[i] = a[i]
      /\ \A q \in Around[s][p] : Len(q) < Len(b)
  BY ScopeIs
<1>2. a \in DOMAIN Designs[s] /\ Designs[s][a].kind = "array"
  BY <1>1 DEF Arrays
<1>3. /\ p \in Seq(STRING) /\ b \in Seq(STRING) /\ a \in Seq(STRING)
      /\ Len(p) \in Nat /\ Len(b) \in Nat /\ Len(a) \in Nat
  BY <1>1, <1>2, PathsAreNames
<1>4. /\ Around[s][p] = {q \in Instances[s] : Inside(q, p)}
      /\ Around[s][a] = {q \in Instances[s] : Inside(q, a)}
  BY <1>2 DEF Around
<1> HIDE DEF a
<1>5. ASSUME NEW x \in Seq(STRING)
      PROVE  /\ Inside(x, a) => Inside(x, p) /\ Len(x) < Len(b)
             /\ Inside(x, p) /\ Len(x) < Len(b) => Inside(x, a)
  <2>1. Len(x) \in Nat
    OBVIOUS
  <2>2. /\ Inside(x, a) <=> Len(x) < Len(a) /\ \A i \in 1..Len(x) : x[i] = a[i]
        /\ Inside(x, p) <=> Len(x) < Len(p) /\ \A i \in 1..Len(x) : x[i] = p[i]
    BY <1>3, InsideIs
  <2>3. Len(b) <= Len(p) /\ \A i \in 1..Len(b) : b[i] = p[i]
    BY <1>1, <1>3, AtIs
  <2>4. ASSUME Len(x) < Len(b) PROVE \A i \in 1..Len(x) : a[i] = p[i]
    BY <1>1, <1>3, <2>1, <2>3, <2>4
  <2> QED
    BY <1>1, <1>3, <2>1, <2>2, <2>3, <2>4
<1>6. \A q \in Instances[s] : q \in Seq(STRING)
  BY PathsAreNames DEF Instances
<1>7. Around[s][a] = Around[s][p]
  BY <1>1, <1>4, <1>5, <1>6
<1>8. ASSUME NEW c \in ScopesAround[s][a] PROVE c \in ScopesAround[s][p]
  <2>1. /\ c \in Blocks[s]
        /\ Designs[s][c].array # None
        /\ (c = a \/ Inside(c, a))
        /\ \A q \in Around[s][a] : Len(q) < Len(c)
    BY <1>2, <1>8 DEF ScopesAround
  <2>2. c \in DOMAIN Designs[s] /\ Designs[s][c].kind = "block"
    BY <2>1 DEF Blocks
  <2>3. c # a
    BY <1>2, <2>2
  <2>4. c \in Seq(STRING)
    BY <2>2, PathsAreNames
  <2>5. Inside(c, p)
    BY <1>5, <2>1, <2>3, <2>4
  <2> QED
    BY <1>7, <2>1, <2>5 DEF ScopesAround
<1> QED
  BY <1>7, <1>8 DEF a

\* After setActiveInstance each loop around the place, in the innermost
\* instance, shows the iteration that the place is in (setActiveGenerateScopes
\* and getActiveGenerateLoop): the selection sets all iterations around it, so
\* every other array of the loop is off the selection.
THEOREM SelectedIterationsTheorem == Spec => []SelectedIterationsShown
<1>1. ASSUME TypeOK, Took, selected # None,
             NEW b \in ScopesAround[design][Target(design, selected)],
             NEW q \in Innermost(Around[design][Target(design, selected)]),
             ~(/\ Target(design, selected) \in Instances[design]
               /\ Writes(Designs[design], Target(design, selected), Designs[design][q].module))
      PROVE  GetActiveGenerateLoop(design, active, gen, Designs[design][q].module,
                                   Designs[design][Designs[design][b].array].loop) = b
  <2> DEFINE D == Designs[design]
             p == Target(design, selected)
             m == D[q].module
             a == D[b].array
  <2>1. design \in Sources /\ p \in DOMAIN D /\ Succeeds(design, selected)
    BY <1>1, TargetIs DEF TypeOK, Took
  <2>2. q \in Around[design][p] /\ \A r \in Around[design][p] : Len(r) <= Len(q)
    BY <1>1 DEF Innermost
  <2>3. q \in Instances[design] /\ q \in Chain[design][p]
    BY <2>1, <2>2 DEF Chain, Around
  <2>4. m \in Modules /\ q \in InstancesOf[design][m]
    <3>1. m \in Modules
      BY <2>1, <2>3, DesignsAssumption DEF Instances
    <3> QED
      BY <2>1, <2>3, <3>1 DEF InstancesOf
  <2>5. active[m] = q
    <3>1. Writes(D, q, m)
      BY DEF Writes
    <3>2. PICK r : Decides(design, p, m, r) /\ active[m] \in Written(D, r, m)
      BY <1>1, <2>3, <2>4, <3>1, TookInstance
    <3>3. r \in Chain[design][p] /\ Writes(D, r, m) /\ Len(q) <= Len(r)
      BY <2>3, <3>1, <3>2 DEF Decides
    <3>4. r \in Around[design][p]
      BY <1>1, <2>1, <3>3 DEF Chain
    <3>5. Len(r) \in Nat /\ Len(q) \in Nat
      BY <2>1, <2>3, <3>3, ChainIs
    <3>6. Len(r) = Len(q)
      BY <2>2, <3>3, <3>4, <3>5
    <3>7. r = q
      BY <2>1, <2>3, <3>3, <3>6, ChainIs
    <3>8. Written(D, q, m) = {q}
      BY DEF Written
    <3> QED
      BY <3>2, <3>7, <3>8
  <2>6. GetActiveInstanceSymbol(design, active, m) = q
    BY <2>4, <2>5 DEF GetActiveInstanceSymbol
  <2>7. /\ a \in Arrays[design] /\ a \in ArrayPaths
        /\ \E i \in DOMAIN D[a].entries : D[a].entries[i] = b
    BY <1>1, <2>1, ScopeIs
  <2>8. /\ Around[design][a] = Around[design][p]
        /\ ScopesAround[design][a] \subseteq ScopesAround[design][p]
    BY <1>1, <2>1, AroundArray
  <2>9. ASSUME NEW c \in ScopesAround[design][p] PROVE gen[D[c].array] = c
    <3>1. ScopeSet[design][selected][D[c].array] = c
      BY <2>1, <2>9, ScopeSetIs
    <3>2. c \in DOMAIN D /\ D[c].array \in ArrayPaths
      BY <2>1, <2>9, ScopeIs
    <3>3. c # None
      BY <2>1, <3>2, NoneAssumption DEF Paths
    <3> QED
      BY <1>1, <3>1, <3>2, <3>3 DEF Took
  <2>10. gen[a] = b
    BY <1>1, <2>9
  <2>11. q \in Innermost(Around[design][a])
    BY <1>1, <2>8
  <2>12. /\ \A c \in ScopesAround[design][a] : gen[D[c].array] = c
         /\ \E i \in DOMAIN D[a].entries : D[a].entries[i] = gen[a]
    BY <2>7, <2>8, <2>9, <2>10
  <2> HIDE DEF p, m, a
  <2>13. GetActiveGenerateLoop(design, active, gen, m, D[a].loop) = gen[a]
    BY <2>1, <2>6, <2>7, <2>11, <2>12, LoopShown
  <2> QED
    BY <2>10, <2>13 DEF m, a
<1>2. TypeOK /\ Took => SelectedIterationsShown
  BY <1>1 DEF SelectedIterationsShown
<1> QED
  BY <1>2, TypeCorrect, TookAlways, PTL

\* onDocDidSave keeps every selection that the new design still has: refresh
\* leaves the paths of instances that still exist, and in an instance that is
\* kept the iterations, if those around them are selected.
THEOREM RefreshKeepsTheorem == Spec => RefreshKeepsSelections
<1>1. ASSUME TypeOK, NEW d \in Docs, DidSave(d), NEW m \in Modules,
             active[m] \in InstancesOf[design'][m]
      PROVE  /\ GetActiveInstanceSymbol(design', active', m) = active[m]
             /\ \A a \in Arrays[design'] :
                  LET D == Designs[design'] IN
                  (/\ active[m] \in Innermost(Around[design'][a])
                   /\ \E i \in DOMAIN D[a].entries : D[a].entries[i] = gen[a]
                   /\ \A b \in ScopesAround[design'][a] : gen[D[b].array] = b) =>
                  GetActiveGenerateLoop(design', active', gen', m, D[a].loop) = gen[a]
  <2>1. design' \in Sources /\ gen' = gen /\ active' = SyncActiveInstances(design', active)
    BY <1>1 DEF DidSave, TypeOK
  <2>2. active'[m] = active[m]
    BY <1>1, <2>1 DEF SyncActiveInstances
  <2>3. GetActiveInstanceSymbol(design', active', m) = active[m]
    BY <1>1, <2>2 DEF GetActiveInstanceSymbol
  <2>4. ASSUME NEW a \in Arrays[design'], active[m] \in Innermost(Around[design'][a]),
               \E i \in DOMAIN Designs[design'][a].entries : Designs[design'][a].entries[i] = gen[a],
               \A b \in ScopesAround[design'][a] : gen[Designs[design'][b].array] = b
        PROVE  GetActiveGenerateLoop(design', active', gen', m, Designs[design'][a].loop) = gen[a]
    BY <2>1, <2>3, <2>4, LoopShown
  <2> QED
    BY <2>3, <2>4
<1>2. TypeOK =>
        [\A d \in Docs : DidSave(d) =>
           \A m \in Modules :
             active[m] \in InstancesOf[design'][m] =>
               /\ GetActiveInstanceSymbol(design', active', m) = active[m]
               /\ \A a \in Arrays[design'] :
                    LET D == Designs[design'] IN
                    (/\ active[m] \in Innermost(Around[design'][a])
                     /\ \E i \in DOMAIN D[a].entries : D[a].entries[i] = gen[a]
                     /\ \A b \in ScopesAround[design'][a] : gen[D[b].array] = b) =>
                    GetActiveGenerateLoop(design', active', gen', m, D[a].loop) = gen[a]]_vars
  BY <1>1, Zenon
<1> QED
  BY <1>2, TypeCorrect, PTL DEF RefreshKeepsSelections
=============================================================================
