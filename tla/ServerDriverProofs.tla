------------------------- MODULE ServerDriverProofs -------------------------
(* Proofs about the documents of the active driver, for any documents, texts *)
(* and dependencies, and any number of edits and changes of mode.            *)
EXTENDS ServerDriver, FiniteSetTheorems, TLAPS

----------------------------------------------------------------------------
(* The diagnostics client                                                    *)

\* the editor shows what was collected, except where a push is due
Clean(c) == \A u \in Uris \ c.dirty : c.shown[u] = c.diags[u]

\* a client of the right type, and its fields
Client(c) == c \in DC!DiagClients

LEMMA ClientFields ==
  ASSUME NEW c, Client(c)
  PROVE  /\ c.diags \in [Uris -> Seq(Reports)] /\ c.shown \in [Uris -> Seq(Reports)]
         /\ c.dirty \in SUBSET Uris
         /\ c = [diags |-> c.diags, dirty |-> c.dirty, shown |-> c.shown]
BY DEF Client, DC!DiagClients

\* a document's diagnostics and one more
With(d, r) == Append(d, r)

\* a report after none, and after another
LEMMA WithIs ==
  ASSUME NEW r, NEW q
  PROVE  With(<<>>, r) = <<r>> /\ With(<<q>>, r) = <<q, r>>
<1>1. <<>> \in Seq({q, r}) /\ <<q>> \in Seq({q, r}) /\ Len(<<q>>) = 1  OBVIOUS
<1>2. Append(<<>>, r) = <<r>>  BY <1>1
<1>3. PICK z : z = Append(<<q>>, r)  OBVIOUS
<1>4. z \in Seq({q, r}) /\ Len(z) = 2 /\ z[1] = q /\ z[2] = r  BY <1>1, <1>3
<1>5. z = [i \in 1..2 |-> z[i]]  BY <1>4
<1>6. z = <<q, r>>  BY <1>4, <1>5
<1> QED  BY <1>2, <1>3, <1>6 DEF With

\* no document has diagnostics
LEMMA NoDiagsIs ==
  DC!NoDiags \in [Uris -> Seq(Reports)] /\ \A u \in Uris : DC!NoDiags[u] = <<>>
<1>1. <<>> \in Seq(Reports)  OBVIOUS
<1> QED  BY <1>1 DEF DC!NoDiags

\* a report
LEMMA ReportIs ==
  ASSUME NEW c, Client(c), NEW u \in Uris, NEW r \in Reports
  PROVE  LET x == DC!Report(c, u, r) IN
         /\ Client(x) /\ (Clean(c) => Clean(x))
         /\ x.diags[u] = With(c.diags[u], r) /\ \A v \in Uris \ {u} : x.diags[v] = c.diags[v]
         /\ x.dirty = c.dirty \cup {u} /\ x.shown = c.shown
<1>0. PICK x : x = DC!Report(c, u, r)  OBVIOUS
<1>1. /\ c.diags \in [Uris -> Seq(Reports)] /\ c.shown \in [Uris -> Seq(Reports)]
      /\ c.dirty \in SUBSET Uris
      /\ c = [diags |-> c.diags, dirty |-> c.dirty, shown |-> c.shown]
  BY ClientFields
<1>2. Append(c.diags[u], r) \in Seq(Reports)  BY <1>1
<1>3. /\ x.diags = [c.diags EXCEPT ![u] = Append(@, r)]
      /\ x.dirty = c.dirty \cup {u} /\ x.shown = c.shown
      /\ x = [diags |-> x.diags, dirty |-> x.dirty, shown |-> x.shown]
  BY <1>0, <1>1 DEF DC!Report
<1>4. x.diags \in [Uris -> Seq(Reports)] /\ x.dirty \in SUBSET Uris
  BY <1>1, <1>2, <1>3
<1>5. Client(x)  BY <1>1, <1>3, <1>4 DEF Client, DC!DiagClients
<1> QED  BY <1>0, <1>1, <1>3, <1>5 DEF Clean, With

\* clearing one document
LEMMA ClearUriIs ==
  ASSUME NEW c, Client(c), NEW u \in Uris
  PROVE  LET x == DC!ClearUri(c, u) IN
         /\ Client(x) /\ (Clean(c) => Clean(x))
         /\ x.diags[u] = <<>> /\ \A v \in Uris \ {u} : x.diags[v] = c.diags[v]
         /\ x.dirty = c.dirty \cup {u} /\ x.shown = c.shown
<1>0. PICK x : x = DC!ClearUri(c, u)  OBVIOUS
<1>1. /\ c.diags \in [Uris -> Seq(Reports)] /\ c.shown \in [Uris -> Seq(Reports)]
      /\ c.dirty \in SUBSET Uris
      /\ c = [diags |-> c.diags, dirty |-> c.dirty, shown |-> c.shown]
  BY ClientFields
<1>2. <<>> \in Seq(Reports)  OBVIOUS
<1>3. /\ x.diags = [c.diags EXCEPT ![u] = <<>>]
      /\ x.dirty = c.dirty \cup {u} /\ x.shown = c.shown
      /\ x = [diags |-> x.diags, dirty |-> x.dirty, shown |-> x.shown]
  BY <1>0, <1>1 DEF DC!ClearUri
<1>4. x.diags \in [Uris -> Seq(Reports)] /\ x.dirty \in SUBSET Uris
  BY <1>1, <1>2, <1>3
<1>5. Client(x)  BY <1>1, <1>3, <1>4 DEF Client, DC!DiagClients
<1> QED  BY <1>0, <1>1, <1>3, <1>5 DEF Clean

\* clearing them all
LEMMA ClearAllIs ==
  ASSUME NEW c, Client(c)
  PROVE  LET x == DC!ClearAll(c) IN
         /\ Client(x) /\ (Clean(c) => Clean(x))
         /\ x.diags = DC!NoDiags /\ x.shown = c.shown
<1>0. PICK x : x = DC!ClearAll(c)  OBVIOUS
<1>1. /\ c.diags \in [Uris -> Seq(Reports)] /\ c.shown \in [Uris -> Seq(Reports)]
      /\ c.dirty \in SUBSET Uris
      /\ c = [diags |-> c.diags, dirty |-> c.dirty, shown |-> c.shown]
  BY ClientFields
<1>3. /\ x.diags = DC!NoDiags
      /\ x.dirty = c.dirty \cup {u \in Uris : c.diags[u] # <<>>} /\ x.shown = c.shown
      /\ x = [diags |-> x.diags, dirty |-> x.dirty, shown |-> x.shown]
  BY <1>0, <1>1 DEF DC!ClearAll
<1>5. Client(x)  BY <1>1, <1>3, NoDiagsIs DEF Client, DC!DiagClients
<1> QED  BY <1>0, <1>1, <1>3, <1>5, NoDiagsIs DEF Clean

\* a push
LEMMA PushIs ==
  ASSUME NEW c, Client(c)
  PROVE  LET x == DC!PushDiags(c) IN
         /\ Client(x) /\ (Clean(c) => Clean(x))
         /\ x.diags = c.diags /\ x.dirty = {}
         /\ \A u \in Uris : x.shown[u] = IF u \in c.dirty THEN c.diags[u] ELSE c.shown[u]
<1>0. PICK x : x = DC!PushDiags(c)  OBVIOUS
<1>1. /\ c.diags \in [Uris -> Seq(Reports)] /\ c.shown \in [Uris -> Seq(Reports)]
      /\ c.dirty \in SUBSET Uris
      /\ c = [diags |-> c.diags, dirty |-> c.dirty, shown |-> c.shown]
  BY ClientFields
<1>3. /\ x.diags = c.diags /\ x.dirty = {}
      /\ x.shown = [u \in Uris |-> IF u \in c.dirty THEN c.diags[u] ELSE c.shown[u]]
      /\ x = [diags |-> x.diags, dirty |-> x.dirty, shown |-> x.shown]
  BY <1>0, <1>1 DEF DC!PushDiags
<1>4. x.shown \in [Uris -> Seq(Reports)]  BY <1>1, <1>3
<1>5. Client(x)  BY <1>1, <1>3, <1>4 DEF Client, DC!DiagClients
<1> QED  BY <1>0, <1>1, <1>3, <1>5 DEF Clean

\* the client of a new driver, and what the editor shows once the old driver
\* has withdrawn its diagnostics: nothing
LEMMA WithdrawnIs ==
  ASSUME NEW c, Client(c), Clean(c)
  PROVE  DC!ClearAndPush(c).shown = DC!NoDiags
BY ClientFields, NoDiagsIs DEF Clean, DC!ClearAndPush, DC!NoDiags

\* the client of a new driver, with what the editor shows from before
LEMMA NewClientIs ==
  LET x == DC!NewClient(DC!NoDiags) IN
  /\ Client(x) /\ Clean(x) /\ x.diags = DC!NoDiags /\ x.dirty = {} /\ x.shown = DC!NoDiags
BY NoDiagsIs DEF Client, Clean, DC!NewClient, DC!DiagClients

----------------------------------------------------------------------------
(* Driver records                                                            *)

\* a record with the fields of a driver and no other
Shape(s) == s = [text |-> s.text, open |-> s.open, index |-> s.index, ana |-> s.ana,
                 comp |-> s.comp, sources |-> s.sources, view |-> s.view, dc |-> s.dc,
                 cut |-> s.cut, ok |-> s.ok]

\* the files have contents, or are missing
DiskOK == disk \in [Uris -> Texts \cup {Missing}]

\* the documents that have a buffer
Loaded(s) == {u \in Uris : s.text[u] # NoDoc}

\* What holds of a driver at every point of every handler.
Sound(s) ==
  /\ s \in Drivers /\ Clean(s.dc)
  /\ s.open \subseteq Loaded(s) /\ s.comp \subseteq Loaded(s)
  /\ \A u \in Uris : s.ana[u] # {} => u \in s.ana[u] /\ s.ana[u] \subseteq {u} \cup Deps[u]

\* what loading and analysing documents leave alone, and how the texts grow
Placed(s, x) ==
  /\ x.open = s.open /\ x.index = s.index /\ x.comp = s.comp
  /\ x.sources = s.sources /\ x.view = s.view
Kept(s, x) == Placed(s, x) /\ x.cut = s.cut
Grown(s, x) ==
  \A v \in Uris : x.text[v] = s.text[v] \/ (s.text[v] = NoDoc /\ x.text[v] = disk[v] /\ disk[v] # Missing)

\* the types of the fields
LEMMA DriverFields ==
  ASSUME NEW s \in Drivers
  PROVE  /\ s.text \in [Uris -> Texts \cup {NoDoc}] /\ s.open \in SUBSET Uris
         /\ s.index \in SUBSET Uris /\ s.ana \in [Uris -> SUBSET Uris] /\ s.comp \in SUBSET Uris
         /\ s.sources \in SUBSET Uris /\ s.view \in Views /\ Client(s.dc) /\ s.ok \in BOOLEAN
         /\ s.cut \in SUBSET Uris /\ Shape(s)
BY DEF Drivers, Client, Shape

\* and a record whose fields have them is a driver
LEMMA DriverMade ==
  ASSUME NEW s, Shape(s),
         s.text \in [Uris -> Texts \cup {NoDoc}], s.open \in SUBSET Uris,
         s.index \in SUBSET Uris, s.ana \in [Uris -> SUBSET Uris], s.comp \in SUBSET Uris,
         s.sources \in SUBSET Uris, s.view \in Views, Client(s.dc), s.ok \in BOOLEAN,
         s.cut \in SUBSET Uris
  PROVE  s \in Drivers
BY DEF Drivers, Client, Shape

\* the marks for no document, no file and a closed editor are no texts
LEMMA TextsAre == NoDoc \notin Texts /\ Missing \notin Texts /\ Closed \notin Texts
BY DriverAssumption

\* the texts of some documents are a view
LEMMA ViewIs ==
  ASSUME NEW us \in SUBSET Uris, NEW f \in [us -> Texts]
  PROVE  f \in Views
BY DEF Views

\* the reports on a loaded document are reports
LEMMA ReportTypes ==
  ASSUME NEW s \in Drivers, NEW u \in Loaded(s)
  PROVE  /\ ParseReport(s, u) \in Reports
         /\ Dependencies(s, u) \subseteq Loaded(s) => ShallowReport(s, u) \in Reports
         /\ DesignReport(s) \in Reports
<1>1. s.text \in [Uris -> Texts \cup {NoDoc}] /\ s.view \in Views  BY DriverFields
<1>2. [v \in {u} |-> s.text[v]] \in [{u} -> Texts] /\ {u} \in SUBSET Uris
  BY <1>1 DEF Loaded
<1>3. [v \in {u} |-> s.text[v]] \in Views  BY <1>2, ViewIs
<1>4. ParseReport(s, u) \in Reports  BY <1>3 DEF ParseReport, Reports
<1>5. ASSUME Dependencies(s, u) \subseteq Loaded(s) PROVE ShallowReport(s, u) \in Reports
  <2> DEFINE us == {u} \cup Dependencies(s, u)
  <2>1. us \in SUBSET Uris /\ \A v \in us : s.text[v] \in Texts  BY <1>1, <1>5 DEF Loaded
  <2> HIDE DEF us
  <2>2. [v \in us |-> s.text[v]] \in [us -> Texts]  BY <2>1
  <2>3. [v \in us |-> s.text[v]] \in Views  BY <2>1, <2>2, ViewIs
  <2> QED  BY <2>3 DEF ShallowReport, Reports, us
<1>6. DesignReport(s) \in Reports  BY <1>1 DEF DesignReport, Reports
<1> QED  BY <1>4, <1>5, <1>6

\* one load after another
LEMMA KeptTrans ==
  ASSUME NEW s, NEW x, NEW y, Kept(s, x), Kept(x, y), Grown(s, x), Grown(x, y)
  PROVE  Kept(s, y) /\ Grown(s, y)
BY DEF Kept, Placed, Grown

LEMMA PlacedTrans ==
  ASSUME NEW s, NEW x, NEW y, Placed(s, x), Placed(x, y), Grown(s, x), Grown(x, y)
  PROVE  Placed(s, y) /\ Grown(s, y)
BY DEF Placed, Grown

\* a load replaces no text
LEMMA GrownLoaded ==
  ASSUME NEW s, NEW x, Grown(s, x), DiskOK
  PROVE  Loaded(s) \subseteq Loaded(x) /\ \A u \in Loaded(s) : x.text[u] = s.text[u]
BY DEF Grown, Loaded

\* cutting a handler short
LEMMA AbortIs ==
  ASSUME NEW s, Sound(s)
  PROVE  LET x == Abort(s) IN
         /\ Sound(x) /\ Kept(s, x) /\ x.text = s.text /\ x.ana = s.ana /\ x.dc = s.dc /\ ~x.ok
<1>0. PICK x : x = Abort(s)  OBVIOUS
<1>1. s \in Drivers  BY DEF Sound
<1>2. Shape(s)  BY <1>1, DriverFields
<1>3. /\ Kept(s, x) /\ x.text = s.text /\ x.ana = s.ana /\ x.dc = s.dc /\ x.ok = FALSE /\ Shape(x)
  BY <1>0, <1>2 DEF Abort, Shape, Kept, Placed
<1>4. x \in Drivers  BY <1>1, <1>3, DriverFields, DriverMade DEF Kept, Placed
<1>5. Sound(x)  BY <1>3, <1>4 DEF Sound, Kept, Placed, Loaded
<1> QED  BY <1>0, <1>3, <1>5

\* reading a document that was never loaded
LEMMA GetDocumentIs ==
  ASSUME DiskOK, NEW s, Sound(s), NEW u \in Uris
  PROVE  LET x == GetDocument(s, u) IN
         /\ Sound(x) /\ Kept(s, x) /\ Grown(s, x) /\ x.ana = s.ana /\ x.dc = s.dc
         /\ x.ok => s.ok /\ u \in Loaded(x)
<1>0. PICK x : x = GetDocument(s, u)  OBVIOUS
<1>1. s \in Drivers  BY DEF Sound
<1>2. /\ Shape(s) /\ s.text \in [Uris -> Texts \cup {NoDoc}]  BY <1>1, DriverFields
<1>3. CASE s.text[u] # NoDoc
  BY <1>0, <1>3 DEF GetDocument, Kept, Placed, Grown, Loaded
<1>4. CASE s.text[u] = NoDoc /\ disk[u] = Missing
  <2>1. x = Abort(s)  BY <1>0, <1>4 DEF GetDocument
  <2> QED  BY <1>0, <2>1, AbortIs DEF Grown
<1>5. CASE s.text[u] = NoDoc /\ disk[u] # Missing
  <2>1. x = [s EXCEPT !.text[u] = disk[u]]  BY <1>0, <1>5 DEF GetDocument
  <2>2. /\ Kept(s, x) /\ x.text = [s.text EXCEPT ![u] = disk[u]] /\ x.ana = s.ana
        /\ x.dc = s.dc /\ x.ok = s.ok /\ Shape(x)
    BY <1>2, <2>1 DEF Shape, Kept, Placed
  <2>3. disk[u] \in Texts /\ disk[u] # NoDoc  BY <1>5, TextsAre DEF DiskOK
  <2>4. x.text \in [Uris -> Texts \cup {NoDoc}]  BY <1>2, <2>2, <2>3
  <2>5. x \in Drivers  BY <1>1, <2>2, <2>4, DriverFields, DriverMade DEF Kept, Placed
  <2>6. Grown(s, x) /\ Loaded(s) \subseteq Loaded(x) /\ u \in Loaded(x)
    BY <1>2, <1>5, <2>2, <2>3 DEF Grown, Loaded
  <2>7. Sound(x)  BY <2>2, <2>5, <2>6 DEF Sound, Kept, Placed
  <2> QED  BY <1>0, <2>2, <2>6, <2>7
<1> QED  BY <1>3, <1>4, <1>5

----------------------------------------------------------------------------
(* Sequences that list a set                                                 *)

\* every element once
Lists(q, S) ==
  /\ q \in Seq(S)
  /\ \A i, j \in 1..Len(q) : q[i] = q[j] => i = j
  /\ \A v \in S : \E i \in 1..Len(q) : q[i] = v

\* an injection from 1..n onto a finite set of n elements lists it
LEMMA InjectionLists ==
  ASSUME NEW S, IsFiniteSet(S), NEW q \in [1..Cardinality(S) -> S],
         \A i, j \in DOMAIN q : q[i] = q[j] => i = j
  PROVE  Lists(q, S)
<1>1. Cardinality(S) \in Nat  BY FS_CardinalityType
<1>2. q \in Seq(S) /\ Len(q) = Cardinality(S) /\ DOMAIN q = 1..Len(q)  BY <1>1
<1>3. q \in Injection(1..Cardinality(S), S)  BY Zenon DEF Injection, IsInjective
<1>4. Cardinality(1..Cardinality(S)) = Cardinality(S)  BY <1>1, FS_Interval
<1>5. q \in Surjection(1..Cardinality(S), S)  BY <1>3, <1>4, FS_Injection
<1> QED  BY <1>2, <1>5 DEF Lists, Surjection

\* an order of the documents lists each of them once
LEMMA OrdersList ==
  ASSUME NEW S, IsFiniteSet(S), NEW q \in Orders(S)
  PROVE  Lists(q, S)
BY InjectionLists DEF Orders

\* and so does the sequence that SetToSeq chooses
LEMMA SetToSeqLists ==
  ASSUME NEW S, IsFiniteSet(S)
  PROVE  Lists(SetToSeq(S), S)
<1>1. \E f \in [1..Cardinality(S) -> S] : IsInjective(f)
  BY FS_CardinalityType, Zenon DEF ExistsBijection, Bijection, Injection
<1>2. SetToSeq(S) \in [1..Cardinality(S) -> S] /\ IsInjective(SetToSeq(S))
  BY <1>1, Zenon DEF SetToSeq
<1> QED  BY <1>2, InjectionLists DEF IsInjective

\* all sets of documents are finite
LEMMA SubsetsFinite == \A S \in SUBSET Uris : IsFiniteSet(S)
BY FS_Subset, DriverAssumption

----------------------------------------------------------------------------
(* Loading the documents that an analysis needs                              *)

\* one step of the loading of dependencies
LoadStep(acc, u) == IF acc.ok THEN GetDocument(acc, u) ELSE acc

\* c is the driver at the start and the documents to load
LoadGood(c, n, x) ==
  /\ Sound(x) /\ Kept(c[1], x) /\ Grown(c[1], x) /\ x.ana = c[1].ana /\ x.dc = c[1].dc
  /\ x.ok => c[1].ok /\ \A i \in 1..n : c[2][i] \in Loaded(x)

\* the loading as a fold
Load == INSTANCE FoldTheorems WITH Step <- LoadStep, Good <- LoadGood

\* All documents listed are loaded, or one could not be read.
LEMMA LoadIs ==
  ASSUME DiskOK, NEW s, Sound(s), NEW D \in SUBSET Uris
  PROVE  LET x == Then(GetDocument, s, SetToSeq(D)) IN
         /\ Sound(x) /\ Kept(s, x) /\ Grown(s, x) /\ x.ana = s.ana /\ x.dc = s.dc
         /\ x.ok => s.ok /\ D \subseteq Loaded(x)
<1> DEFINE q == SetToSeq(D)
           c == <<s, q>>
<1>1. Lists(q, D)  BY SubsetsFinite, SetToSeqLists
<1> HIDE DEF q
<1>2. q \in Seq(D) /\ q \in Seq(Uris)  BY <1>1 DEF Lists
<1>3. Then(GetDocument, s, q) = FoldLeft(LoadStep, s, q)  BY DEF Then, LoadStep
<1>4. LoadGood(c, 0, s)  BY DEF LoadGood, Kept, Placed, Grown
<1>5. ASSUME NEW n \in 0..(Len(q) - 1), NEW x, LoadGood(c, n, x)
      PROVE  LoadGood(c, n + 1, LoadStep(x, q[n + 1]))
  <2>1. q[n + 1] \in Uris /\ n \in Nat  BY <1>2
  <2>2. Sound(x) /\ Kept(s, x) /\ Grown(s, x) /\ x.ana = s.ana /\ x.dc = s.dc
    BY <1>5 DEF LoadGood
  <2>3. x.ok => s.ok /\ \A i \in 1..n : q[i] \in Loaded(x)  BY <1>5 DEF LoadGood
  <2>4. CASE ~x.ok
    BY <2>2, <2>4 DEF LoadGood, LoadStep
  <2>5. CASE x.ok
    <3>1. PICK y : y = GetDocument(x, q[n + 1])  OBVIOUS
    <3>2. /\ Sound(y) /\ Kept(x, y) /\ Grown(x, y) /\ y.ana = x.ana /\ y.dc = x.dc
          /\ y.ok => q[n + 1] \in Loaded(y)
      BY <2>1, <2>2, <3>1, GetDocumentIs
    <3>3. Kept(s, y) /\ Grown(s, y) /\ Loaded(x) \subseteq Loaded(y)
      BY <2>2, <3>2, KeptTrans, GrownLoaded
    <3>4. y.ok => \A i \in 1..(n + 1) : q[i] \in Loaded(y)
      BY <2>1, <2>3, <2>5, <3>2, <3>3
    <3>5. LoadStep(x, q[n + 1]) = y  BY <2>5, <3>1 DEF LoadStep
    <3> QED  BY <2>2, <2>3, <2>5, <3>2, <3>3, <3>4, <3>5 DEF LoadGood
  <2> QED  BY <2>4, <2>5
<1>6. LoadGood(c, Len(q), Load!FoldLeft(LoadStep, s, q))
  <2> HIDE DEF c
  <2> QED  BY <1>2, <1>4, <1>5, Load!FoldInduction
<1>7. Load!FoldLeft(LoadStep, s, q) = FoldLeft(LoadStep, s, q)
  BY DEF Load!FoldLeft, FoldLeft, Load!MapThenFoldSet, MapThenFoldSet, Load!Max, Max
<1>8. LoadGood(c, Len(q), Then(GetDocument, s, q))  BY <1>3, <1>6, <1>7
<1>9. PICK x : x = Then(GetDocument, s, q)  OBVIOUS
<1>10. /\ Sound(x) /\ Kept(s, x) /\ Grown(s, x) /\ x.ana = s.ana /\ x.dc = s.dc
       /\ x.ok => s.ok /\ \A i \in 1..Len(q) : q[i] \in Loaded(x)
  BY <1>8, <1>9 DEF LoadGood
<1>11. x.ok => D \subseteq Loaded(x)  BY <1>1, <1>10 DEF Lists
<1> QED  BY <1>9, <1>10, <1>11 DEF q

\* analysing a document anew
LEMMA RefreshAnalysisIs ==
  ASSUME DiskOK, NEW s, Sound(s), NEW u \in Loaded(s)
  PROVE  LET x == RefreshAnalysis(s, u) IN
         /\ Sound(x) /\ Kept(s, x) /\ Grown(s, x) /\ x.dc = s.dc
         /\ \A v \in Uris \ {u} : x.ana[v] = s.ana[v]
         /\ x.ok => /\ s.ok /\ Dependencies(s, u) \subseteq Loaded(x)
                    /\ x.ana[u] = {u} \cup Dependencies(s, u)
         /\ ~x.ok => x.ana = s.ana
<1> DEFINE D == Dependencies(s, u)
<1>0. PICK y : y = Then(GetDocument, s, SetToSeq(D))  OBVIOUS
<1>1. D \in SUBSET Uris /\ D \subseteq Deps[u] /\ u \in Uris
  BY DriverAssumption DEF Dependencies, Loaded
<1>2. /\ Sound(y) /\ Kept(s, y) /\ Grown(s, y) /\ y.ana = s.ana /\ y.dc = s.dc
      /\ y.ok => s.ok /\ D \subseteq Loaded(y)
  <2> HIDE DEF D
  <2> QED  BY <1>0, <1>1, LoadIs
<1>3. PICK x : x = RefreshAnalysis(s, u)  OBVIOUS
<1>4. CASE ~y.ok
  <2>1. x = y  BY <1>0, <1>3, <1>4 DEF RefreshAnalysis, IfOk
  <2> QED  BY <1>2, <1>3, <1>4, <2>1
<1>5. CASE y.ok
  <2>1. x = [y EXCEPT !.ana[u] = {u} \cup Dependencies(y, u)]
    BY <1>0, <1>3, <1>5 DEF RefreshAnalysis, IfOk
  <2>2. Dependencies(y, u) = D  BY <1>2 DEF Kept, Placed, Dependencies
  <2>3. y \in Drivers /\ Shape(y) /\ y.ana \in [Uris -> SUBSET Uris]
    BY <1>2, DriverFields DEF Sound
  <2> HIDE DEF D
  <2>4. /\ Kept(y, x) /\ x.text = y.text /\ x.dc = y.dc /\ x.ok = y.ok /\ Shape(x)
        /\ x.ana = [y.ana EXCEPT ![u] = {u} \cup D]
    BY <2>1, <2>2, <2>3 DEF Kept, Placed, Shape
  <2>5. x.ana \in [Uris -> SUBSET Uris]  BY <1>1, <2>3, <2>4
  <2>6. x \in Drivers  BY <2>3, <2>4, <2>5, DriverFields, DriverMade DEF Kept, Placed
  <2>7. Sound(x)  BY <1>1, <1>2, <2>4, <2>6 DEF Sound, Kept, Placed, Loaded
  <2>8. Grown(y, x)  BY <2>4 DEF Grown
  <2>9. Kept(s, x) /\ Grown(s, x)  BY <1>2, <2>4, <2>8, KeptTrans
  <2>10. x.ana[u] = {u} \cup D /\ \A v \in Uris \ {u} : x.ana[v] = s.ana[v]
    BY <1>1, <1>2, <2>3, <2>4
  <2>11. Loaded(x) = Loaded(y)  BY <2>4 DEF Loaded
  <2> QED  BY <1>2, <1>3, <1>5, <2>4, <2>7, <2>9, <2>10, <2>11 DEF D
<1> QED  BY <1>4, <1>5

\* the analysis that the inactive regions are read off
LEMMA RegionsIs ==
  ASSUME DiskOK, NEW s, Sound(s), NEW u \in Loaded(s)
  PROVE  LET x == PublishInactiveRegions(s, u) IN
         /\ Sound(x) /\ Kept(s, x) /\ Grown(s, x) /\ x.dc = s.dc
         /\ \A v \in Uris \ {u} : x.ana[v] = s.ana[v]
         /\ s.ana[u] # {} => x = s
<1>1. PublishInactiveRegions(s, u) \in {s, RefreshAnalysis(s, u)}
  BY DEF PublishInactiveRegions, GetAnalysis
<1>2. s.ana[u] # {} => PublishInactiveRegions(s, u) = s
  BY DEF PublishInactiveRegions, GetAnalysis
<1>3. /\ Sound(s) /\ Kept(s, s) /\ Grown(s, s)
      /\ \A v \in Uris \ {u} : s.ana[v] = s.ana[v]
  BY DEF Kept, Placed, Grown
<1> QED  BY <1>1, <1>2, <1>3, RefreshAnalysisIs

----------------------------------------------------------------------------
(* Reports, pushes and new texts                                             *)

\* another client state in the driver
LEMMA WithClient ==
  ASSUME NEW s, Sound(s), NEW c, Client(c), Clean(c)
  PROVE  LET x == [s EXCEPT !.dc = c] IN
         /\ Sound(x) /\ Kept(s, x) /\ x.text = s.text /\ x.ana = s.ana /\ x.ok = s.ok /\ x.dc = c
<1>0. PICK x : x = [s EXCEPT !.dc = c]  OBVIOUS
<1>1. s \in Drivers /\ Shape(s)  BY DriverFields DEF Sound
<1>2. /\ Kept(s, x) /\ x.text = s.text /\ x.ana = s.ana /\ x.ok = s.ok /\ x.dc = c /\ Shape(x)
  BY <1>0, <1>1 DEF Shape, Kept, Placed
<1>3. x \in Drivers  BY <1>1, <1>2, DriverFields, DriverMade DEF Kept, Placed
<1>4. Sound(x)  BY <1>2, <1>3 DEF Sound, Kept, Placed, Loaded
<1> QED  BY <1>0, <1>2, <1>4

\* a report on a document, as a step of a driver's handler
LEMMA DriverReportIs ==
  ASSUME NEW s, Sound(s), NEW u \in Uris, NEW r \in Reports
  PROVE  LET x == Report(s, u, r) IN
         /\ Sound(x) /\ Kept(s, x) /\ x.text = s.text /\ x.ana = s.ana /\ x.ok = s.ok
         /\ x.dc.diags[u] = With(s.dc.diags[u], r)
         /\ \A v \in Uris \ {u} : x.dc.diags[v] = s.dc.diags[v]
         /\ x.dc.dirty = s.dc.dirty \cup {u} /\ x.dc.shown = s.dc.shown
<1>0. PICK c : c = DC!Report(s.dc, u, r)  OBVIOUS
<1>1. Client(s.dc) /\ Clean(s.dc)  BY DriverFields DEF Sound
<1>2. /\ Client(c) /\ Clean(c)
      /\ c.diags[u] = With(s.dc.diags[u], r) /\ \A v \in Uris \ {u} : c.diags[v] = s.dc.diags[v]
      /\ c.dirty = s.dc.dirty \cup {u} /\ c.shown = s.dc.shown
  BY <1>0, <1>1, ReportIs
<1>3. PICK x : x = Report(s, u, r)  OBVIOUS
<1>4. x = [s EXCEPT !.dc = c]  BY <1>0, <1>3 DEF Report
<1> QED  BY <1>2, <1>3, <1>4, WithClient

\* a push
LEMMA DriverPushIs ==
  ASSUME NEW s, Sound(s)
  PROVE  LET x == Push(s) IN
         /\ Sound(x) /\ Kept(s, x) /\ x.text = s.text /\ x.ana = s.ana /\ x.ok = s.ok
         /\ x.dc.diags = s.dc.diags /\ x.dc.dirty = {}
<1>0. PICK c : c = DC!PushDiags(s.dc)  OBVIOUS
<1>1. Client(s.dc) /\ Clean(s.dc)  BY DriverFields DEF Sound
<1>2. Client(c) /\ Clean(c) /\ c.diags = s.dc.diags /\ c.dirty = {}
  BY <1>0, <1>1, PushIs
<1>3. PICK x : x = Push(s)  OBVIOUS
<1>4. x = [s EXCEPT !.dc = c]  BY <1>0, <1>3 DEF Push
<1> QED  BY <1>2, <1>3, <1>4, WithClient

\* the withdrawal of one document's diagnostics
ClearDoc(s, u) == [s EXCEPT !.dc = DC!ClearUri(@, u)]

LEMMA DriverClearIs ==
  ASSUME NEW s, Sound(s), NEW u \in Uris
  PROVE  LET x == ClearDoc(s, u) IN
         /\ Sound(x) /\ Kept(s, x) /\ x.text = s.text /\ x.ana = s.ana /\ x.ok = s.ok
         /\ x.dc.diags[u] = <<>> /\ \A v \in Uris \ {u} : x.dc.diags[v] = s.dc.diags[v]
<1>0. PICK c : c = DC!ClearUri(s.dc, u)  OBVIOUS
<1>1. Client(s.dc) /\ Clean(s.dc)  BY DriverFields DEF Sound
<1>2. /\ Client(c) /\ Clean(c)
      /\ c.diags[u] = <<>> /\ \A v \in Uris \ {u} : c.diags[v] = s.dc.diags[v]
  BY <1>0, <1>1, ClearUriIs
<1>3. PICK x : x = ClearDoc(s, u)  OBVIOUS
<1>4. x = [s EXCEPT !.dc = c]  BY <1>0, <1>3 DEF ClearDoc
<1> QED  BY <1>2, <1>3, <1>4, WithClient

\* the other documents' texts stay; analyses that hold u's text do not
OtherTexts(s, x, u) == \A v \in Uris \ {u} : x.text[v] = s.text[v]
Invalidated(s, x, u) ==
  \A v \in Uris \ {u} : x.ana[v] # {} => x.ana[v] = s.ana[v] /\ u \notin s.ana[v]

\* a new text
LEMMA SetTextIs ==
  ASSUME NEW s, Sound(s), NEW u \in Uris, NEW t \in Texts
  PROVE  LET x == SetText(s, u, t) IN
         /\ Sound(x) /\ Kept(s, x) /\ x.dc = s.dc /\ (s.ok => x.ok)
         /\ x.text[u] = t /\ OtherTexts(s, x, u)
         /\ x.ana[u] = {} /\ Invalidated(s, x, u) /\ Loaded(x) = Loaded(s) \cup {u}
<1>0. PICK x : x = SetText(s, u, t)  OBVIOUS
<1>1. /\ s \in Drivers /\ Shape(s) /\ s.ana \in [Uris -> SUBSET Uris]
      /\ s.text \in [Uris -> Texts \cup {NoDoc}]
  BY DriverFields DEF Sound
<1>2. /\ Kept(s, x) /\ x.dc = s.dc /\ x.ok = s.ok /\ Shape(x)
      /\ x.text = [s.text EXCEPT ![u] = t]
      /\ x.ana = [v \in Uris |-> IF v = u \/ u \in s.ana[v] THEN {} ELSE s.ana[v]]
  BY <1>0, <1>1 DEF Shape, Kept, Placed, SetText
<1>3. /\ x.text \in [Uris -> Texts \cup {NoDoc}] /\ x.ana \in [Uris -> SUBSET Uris]
      /\ x.text[u] = t /\ \A v \in Uris \ {u} : x.text[v] = s.text[v]
  BY <1>1, <1>2
<1>4. x \in Drivers  BY <1>1, <1>2, <1>3, DriverFields, DriverMade DEF Kept, Placed
<1>5. Loaded(x) = Loaded(s) \cup {u}  BY <1>3, TextsAre DEF Loaded
<1>6. Sound(x)  BY <1>2, <1>4, <1>5 DEF Sound, Kept, Placed
<1>7. OtherTexts(s, x, u) /\ x.ana[u] = {} /\ Invalidated(s, x, u)
  BY <1>1, <1>2, <1>3 DEF OtherTexts, Invalidated
<1> QED  BY <1>0, <1>2, <1>3, <1>5, <1>6, <1>7

----------------------------------------------------------------------------
(* Analysing a document                                                      *)

\* what the analysis of u leaves alone
Working(s, x, u) ==
  /\ Sound(x) /\ Placed(s, x) /\ Grown(s, x)
  /\ \A v \in Uris \ {u} : /\ x.ana[v] = s.ana[v] /\ x.dc.diags[v] = s.dc.diags[v]
                           /\ v \in x.cut <=> v \in s.cut

\* one such step after another
LEMMA WorkingTrans ==
  ASSUME NEW s, NEW x, NEW y, NEW u, Working(s, x, u), Working(x, y, u)
  PROVE  Working(s, y, u)
BY PlacedTrans DEF Working, Kept

\* with the same texts the parse diagnostics are the same,
LEMMA SameText ==
  ASSUME NEW s, NEW x, x.text = s.text
  PROVE  Grown(s, x) /\ Loaded(x) = Loaded(s) /\ \A u : ParseReport(x, u) = ParseReport(s, u)
BY DEF Grown, Loaded, ParseReport

\* and with the same index the dependencies
LEMMA SameIndex ==
  ASSUME NEW s, NEW x, x.index = s.index
  PROVE  \A u : Dependencies(x, u) = Dependencies(s, u)
BY DEF Dependencies

\* u's analysis has all its files, and its reports are those of their texts
Prepared(x, u) == x.ana[u] = {u} \cup Dependencies(x, u) /\ x.ana[u] \subseteq Loaded(x)
\* both reports are there, of the texts that the driver has
Analysed(x, u) == x.dc.diags[u] = <<ParseReport(x, u), ShallowReport(x, u)>> /\ Prepared(x, u)

\* the first half: the parse diagnostics
LEMMA ParseIs ==
  ASSUME DiskOK, NEW s, Sound(s), NEW u \in Loaded(s), s.dc.diags[u] = <<>>
  PROVE  LET x == Parse(s, u) IN
         /\ Working(s, x, u) /\ x.cut = s.cut
         /\ x.ok => s.ok /\ x.dc.diags[u] = <<ParseReport(x, u)>> /\ Prepared(x, u)
         /\ ~x.ok => x.dc.diags[u] = <<>>
<1>0. PICK y : y = RefreshAnalysis(s, u)  OBVIOUS
<1>u. u \in Uris  BY DEF Loaded
<1>1. /\ Sound(y) /\ Kept(s, y) /\ Grown(s, y) /\ y.dc = s.dc
      /\ \A v \in Uris \ {u} : y.ana[v] = s.ana[v]
      /\ y.ok => /\ s.ok /\ Dependencies(s, u) \subseteq Loaded(y)
                 /\ y.ana[u] = {u} \cup Dependencies(s, u)
  BY <1>0, RefreshAnalysisIs
<1>2. PICK x : x = Parse(s, u)  OBVIOUS
<1>3. CASE ~y.ok
  <2>1. x = y  BY <1>0, <1>2, <1>3 DEF Parse, IfOk
  <2> QED  BY <1>1, <1>2, <1>3, <2>1 DEF Working, Kept
<1>4. CASE y.ok
  <2> DEFINE r == ParseReport(y, u)
  <2>1. x = Report(y, u, r)  BY <1>0, <1>2, <1>4 DEF Parse, IfOk
  <2>2. u \in Loaded(y) /\ y \in Drivers  BY <1>1, GrownLoaded DEF Sound
  <2>3. r \in Reports  BY <2>2, ReportTypes
  <2>4. r = ParseReport(y, u)  OBVIOUS
  <2> HIDE DEF r
  <2>5. /\ Sound(x) /\ Kept(y, x) /\ x.text = y.text /\ x.ana = y.ana /\ x.ok = y.ok
        /\ x.dc.diags[u] = With(y.dc.diags[u], r)
        /\ \A v \in Uris \ {u} : x.dc.diags[v] = y.dc.diags[v]
    BY <1>1, <1>u, <2>1, <2>3, DriverReportIs
  <2>6. Grown(y, x) /\ Loaded(x) = Loaded(y) /\ r = ParseReport(x, u)
    BY <2>4, <2>5, SameText
  <2>7. Kept(s, x) /\ Grown(s, x)  BY <1>1, <2>5, <2>6, KeptTrans
  <2>8. Working(s, x, u) /\ x.cut = s.cut  BY <1>1, <2>5, <2>7 DEF Working, Kept
  <2>9. x.dc.diags[u] = <<ParseReport(x, u)>>  BY <1>1, <2>5, <2>6, WithIs
  <2>10. Dependencies(x, u) = Dependencies(s, u)  BY <2>7, SameIndex DEF Kept, Placed
  <2>11. Prepared(x, u)  BY <1>1, <1>4, <2>2, <2>5, <2>6, <2>10 DEF Prepared
  <2> QED  BY <1>1, <1>2, <1>4, <2>5, <2>8, <2>9, <2>11
<1> QED  BY <1>3, <1>4

\* the second half: the shallow diagnostics
LEMMA ShallowIs ==
  ASSUME NEW s, Sound(s), NEW u \in Loaded(s),
         s.dc.diags[u] = <<ParseReport(s, u)>>, Prepared(s, u)
  PROVE  LET x == Shallow(s, u) IN
         Working(s, x, u) /\ x.cut = s.cut /\ x.ok = s.ok /\ Analysed(x, u)
<1> DEFINE r == ShallowReport(s, u)
<1>0. PICK x : x = Shallow(s, u)  OBVIOUS
<1>u. u \in Uris  BY DEF Loaded
<1>1. x = Report(s, u, r)  BY <1>0 DEF Shallow
<1>2. r \in Reports
  <2>1. Dependencies(s, u) \subseteq Loaded(s)  BY DEF Prepared
  <2> QED  BY <2>1, ReportTypes DEF Sound
<1>3. r = ShallowReport(s, u)  OBVIOUS
<1> HIDE DEF r
<1>4. /\ Sound(x) /\ Kept(s, x) /\ x.text = s.text /\ x.ana = s.ana /\ x.ok = s.ok
      /\ x.dc.diags[u] = With(s.dc.diags[u], r)
      /\ \A v \in Uris \ {u} : x.dc.diags[v] = s.dc.diags[v]
  BY <1>u, <1>1, <1>2, DriverReportIs
<1>5. Grown(s, x) /\ Loaded(x) = Loaded(s) /\ ParseReport(x, u) = ParseReport(s, u)
  BY <1>4, SameText
<1>6. Dependencies(x, u) = Dependencies(s, u)  BY <1>4, SameIndex DEF Kept, Placed
<1>7. ShallowReport(x, u) = r  BY <1>3, <1>4, <1>6 DEF ShallowReport
<1>8. x.dc.diags[u] = <<ParseReport(x, u), ShallowReport(x, u)>>
  BY <1>4, <1>5, <1>7, WithIs
<1>9. Analysed(x, u)  BY <1>4, <1>5, <1>6, <1>8 DEF Analysed, Prepared
<1> QED  BY <1>0, <1>4, <1>5, <1>9 DEF Working, Kept

\* a place where a change's analysis may be cut short
CutAt(x, stage, at) == IF stage = at THEN Abort(x) ELSE x

LEMMA CutIs ==
  ASSUME NEW x, Sound(x), NEW stage, NEW at
  PROVE  LET y == CutAt(x, stage, at) IN
         /\ Sound(y) /\ Kept(x, y) /\ y.text = x.text /\ y.ana = x.ana /\ y.dc = x.dc
         /\ y.ok => x.ok /\ stage # at
         /\ ~y.ok => ~x.ok \/ stage = at
<1>1. CASE stage = at  BY <1>1, AbortIs DEF CutAt
<1>2. CASE stage # at  BY <1>2 DEF CutAt, Kept, Placed
<1> QED  BY <1>1, <1>2

\* a cut changes nothing else
LEMMA CutWorking ==
  ASSUME NEW s, NEW u, NEW x, Working(s, x, u), NEW stage, NEW at
  PROVE  LET y == CutAt(x, stage, at) IN
         /\ Working(s, y, u) /\ y.ana = x.ana /\ y.dc = x.dc /\ y.cut = x.cut
         /\ y.ok => x.ok
         /\ ParseReport(y, u) = ParseReport(x, u)
         /\ Prepared(x, u) => Prepared(y, u)
         /\ Analysed(x, u) => Analysed(y, u)
<1>0. PICK y : y = CutAt(x, stage, at)  OBVIOUS
<1>1. /\ Sound(y) /\ Kept(x, y) /\ y.text = x.text /\ y.ana = x.ana /\ y.dc = x.dc
      /\ y.cut = x.cut /\ (y.ok => x.ok)
  <2>1. Sound(x)  BY DEF Working
  <2> QED  BY <1>0, <2>1, CutIs DEF Kept
<1>2. Grown(x, y) /\ Loaded(y) = Loaded(x) /\ ParseReport(y, u) = ParseReport(x, u)
  BY <1>1, SameText
<1>3. Working(x, y, u)  BY <1>1, <1>2 DEF Working, Kept
<1>4. Dependencies(y, u) = Dependencies(x, u)  BY <1>1, SameIndex DEF Kept, Placed
<1>5. ShallowReport(y, u) = ShallowReport(x, u)  BY <1>1, <1>4 DEF ShallowReport
<1>6. Working(s, y, u)  BY <1>3, WorkingTrans
<1>7. Prepared(x, u) => Prepared(y, u)  BY <1>1, <1>2, <1>4 DEF Prepared
<1>8. Analysed(x, u) => Analysed(y, u)  BY <1>1, <1>2, <1>5, <1>7 DEF Analysed
<1> QED  BY <1>0, <1>1, <1>2, <1>6, <1>7, <1>8

\* the history of analyses that were cut short
LEMMA WithCut ==
  ASSUME NEW s, Sound(s), NEW c \in SUBSET Uris
  PROVE  LET x == [s EXCEPT !.cut = c] IN
         /\ Sound(x) /\ Placed(s, x) /\ x.text = s.text /\ x.ana = s.ana /\ x.dc = s.dc
         /\ x.ok = s.ok /\ x.cut = c
<1>0. PICK x : x = [s EXCEPT !.cut = c]  OBVIOUS
<1>1. s \in Drivers /\ Shape(s)  BY DriverFields DEF Sound
<1>2. /\ Placed(s, x) /\ x.text = s.text /\ x.ana = s.ana /\ x.ok = s.ok /\ x.dc = s.dc
      /\ x.cut = c /\ Shape(x)
  BY <1>0, <1>1 DEF Shape, Placed
<1>3. x \in Drivers  BY <1>1, <1>2, DriverFields, DriverMade DEF Placed
<1>4. Sound(x)  BY <1>2, <1>3 DEF Sound, Placed, Loaded
<1> QED  BY <1>0, <1>2, <1>4

\* an analysis that begins
LEMMA BegunIs ==
  ASSUME NEW s, Sound(s), NEW u \in Uris
  PROVE  LET x == Begun(s, u) IN
         /\ Working(s, x, u) /\ u \in x.cut /\ x.ok = s.ok
<1>0. PICK x : x = Begun(s, u)  OBVIOUS
<1>1. x = [s EXCEPT !.cut = s.cut \cup {u}]  BY <1>0 DEF Begun
<1>2. s.cut \cup {u} \in SUBSET Uris  BY DriverFields DEF Sound
<1>3. /\ Sound(x) /\ Placed(s, x) /\ x.text = s.text /\ x.ana = s.ana /\ x.dc = s.dc
      /\ x.ok = s.ok /\ x.cut = s.cut \cup {u}
  BY <1>1, <1>2, WithCut
<1>4. Working(s, x, u)  BY <1>3, SameText DEF Working
<1> QED  BY <1>0, <1>3, <1>4

\* one that comes to its push
LEMMA PushOfIs ==
  ASSUME NEW s, Sound(s), NEW u \in Uris, Analysed(s, u)
  PROVE  LET x == PushOf(s, u) IN Working(s, x, u) /\ Analysed(x, u)
<1>0. PICK x : x = PushOf(s, u)  OBVIOUS
<1>1. PICK p : p = Push(s)  OBVIOUS
<1>2. /\ Sound(p) /\ Kept(s, p) /\ p.text = s.text /\ p.ana = s.ana
      /\ p.dc.diags = s.dc.diags
  BY <1>1, DriverPushIs
<1>3. x = [p EXCEPT !.cut = p.cut \ {u}]  BY <1>0, <1>1 DEF PushOf
<1>4. p.cut \ {u} \in SUBSET Uris  BY <1>2, DriverFields DEF Sound
<1>5. /\ Sound(x) /\ Placed(p, x) /\ x.text = p.text /\ x.ana = p.ana /\ x.dc = p.dc
      /\ x.cut = p.cut \ {u}
  BY <1>2, <1>3, <1>4, WithCut
<1>6. x.text = s.text /\ x.ana = s.ana /\ x.dc.diags = s.dc.diags /\ x.index = s.index
  BY <1>2, <1>5 DEF Kept, Placed
<1>7. Grown(s, x) /\ Loaded(x) = Loaded(s) /\ ParseReport(x, u) = ParseReport(s, u)
  BY <1>6, SameText
<1>8. Dependencies(x, u) = Dependencies(s, u)  BY <1>6, SameIndex
<1>9. ShallowReport(x, u) = ShallowReport(s, u)  BY <1>6, <1>8 DEF ShallowReport
<1>10. Analysed(x, u)  BY <1>6, <1>7, <1>8, <1>9 DEF Analysed, Prepared
<1>11. Working(s, x, u)  BY <1>2, <1>5, <1>6, <1>7 DEF Working, Kept, Placed
<1> QED  BY <1>0, <1>10, <1>11

\* The whole analysis.  Complete, it leaves the reports of the texts there
\* are, and so does one that comes to its push; another is cut short.
LEMMA AnalyzeIs ==
  ASSUME DiskOK, NEW s, Sound(s), NEW u \in Loaded(s), NEW stage \in Stages
  PROVE  LET x == AnalyzeTo(s, u, stage) IN
         /\ Working(s, x, u)
         /\ x.ok => s.ok /\ Analysed(x, u)
         /\ u \in x.cut \/ Analysed(x, u)
<1>u. u \in Uris  BY DEF Loaded
<1>0. PICK z : z = Begun(s, u)  OBVIOUS
<1>1. Working(s, z, u) /\ u \in z.cut /\ (z.ok => s.ok)  BY <1>0, <1>u, BegunIs
<1>2. PICK a : a = CutAt(z, stage, "start")  OBVIOUS
<1>3. Working(s, a, u) /\ u \in a.cut /\ (a.ok => s.ok)  BY <1>1, <1>2, CutWorking
<1>4. PICK b : b = IF a.ok THEN ClearDoc(a, u) ELSE a  OBVIOUS
<1>5. /\ Working(s, b, u) /\ u \in b.cut
      /\ b.ok => s.ok /\ b.dc.diags[u] = <<>>
  <2>1. CASE a.ok
    <3>1. Sound(a) /\ b = ClearDoc(a, u)  BY <1>3, <1>4, <2>1 DEF Working
    <3>2. /\ Sound(b) /\ Kept(a, b) /\ b.text = a.text /\ b.ana = a.ana /\ b.ok = a.ok
          /\ b.dc.diags[u] = <<>> /\ \A v \in Uris \ {u} : b.dc.diags[v] = a.dc.diags[v]
      BY <1>u, <3>1, DriverClearIs
    <3>3. Working(a, b, u) /\ b.cut = a.cut  BY <3>2, SameText DEF Working, Kept
    <3> QED  BY <1>3, <2>1, <3>2, <3>3, WorkingTrans
  <2>2. CASE ~a.ok  BY <1>3, <1>4, <2>2
  <2> QED  BY <2>1, <2>2
<1>6. PICK c : c = CutAt(b, stage, "cleared")  OBVIOUS
<1>7. /\ Working(s, c, u) /\ u \in c.cut
      /\ c.ok => s.ok /\ c.dc.diags[u] = <<>>
  BY <1>5, <1>6, CutWorking
<1>8. PICK d : d = IF c.ok THEN Parse(c, u) ELSE c  OBVIOUS
<1>9. /\ Working(s, d, u) /\ u \in d.cut
      /\ d.ok => s.ok /\ d.dc.diags[u] = <<ParseReport(d, u)>> /\ Prepared(d, u)
  <2>1. CASE c.ok
    <3>1. Sound(c) /\ u \in Loaded(c)  BY <1>7, GrownLoaded DEF Working
    <3>2. /\ Working(c, d, u) /\ d.cut = c.cut
          /\ d.ok => c.ok /\ d.dc.diags[u] = <<ParseReport(d, u)>> /\ Prepared(d, u)
      BY <1>7, <1>8, <2>1, <3>1, ParseIs
    <3> QED  BY <1>7, <2>1, <3>2, WorkingTrans
  <2>2. CASE ~c.ok  BY <1>7, <1>8, <2>2
  <2> QED  BY <2>1, <2>2
<1>10. PICK e : e = CutAt(d, stage, "parsed")  OBVIOUS
<1>11. /\ Working(s, e, u) /\ u \in e.cut
       /\ e.ok => s.ok /\ e.dc.diags[u] = <<ParseReport(e, u)>> /\ Prepared(e, u)
  BY <1>9, <1>10, CutWorking
<1>12. PICK f : f = IF e.ok THEN Shallow(e, u) ELSE e  OBVIOUS
<1>13. /\ Working(s, f, u) /\ u \in f.cut
       /\ f.ok => s.ok /\ Analysed(f, u)
  <2>1. CASE e.ok
    <3>1. Sound(e) /\ u \in Loaded(e)  BY <1>11, GrownLoaded DEF Working
    <3>2. Working(e, f, u) /\ f.cut = e.cut /\ f.ok = e.ok /\ Analysed(f, u)
      BY <1>11, <1>12, <2>1, <3>1, ShallowIs
    <3> QED  BY <1>11, <2>1, <3>2, WorkingTrans
  <2>2. CASE ~e.ok  BY <1>11, <1>12, <2>2
  <2> QED  BY <2>1, <2>2
<1>14. PICK g : g = CutAt(f, stage, "reported")  OBVIOUS
<1>15. /\ Working(s, g, u) /\ u \in g.cut
       /\ g.ok => s.ok /\ Analysed(g, u)
  BY <1>13, <1>14, CutWorking
<1>16. PICK h : h = IF g.ok THEN PushOf(g, u) ELSE g  OBVIOUS
<1>17. /\ Working(s, h, u) /\ (u \in h.cut \/ Analysed(h, u))
       /\ h.ok => s.ok /\ Analysed(h, u)
  <2>1. CASE g.ok
    <3>1. Sound(g) /\ Analysed(g, u)  BY <1>15, <2>1 DEF Working
    <3>2. Working(g, h, u) /\ Analysed(h, u)  BY <1>u, <1>16, <2>1, <3>1, PushOfIs
    <3> QED  BY <1>15, <2>1, <3>2, WorkingTrans
  <2>2. CASE ~g.ok  BY <1>15, <1>16, <2>2
  <2> QED  BY <2>1, <2>2
<1>18. PICK k : k = CutAt(h, stage, "pushed")  OBVIOUS
<1>19. /\ Working(s, k, u) /\ (u \in k.cut \/ Analysed(k, u))
       /\ k.ok => s.ok /\ Analysed(k, u)
  BY <1>17, <1>18, CutWorking
<1>20. PICK x : x = AnalyzeTo(s, u, stage)  BY ZenonT(60)
<1>21. x = IF k.ok THEN PublishInactiveRegions(k, u) ELSE k
  BY <1>0, <1>2, <1>4, <1>6, <1>8, <1>10, <1>12, <1>14, <1>16, <1>18, <1>20, ZenonT(60)
     DEF AnalyzeTo, IfOk, CutAt, ClearDoc
<1>22. x = k
  <2>1. CASE k.ok
    <3>1. Sound(k) /\ u \in Loaded(k)  BY <1>19, GrownLoaded DEF Working
    <3>2. k.ana[u] # {}  BY <1>19, <2>1 DEF Analysed, Prepared
    <3> QED  BY <1>21, <2>1, <3>1, <3>2, RegionsIs
  <2>2. CASE ~k.ok  BY <1>21, <2>2
  <2> QED  BY <2>1, <2>2
<1> QED  BY <1>19, <1>20, <1>22

----------------------------------------------------------------------------
(* Opening and closing                                                       *)

\* Opening a document with a text: it has that text, other documents lose at
\* most the analyses that hold the old one, and in explore mode it is analysed.
Opened(s, x, u, t) ==
  /\ Sound(x) /\ x.index = s.index /\ x.comp = s.comp
  /\ x.sources = s.sources /\ x.view = s.view
  /\ x.open = (IF x.ok THEN s.open \cup {u} ELSE s.open)
  /\ x.text[u] = t
  /\ \A v \in Uris \ {u} : \/ x.text[v] = s.text[v]
                           \/ s.text[v] = NoDoc /\ x.text[v] = disk[v] /\ disk[v] # Missing
  /\ \A v \in Uris \ {u} : /\ x.dc.diags[v] = s.dc.diags[v]
                           /\ v \in x.cut <=> v \in s.cut
                           /\ x.ana[v] # {} => /\ x.ana[v] = s.ana[v]
                                               /\ u \in s.ana[v] => s.text[u] = t
  /\ x.ok /\ s.comp = {} => Analysed(x, u)
  /\ s.comp = {} => u \in x.cut \/ Analysed(x, u)

\* a document that is opened, or opened again with another text
LEMMA OpenDocumentIs ==
  ASSUME DiskOK, NEW s, Sound(s), NEW u \in Uris, NEW t \in Texts, s.ok
  PROVE  Opened(s, OpenDocument(s, u, t), u, t)
<1> DEFINE current == IF s.text[u] = t THEN s ELSE SetText(s, u, t)
           compiled == s.comp # {} /\ s.text[u] = t /\ u \in s.sources
<1>1. PICK c : c = current  OBVIOUS
<1>2. /\ Sound(c) /\ Kept(s, c) /\ c.dc = s.dc /\ c.ok
      /\ c.text[u] = t /\ \A v \in Uris \ {u} : c.text[v] = s.text[v]
      /\ \A v \in Uris \ {u} : c.ana[v] # {} => /\ c.ana[v] = s.ana[v]
                                                /\ u \in s.ana[v] => s.text[u] = t
  <2>1. CASE s.text[u] = t  BY <1>1, <2>1 DEF Kept, Placed
  <2>2. CASE s.text[u] # t
    <3>1. c = SetText(s, u, t)  BY <1>1, <2>2
    <3> HIDE DEF current, compiled
    <3>2. /\ Sound(c) /\ Kept(s, c) /\ c.dc = s.dc /\ c.ok
          /\ c.text[u] = t /\ OtherTexts(s, c, u) /\ Invalidated(s, c, u)
      BY <3>1, SetTextIs
    <3> QED  BY <2>2, <3>2 DEF OtherTexts, Invalidated
  <2> QED  BY <2>1, <2>2
<1>3. u \in Loaded(c)  BY <1>2, TextsAre DEF Loaded
<1>4. PICK y : y = IF compiled THEN PublishInactiveRegions(c, u) ELSE Analyze(c, u)  OBVIOUS
<1>5. /\ Sound(y) /\ Placed(c, y) /\ Grown(c, y)
      /\ \A v \in Uris \ {u} : /\ y.ana[v] = c.ana[v] /\ y.dc.diags[v] = c.dc.diags[v]
                               /\ v \in y.cut <=> v \in c.cut
      /\ y.ok /\ s.comp = {} => Analysed(y, u)
      /\ s.comp = {} => u \in y.cut \/ Analysed(y, u)
  <2>1. CASE compiled
    <3>1. y = PublishInactiveRegions(c, u) /\ s.comp # {}  BY <1>4, <2>1
    <3> HIDE DEF current, compiled
    <3>2. /\ Sound(y) /\ Kept(c, y) /\ Grown(c, y) /\ y.dc = c.dc
          /\ \A v \in Uris \ {u} : y.ana[v] = c.ana[v]
      BY <1>2, <1>3, <3>1, RegionsIs
    <3> QED  BY <3>1, <3>2 DEF Kept
  <2>2. CASE ~compiled
    <3>1. y = AnalyzeTo(c, u, "end") /\ "end" \in Stages
      BY <1>4, <2>2 DEF Analyze, Stages
    <3>2. /\ Working(c, y, u)
          /\ y.ok => Analysed(y, u)
          /\ u \in y.cut \/ Analysed(y, u)
      <4> HIDE DEF current, compiled
      <4> QED  BY <1>2, <1>3, <3>1, AnalyzeIs
    <3> QED  BY <3>2 DEF Working, Kept
  <2> QED  BY <2>1, <2>2
<1>6. PICK x : x = OpenDocument(s, u, t)  OBVIOUS
<1>7. x = IF y.ok THEN [y EXCEPT !.open = @ \cup {u}] ELSE y
  BY <1>1, <1>4, <1>6 DEF OpenDocument, IfOk
<1>8. u \in Loaded(y)  BY <1>3, <1>5, GrownLoaded
<1>9. /\ x.text = y.text /\ x.index = y.index /\ x.ana = y.ana /\ x.comp = y.comp
      /\ x.sources = y.sources /\ x.view = y.view /\ x.dc = y.dc /\ x.ok = y.ok
      /\ x.open = IF y.ok THEN y.open \cup {u} ELSE y.open
      /\ x.cut = y.cut /\ Sound(x)
  <2>1. CASE ~y.ok  BY <1>5, <1>7, <2>1
  <2>2. CASE y.ok
    <3>1. x = [y EXCEPT !.open = @ \cup {u}]  BY <1>7, <2>2
    <3>2. y \in Drivers /\ Shape(y)  BY <1>5, DriverFields DEF Sound
    <3>3. /\ x.text = y.text /\ x.index = y.index /\ x.ana = y.ana /\ x.comp = y.comp
          /\ x.sources = y.sources /\ x.view = y.view /\ x.dc = y.dc /\ x.ok = y.ok
          /\ x.open = y.open \cup {u} /\ x.cut = y.cut /\ Shape(x)
      BY <3>1, <3>2 DEF Shape
    <3>4. x.open \in SUBSET Uris  BY <3>2, <3>3, DriverFields
    <3>5. x \in Drivers  BY <3>2, <3>3, <3>4, DriverFields, DriverMade
    <3>6. Sound(x)  BY <1>5, <1>8, <3>3, <3>5 DEF Sound, Loaded
    <3> QED  BY <2>2, <3>3, <3>6
  <2> QED  BY <2>1, <2>2
<1>10. /\ x.ok /\ s.comp = {} => Analysed(x, u)
       /\ s.comp = {} => u \in x.cut \/ Analysed(x, u)
  BY <1>5, <1>9 DEF Analysed, Prepared, ParseReport, ShallowReport, Dependencies, Loaded
<1>11. x.text[u] = t  BY <1>2, <1>3, <1>5, <1>9, GrownLoaded
<1> HIDE DEF current, compiled
<1>12. \A v \in Uris \ {u} : \/ x.text[v] = s.text[v]
                             \/ s.text[v] = NoDoc /\ x.text[v] = disk[v] /\ disk[v] # Missing
  BY <1>2, <1>5, <1>9 DEF Grown
<1>13. \A v \in Uris \ {u} : /\ x.dc.diags[v] = s.dc.diags[v]
                             /\ v \in x.cut <=> v \in s.cut
                             /\ x.ana[v] # {} => /\ x.ana[v] = s.ana[v]
                                                 /\ u \in s.ana[v] => s.text[u] = t
  BY <1>2, <1>5, <1>9 DEF Kept
<1>14. /\ x.index = s.index /\ x.comp = s.comp /\ x.sources = s.sources /\ x.view = s.view
       /\ x.open = IF x.ok THEN s.open \cup {u} ELSE s.open
  BY <1>2, <1>5, <1>9 DEF Kept, Placed
<1> QED  BY <1>5, <1>6, <1>9, <1>10, <1>11, <1>12, <1>13, <1>14 DEF Opened

\* Closing keeps the text; in explore mode it drops the diagnostics.
LEMMA CloseDocumentIs ==
  ASSUME NEW s, Sound(s), NEW u \in Uris
  PROVE  LET x == CloseDocument(s, u) IN
         /\ Sound(x) /\ x.index = s.index /\ x.comp = s.comp /\ x.text = s.text
         /\ x.sources = s.sources /\ x.view = s.view /\ x.ana = s.ana /\ x.ok = s.ok
         /\ x.open = s.open \ {u} /\ x.cut = s.cut \ {u}
         /\ \A v \in Uris \ {u} : x.dc.diags[v] = s.dc.diags[v]
         /\ x.dc.diags[u] = IF s.comp = {} THEN <<>> ELSE s.dc.diags[u]
<1>1. PICK c : c = IF s.comp = {} THEN DC!ClearUri(s.dc, u) ELSE s.dc  OBVIOUS
<1>2. Client(s.dc) /\ Clean(s.dc) /\ s \in Drivers /\ Shape(s)  BY DriverFields DEF Sound
<1>3. /\ Client(c) /\ Clean(c)
      /\ \A v \in Uris \ {u} : c.diags[v] = s.dc.diags[v]
      /\ c.diags[u] = IF s.comp = {} THEN <<>> ELSE s.dc.diags[u]
  BY <1>1, <1>2, ClearUriIs
<1>4. PICK x : x = CloseDocument(s, u)  OBVIOUS
<1>5. /\ x.index = s.index /\ x.comp = s.comp /\ x.text = s.text
      /\ x.sources = s.sources /\ x.view = s.view /\ x.ana = s.ana /\ x.ok = s.ok
      /\ x.open = s.open \ {u} /\ x.cut = s.cut \ {u} /\ x.dc = c /\ Shape(x)
  BY <1>1, <1>2, <1>4 DEF CloseDocument, Shape
<1>6. x.open \in SUBSET Uris /\ x.cut \in SUBSET Uris  BY <1>2, <1>5, DriverFields
<1>7. x \in Drivers  BY <1>2, <1>3, <1>5, <1>6, DriverFields, DriverMade
<1>8. Sound(x)  BY <1>3, <1>5, <1>7 DEF Sound, Loaded
<1> QED  BY <1>3, <1>4, <1>5, <1>8

----------------------------------------------------------------------------
(* Publishing a compilation                                                  *)

\* c is the driver at the start, the documents in order, and the report that
\* each is given: those given so far have it once.
PublishGood(c, n, x) ==
  /\ Sound(x) /\ Kept(c[1], x) /\ x.text = c[1].text /\ x.ana = c[1].ana /\ x.ok
  /\ \A v \in Uris :
       /\ (\E i \in 1..n : c[2][i] = v) => x.dc.diags[v] = With(c[1].dc.diags[v], c[3][v])
       /\ (\A i \in 1..n : c[2][i] # v) => x.dc.diags[v] = c[1].dc.diags[v]

\* before the first report of a pass
LEMMA PublishStart ==
  ASSUME NEW s, Sound(s), s.ok, NEW q, NEW f
  PROVE  PublishGood(<<s, q, f>>, 0, s)
BY DEF PublishGood, Kept, Placed

\* one report of a pass leaves the others alone
LEMMA PublishStep ==
  ASSUME NEW s, NEW S \in SUBSET Uris, NEW q, Lists(q, S), NEW f, NEW n \in 0..(Len(q) - 1),
         NEW x, PublishGood(<<s, q, f>>, n, x), f[q[n + 1]] \in Reports
  PROVE  PublishGood(<<s, q, f>>, n + 1, Report(x, q[n + 1], f[q[n + 1]]))
<1> DEFINE u == q[n + 1]
<1>1. q \in Seq(S) /\ n \in Nat /\ n + 1 \in 1..Len(q)  BY DEF Lists
<1>2. u \in Uris  BY <1>1
<1>3. \A i \in 1..n : q[i] # u
  <2>1. \A i \in 1..n : i \in 1..Len(q) /\ i # n + 1  BY <1>1
  <2> QED  BY <1>1, <2>1 DEF Lists
<1>4. \A i \in 1..(n + 1) : i \in 1..n \/ i = n + 1  BY <1>1
<1>5. 1..n \subseteq 1..(n + 1) /\ n + 1 \in 1..(n + 1)  BY <1>1
<1>6. /\ Sound(x) /\ Kept(s, x) /\ x.text = s.text /\ x.ana = s.ana /\ x.ok
      /\ \A v \in Uris : (\E i \in 1..n : q[i] = v) => x.dc.diags[v] = With(s.dc.diags[v], f[v])
      /\ \A v \in Uris : (\A i \in 1..n : q[i] # v) => x.dc.diags[v] = s.dc.diags[v]
  BY DEF PublishGood
<1> DEFINE r == f[u]
<1>7. r \in Reports /\ r = f[u] /\ u = q[n + 1]  OBVIOUS
<1>8. PICK y : y = Report(x, u, r)  OBVIOUS
<1> HIDE DEF u, r
<1>9. /\ Sound(y) /\ Kept(x, y) /\ y.text = x.text /\ y.ana = x.ana
      /\ y.dc.diags[u] = With(x.dc.diags[u], r)
      /\ \A v \in Uris \ {u} : y.dc.diags[v] = x.dc.diags[v]
  BY <1>2, <1>6, <1>7, <1>8, DriverReportIs
<1>10. y.ok
  <2>1. y.ok = x.ok  BY ONLY <1>2, <1>6, <1>7, <1>8, DriverReportIs
  <2> QED  BY <1>6, <2>1, Zenon
<1>11. Kept(s, y) /\ y.text = s.text /\ y.ana = s.ana  BY <1>6, <1>9 DEF Kept, Placed
<1>12. ASSUME NEW v \in Uris, \E i \in 1..(n + 1) : q[i] = v
       PROVE  y.dc.diags[v] = With(s.dc.diags[v], f[v])
  <2>1. CASE v = u  BY <1>3, <1>6, <1>7, <1>9, <2>1
  <2>2. CASE v # u
    <3>1. \E i \in 1..n : q[i] = v  BY <1>4, <1>7, <1>12, <2>2
    <3> QED  BY <1>6, <1>9, <2>2, <3>1
  <2> QED  BY <2>1, <2>2
<1>13. ASSUME NEW v \in Uris, \A i \in 1..(n + 1) : q[i] # v
       PROVE  y.dc.diags[v] = s.dc.diags[v]
  BY <1>5, <1>6, <1>7, <1>9, <1>13
<1>14. PublishGood(<<s, q, f>>, n + 1, y)
  BY <1>9, <1>10, <1>11, <1>12, <1>13 DEF PublishGood
<1> QED  BY <1>7, <1>8, <1>14

\* the two passes: parse diagnostics of every document, then the design's
ParseAll(x, u) == Report(x, u, ParseReport(x, u))
ParseAllStep(acc, u) == IF acc.ok THEN ParseAll(acc, u) ELSE acc
DesignAll(x, u) == Report(x, u, DesignReport(x))
DesignAllStep(acc, u) == IF acc.ok THEN DesignAll(acc, u) ELSE acc

\* the passes as folds
Parses == INSTANCE FoldTheorems WITH Step <- ParseAllStep, Good <- PublishGood
Designs == INSTANCE FoldTheorems WITH Step <- DesignAllStep, Good <- PublishGood

\* the parse diagnostics of every document
LEMMA ParsesIs ==
  ASSUME NEW s, Sound(s), s.ok, NEW q, Lists(q, Loaded(s))
  PROVE  PublishGood(<<s, q, [v \in Uris |-> ParseReport(s, v)]>>, Len(q), Then(ParseAll, s, q))
<1> DEFINE f == [v \in Uris |-> ParseReport(s, v)]
           c == <<s, q, f>>
<1>1. Then(ParseAll, s, q) = FoldLeft(ParseAllStep, s, q)  BY DEF Then, ParseAllStep
<1>2. \A v \in Uris : f[v] = ParseReport(s, v)  OBVIOUS
<1>l. Loaded(s) \in SUBSET Uris /\ q \in Seq(Loaded(s))  BY DEF Loaded, Lists
<1> HIDE DEF f
<1>3. PublishGood(c, 0, s)  BY PublishStart
<1>4. ASSUME NEW n \in 0..(Len(q) - 1), NEW x, PublishGood(c, n, x)
      PROVE  PublishGood(c, n + 1, ParseAllStep(x, q[n + 1]))
  <2>1. q[n + 1] \in Loaded(s) /\ q[n + 1] \in Uris  BY <1>l
  <2>2. x.text = s.text /\ x.ok  BY <1>4 DEF PublishGood
  <2>3. ParseReport(x, q[n + 1]) = f[q[n + 1]]  BY <1>2, <2>1, <2>2 DEF ParseReport
  <2>4. ParseAllStep(x, q[n + 1]) = Report(x, q[n + 1], f[q[n + 1]])
    BY <2>2, <2>3 DEF ParseAllStep, ParseAll
  <2>5. f[q[n + 1]] \in Reports  BY <1>2, <2>1, ReportTypes DEF Sound
  <2> QED  BY <1>l, <1>4, <2>4, <2>5, PublishStep
<1>5. PublishGood(c, Len(q), Parses!FoldLeft(ParseAllStep, s, q))
  <2> HIDE DEF c
  <2> QED  BY <1>l, <1>3, <1>4, Parses!FoldInduction
<1>6. Parses!FoldLeft(ParseAllStep, s, q) = FoldLeft(ParseAllStep, s, q)
  BY DEF Parses!FoldLeft, FoldLeft, Parses!MapThenFoldSet, MapThenFoldSet, Parses!Max, Max
<1> QED  BY <1>1, <1>5, <1>6 DEF f

\* the design's diagnostics of the compilation's documents
LEMMA DesignsIs ==
  ASSUME NEW s, Sound(s), s.ok, NEW q, Lists(q, s.comp)
  PROVE  PublishGood(<<s, q, [v \in Uris |-> DesignReport(s)]>>, Len(q), Then(DesignAll, s, q))
<1> DEFINE f == [v \in Uris |-> DesignReport(s)]
           c == <<s, q, f>>
<1>1. Then(DesignAll, s, q) = FoldLeft(DesignAllStep, s, q)  BY DEF Then, DesignAllStep
<1>2. \A v \in Uris : f[v] = DesignReport(s)  OBVIOUS
<1>l. s.comp \in SUBSET Uris /\ q \in Seq(s.comp) /\ s.comp \subseteq Loaded(s)
  BY DriverFields DEF Sound, Lists
<1> HIDE DEF f
<1>3. PublishGood(c, 0, s)  BY PublishStart
<1>4. ASSUME NEW n \in 0..(Len(q) - 1), NEW x, PublishGood(c, n, x)
      PROVE  PublishGood(c, n + 1, DesignAllStep(x, q[n + 1]))
  <2>1. q[n + 1] \in Loaded(s) /\ q[n + 1] \in Uris  BY <1>l
  <2>2. x.view = s.view /\ x.ok  BY <1>4 DEF PublishGood, Kept, Placed
  <2>3. DesignReport(x) = f[q[n + 1]]  BY <1>2, <2>1, <2>2 DEF DesignReport
  <2>4. DesignAllStep(x, q[n + 1]) = Report(x, q[n + 1], f[q[n + 1]])
    BY <2>2, <2>3 DEF DesignAllStep, DesignAll
  <2>5. f[q[n + 1]] \in Reports  BY <1>2, <2>1, ReportTypes DEF Sound
  <2> QED  BY <1>l, <1>4, <2>4, <2>5, PublishStep
<1>5. PublishGood(c, Len(q), Designs!FoldLeft(DesignAllStep, s, q))
  <2> HIDE DEF c
  <2> QED  BY <1>l, <1>3, <1>4, Designs!FoldInduction
<1>6. Designs!FoldLeft(DesignAllStep, s, q) = FoldLeft(DesignAllStep, s, q)
  BY DEF Designs!FoldLeft, FoldLeft, Designs!MapThenFoldSet, MapThenFoldSet, Designs!Max, Max
<1> QED  BY <1>1, <1>5, <1>6 DEF f

\* A published driver: what was empty has the parse diagnostics of its text,
\* and in the compilation the design's, and the editor shows them.
LEMMA PublishIs ==
  ASSUME NEW s, Sound(s), s.ok
  PROVE  LET x == Publish(s) IN
         /\ Sound(x) /\ Kept(s, x) /\ x.text = s.text /\ x.ana = s.ana /\ x.ok /\ x.dc.dirty = {}
         /\ \A v \in Loaded(s) : s.dc.diags[v] = <<>> =>
              x.dc.diags[v] = IF v \in s.comp THEN <<ParseReport(s, v), DesignReport(s)>>
                                              ELSE <<ParseReport(s, v)>>
<1> DEFINE q == SetToSeq(Loaded(s))
           f == [v \in Uris |-> ParseReport(s, v)]
           p == SetToSeq(s.comp)
           g == [v \in Uris |-> DesignReport(s)]
<1>1. Loaded(s) \in SUBSET Uris /\ s.comp \in SUBSET Uris /\ s.comp \subseteq Loaded(s)
  BY DriverFields DEF Sound, Loaded
<1>2. Lists(q, Loaded(s)) /\ Lists(p, s.comp)  BY <1>1, SubsetsFinite, SetToSeqLists
<1>3. \A v \in Uris : f[v] = ParseReport(s, v) /\ g[v] = DesignReport(s)  OBVIOUS
<1>4. PICK y : y = Then(ParseAll, s, q)  OBVIOUS
<1>5. PublishGood(<<s, q, f>>, Len(q), y)  BY <1>2, <1>4, ParsesIs
<1>6. PICK z : z = Then(DesignAll, y, p)  OBVIOUS
<1>7. /\ Sound(y) /\ Kept(s, y) /\ y.text = s.text /\ y.ana = s.ana /\ y.ok
      /\ \A v \in Loaded(s) : s.dc.diags[v] = <<>> => y.dc.diags[v] = <<ParseReport(s, v)>>
  <2> HIDE DEF q, f
  <2>1. /\ Sound(y) /\ Kept(s, y) /\ y.text = s.text /\ y.ana = s.ana /\ y.ok
        /\ \A v \in Uris : (\E i \in 1..Len(q) : q[i] = v)
                             => y.dc.diags[v] = With(s.dc.diags[v], f[v])
    BY <1>5 DEF PublishGood
  <2>2. ASSUME NEW v \in Loaded(s), s.dc.diags[v] = <<>>
        PROVE  y.dc.diags[v] = <<ParseReport(s, v)>>
    <3>1. v \in Uris /\ \E i \in 1..Len(q) : q[i] = v  BY <1>1, <1>2 DEF Lists
    <3> QED  BY <1>3, <2>1, <2>2, <3>1, WithIs, ZenonT(60)
  <2> QED  BY <2>1, <2>2
<1>8. y.comp = s.comp /\ DesignReport(y) = DesignReport(s)  BY <1>7 DEF Kept, Placed, DesignReport
<1>9. PublishGood(<<y, p, g>>, Len(p), z)
  <2>1. PublishGood(<<y, p, [v \in Uris |-> DesignReport(y)]>>, Len(p), z)
    <3> HIDE DEF p
    <3> QED  BY <1>2, <1>6, <1>7, <1>8, DesignsIs
  <2> QED  BY <1>8, <2>1
<1>10. /\ Sound(z) /\ Kept(s, z) /\ z.text = s.text /\ z.ana = s.ana /\ z.ok
       /\ \A v \in Loaded(s) : s.dc.diags[v] = <<>> =>
            z.dc.diags[v] = IF v \in s.comp THEN <<ParseReport(s, v), DesignReport(s)>>
                                            ELSE <<ParseReport(s, v)>>
  <2> HIDE DEF p, g, q, f
  <2>1. /\ Sound(z) /\ Kept(y, z) /\ z.text = y.text /\ z.ana = y.ana /\ z.ok
        /\ \A v \in Uris : (\E i \in 1..Len(p) : p[i] = v)
                             => z.dc.diags[v] = With(y.dc.diags[v], g[v])
        /\ \A v \in Uris : (\A i \in 1..Len(p) : p[i] # v) => z.dc.diags[v] = y.dc.diags[v]
    BY <1>9 DEF PublishGood
  <2>2. ASSUME NEW v \in Loaded(s), s.dc.diags[v] = <<>>, v \in s.comp
        PROVE  z.dc.diags[v] = <<ParseReport(s, v), DesignReport(s)>>
    <3>1. v \in Uris /\ \E i \in 1..Len(p) : p[i] = v  BY <1>1, <1>2, <2>2 DEF Lists
    <3>2. z.dc.diags[v] = With(<<ParseReport(s, v)>>, DesignReport(s))
      BY <1>3, <1>7, <2>1, <2>2, <3>1
    <3> QED  BY <3>2, WithIs
  <2>3. ASSUME NEW v \in Loaded(s), s.dc.diags[v] = <<>>, v \notin s.comp
        PROVE  z.dc.diags[v] = <<ParseReport(s, v)>>
    <3>1. p \in Seq(s.comp) /\ v \in Uris  BY <1>1, <1>2 DEF Lists
    <3>2. \A i \in 1..Len(p) : p[i] # v  BY <2>3, <3>1
    <3> QED  BY <1>7, <2>1, <2>3, <3>1, <3>2
  <2>4. Kept(s, z)  BY <1>7, <2>1 DEF Kept, Placed
  <2> QED  BY <1>7, <2>1, <2>2, <2>3, <2>4
<1>11. PICK x : x = Publish(s)  OBVIOUS
<1>12. x = Push(z)  BY <1>4, <1>6, <1>8, <1>11 DEF Publish, ParseAll, DesignAll, Loaded
<1> HIDE DEF q, f, p, g
<1>13. /\ Sound(x) /\ Kept(z, x) /\ x.text = z.text /\ x.ana = z.ana
       /\ x.dc.diags = z.dc.diags /\ x.dc.dirty = {}
  BY <1>10, <1>12, DriverPushIs
<1>14. x.ok
  <2>1. x.ok = z.ok  BY ONLY <1>10, <1>12, DriverPushIs
  <2> QED  BY <1>10, <2>1, Zenon
<1>15. Kept(s, x)  BY <1>10, <1>13 DEF Kept, Placed
<1>16. x.text = s.text /\ x.ana = s.ana  BY <1>10, <1>13
<1> QED  BY <1>10, <1>11, <1>13, <1>14, <1>15, <1>16

\* refreshing the compilation
LEMMA RefreshIs ==
  ASSUME NEW s, Sound(s)
  PROVE  LET x == Refresh(s) IN
         /\ Sound(x) /\ x.open = s.open /\ x.index = s.index /\ x.comp = s.comp
         /\ x.sources = s.sources /\ x.text = s.text /\ x.ana = s.ana /\ x.dc = s.dc /\ x.ok = s.ok
         /\ x.view = [u \in s.comp |-> s.text[u]] /\ x.cut = s.cut
<1>0. PICK x : x = Refresh(s)  OBVIOUS
<1>1. /\ s \in Drivers /\ Shape(s) /\ s.comp \in SUBSET Uris
      /\ s.text \in [Uris -> Texts \cup {NoDoc}] /\ s.comp \subseteq Loaded(s)
  BY DriverFields DEF Sound
<1>2. /\ x.open = s.open /\ x.index = s.index /\ x.comp = s.comp
      /\ x.sources = s.sources /\ x.text = s.text /\ x.ana = s.ana /\ x.dc = s.dc /\ x.ok = s.ok
      /\ x.view = [u \in s.comp |-> s.text[u]] /\ x.cut = s.cut /\ Shape(x)
  BY <1>0, <1>1 DEF Refresh, Shape
<1>3. x.view \in [s.comp -> Texts]  BY <1>1, <1>2 DEF Loaded
<1>4. x.view \in Views  BY <1>1, <1>3, ViewIs
<1>5. x \in Drivers  BY <1>1, <1>2, <1>4, DriverFields, DriverMade
<1>6. Sound(x)  BY <1>2, <1>5 DEF Sound, Loaded
<1> QED  BY <1>0, <1>2, <1>6

\* A save in a build: every document has its parse diagnostics and, in the
\* compilation, the design's, all of the texts there are.
BuildSaved(s, x) ==
  /\ x.open = s.open /\ x.comp = s.comp /\ Grown(s, x)
  /\ x.view = [v \in s.comp |-> s.text[v]]
  /\ \A v \in Loaded(s) :
       x.dc.shown[v] =
         IF v \in s.comp
         THEN <<ParseReport(s, v), <<"design", [w \in s.comp |-> s.text[w]]>>>>
         ELSE <<ParseReport(s, v)>>

LEMMA SaveBuildIs ==
  ASSUME DiskOK, NEW s, Sound(s), s.ok, s.comp # {}, NEW u \in Loaded(s), NEW others
  PROVE  LET x == SaveDocument(s, u, others) IN Sound(x) /\ BuildSaved(s, x)
<1>u. u \in Uris  BY DEF Loaded
<1>1. s \in Drivers /\ Shape(s) /\ Client(s.dc) /\ Clean(s.dc)  BY DriverFields DEF Sound
<1>2. PICK c : c = DC!ClearAll(s.dc)  OBVIOUS
<1>3. Client(c) /\ Clean(c) /\ \A v \in Uris : c.diags[v] = <<>>
  BY <1>1, <1>2, ClearAllIs, NoDiagsIs
<1>4. PICK k : k = [[s EXCEPT !.index = @ \cup {u}] EXCEPT !.dc = c]  OBVIOUS
<1>5. /\ Sound(k) /\ k.open = s.open /\ k.comp = s.comp /\ k.text = s.text /\ k.dc = c
      /\ k.ok = s.ok
  <2>1. /\ k.open = s.open /\ k.comp = s.comp /\ k.text = s.text /\ k.dc = c /\ k.ok = s.ok
        /\ k.ana = s.ana /\ k.sources = s.sources /\ k.view = s.view
        /\ k.index = s.index \cup {u} /\ k.cut = s.cut /\ Shape(k)
    BY <1>1, <1>4 DEF Shape
  <2>2. k.index \in SUBSET Uris  BY <1>u, <1>1, <2>1, DriverFields
  <2>3. k \in Drivers  BY <1>1, <1>3, <2>1, <2>2, DriverFields, DriverMade
  <2>4. Sound(k)  BY <1>3, <2>1, <2>3 DEF Sound, Loaded
  <2> QED  BY <2>1, <2>4
<1>6. PICK r : r = Refresh(k)  OBVIOUS
<1>7. /\ Sound(r) /\ r.open = k.open /\ r.comp = k.comp /\ r.text = k.text
      /\ r.dc = k.dc /\ r.ok = k.ok /\ r.view = [v \in k.comp |-> k.text[v]]
  BY <1>5, <1>6, RefreshIs
<1>8. PICK y : y = [r EXCEPT !.ana = [v \in Uris |-> {}]]  OBVIOUS
<1>9. /\ Sound(y) /\ y.open = s.open /\ y.comp = s.comp /\ y.text = s.text
      /\ y.dc = c /\ y.ok = s.ok /\ y.view = [v \in s.comp |-> s.text[v]]
  <2>1. r \in Drivers /\ Shape(r)  BY <1>7, DriverFields DEF Sound
  <2>2. /\ y.open = r.open /\ y.comp = r.comp /\ y.text = r.text /\ y.dc = r.dc /\ y.ok = r.ok
        /\ y.sources = r.sources /\ y.view = r.view /\ y.index = r.index
        /\ y.ana = [v \in Uris |-> {}] /\ y.cut = r.cut /\ Shape(y)
    BY <1>8, <2>1 DEF Shape
  <2>3. y.ana \in [Uris -> SUBSET Uris]  BY <2>2
  <2>4. y \in Drivers  BY <2>1, <2>2, <2>3, DriverFields, DriverMade
  <2>5. Sound(y)  BY <1>7, <2>2, <2>4 DEF Sound, Loaded
  <2> QED  BY <1>5, <1>7, <2>2, <2>5
<1>10. PICK p : p = Publish(y)  OBVIOUS
<1>11. PICK x : x = SaveDocument(s, u, others)  OBVIOUS
<1>12. x = PublishInactiveRegions(p, u)
  <2>1. [[s EXCEPT !.index = @ \cup {u}] EXCEPT !.dc = DC!ClearAll(s.dc)] = k
    BY <1>2, <1>4
  <2>2. ~(s.comp = {})  OBVIOUS
  <2> QED  BY <1>6, <1>8, <1>10, <1>11, <2>1, <2>2 DEF SaveDocument
<1>13. y.ok  BY <1>9, Zenon
<1>14. /\ Sound(p) /\ Kept(y, p) /\ p.text = y.text
       /\ \A v \in Loaded(y) : y.dc.diags[v] = <<>> =>
            p.dc.diags[v] = IF v \in y.comp THEN <<ParseReport(y, v), DesignReport(y)>>
                                            ELSE <<ParseReport(y, v)>>
  BY <1>9, <1>10, <1>13, PublishIs
<1>15. Sound(x) /\ Kept(p, x) /\ Grown(p, x) /\ x.dc = p.dc
  <2>1. u \in Loaded(p)  BY <1>9, <1>14 DEF Loaded
  <2> QED  BY <1>12, <1>14, <2>1, RegionsIs
<1>16. Loaded(y) = Loaded(s) /\ \A v : ParseReport(y, v) = ParseReport(s, v)
  BY <1>9 DEF Loaded, ParseReport
<1>17. DesignReport(y) = <<"design", [w \in s.comp |-> s.text[w]]>>
  BY <1>9 DEF DesignReport
<1>18. ASSUME NEW v \in Loaded(s)
       PROVE  x.dc.shown[v] =
                IF v \in s.comp
                THEN <<ParseReport(s, v), <<"design", [w \in s.comp |-> s.text[w]]>>>>
                ELSE <<ParseReport(s, v)>>
  <2>1. v \in Uris /\ v \in Loaded(y)  BY <1>16 DEF Loaded
  <2>2. y.dc.diags[v] = <<>>  BY <1>3, <1>9, <2>1
  <2>3. p.dc.dirty = {}  BY <1>9, <1>10, <1>13, PublishIs
  <2>4. x.dc.shown[v] = p.dc.diags[v]  BY <1>14, <1>15, <2>1, <2>3 DEF Sound, Clean
  <2> DEFINE D == DesignReport(y)
  <2>5. p.dc.diags[v] = IF v \in s.comp THEN <<ParseReport(s, v), D>> ELSE <<ParseReport(s, v)>>
    BY <1>9, <1>14, <1>16, <2>1, <2>2
  <2> QED  BY <1>17, <2>4, <2>5
<1>19. /\ x.open = s.open /\ x.comp = s.comp /\ Grown(s, x)
       /\ x.view = [v \in s.comp |-> s.text[v]]
  BY <1>9, <1>14, <1>15 DEF Kept, Placed, Grown
<1>20. BuildSaved(s, x)  BY <1>18, <1>19 DEF BuildSaved
<1> QED  BY <1>11, <1>15, <1>20

----------------------------------------------------------------------------
(* What a handler does to the diagnostics of one document in explore mode    *)

\* The reports are those of the texts there are, and the analysis is kept.
Current(x, u) ==
  /\ x.ana[u] # {} /\ x.ana[u] \subseteq Loaded(x)
  /\ x.dc.diags[u] = <<ParseReport(x, u), <<"shallow", [v \in x.ana[u] |-> x.text[v]]>>>>

\* An analysis is either dropped, or kept with the texts that it holds.
AnaKept(s, x, u) ==
  x.ana[u] # {} => /\ x.ana[u] = s.ana[u]
                   /\ \A v \in s.ana[u] : x.text[v] = s.text[v] \/ s.text[v] = NoDoc

\* diagnostics left alone, and those of a text left alone
Unreported(s, x, u) ==
  x.dc.diags[u] = s.dc.diags[u] /\ AnaKept(s, x, u) /\ (u \in x.cut <=> u \in s.cut)
Same(s, x, u) == Unreported(s, x, u) /\ (x.text[u] = s.text[u] \/ s.text[u] = NoDoc)

\* what a handler may leave of a document in explore mode
Effect(s, x, u) == Same(s, x, u) \/ Current(x, u) \/ u \in x.cut \/ u \notin x.open

\* an analysis kept twice
LEMMA AnaKeptTrans ==
  ASSUME NEW s, NEW x, NEW y, NEW u, AnaKept(s, x, u), AnaKept(x, y, u)
  PROVE  AnaKept(s, y, u)
BY DEF AnaKept

\* loading keeps the analyses
LEMMA GrownKeeps ==
  ASSUME NEW s, Sound(s), NEW x, Grown(s, x), NEW u \in Uris, x.ana[u] = s.ana[u]
  PROVE  AnaKept(s, x, u)
<1>1. s.ana[u] \subseteq Uris  BY DriverFields DEF Sound
<1> QED  BY <1>1 DEF AnaKept, Grown

\* a complete analysis
LEMMA AnalysedIsCurrent ==
  ASSUME NEW x, NEW u, Analysed(x, u)
  PROVE  Current(x, u)
<1>1. x.ana[u] = {u} \cup Dependencies(x, u) /\ x.ana[u] \subseteq Loaded(x)
  BY DEF Analysed, Prepared
<1>2. [v \in x.ana[u] |-> x.text[v]] = [v \in {u} \cup Dependencies(x, u) |-> x.text[v]]
  BY <1>1
<1>3. ShallowReport(x, u) = <<"shallow", [v \in x.ana[u] |-> x.text[v]]>>
  BY <1>2 DEF ShallowReport
<1> QED  BY <1>1, <1>3 DEF Analysed, Current

\* what is current stays so while the texts only grow
LEMMA CurrentStays ==
  ASSUME NEW x, NEW y, NEW u \in Uris, DiskOK, Sound(x), Current(x, u), Grown(x, y),
         y.ana[u] = x.ana[u], y.dc.diags[u] = x.dc.diags[u]
  PROVE  Current(y, u)
<1>1. Loaded(x) \subseteq Loaded(y) /\ \A v \in Loaded(x) : y.text[v] = x.text[v]
  BY GrownLoaded
<1>2. u \in x.ana[u] /\ x.ana[u] \subseteq Loaded(x)  BY DEF Current, Sound
<1>3. ParseReport(y, u) = ParseReport(x, u)  BY <1>1, <1>2 DEF ParseReport
<1>4. [v \in y.ana[u] |-> y.text[v]] = [v \in x.ana[u] |-> x.text[v]]  BY <1>1, <1>2
<1> QED  BY <1>1, <1>2, <1>3, <1>4 DEF Current

\* the analysis of one document, among the effects of a handler on all
LEMMA AnalyzeEffects ==
  ASSUME DiskOK, NEW x, Sound(x), NEW u \in Loaded(x)
  PROVE  LET y == Analyze(x, u) IN
         /\ Working(x, y, u)
         /\ u \in y.cut \/ Current(y, u)
         /\ y.ok => x.ok /\ Current(y, u)
<1>0. PICK y : y = Analyze(x, u)  OBVIOUS
<1>1. /\ Working(x, y, u)
      /\ y.ok => x.ok /\ Analysed(y, u)
      /\ u \in y.cut \/ Analysed(y, u)
  <2>1. y = AnalyzeTo(x, u, "end") /\ "end" \in Stages  BY <1>0 DEF Analyze, Stages
  <2> QED  BY <2>1, AnalyzeIs
<1> QED  BY <1>0, <1>1, AnalysedIsCurrent

\* work on one document and the effects on another
LEMMA WorkingEffects ==
  ASSUME DiskOK, NEW s, NEW x, Sound(x), NEW u, NEW y, Working(x, y, u), NEW v \in Uris, v # u
  PROVE  /\ Unreported(s, x, v) => Unreported(s, y, v)
         /\ Effect(s, x, v) => Effect(s, y, v)
         /\ x.ana[v] = y.ana[v]
<1>1. /\ Placed(x, y) /\ Grown(x, y) /\ y.ana[v] = x.ana[v] /\ y.dc.diags[v] = x.dc.diags[v]
      /\ v \in y.cut <=> v \in x.cut
  BY DEF Working
<1>2. AnaKept(x, y, v)  BY <1>1, GrownKeeps
<1>3. Unreported(s, x, v) => Unreported(s, y, v)
  <2>1. AnaKept(s, x, v) => AnaKept(s, y, v)  BY <1>2, AnaKeptTrans
  <2> QED  BY <1>1, <2>1 DEF Unreported
<1>4. Same(s, x, v) => Same(s, y, v)  BY <1>1, <1>3 DEF Same, Grown
<1>5. Current(x, v) => Current(y, v)  BY <1>1, CurrentStays
<1>6. v \in y.open <=> v \in x.open  BY <1>1 DEF Placed
<1> QED  BY <1>1, <1>3, <1>4, <1>5, <1>6 DEF Effect

\* a document that is opened
LEMMA OpenEffects ==
  ASSUME DiskOK, NEW s, Sound(s), NEW u \in Uris, NEW t \in Texts, s.ok, s.comp = {}
  PROVE  LET x == OpenDocument(s, u, t) IN
         /\ \A v \in Uris \ {u} : Same(s, x, v)
         /\ \A v \in Uris : Effect(s, x, v)
         /\ x.ok => Current(x, u)
         /\ u \in x.cut \/ Current(x, u)
<1>0. PICK x : x = OpenDocument(s, u, t)  OBVIOUS
<1>o. Opened(s, x, u, t)  BY <1>0, OpenDocumentIs
<1>1. /\ x.text[u] = t
      /\ \A v \in Uris \ {u} : \/ x.text[v] = s.text[v]
                               \/ s.text[v] = NoDoc /\ x.text[v] = disk[v] /\ disk[v] # Missing
      /\ \A v \in Uris \ {u} : /\ x.dc.diags[v] = s.dc.diags[v]
                               /\ v \in x.cut <=> v \in s.cut
                               /\ x.ana[v] # {} => /\ x.ana[v] = s.ana[v]
                                                   /\ u \in s.ana[v] => s.text[u] = t
      /\ x.ok /\ s.comp = {} => Analysed(x, u)
      /\ s.comp = {} => u \in x.cut \/ Analysed(x, u)
  BY <1>o, Zenon DEF Opened
<1>2. (x.ok => Current(x, u)) /\ (u \in x.cut \/ Current(x, u))
  BY <1>1, AnalysedIsCurrent
<1>3. ASSUME NEW v \in Uris \ {u} PROVE Same(s, x, v)
  <2>1. s.ana[v] \subseteq Uris  BY DriverFields DEF Sound
  <2> QED  BY <1>1, <2>1 DEF Same, Unreported, AnaKept
<1>4. \A v \in Uris : Effect(s, x, v)  BY <1>1, <1>2, <1>3 DEF Effect
<1> QED  BY <1>0, <1>2, <1>3, <1>4

----------------------------------------------------------------------------
(* A save in explore mode                                                    *)

\* what a save does to another open document, and the fold of it
SaveOne(x, v) == IF x.ana[v] = {} THEN Analyze(x, v) ELSE x
SaveStep(acc, v) == IF acc.ok THEN SaveOne(acc, v) ELSE acc

\* c is the driver before the handler, the one before the loop, the other
\* documents in order, and the saved document.
SaveGood(c, n, x) ==
  /\ Sound(x) /\ Placed(c[2], x) /\ Grown(c[2], x)
  /\ \A v \in Uris : Effect(c[1], x, v)
  /\ x.ok => x.ana[c[4]] # {} /\ \A i \in 1..n : x.ana[c[3][i]] # {}

\* the re-analysis of the other open documents as a fold
Saves == INSTANCE FoldTheorems WITH Step <- SaveStep, Good <- SaveGood

\* one more of the other documents
LEMMA SaveStepIs ==
  ASSUME DiskOK, NEW b, NEW k, NEW u \in Uris, NEW S \in SUBSET Loaded(k), NEW q \in Seq(S),
         NEW n \in 0..(Len(q) - 1), NEW x, SaveGood(<<b, k, q, u>>, n, x)
  PROVE  SaveGood(<<b, k, q, u>>, n + 1, SaveStep(x, q[n + 1]))
<1>1. /\ Sound(x) /\ Placed(k, x) /\ Grown(k, x)
      /\ \A v \in Uris : Effect(b, x, v)
      /\ x.ok => x.ana[u] # {} /\ \A i \in 1..n : x.ana[q[i]] # {}
  BY DEF SaveGood
<1>2. n \in Nat /\ n + 1 \in 1..Len(q)  OBVIOUS
<1>3. PICK v : v = q[n + 1]  OBVIOUS
<1>4. v \in Loaded(k) /\ v \in Uris /\ v \in Loaded(x)  BY <1>1, <1>2, <1>3, GrownLoaded DEF Loaded
<1>5. \A i \in 1..n : q[i] \in Uris
  <2>1. \A i \in 1..n : i \in 1..Len(q)  BY <1>2
  <2> QED  BY <2>1 DEF Loaded
<1>6. \A i \in 1..(n + 1) : i \in 1..n \/ i = n + 1  BY <1>2
<1>7. PICK y : y = SaveStep(x, v)  OBVIOUS
<1>8. CASE ~x.ok
  <2>1. y = x  BY <1>7, <1>8 DEF SaveStep
  <2> QED  BY <1>1, <1>3, <1>7, <1>8, <2>1 DEF SaveGood
<1>9. CASE x.ok /\ x.ana[v] # {}
  <2>1. y = x  BY <1>7, <1>9 DEF SaveStep, SaveOne
  <2>2. \A i \in 1..(n + 1) : x.ana[q[i]] # {}  BY <1>1, <1>3, <1>6, <1>9
  <2> QED  BY <1>1, <1>3, <1>7, <1>9, <2>1, <2>2 DEF SaveGood
<1>10. CASE x.ok /\ x.ana[v] = {}
  <2>1. y = Analyze(x, v)  BY <1>7, <1>10 DEF SaveStep, SaveOne
  <2>2. /\ Working(x, y, v)
        /\ v \in y.cut \/ Current(y, v)
        /\ y.ok => Current(y, v)
    BY <1>1, <1>4, <2>1, AnalyzeEffects
  <2>3. /\ Sound(y) /\ Placed(x, y) /\ Grown(x, y)
        /\ \A w \in Uris \ {v} : y.ana[w] = x.ana[w]
    BY <2>2 DEF Working
  <2>e. ASSUME NEW w \in Uris PROVE Effect(b, y, w)
    <3>1. CASE w = v  BY <2>2, <3>1 DEF Effect
    <3>2. CASE w # v  BY <1>1, <2>2, <3>2, WorkingEffects
    <3> QED  BY <3>1, <3>2
  <2>4. Placed(k, y) /\ Grown(k, y)  BY <1>1, <2>3, PlacedTrans
  <2>5. y.ok => y.ana[v] # {}  BY <2>2 DEF Current
  <2>6. y.ok => y.ana[u] # {}  BY <1>1, <1>10, <2>3, <2>5
  <2>7. ASSUME y.ok, NEW i \in 1..(n + 1) PROVE y.ana[q[i]] # {}
    <3>1. CASE q[i] = v  BY <2>5, <2>7, <3>1
    <3>2. CASE q[i] # v
      <4>1. i \in 1..n  BY <1>3, <1>6, <2>7, <3>2
      <4> QED  BY <1>1, <1>5, <1>10, <2>3, <3>2, <4>1
    <3> QED  BY <3>1, <3>2
  <2> QED  BY <1>3, <1>7, <2>e, <2>3, <2>4, <2>6, <2>7 DEF SaveGood
<1> QED  BY <1>8, <1>9, <1>10

\* what a completed save does in explore mode: all open documents are analysed
SaveExplored(b, s, x) ==
  /\ Sound(x) /\ x.open = s.open /\ x.comp = s.comp /\ x.view = s.view /\ Grown(s, x)
  /\ \A v \in Uris : Effect(b, x, v)
  /\ x.ok => \A v \in s.open : x.ana[v] # {}

\* The saved document is analysed, and then those without an analysis.
LEMMA SaveExploreIs ==
  ASSUME DiskOK, NEW b, NEW s, Sound(s), s.ok, s.comp = {}, NEW u \in Loaded(s),
         \A v \in Uris \ {u} : Same(b, s, v), NEW others, Lists(others, s.open \ {u})
  PROVE  SaveExplored(b, s, SaveDocument(s, u, others))
<1>u. u \in Uris  BY DEF Loaded
<1>0. s \in Drivers /\ Shape(s) /\ s.open \subseteq Loaded(s)  BY DriverFields DEF Sound
<1>1. PICK k : k = [s EXCEPT !.index = @ \cup {u}]  OBVIOUS
<1>2. /\ k.open = s.open /\ k.comp = s.comp /\ k.text = s.text /\ k.dc = s.dc /\ k.ok = s.ok
      /\ k.ana = s.ana /\ k.sources = s.sources /\ k.view = s.view
      /\ k.index = s.index \cup {u} /\ k.cut = s.cut /\ Shape(k)
  BY <1>0, <1>1 DEF Shape
<1>3. k.index \in SUBSET Uris  BY <1>0, <1>2, <1>u, DriverFields
<1>4. k \in Drivers  BY <1>0, <1>2, <1>3, DriverFields, DriverMade
<1>5. Sound(k) /\ Loaded(k) = Loaded(s)  BY <1>2, <1>4 DEF Sound, Loaded
<1>6. k.ok
  <2>1. k.ok = s.ok  BY <1>2
  <2> QED  BY <2>1, Zenon
<1>7. \A v \in Uris \ {u} : Effect(b, k, v)  BY <1>2 DEF Effect, Same, Unreported, AnaKept
<1>8. PICK a : a = Analyze(k, u)  OBVIOUS
<1>9. /\ Working(k, a, u)
      /\ \A v \in Uris : Effect(b, a, v)
      /\ a.ok => Current(a, u)
  <2>1. /\ Working(k, a, u) /\ (u \in a.cut \/ Current(a, u))
        /\ a.ok => Current(a, u)
    BY <1>5, <1>8, AnalyzeEffects
  <2>2. ASSUME NEW v \in Uris PROVE Effect(b, a, v)
    <3>1. CASE v = u  BY <2>1, <3>1 DEF Effect
    <3>2. CASE v # u  BY <1>5, <1>7, <2>1, <3>2, WorkingEffects
    <3> QED  BY <3>1, <3>2
  <2> QED  BY <2>1, <2>2
<1> DEFINE c == <<b, a, others, u>>
<1>10. SaveGood(c, 0, a)
  BY <1>9 DEF SaveGood, Working, Kept, Placed, Grown, Current
<1>11. s.open \ {u} \in SUBSET Loaded(a) /\ others \in Seq(s.open \ {u}) /\ others \in Seq(Uris)
  <2>1. Loaded(k) \subseteq Loaded(a)  BY <1>9, GrownLoaded DEF Working, Kept
  <2>2. others \in Seq(s.open \ {u})  BY DEF Lists
  <2>3. s.open \subseteq Uris  BY <1>0 DEF Loaded
  <2> QED  BY <1>0, <1>5, <2>1, <2>2, <2>3
<1>12. ASSUME NEW n \in 0..(Len(others) - 1), NEW x, SaveGood(c, n, x)
       PROVE  SaveGood(c, n + 1, SaveStep(x, others[n + 1]))
  BY <1>u, <1>11, <1>12, SaveStepIs
<1>13. SaveGood(c, Len(others), Saves!FoldLeft(SaveStep, a, others))
  <2> HIDE DEF c
  <2> QED  BY <1>10, <1>11, <1>12, Saves!FoldInduction
<1>14. Saves!FoldLeft(SaveStep, a, others) = FoldLeft(SaveStep, a, others)
  BY DEF Saves!FoldLeft, FoldLeft, Saves!MapThenFoldSet, MapThenFoldSet, Saves!Max, Max
<1>15. Then(SaveOne, a, others) = FoldLeft(SaveStep, a, others)  BY DEF Then, SaveStep
<1>16. PICK x : x = SaveDocument(s, u, others)  OBVIOUS
<1>17. x = Then(SaveOne, a, others)  BY <1>1, <1>8, <1>16 DEF SaveDocument, SaveOne
<1>18. SaveGood(c, Len(others), x)  BY <1>13, <1>14, <1>15, <1>17
<1>19. /\ Sound(x) /\ Placed(a, x) /\ Grown(a, x)
       /\ \A v \in Uris : Effect(b, x, v)
       /\ x.ok => x.ana[u] # {} /\ \A i \in 1..Len(others) : x.ana[others[i]] # {}
  BY <1>18 DEF SaveGood
<1>20. Placed(k, a) /\ Grown(k, a)  BY <1>9 DEF Working, Kept
<1>21. Placed(k, x) /\ Grown(k, x)  BY <1>19, <1>20, PlacedTrans
<1>22. x.open = s.open /\ x.comp = s.comp /\ x.view = s.view /\ Grown(s, x)
  BY <1>2, <1>21 DEF Kept, Placed, Grown
<1>23. ASSUME x.ok, NEW v \in s.open PROVE x.ana[v] # {}
  <2>1. v = u \/ \E i \in 1..Len(others) : others[i] = v  BY DEF Lists
  <2> QED  BY <1>19, <1>23, <2>1
<1> QED  BY <1>16, <1>19, <1>22, <1>23 DEF SaveExplored

----------------------------------------------------------------------------
(* Changes of files                                                          *)

\* the types of a watched change
Kinds == {"Changed", "Created", "Deleted"}

\* what the driver does with one change, and the fold of it
Reread(x, ch) ==
  IF ch[2] = "Changed" /\ ch[1] \in x.open THEN ReloadBuffer(x, ch[1])
  ELSE IF ch[2] = "Deleted" THEN CloseDocument(x, ch[1]) ELSE x
RereadStep(acc, ch) == IF acc.ok THEN Reread(acc, ch) ELSE acc

\* a document before the changed ones are analysed again
Settled(s, x, u) == Unreported(s, x, u) \/ u \notin x.open

\* b is the driver before the handler
RereadKeeps(b, x) ==
  /\ Sound(x) /\ x.ok
  /\ x.comp = b.comp /\ x.index = b.index /\ x.view = b.view
  /\ x.open \subseteq b.open /\ Loaded(b) \subseteq Loaded(x)
  /\ b.comp = {} => \A u \in Uris : Settled(b, x, u)

\* the change that makes u one of the documents to analyse
UpdatedAt(batch, i, u) ==
  /\ batch[i] = <<u, "Changed">> /\ u \in srv.open /\ disk[u] # Missing
  /\ \A j \in 1..(i - 1) : batch[j] # <<u, "Deleted">>

\* c is the driver before the handler, and the batch: no open document was
\* deleted by it, and one that has another text will be analysed.
RereadGood(c, n, x) ==
  /\ RereadKeeps(c[1], x)
  /\ \A u \in x.open : \A j \in 1..n : c[2][j] # <<u, "Deleted">>
  /\ \A u \in Uris : x.text[u] = c[1].text[u] \/ \E i \in 1..n : UpdatedAt(c[2], i, u)

\* the handling of a batch as a fold
Rereads == INSTANCE FoldTheorems WITH Step <- RereadStep, Good <- RereadGood

\* a document that is read again
LEMMA ReloadIs ==
  ASSUME DiskOK, NEW b, NEW s, RereadKeeps(b, s), NEW u \in Uris
  PROVE  LET x == ReloadBuffer(s, u) IN
         /\ RereadKeeps(b, x) /\ x.open = s.open
         /\ \A v \in Uris \ {u} : x.text[v] = s.text[v]
         /\ disk[u] = Missing => x = s
<1>0. PICK x : x = ReloadBuffer(s, u)  OBVIOUS
<1>1. CASE disk[u] = Missing
  <2>1. x = s  BY <1>0, <1>1 DEF ReloadBuffer
  <2> QED  BY <1>0, <2>1
<1>2. CASE disk[u] # Missing
  <2>1. x = SetText(s, u, disk[u])  BY <1>0, <1>2 DEF ReloadBuffer
  <2>2. disk[u] \in Texts  BY <1>2 DEF DiskOK
  <2>3. /\ Sound(s) /\ s.ok
        /\ s.comp = b.comp /\ s.index = b.index /\ s.view = b.view
        /\ s.open \subseteq b.open /\ Loaded(b) \subseteq Loaded(s)
        /\ b.comp = {} => \A v \in Uris : Settled(b, s, v)
    BY DEF RereadKeeps
  <2>4. /\ Sound(x) /\ Kept(s, x) /\ x.dc = s.dc /\ x.ok
        /\ OtherTexts(s, x, u) /\ x.ana[u] = {} /\ Invalidated(s, x, u)
        /\ Loaded(x) = Loaded(s) \cup {u}
    BY <2>1, <2>2, <2>3, SetTextIs
  <2>5. ASSUME NEW v \in Uris PROVE AnaKept(s, x, v)
    <3>1. s.ana[v] \subseteq Uris  BY <2>3, DriverFields DEF Sound
    <3> QED  BY <2>4, <3>1 DEF AnaKept, OtherTexts, Invalidated
  <2>6. ASSUME b.comp = {}, NEW v \in Uris PROVE Settled(b, x, v)
    <3>1. CASE Unreported(b, s, v)
      <4>1. AnaKept(b, s, v) /\ AnaKept(s, x, v)  BY <2>5, <3>1 DEF Unreported
      <4>2. AnaKept(b, x, v)  BY <4>1, AnaKeptTrans
      <4> QED  BY <2>4, <3>1, <4>2 DEF Settled, Unreported, Kept
    <3>2. CASE v \notin s.open
      BY <2>4, <3>2 DEF Settled, Kept, Placed
    <3> QED  BY <2>3, <2>6, <3>1, <3>2 DEF Settled
  <2>7. /\ x.comp = b.comp /\ x.index = b.index /\ x.view = b.view
        /\ x.open \subseteq b.open /\ Loaded(b) \subseteq Loaded(x)
    BY <2>3, <2>4 DEF Kept, Placed
  <2>8. RereadKeeps(b, x)  BY <2>4, <2>6, <2>7 DEF RereadKeeps
  <2>9. x.open = s.open /\ \A v \in Uris \ {u} : x.text[v] = s.text[v]
    BY <2>4 DEF Kept, Placed, OtherTexts
  <2> QED  BY <1>0, <1>2, <2>8, <2>9
<1> QED  BY <1>1, <1>2

\* a document that is closed
LEMMA ClosingIs ==
  ASSUME NEW b, NEW s, RereadKeeps(b, s), NEW u \in Uris
  PROVE  LET x == CloseDocument(s, u) IN
         RereadKeeps(b, x) /\ x.open = s.open \ {u} /\ x.text = s.text
<1>0. PICK x : x = CloseDocument(s, u)  OBVIOUS
<1>1. /\ Sound(s) /\ s.ok
      /\ s.comp = b.comp /\ s.index = b.index /\ s.view = b.view
      /\ s.open \subseteq b.open /\ Loaded(b) \subseteq Loaded(s)
      /\ b.comp = {} => \A v \in Uris : Settled(b, s, v)
  BY DEF RereadKeeps
<1>2. /\ Sound(x) /\ x.index = s.index /\ x.comp = s.comp /\ x.text = s.text
      /\ x.view = s.view /\ x.ana = s.ana
      /\ x.open = s.open \ {u} /\ x.cut = s.cut \ {u}
      /\ \A v \in Uris \ {u} : x.dc.diags[v] = s.dc.diags[v]
      /\ x.dc.diags[u] = IF s.comp = {} THEN <<>> ELSE s.dc.diags[u]
  BY <1>0, <1>1, CloseDocumentIs
<1>3. x.ok
  <2>1. x.ok = s.ok  BY ONLY <1>0, <1>1, CloseDocumentIs, u \in Uris
  <2> QED  BY <1>1, <2>1, Zenon
<1>4. ASSUME b.comp = {}, NEW v \in Uris PROVE Settled(b, x, v)
  <2>1. CASE v = u  BY <1>1, <1>2, <1>4, <2>1 DEF Settled
  <2>2. CASE v # u
    <3>1. Settled(b, s, v)  BY <1>1, <1>4
    <3>2. /\ x.dc.diags[v] = s.dc.diags[v] /\ x.ana[v] = s.ana[v]
          /\ v \in x.cut <=> v \in s.cut
      BY <1>2, <2>2
    <3>3. Unreported(b, s, v) => Unreported(b, x, v)  BY <1>2, <3>2 DEF Unreported, AnaKept
    <3> QED  BY <1>2, <3>1, <3>2, <3>3 DEF Settled
  <2> QED  BY <2>1, <2>2
<1>5. Loaded(x) = Loaded(s)  BY <1>2 DEF Loaded
<1>6. x.open \subseteq b.open  BY <1>1, <1>2
<1> QED  BY <1>0, <1>1, <1>2, <1>3, <1>4, <1>5, <1>6 DEF RereadKeeps

\* all buffers are read again
LEMMA RereadIs ==
  ASSUME DiskOK, NEW s, Sound(s), s.ok, s.open = srv.open, NEW batch \in Seq(Uris \X Kinds)
  PROVE  RereadGood(<<s, batch>>, Len(batch), Then(Reread, s, batch))
<1> DEFINE c == <<s, batch>>
<1>1. RereadGood(c, 0, s)
  BY DEF RereadGood, RereadKeeps, Settled, Unreported, AnaKept
<1>3. ASSUME NEW n \in 0..(Len(batch) - 1), NEW x, RereadGood(c, n, x)
      PROVE  RereadGood(c, n + 1, RereadStep(x, batch[n + 1]))
  <2>1. PICK ch : ch = batch[n + 1]  OBVIOUS
  <2>2. ch \in Uris \X Kinds /\ ch[1] \in Uris /\ ch = <<ch[1], ch[2]>>  BY <2>1
  <2>3. /\ RereadKeeps(s, x) /\ x.ok
        /\ \A u \in x.open : \A j \in 1..n : batch[j] # <<u, "Deleted">>
        /\ \A u \in Uris : x.text[u] = s.text[u] \/ \E i \in 1..n : UpdatedAt(batch, i, u)
    BY <1>3 DEF RereadGood, RereadKeeps
  <2>4. PICK y : y = RereadStep(x, ch)  OBVIOUS
  <2>5. y = Reread(x, ch)  BY <2>3, <2>4 DEF RereadStep
  <2>6. /\ \A i \in 1..(n + 1) : i \in 1..n \/ i = n + 1
        /\ 1..n \subseteq 1..(n + 1) /\ n + 1 \in 1..(n + 1) /\ (n + 1) - 1 = n
    OBVIOUS
  <2>7. CASE ch[2] = "Changed" /\ ch[1] \in x.open
    <3>1. y = ReloadBuffer(x, ch[1])  BY <2>5, <2>7 DEF Reread
    <3>2. /\ RereadKeeps(s, y) /\ y.open = x.open
          /\ \A v \in Uris \ {ch[1]} : y.text[v] = x.text[v]
          /\ disk[ch[1]] = Missing => y = x
      BY <2>2, <2>3, <3>1, ReloadIs
    <3>3. ASSUME NEW u \in y.open, NEW j \in 1..(n + 1) PROVE batch[j] # <<u, "Deleted">>
      <4>1. CASE j \in 1..n  BY <2>3, <3>2, <4>1
      <4>2. CASE j = n + 1  BY <2>1, <2>2, <2>7, <4>2
      <4> QED  BY <2>6, <4>1, <4>2
    <3>4. ASSUME NEW u \in Uris, y.text[u] # s.text[u]
          PROVE  \E i \in 1..(n + 1) : UpdatedAt(batch, i, u)
      <4>1. CASE x.text[u] # s.text[u]  BY <2>3, <2>6, <4>1
      <4>2. CASE x.text[u] = s.text[u]
        <5>1. u = ch[1] /\ disk[u] # Missing  BY <3>2, <3>4, <4>2
        <5>2. u \in srv.open  BY <2>3, <2>7, <5>1 DEF RereadKeeps
        <5>3. batch[n + 1] = <<u, "Changed">>  BY <2>1, <2>2, <2>7, <5>1
        <5>4. \A j \in 1..n : batch[j] # <<u, "Deleted">>  BY <2>3, <2>7, <5>1
        <5>5. UpdatedAt(batch, n + 1, u)  BY <2>6, <5>1, <5>2, <5>3, <5>4 DEF UpdatedAt
        <5> QED  BY <2>6, <5>5
      <4> QED  BY <4>1, <4>2
    <3> QED  BY <2>1, <2>4, <3>2, <3>3, <3>4 DEF RereadGood
  <2>8. CASE ch[2] = "Deleted"
    <3>1. y = CloseDocument(x, ch[1])  BY <2>5, <2>8 DEF Reread
    <3>2. RereadKeeps(s, y) /\ y.open = x.open \ {ch[1]} /\ y.text = x.text
      BY <2>2, <2>3, <3>1, ClosingIs
    <3>3. ASSUME NEW u \in y.open, NEW j \in 1..(n + 1) PROVE batch[j] # <<u, "Deleted">>
      <4>1. CASE j \in 1..n  BY <2>3, <3>2, <4>1
      <4>2. CASE j = n + 1
        <5>1. u # ch[1]  BY <3>2
        <5> QED  BY <2>1, <2>2, <4>2, <5>1
      <4> QED  BY <2>6, <4>1, <4>2
    <3>4. \A u \in Uris : y.text[u] = s.text[u] \/ \E i \in 1..(n + 1) : UpdatedAt(batch, i, u)
      BY <2>3, <2>6, <3>2
    <3> QED  BY <2>1, <2>4, <3>2, <3>3, <3>4 DEF RereadGood
  <2>9. CASE ~(ch[2] = "Changed" /\ ch[1] \in x.open) /\ ch[2] # "Deleted"
    <3>1. y = x  BY <2>5, <2>9 DEF Reread
    <3>2. ASSUME NEW u \in y.open, NEW j \in 1..(n + 1) PROVE batch[j] # <<u, "Deleted">>
      <4>1. CASE j \in 1..n  BY <2>3, <3>1, <4>1
      <4>2. CASE j = n + 1  BY <2>1, <2>2, <2>9, <4>2
      <4> QED  BY <2>6, <4>1, <4>2
    <3>3. \A u \in Uris : y.text[u] = s.text[u] \/ \E i \in 1..(n + 1) : UpdatedAt(batch, i, u)
      BY <2>3, <2>6, <3>1
    <3> QED  BY <2>1, <2>3, <2>4, <3>1, <3>2, <3>3 DEF RereadGood
  <2> QED  BY <2>7, <2>8, <2>9
<1>4. RereadGood(c, Len(batch), Rereads!FoldLeft(RereadStep, s, batch))
  <2> HIDE DEF c
  <2> QED  BY <1>1, <1>3, Rereads!FoldInduction
<1>5. Rereads!FoldLeft(RereadStep, s, batch) = FoldLeft(RereadStep, s, batch)
  BY DEF Rereads!FoldLeft, FoldLeft, Rereads!MapThenFoldSet, MapThenFoldSet, Rereads!Max, Max
<1>6. Then(Reread, s, batch) = FoldLeft(RereadStep, s, batch)  BY DEF Then, RereadStep
<1> QED  BY <1>4, <1>5, <1>6

\* the second pass over a batch
ListedStep(x, u) == IF u = NoDoc THEN x ELSE IF x.ok THEN Analyze(x, u) ELSE Begun(x, u)

\* c is the driver before the handler, the one after all buffers were read, and
\* the documents to analyse: one that has another text is still to come.
ListedGood(c, n, x) ==
  /\ Sound(x) /\ Placed(c[2], x) /\ Grown(c[2], x)
  /\ c[2].comp = {} => \A u \in Uris :
       Effect(c[1], x, u) \/ (Settled(c[1], x, u) /\ \E i \in (n + 1)..Len(c[3]) : c[3][i] = u)

\* the second pass as a fold
Listed == INSTANCE FoldTheorems WITH Step <- ListedStep, Good <- ListedGood

\* the changed documents are analysed, or their turn does not come
LEMMA ListedIs ==
  ASSUME DiskOK, NEW b, NEW s, Sound(s), NEW us \in Seq(Loaded(s) \cup {NoDoc}),
         s.comp = {} => \A u \in Uris :
           Effect(b, s, u) \/ (Settled(b, s, u) /\ \E i \in 1..Len(us) : us[i] = u)
  PROVE  LET x == FoldLeft(ListedStep, s, us) IN
         /\ Sound(x) /\ Placed(s, x)
         /\ s.comp = {} => \A u \in Uris : Effect(b, x, u)
<1> DEFINE c == <<b, s, us>>
<1>1. ListedGood(c, 0, s)  BY DEF ListedGood, Placed, Grown
<1>2. ASSUME NEW n \in 0..(Len(us) - 1), NEW x, ListedGood(c, n, x)
      PROVE  ListedGood(c, n + 1, ListedStep(x, us[n + 1]))
  <2>1. PICK u : u = us[n + 1]  OBVIOUS
  <2>2. u \in Loaded(s) \cup {NoDoc}  BY <2>1
  <2>3. /\ Sound(x) /\ Placed(s, x) /\ Grown(s, x)
        /\ s.comp = {} => \A v \in Uris :
             Effect(b, x, v) \/ (Settled(b, x, v) /\ \E i \in (n + 1)..Len(us) : us[i] = v)
    BY <1>2 DEF ListedGood
  <2>4. PICK y : y = ListedStep(x, u)  OBVIOUS
  <2>5. \A i \in (n + 1)..Len(us) : i \in ((n + 1) + 1)..Len(us) \/ i = n + 1  OBVIOUS
  <2>6. CASE u = NoDoc
    <3>1. y = x  BY <2>4, <2>6 DEF ListedStep
    <3>2. ASSUME NEW v \in Uris, NEW i \in (n + 1)..Len(us), us[i] = v
          PROVE  \E j \in ((n + 1) + 1)..Len(us) : us[j] = v
      <4>1. v # NoDoc  BY DriverAssumption
      <4>2. i # n + 1  BY <2>1, <2>6, <3>2, <4>1
      <4> QED  BY <2>5, <3>2, <4>2
    <3> QED  BY <2>1, <2>3, <2>4, <3>1, <3>2 DEF ListedGood
  <2>7. CASE u # NoDoc
    <3>1. u \in Loaded(x) /\ u \in Uris  BY <2>2, <2>3, <2>7, GrownLoaded DEF Loaded
    <3>2. Working(x, y, u) /\ (u \in y.cut \/ Current(y, u))
      <4>1. CASE x.ok
        <5>1. y = Analyze(x, u)  BY <2>4, <2>7, <4>1 DEF ListedStep
        <5> QED  BY <2>3, <3>1, <5>1, AnalyzeEffects
      <4>2. CASE ~x.ok
        <5>1. y = Begun(x, u)  BY <2>4, <2>7, <4>2 DEF ListedStep
        <5> QED  BY <2>3, <3>1, <5>1, BegunIs
      <4> QED  BY <4>1, <4>2
    <3>3. Sound(y) /\ Placed(s, y) /\ Grown(s, y)  BY <2>3, <3>2, PlacedTrans DEF Working
    <3>4. ASSUME s.comp = {}, NEW v \in Uris
          PROVE  Effect(b, y, v) \/ (Settled(b, y, v) /\ \E i \in ((n + 1) + 1)..Len(us) : us[i] = v)
      <4>1. CASE v = u  BY <3>2, <4>1 DEF Effect
      <4>2. CASE v # u /\ Effect(b, x, v)  BY <2>3, <3>2, <4>2, WorkingEffects
      <4>3. CASE v # u /\ Settled(b, x, v) /\ \E i \in (n + 1)..Len(us) : us[i] = v
        <5>1. \E i \in ((n + 1) + 1)..Len(us) : us[i] = v  BY <2>1, <2>5, <4>3
        <5>2. Unreported(b, x, v) => Unreported(b, y, v)  BY <2>3, <3>2, <4>3, WorkingEffects
        <5>3. v \in y.open <=> v \in x.open  BY <3>2 DEF Working, Placed
        <5> QED  BY <4>3, <5>1, <5>2, <5>3 DEF Settled
      <4> QED  BY <2>3, <3>4, <4>1, <4>2, <4>3
    <3> QED  BY <2>1, <2>4, <3>3, <3>4 DEF ListedGood
  <2> QED  BY <2>6, <2>7
<1>3. ListedGood(c, Len(us), Listed!FoldLeft(ListedStep, s, us))
  <2> HIDE DEF c
  <2> QED  BY <1>1, <1>2, Listed!FoldInduction
<1>4. Listed!FoldLeft(ListedStep, s, us) = FoldLeft(ListedStep, s, us)
  BY DEF Listed!FoldLeft, FoldLeft, Listed!MapThenFoldSet, MapThenFoldSet, Listed!Max, Max
<1>5. (Len(us) + 1)..Len(us) = {}  OBVIOUS
<1> QED  BY <1>3, <1>4, <1>5 DEF ListedGood

\* The whole handler: the documents stay open or are closed, and each is left
\* as it was, analysed, or closed without diagnostics, unless an analysis failed.
LEMMA WatchedIs ==
  ASSUME DiskOK, NEW s, Sound(s), s.ok, s.open = srv.open, NEW batch \in Seq(Uris \X Kinds)
  PROVE  LET x == IndexWatched(HandleWatched(s, batch), batch) IN
         /\ Sound(x) /\ x.open \subseteq s.open /\ x.comp = s.comp /\ x.view = s.view
         /\ s.comp = {} => \A u \in Uris : Effect(s, x, u)
<1>1. PICK h : h = Then(Reread, s, batch)  OBVIOUS
<1>2. RereadGood(<<s, batch>>, Len(batch), h)  BY <1>1, RereadIs
<1>3. /\ Sound(h) /\ h.comp = s.comp /\ h.view = s.view
      /\ h.open \subseteq s.open /\ Loaded(s) \subseteq Loaded(h)
      /\ s.comp = {} => \A u \in Uris : Settled(s, h, u)
      /\ \A u \in Uris : h.text[u] = s.text[u] \/ \E i \in 1..Len(batch) : UpdatedAt(batch, i, u)
  BY <1>2 DEF RereadGood, RereadKeeps
<1>4. PICK us : us = Updated(batch)  OBVIOUS
<1>5. us \in Seq(Loaded(h) \cup {NoDoc}) /\ Len(us) = Len(batch)
  <2>1. srv.open \subseteq Loaded(h)  BY <1>3 DEF Sound
  <2>2. DOMAIN batch = 1..Len(batch) /\ Len(batch) \in Nat  OBVIOUS
  <2>3. Updated(batch) \in [1..Len(batch) -> Loaded(h) \cup {NoDoc}]
    BY <2>1, <2>2 DEF Updated
  <2> QED  BY <1>4, <2>2, <2>3, SMTT(30)
<1>6. ASSUME h.comp = {}, NEW u \in Uris
      PROVE  Effect(s, h, u) \/ (Settled(s, h, u) /\ \E i \in 1..Len(us) : us[i] = u)
  <2>1. Settled(s, h, u)  BY <1>3, <1>6
  <2>2. CASE h.text[u] = s.text[u]  BY <2>1, <2>2 DEF Settled, Effect, Same
  <2>3. CASE h.text[u] # s.text[u]
    <3>1. PICK i \in 1..Len(batch) : UpdatedAt(batch, i, u)  BY <1>3, <2>3
    <3>2. us[i] = u  BY <1>4, <3>1 DEF UpdatedAt, Updated
    <3> QED  BY <1>5, <2>1, <3>2
  <2> QED  BY <2>2, <2>3
<1>7. PICK l : l = FoldLeft(ListedStep, h, us)  OBVIOUS
<1>8. /\ Sound(l) /\ Placed(h, l)
      /\ h.comp = {} => \A u \in Uris : Effect(s, l, u)
  BY <1>3, <1>5, <1>6, <1>7, ListedIs
<1>9. HandleWatched(s, batch) = l  BY <1>1, <1>4, <1>7 DEF HandleWatched, Reread, ListedStep
<1>10. PICK x : x = IndexWatched(l, batch)  OBVIOUS
<1>11. /\ Sound(x) /\ x.open = l.open /\ x.comp = l.comp /\ x.view = l.view /\ x.text = l.text
       /\ x.ana = l.ana /\ x.dc = l.dc /\ x.ok = l.ok /\ x.cut = l.cut
  <2>1. CASE ~l.ok  BY <1>8, <1>10, <2>1 DEF IndexWatched
  <2>2. CASE l.ok
    <3> DEFINE changed == {ch[1] : ch \in ToSet(batch)}
               i == (l.index \ changed) \cup {u \in changed : disk[u] # Missing}
    <3>1. x = [l EXCEPT !.index = i]  BY <1>10, <2>2 DEF IndexWatched
    <3>2. i \in SUBSET Uris
      <4>1. l.index \in SUBSET Uris  BY <1>8, DriverFields DEF Sound
      <4>2. ToSet(batch) \subseteq Uris \X Kinds  BY DEF ToSet
      <4>3. changed \subseteq Uris  BY <4>2
      <4> HIDE DEF changed
      <4> QED  BY <4>1, <4>3
    <3> HIDE DEF i
    <3>3. l \in Drivers /\ Shape(l)  BY <1>8, DriverFields DEF Sound
    <3>4. /\ x.open = l.open /\ x.comp = l.comp /\ x.view = l.view /\ x.text = l.text
          /\ x.ana = l.ana /\ x.dc = l.dc /\ x.ok = l.ok /\ x.sources = l.sources
          /\ x.index = i /\ x.cut = l.cut /\ Shape(x)
      BY <3>1, <3>3 DEF Shape
    <3>5. x \in Drivers  BY <3>2, <3>3, <3>4, DriverFields, DriverMade
    <3>6. Sound(x)  BY <1>8, <3>4, <3>5 DEF Sound, Loaded
    <3> QED  BY <3>4, <3>6
  <2> QED  BY <2>1, <2>2
<1>12. ASSUME s.comp = {}, NEW u \in Uris PROVE Effect(s, x, u)
  <2>1. Effect(s, l, u)  BY <1>3, <1>8, <1>12
  <2> QED  BY <1>11, <2>1 DEF Effect, Same, Unreported, AnaKept, Current, ParseReport, Loaded
<1>13. x.open \subseteq s.open /\ x.comp = s.comp /\ x.view = s.view
  BY <1>3, <1>8, <1>11 DEF Kept, Placed
<1> QED  BY <1>9, <1>10, <1>11, <1>12, <1>13

----------------------------------------------------------------------------
(* The diagnostics of a document and the texts they were computed from       *)

\* its parse diagnostics are of the text it has
Fresh(s, u) == s.dc.diags[u] # <<>> /\ s.dc.diags[u][1] = ParseReport(s, u)

\* what the shallow diagnostics of u saw
Seen(s, u) == s.dc.diags[u][2][2]

\* parse and shallow diagnostics, once each, of the same text
Pair(s, u) ==
  \E p \in [{u} -> Texts], q \in Views :
    /\ s.dc.diags[u] = <<<<"parse", p>>, <<"shallow", q>>>>
    /\ u \in DOMAIN q /\ q[u] = p[u]

\* the dependencies that the shallow diagnostics saw with another text
Stale(s, u) == {v \in Deps[u] : v \in DOMAIN Seen(s, u) /\ Seen(s, u)[v] # s.text[v]}

\* They are stale at most where M allows; an analysis that is still there
\* agrees with them.
Held(s, u, M) ==
  Pair(s, u) => /\ Stale(s, u) \subseteq M
                /\ s.ana[u] # {} => /\ DOMAIN Seen(s, u) = s.ana[u]
                                    /\ \A v \in s.ana[u] : Seen(s, u)[v] = s.text[v]

\* loaded documents whose text differs
Moves(s, x) == {u \in Uris : x.text[u] # s.text[u] /\ s.text[u] # NoDoc}

\* the parts of a pair of reports
LEMMA SeenIs ==
  ASSUME NEW s, NEW u \in Uris, Pair(s, u)
  PROVE  /\ s.dc.diags[u] # <<>> /\ Len(s.dc.diags[u]) = 2 /\ DOMAIN s.dc.diags[u] = 1..2
         /\ s.dc.diags[u][1][1] = "parse" /\ s.dc.diags[u][1][2] \in [{u} -> Texts]
         /\ s.dc.diags[u][2] = <<"shallow", Seen(s, u)>>
         /\ u \in DOMAIN Seen(s, u) /\ Seen(s, u)[u] = s.dc.diags[u][1][2][u]
         /\ \A v \in DOMAIN Seen(s, u) : Seen(s, u)[v] \in Texts
<1>1. PICK p \in [{u} -> Texts], q \in Views :
         /\ s.dc.diags[u] = <<<<"parse", p>>, <<"shallow", q>>>>
         /\ u \in DOMAIN q /\ q[u] = p[u]
  BY DEF Pair
<1>2. Seen(s, u) = q  BY <1>1 DEF Seen
<1>3. PICK us \in SUBSET Uris : q \in [us -> Texts]  BY DEF Views
<1>4. \A v \in DOMAIN q : q[v] \in Texts  BY <1>3
<1> QED  BY <1>1, <1>2, <1>4

\* current diagnostics are not stale
LEMMA CurrentHeld ==
  ASSUME NEW x, Sound(x), NEW u \in Uris, Current(x, u)
  PROVE  Pair(x, u) /\ Fresh(x, u) /\ \A M : Held(x, u, M)
<1> DEFINE p == [v \in {u} |-> x.text[v]]
           q == [v \in x.ana[u] |-> x.text[v]]
<1>1. /\ u \in x.ana[u] /\ x.ana[u] \subseteq Loaded(x)
      /\ x.ana[u] \in SUBSET Uris /\ x.text \in [Uris -> Texts \cup {NoDoc}]
  BY DriverFields DEF Sound, Current
<1>2. \A v \in x.ana[u] : x.text[v] \in Texts  BY <1>1 DEF Loaded
<1>3. p \in [{u} -> Texts] /\ q \in [x.ana[u] -> Texts]  BY <1>1, <1>2
<1>4. q \in Views  BY <1>1, <1>3, ViewIs
<1>5. x.dc.diags[u] = <<<<"parse", p>>, <<"shallow", q>>>>
  BY DEF Current, ParseReport
<1>6. DOMAIN q = x.ana[u] /\ (\A v \in x.ana[u] : q[v] = x.text[v]) /\ p[u] = x.text[u]
  OBVIOUS
<1>7. ParseReport(x, u) = <<"parse", p>>  BY DEF ParseReport
<1> HIDE DEF p, q
<1>8. Pair(x, u)  BY <1>1, <1>3, <1>4, <1>5, <1>6 DEF Pair
<1>9. Seen(x, u) = q  BY <1>5 DEF Seen
<1>10. Fresh(x, u)  BY <1>5, <1>7 DEF Fresh
<1>11. Stale(x, u) = {}  BY <1>6, <1>9 DEF Stale
<1> QED  BY <1>6, <1>8, <1>9, <1>10, <1>11 DEF Held

\* what is left as it was is stale at most by the texts that differ
LEMMA SameHeld ==
  ASSUME NEW s, NEW x, NEW u \in Uris, Same(s, x, u), NEW M, Held(s, u, M)
  PROVE  /\ Pair(x, u) <=> Pair(s, u)
         /\ Held(x, u, M \cup Moves(s, x))
<1>1. x.dc.diags[u] = s.dc.diags[u] /\ AnaKept(s, x, u)  BY DEF Same, Unreported
<1>2. Pair(x, u) <=> Pair(s, u)  BY <1>1 DEF Pair
<1>3. Seen(x, u) = Seen(s, u)  BY <1>1 DEF Seen
<1>4. ASSUME Pair(x, u)
      PROVE  /\ Stale(x, u) \subseteq M \cup Moves(s, x)
             /\ x.ana[u] # {} => /\ DOMAIN Seen(x, u) = x.ana[u]
                                 /\ \A v \in x.ana[u] : Seen(x, u)[v] = x.text[v]
  <2>1. /\ Stale(s, u) \subseteq M
        /\ s.ana[u] # {} => /\ DOMAIN Seen(s, u) = s.ana[u]
                            /\ \A v \in s.ana[u] : Seen(s, u)[v] = s.text[v]
    BY <1>2, <1>4 DEF Held
  <2>2. \A v \in DOMAIN Seen(s, u) : Seen(s, u)[v] # NoDoc
    <3>1. Pair(s, u)  BY <1>2, <1>4
    <3>2. \A v \in DOMAIN Seen(s, u) : Seen(s, u)[v] \in Texts  BY <3>1, SeenIs, Zenon
    <3> QED  BY <3>2, TextsAre, Zenon
  <2>3. Deps[u] \subseteq Uris  BY DriverAssumption
  <2>4. ASSUME NEW v \in Stale(x, u) PROVE v \in M \cup Moves(s, x)
    <3>1. v \in Deps[u] /\ v \in DOMAIN Seen(s, u) /\ Seen(s, u)[v] # x.text[v] /\ v \in Uris
      BY <1>3, <2>3 DEF Stale
    <3>2. CASE x.text[v] = s.text[v]  BY <2>1, <3>1, <3>2 DEF Stale
    <3>3. CASE x.text[v] # s.text[v] /\ s.text[v] # NoDoc  BY <3>1, <3>3 DEF Moves
    <3>4. CASE s.text[v] = NoDoc  BY <2>1, <2>2, <3>1, <3>4 DEF Stale
    <3> QED  BY <3>2, <3>3, <3>4
  <2>5. ASSUME x.ana[u] # {}
        PROVE  /\ DOMAIN Seen(x, u) = x.ana[u]
               /\ \A v \in x.ana[u] : Seen(x, u)[v] = x.text[v]
    <3>1. /\ x.ana[u] = s.ana[u]
          /\ \A v \in s.ana[u] : x.text[v] = s.text[v] \/ s.text[v] = NoDoc
      BY <1>1, <2>5 DEF AnaKept
    <3> QED  BY <1>3, <2>1, <2>2, <2>5, <3>1
  <2> QED  BY <2>4, <2>5
<1> QED  BY <1>2, <1>4 DEF Held

----------------------------------------------------------------------------
(* A new driver                                                              *)

\* documents open in the old driver whose file has another text
Moved == {u \in srv.open : disk[u] # srv.text[u]}

\* The open documents have the texts that they had in the old driver, all
\* others those of their files.
TextsCopied(x) ==
  \A u \in Uris : /\ u \in x.open => u \in srv.open /\ x.text[u] = srv.text[u]
                  /\ u \notin x.open => x.text[u] \in {NoDoc, disk[u]}

\* Their diagnostics are of those texts, and stale at most for documents that
\* were opened later with another text than their file's.
CopyShows(x) ==
  x.comp = {} => \A u \in Uris : /\ u \in x.open => Pair(x, u) /\ Fresh(x, u) /\ Held(x, u, Moved)
                                 /\ u \notin x.open => x.dc.diags[u] = <<>>

\* what copying the open documents to a new driver gives
Copied(x) == TextsCopied(x) /\ CopyShows(x)

\* one more document
LEMMA CopyOneIs ==
  ASSUME DiskOK, Sound(srv), NEW x, Sound(x), x.ok, Copied(x), NEW u \in srv.open, u \notin x.open
  PROVE  LET y == OpenDocument(x, u, srv.text[u]) IN
         /\ Sound(y) /\ y.comp = x.comp /\ y.view = x.view
         /\ y.ok => y.open = x.open \cup {u} /\ Copied(y)
<1>0. PICK y : y = OpenDocument(x, u, srv.text[u])  OBVIOUS
<1>1. u \in Uris /\ srv.text[u] \in Texts
  <2>1. srv.open \subseteq Loaded(srv) /\ srv.text \in [Uris -> Texts \cup {NoDoc}]
    BY DriverFields DEF Sound
  <2> QED  BY <2>1 DEF Loaded
<1>2. Opened(x, y, u, srv.text[u])  BY <1>0, <1>1, OpenDocumentIs
<1>3. /\ Sound(y) /\ y.comp = x.comp /\ y.view = x.view /\ y.text[u] = srv.text[u]
      /\ \A v \in Uris \ {u} : \/ y.text[v] = x.text[v]
                               \/ x.text[v] = NoDoc /\ y.text[v] = disk[v] /\ disk[v] # Missing
      /\ \A v \in Uris \ {u} : y.dc.diags[v] = x.dc.diags[v]
  BY <1>2, Zenon DEF Opened
<1>4. y.ok => y.open = x.open \cup {u}  BY <1>2 DEF Opened
<1>5. x.open \subseteq Loaded(x) /\ x.open \subseteq Uris  BY DEF Sound, Loaded
<1>6. \A v \in x.open : y.text[v] = x.text[v]  BY <1>3, <1>5 DEF Loaded
<1>7. TextsCopied(x) /\ CopyShows(x)  BY DEF Copied
<1>8. ASSUME y.ok PROVE TextsCopied(y)
  <2>1. ASSUME NEW v \in y.open PROVE v \in srv.open /\ y.text[v] = srv.text[v]
    <3>1. CASE v = u  BY <1>3, <3>1
    <3>2. CASE v # u
      <4>1. v \in x.open  BY <1>4, <1>8, <2>1, <3>2
      <4> QED  BY <1>5, <1>6, <1>7, <4>1 DEF TextsCopied
    <3> QED  BY <3>1, <3>2
  <2>2. ASSUME NEW v \in Uris, v \notin y.open PROVE y.text[v] \in {NoDoc, disk[v]}
    <3>1. v # u /\ v \notin x.open  BY <1>4, <1>8, <2>2
    <3>2. x.text[v] \in {NoDoc, disk[v]}  BY <1>7, <3>1 DEF TextsCopied
    <3> QED  BY <1>3, <3>1, <3>2
  <2> QED  BY <2>1, <2>2 DEF TextsCopied
<1>9. Moved \cup Moves(x, y) = Moved
  <2>1. ASSUME NEW v \in Moves(x, y) PROVE v \in Moved
    <3>1. v \in Uris /\ y.text[v] # x.text[v] /\ x.text[v] # NoDoc  BY DEF Moves
    <3>2. v = u  BY <1>3, <3>1
    <3>3. x.text[u] \in {NoDoc, disk[u]}  BY <1>1, <1>7 DEF TextsCopied
    <3> QED  BY <1>3, <3>1, <3>2, <3>3 DEF Moved
  <2> QED  BY <2>1
<1>10. ASSUME y.ok PROVE CopyShows(y)
  <2> SUFFICES ASSUME y.comp = {}, NEW v \in Uris
               PROVE  /\ v \in y.open => Pair(y, v) /\ Fresh(y, v) /\ Held(y, v, Moved)
                      /\ v \notin y.open => y.dc.diags[v] = <<>>
    BY DEF CopyShows
  <2>1. /\ \A w \in Uris \ {u} : Same(x, y, w)
        /\ y.ok => Current(y, u)
    BY <1>0, <1>1, <1>3, OpenEffects
  <2>2. CASE v = u  BY <1>1, <1>3, <1>4, <1>10, <2>1, <2>2, CurrentHeld
  <2>3. CASE v # u
    <3>1. /\ v \in x.open => Pair(x, v) /\ Fresh(x, v) /\ Held(x, v, Moved)
          /\ v \notin x.open => x.dc.diags[v] = <<>>
      BY <1>3, <1>7 DEF CopyShows
    <3>2. v \in y.open <=> v \in x.open  BY <1>4, <1>10, <2>3
    <3>3. y.dc.diags[v] = x.dc.diags[v]  BY <1>3, <2>3
    <3>4. ASSUME v \in x.open PROVE Pair(y, v) /\ Held(y, v, Moved)
      BY <1>9, <2>1, <2>3, <3>1, <3>4, SameHeld
    <3>5. ASSUME v \in x.open PROVE Fresh(y, v)
      <4>1. ParseReport(y, v) = ParseReport(x, v)  BY <1>6, <3>5 DEF ParseReport
      <4> QED  BY <3>1, <3>3, <3>5, <4>1 DEF Fresh
    <3> QED  BY <3>1, <3>2, <3>3, <3>4, <3>5
  <2> QED  BY <2>2, <2>3
<1> QED  BY <1>0, <1>3, <1>4, <1>8, <1>10 DEF Copied

\* the copy of one document, and the fold of it
CopyOne(s, u) == OpenDocument(s, u, srv.text[u])
CopyStep(acc, u) == IF acc.ok THEN CopyOne(acc, u) ELSE acc

\* c is the new driver before any document is opened, and their order
CopyGood(c, n, x) ==
  /\ Sound(x) /\ x.comp = c[1].comp /\ x.view = c[1].view
  /\ x.ok => /\ \A u \in Uris : u \in x.open <=> \E i \in 1..n : c[2][i] = u
             /\ Copied(x)

\* the copying as a fold
Copies == INSTANCE FoldTheorems WITH Step <- CopyStep, Good <- CopyGood

\* a driver in which nothing was opened or reported yet
Blank(k) ==
  /\ Sound(k) /\ k.ok /\ k.open = {}
  /\ \A u \in Uris : k.text[u] \in {NoDoc, disk[u]} /\ k.dc.diags[u] = <<>>

\* all open documents, in any order
LEMMA CopiesIs ==
  ASSUME DiskOK, Sound(srv), NEW k, Blank(k), NEW order, Lists(order, srv.open)
  PROVE  LET x == Then(CopyOne, k, order) IN
         /\ Sound(x) /\ x.comp = k.comp /\ x.view = k.view
         /\ x.ok => x.open = srv.open /\ Copied(x)
<1> DEFINE c == <<k, order>>
<1>1. srv.open \subseteq Uris /\ order \in Seq(srv.open)  BY DEF Sound, Loaded, Lists
<1>2. CopyGood(c, 0, k)
  BY DEF Blank, CopyGood, Copied, TextsCopied, CopyShows
<1>3. ASSUME NEW n \in 0..(Len(order) - 1), NEW x, CopyGood(c, n, x)
      PROVE  CopyGood(c, n + 1, CopyStep(x, order[n + 1]))
  <2>1. PICK u : u = order[n + 1]  OBVIOUS
  <2>2. n \in Nat /\ n + 1 \in 1..Len(order) /\ u \in srv.open /\ u \in Uris  BY <1>1, <2>1
  <2>3. /\ Sound(x) /\ x.comp = k.comp /\ x.view = k.view
        /\ x.ok => /\ \A v \in Uris : v \in x.open <=> \E i \in 1..n : order[i] = v
                   /\ Copied(x)
    BY <1>3 DEF CopyGood
  <2>4. PICK y : y = CopyStep(x, u)  OBVIOUS
  <2>5. CASE ~x.ok
    <3>1. y = x  BY <2>4, <2>5 DEF CopyStep
    <3> QED  BY <2>1, <2>3, <2>4, <2>5, <3>1 DEF CopyGood
  <2>6. CASE x.ok
    <3>1. y = OpenDocument(x, u, srv.text[u])  BY <2>4, <2>6 DEF CopyStep, CopyOne
    <3>2. u \notin x.open
      <4>1. \A i \in 1..n : i \in 1..Len(order) /\ i # n + 1  BY <2>2
      <4> QED  BY <2>1, <2>2, <2>3, <2>6, <4>1, SMTT(30) DEF Lists
    <3>3. /\ Sound(y) /\ y.comp = x.comp /\ y.view = x.view
          /\ y.ok => y.open = x.open \cup {u} /\ Copied(y)
      BY <2>2, <2>3, <2>6, <3>1, <3>2, CopyOneIs
    <3>4. \A i \in 1..(n + 1) : i \in 1..n \/ i = n + 1  BY <2>2
    <3>5. 1..n \subseteq 1..(n + 1) /\ n + 1 \in 1..(n + 1)  BY <2>2
    <3>6. ASSUME y.ok, NEW v \in Uris
          PROVE  v \in y.open <=> \E i \in 1..(n + 1) : order[i] = v
      BY <2>1, <2>3, <2>6, <3>3, <3>4, <3>5, <3>6
    <3> QED  BY <2>1, <2>3, <2>4, <3>3, <3>6 DEF CopyGood
  <2> QED  BY <2>5, <2>6
<1>4. CopyGood(c, Len(order), Copies!FoldLeft(CopyStep, k, order))
  <2> HIDE DEF c
  <2>1. order \in Seq(Uris)  BY <1>1
  <2> QED  BY <1>2, <1>3, <2>1, Copies!FoldInduction
<1>5. Copies!FoldLeft(CopyStep, k, order) = FoldLeft(CopyStep, k, order)
  BY DEF Copies!FoldLeft, FoldLeft, Copies!MapThenFoldSet, MapThenFoldSet, Copies!Max, Max
<1>6. Then(CopyOne, k, order) = FoldLeft(CopyStep, k, order)  BY DEF Then, CopyStep
<1>7. PICK x : x = Then(CopyOne, k, order)  OBVIOUS
<1>8. CopyGood(c, Len(order), x)  BY <1>4, <1>5, <1>6, <1>7
<1>9. /\ Sound(x) /\ x.comp = k.comp /\ x.view = k.view
      /\ x.ok => /\ \A u \in Uris : u \in x.open <=> \E i \in 1..Len(order) : order[i] = u
                 /\ Copied(x)
  BY <1>8 DEF CopyGood
<1>10. ASSUME x.ok PROVE x.open = srv.open
  <2>1. x.open \subseteq Uris  BY <1>9 DEF Sound, Loaded
  <2>2. \A u \in Uris : u \in x.open <=> \E i \in 1..Len(order) : order[i] = u  BY <1>9, <1>10
  <2>3. \A u \in srv.open : \E i \in 1..Len(order) : order[i] = u  BY DEF Lists
  <2>4. \A i \in 1..Len(order) : order[i] \in srv.open  BY <1>1
  <2>5. \A u \in Uris : u \in x.open <=> u \in srv.open
    <3> TAKE u \in Uris
    <3>1. u \in x.open => u \in srv.open  BY <2>2, <2>4
    <3>2. u \in srv.open => u \in x.open  BY <2>2, <2>3
    <3> QED  BY <3>1, <3>2
  <2> QED  BY ONLY <1>1, <2>1, <2>5
<1> QED  BY <1>7, <1>9, <1>10

\* a driver with these texts and this compilation, before its first document
LEMMA BlankIs ==
  ASSUME DiskOK, Sound(srv), NEW files \in SUBSET {u \in Uris : disk[u] # Missing},
         NEW k, Shape(k), k.text = [u \in Uris |-> IF u \in files THEN disk[u] ELSE NoDoc],
         k.open = {}, k.index = srv.index, k.ana = [u \in Uris |-> {}], k.comp = files,
         k.sources = files, k.view \in Views, k.dc = DC!NewClient(DC!NoDiags), k.cut = {},
         k.ok = TRUE
  PROVE  Blank(k)
<1>1. k.text \in [Uris -> Texts \cup {NoDoc}] /\ files \subseteq Loaded(k)
  BY TextsAre DEF DiskOK, Loaded
<1>2. k.index \in SUBSET Uris  BY DriverFields DEF Sound
<1>3. k.ana \in [Uris -> SUBSET Uris] /\ \A u \in Uris : k.ana[u] = {}  OBVIOUS
<1>4. Client(k.dc) /\ Clean(k.dc) /\ \A u \in Uris : k.dc.diags[u] = <<>>
  BY NewClientIs, NoDiagsIs
<1>5. k \in Drivers  BY <1>1, <1>2, <1>3, <1>4, DriverMade
<1>6. Sound(k)  BY <1>1, <1>3, <1>4, <1>5 DEF Sound
<1>7. \A u \in Uris : k.text[u] \in {NoDoc, disk[u]}  OBVIOUS
<1>8. k.ok  BY Zenon
<1> QED  BY <1>4, <1>6, <1>7, <1>8 DEF Blank

\* what holds of a new driver that could be built
Built(x) ==
  /\ Sound(x)
  /\ x.ok => /\ DOMAIN x.view = x.comp /\ x.open = srv.open
             /\ \A u \in x.open : x.text[u] = srv.text[u]
             /\ CopyShows(x)

\* the view of a driver without a compilation
LEMMA EmptyView == <<>> \in Views /\ DOMAIN <<>> = {}
<1>1. {} \in SUBSET Uris /\ <<>> \in [{} -> Texts] /\ DOMAIN <<>> = {}  OBVIOUS
<1> QED  BY <1>1 DEF Views

\* the driver of explore mode
LEMMA NewExploreIs ==
  ASSUME DiskOK, Sound(srv), NEW order, Lists(order, srv.open)
  PROVE  LET x == NewExplore(order) IN
         Sound(x) /\ x.comp = {} /\ x.view = <<>> /\ (x.ok => x.open = srv.open /\ Copied(x))
<1> DEFINE new == NewDriver(srv.dc.shown, srv.index)
<1>1. DC!ClearAndPush(srv.dc).shown = DC!NoDiags
  BY WithdrawnIs, DriverFields DEF Sound
<1>2. PICK k : k = [new EXCEPT !.dc.shown = DC!ClearAndPush(srv.dc).shown]  OBVIOUS
<1>3. /\ Shape(k) /\ k.text = [u \in Uris |-> NoDoc] /\ k.open = {} /\ k.index = srv.index
      /\ k.ana = [u \in Uris |-> {}] /\ k.comp = {} /\ k.sources = {} /\ k.view = <<>>
      /\ k.dc = [new.dc EXCEPT !.shown = DC!NoDiags] /\ k.cut = {} /\ k.ok = TRUE
  BY <1>1, <1>2 DEF NewDriver, Shape
<1>4. new.dc = DC!NewClient(srv.dc.shown)  BY DEF NewDriver
<1>5. k.dc = DC!NewClient(DC!NoDiags)
  <2>1. k.dc = [DC!NewClient(srv.dc.shown) EXCEPT !.shown = DC!NoDiags]  BY <1>3, <1>4
  <2> QED  BY <2>1 DEF DC!NewClient
<1>6. k.view \in Views  BY <1>3, EmptyView
<1>7. k.text = [u \in Uris |-> IF u \in {} THEN disk[u] ELSE NoDoc]  BY <1>3
<1> HIDE DEF new
<1>8. Blank(k)  BY <1>3, <1>5, <1>6, <1>7, BlankIs
<1>9. PICK x : x = NewExplore(order)  OBVIOUS
<1>10. x = Then(CopyOne, k, order)
  BY <1>2, <1>9 DEF NewExplore, CopyOpenDocuments, CopyOne, new
<1>11. /\ Sound(x) /\ x.comp = k.comp /\ x.view = k.view
       /\ x.ok => x.open = srv.open /\ Copied(x)
  BY <1>8, <1>10, CopiesIs
<1> QED  BY <1>3, <1>9, <1>11

\* so a new explore driver is one that a change of mode may install
LEMMA NewExploreBuilt ==
  ASSUME DiskOK, Sound(srv), NEW order, Lists(order, srv.open)
  PROVE  Built(NewExplore(order))
BY NewExploreIs, EmptyView DEF Built, Copied, TextsCopied, Sound, Loaded

\* the driver of a build file
LEMMA NewBuildBuilt ==
  ASSUME DiskOK, Sound(srv), NEW order, Lists(order, srv.open)
  PROVE  Built(NewBuild(order))
<1> DEFINE files == {u \in BuildFiles : disk[u] # Missing}
           texts == [u \in Uris |-> IF u \in files THEN disk[u] ELSE NoDoc]
           new == NewDriver(srv.dc.shown, srv.index)
           parsed == [new EXCEPT !.text = texts, !.sources = files]
<1>1. DC!ClearAndPush(srv.dc).shown = DC!NoDiags
  BY WithdrawnIs, DriverFields DEF Sound
<1>f. files \in SUBSET {u \in Uris : disk[u] # Missing}  BY DriverAssumption
<1>2. PICK p : p = [parsed EXCEPT !.comp = files]  OBVIOUS
<1>t. PICK tx : tx = texts  OBVIOUS
<1>g. PICK fs : fs = files  OBVIOUS
<1>3. /\ Shape(p) /\ p.text = tx /\ p.open = {} /\ p.index = srv.index
      /\ p.ana = [u \in Uris |-> {}] /\ p.comp = fs /\ p.sources = fs
      /\ p.dc = DC!NewClient(srv.dc.shown) /\ p.cut = {} /\ p.ok = TRUE
  <2> HIDE DEF texts, files
  <2> QED  BY <1>2, <1>t, <1>g DEF NewDriver, Shape
<1>4. PICK r : r = Refresh(p)  OBVIOUS
<1>5. PICK k : k = [r EXCEPT !.dc.shown = DC!ClearAndPush(srv.dc).shown]  OBVIOUS
<1>6. /\ Shape(r) /\ r.text = tx /\ r.open = {} /\ r.index = srv.index
      /\ r.ana = [u \in Uris |-> {}] /\ r.comp = fs /\ r.sources = fs
      /\ r.dc = DC!NewClient(srv.dc.shown) /\ r.cut = {} /\ r.ok = TRUE
      /\ r.view = [u \in fs |-> tx[u]]
  BY <1>3, <1>4 DEF Refresh, Shape
<1>7. /\ Shape(k) /\ k.text = tx /\ k.open = {} /\ k.index = srv.index
      /\ k.ana = [u \in Uris |-> {}] /\ k.comp = fs /\ k.sources = fs
      /\ k.dc = [r.dc EXCEPT !.shown = DC!NoDiags] /\ k.cut = {} /\ k.ok = TRUE
      /\ k.view = [u \in fs |-> tx[u]]
  BY <1>1, <1>5, <1>6 DEF Shape
<1>8. k.dc = DC!NewClient(DC!NoDiags)
  <2>1. k.dc = [DC!NewClient(srv.dc.shown) EXCEPT !.shown = DC!NoDiags]  BY <1>6, <1>7
  <2> QED  BY <2>1 DEF DC!NewClient
<1>9. fs \in SUBSET {u \in Uris : disk[u] # Missing}  BY <1>f, <1>g
<1>10. tx = [u \in Uris |-> IF u \in fs THEN disk[u] ELSE NoDoc]  BY <1>t, <1>g
<1>11. k.view \in Views /\ DOMAIN k.view = fs
  <2>1. \A u \in fs : tx[u] \in Texts  BY <1>9, <1>10 DEF DiskOK
  <2>2. [u \in fs |-> tx[u]] \in [fs -> Texts]  BY <2>1
  <2>3. fs \in SUBSET Uris  BY <1>9
  <2> QED  BY <1>7, <2>2, <2>3, ViewIs
<1>12. PICK y : y = Then(CopyOne, k, order)  OBVIOUS
<1>13. PICK x : x = NewBuild(order)  OBVIOUS
<1>14. CopyOpenDocuments(Refresh([parsed EXCEPT !.comp = files]), order) = y
  BY <1>2, <1>4, <1>5, <1>12 DEF CopyOpenDocuments, CopyOne
<1>15. x = IF y.ok THEN IF fs = {} THEN y ELSE Publish(y) ELSE y
  <2>1. x = IfOk(LAMBDA z : IF files = {} THEN z ELSE Publish(z), y)
    BY <1>13, <1>14 DEF NewBuild
  <2> QED  BY <1>g, <2>1 DEF IfOk
<1> HIDE DEF files, texts, new, parsed
<1>16. Blank(k)
  <2>1. k.text = [u \in Uris |-> IF u \in fs THEN disk[u] ELSE NoDoc]  BY <1>7, <1>10
  <2> QED  BY <1>7, <1>8, <1>9, <1>11, <2>1, BlankIs
<1>17. /\ Sound(y) /\ y.comp = fs /\ y.view = k.view
       /\ y.ok => y.open = srv.open /\ Copied(y)
  BY <1>7, <1>12, <1>16, CopiesIs
<1>18. Built(y)  BY <1>11, <1>17 DEF Built, Copied, TextsCopied, Sound, Loaded
<1>19. CASE ~(y.ok /\ fs # {})  BY <1>13, <1>15, <1>18, <1>19
<1>20. CASE y.ok /\ fs # {}
  <2>1. x = Publish(y)  BY <1>15, <1>20
  <2>2. Sound(x) /\ Kept(y, x) /\ x.text = y.text
    BY <1>17, <1>20, <2>1, PublishIs
  <2>3. x.comp # {}  BY <1>17, <1>20, <2>2 DEF Kept, Placed
  <2> QED  BY <1>13, <1>18, <1>20, <2>2, <2>3 DEF Built, CopyShows, Kept, Placed
<1> QED  BY <1>19, <1>20

\* the compilation of a top level takes in the files that it finds
LEMMA LoadTopIs ==
  ASSUME DiskOK, NEW s, Sound(s), NEW u \in Loaded(s)
  PROVE  LET x == LoadTop(s, u) IN
         /\ Sound(x) /\ x.open = s.open /\ x.ok = s.ok /\ x.comp # {}
         /\ \A v \in Loaded(s) : x.text[v] = s.text[v]
<1> DEFINE found == {u} \cup {v \in Dependencies(s, u) : s.text[v] # NoDoc \/ disk[v] # Missing}
<1>0. PICK fs : fs = found  OBVIOUS
<1>1. /\ s \in Drivers /\ Shape(s) /\ s.text \in [Uris -> Texts \cup {NoDoc}]
      /\ s.ana \in [Uris -> SUBSET Uris] /\ s.index \in SUBSET Uris
  BY DriverFields DEF Sound
<1>2. fs \in SUBSET Uris /\ u \in fs /\ \A v \in fs : s.text[v] # NoDoc \/ disk[v] # Missing
  BY <1>0, <1>1 DEF Dependencies, Loaded
<1>3. PICK x : x = LoadTop(s, u)  OBVIOUS
<1>4. x = [s EXCEPT !.text = [v \in Uris |-> IF v \in fs /\ @[v] = NoDoc THEN disk[v] ELSE @[v]],
                    !.ana = [v \in Uris |-> IF v \in fs THEN {} ELSE @[v]],
                    !.comp = fs]
  BY <1>0, <1>3 DEF LoadTop
<1> HIDE DEF found
<1>5. /\ Shape(x) /\ x.open = s.open /\ x.ok = s.ok /\ x.index = s.index /\ x.sources = s.sources
      /\ x.view = s.view /\ x.dc = s.dc /\ x.cut = s.cut /\ x.comp = fs
      /\ x.text = [v \in Uris |-> IF v \in fs /\ s.text[v] = NoDoc THEN disk[v] ELSE s.text[v]]
      /\ x.ana = [v \in Uris |-> IF v \in fs THEN {} ELSE s.ana[v]]
  BY <1>1, <1>4 DEF Shape
<1>6. /\ x.text \in [Uris -> Texts \cup {NoDoc}] /\ fs \subseteq Loaded(x)
      /\ \A v \in Loaded(s) : x.text[v] = s.text[v]
  BY <1>1, <1>2, <1>5, TextsAre DEF DiskOK, Loaded
<1>7. x.ana \in [Uris -> SUBSET Uris] /\ \A v \in Uris : x.ana[v] # {} => x.ana[v] = s.ana[v]
  BY <1>1, <1>5
<1>8. x \in Drivers  BY <1>1, <1>2, <1>5, <1>6, <1>7, DriverFields, DriverMade
<1>9. Loaded(s) \subseteq Loaded(x)  BY <1>6 DEF Loaded
<1>10. Sound(x)  BY <1>5, <1>6, <1>7, <1>8, <1>9 DEF Sound
<1>11. x.comp # {}  BY <1>2, <1>5
<1> QED  BY <1>3, <1>5, <1>6, <1>10, <1>11

\* the driver of a top level, or of a file without top modules
LEMMA NewTopBuilt ==
  ASSUME DiskOK, Sound(srv), NEW u \in Uris, NEW hasTop \in BOOLEAN,
         NEW order, Lists(order, srv.open)
  PROVE  Built(NewTop(u, hasTop, order))
<1>1. PICK e : e = NewExplore(order)  OBVIOUS
<1>2. Sound(e) /\ e.comp = {} /\ e.view = <<>> /\ (e.ok => e.open = srv.open /\ Copied(e))
  BY <1>1, NewExploreIs
<1>3. PICK g : g = IF e.ok THEN GetDocument(e, u) ELSE e  OBVIOUS
<1>4. PICK x : x = NewTop(u, hasTop, order)  OBVIOUS
<1>5. x = IF g.ok /\ hasTop THEN Publish(Refresh(LoadTop(g, u))) ELSE g
  BY <1>1, <1>3, <1>4 DEF NewTop, IfOk
<1>6. CASE ~e.ok  BY <1>2, <1>3, <1>4, <1>5, <1>6 DEF Built
<1>7. CASE e.ok
  <2>1. g = GetDocument(e, u)  BY <1>3, <1>7
  <2>2. /\ Sound(g) /\ Kept(e, g) /\ Grown(e, g) /\ g.ana = e.ana /\ g.dc = e.dc
        /\ g.ok => u \in Loaded(g)
    BY <1>2, <2>1, GetDocumentIs
  <2>e. /\ e.open = srv.open /\ TextsCopied(e) /\ CopyShows(e)
        /\ e.open \subseteq Loaded(e) /\ e.open \subseteq Uris
    BY <1>2, <1>7 DEF Copied, Sound, Loaded
  <2>t. ASSUME NEW v \in srv.open PROVE v \in Loaded(g) /\ g.text[v] = srv.text[v] /\ g.text[v] = e.text[v]
    <3>1. v \in Loaded(e) /\ e.text[v] = srv.text[v]  BY <2>e, <2>t DEF TextsCopied, Loaded
    <3> QED  BY <2>2, <3>1, GrownLoaded
  <2>3. CASE ~g.ok  BY <1>4, <1>5, <2>2, <2>3 DEF Built
  <2>4. CASE g.ok /\ ~hasTop
    <3>1. x = g  BY <1>5, <2>4
    <3>2. g.comp = {} /\ g.view = <<>> /\ g.open = srv.open  BY <1>2, <2>2, <2>e DEF Kept, Placed
    <3>3. ASSUME NEW v \in Uris
          PROVE  /\ v \in g.open => Pair(g, v) /\ Fresh(g, v) /\ Held(g, v, Moved)
                 /\ v \notin g.open => g.dc.diags[v] = <<>>
      <4>1. /\ v \in e.open => Pair(e, v) /\ Fresh(e, v) /\ Held(e, v, Moved)
            /\ v \notin e.open => e.dc.diags[v] = <<>>
        BY <1>2, <2>e DEF CopyShows
      <4>2. CASE v \notin srv.open  BY <2>2, <2>e, <3>2, <4>1, <4>2
      <4>3. CASE v \in srv.open
        <5>1. AnaKept(e, g, v)  BY <1>2, <2>2, GrownKeeps
        <5>2. Same(e, g, v)  BY <2>2, <2>t, <4>3, <5>1 DEF Same, Unreported, Kept
        <5>3. Moves(e, g) = {}  BY <2>2 DEF Moves, Grown
        <5>4. Moved \cup Moves(e, g) = Moved  BY <5>3
        <5>5. Pair(g, v) /\ Held(g, v, Moved)  BY <2>e, <4>1, <4>3, <5>2, <5>4, SameHeld
        <5>6. ParseReport(g, v) = ParseReport(e, v)  BY <2>t, <4>3 DEF ParseReport
        <5>7. Fresh(g, v)  BY <2>2, <2>e, <4>1, <4>3, <5>6 DEF Fresh
        <5> QED  BY <3>2, <4>3, <5>5, <5>7
      <4> QED  BY <4>2, <4>3
    <3>4. CopyShows(g)  BY <3>3 DEF CopyShows
    <3> QED  BY <1>4, <2>2, <2>t, <3>1, <3>2, <3>4, EmptyView DEF Built
  <2>5. CASE g.ok /\ hasTop
    <3>1. PICK l : l = LoadTop(g, u)  OBVIOUS
    <3>2. /\ Sound(l) /\ l.open = g.open /\ l.comp # {}
          /\ \A v \in Loaded(g) : l.text[v] = g.text[v]
      BY <2>2, <2>5, <3>1, LoadTopIs
    <3>3. l.ok
      <4>1. l.ok = g.ok  BY ONLY DiskOK, <2>2, <2>5, <3>1, LoadTopIs
      <4> QED  BY <2>5, <4>1, Zenon
    <3>4. PICK r : r = Refresh(l)  OBVIOUS
    <3>5. /\ Sound(r) /\ r.open = l.open /\ r.comp = l.comp /\ r.text = l.text
          /\ r.view = [v \in l.comp |-> l.text[v]]
      BY <3>2, <3>4, RefreshIs
    <3>6. r.ok
      <4>1. r.ok = l.ok  BY ONLY <3>2, <3>4, RefreshIs
      <4> QED  BY <3>3, <4>1, Zenon
    <3>7. x = Publish(r)  BY <1>5, <2>5, <3>1, <3>4
    <3>8. Sound(x) /\ Kept(r, x) /\ x.text = r.text  BY <3>5, <3>6, <3>7, PublishIs
    <3>9. DOMAIN x.view = x.comp /\ x.comp # {}  BY <3>2, <3>5, <3>8 DEF Kept, Placed
    <3>10. x.open = srv.open  BY <2>2, <2>e, <3>2, <3>5, <3>8 DEF Kept, Placed
    <3>11. \A v \in srv.open : x.text[v] = srv.text[v]  BY <2>t, <3>2, <3>5, <3>8
    <3> QED  BY <1>4, <3>8, <3>9, <3>10, <3>11 DEF Built, CopyShows
  <2> QED  BY <2>3, <2>4, <2>5
<1> QED  BY <1>6, <1>7

\* The active driver after a change of mode: the new one, or the old one,
\* whose open documents then wait for their next analysis.
LEMMA ReplaceIs ==
  ASSUME Sound(srv), DOMAIN srv.view = srv.comp, NEW new, Built(new)
  PROVE  LET x == Replace(new) IN
         /\ Sound(x) /\ DOMAIN x.view = x.comp /\ x.open = srv.open
         /\ \A u \in x.open : x.text[u] = srv.text[u]
         /\ x.ok => CopyShows(x)
         /\ ~x.ok => x.open \subseteq x.cut
<1>0. PICK x : x = Replace(new)  OBVIOUS
<1>1. CASE new.ok  BY <1>0, <1>1 DEF Replace, Built
<1>2. CASE ~new.ok
  <2>1. DC!ClearAndPush(new.dc).shown = DC!NoDiags
    BY WithdrawnIs, DriverFields DEF Built, Sound
  <2>2. x = [srv EXCEPT !.dc = DC!NewClient(DC!NoDiags), !.cut = @ \cup srv.open, !.ok = FALSE]
    BY <1>0, <1>2, <2>1 DEF Replace
  <2>3. srv \in Drivers /\ Shape(srv)  BY DriverFields DEF Sound
  <2>4. /\ x.text = srv.text /\ x.open = srv.open /\ x.index = srv.index /\ x.ana = srv.ana
        /\ x.comp = srv.comp /\ x.sources = srv.sources /\ x.view = srv.view
        /\ x.dc = DC!NewClient(DC!NoDiags) /\ x.cut = srv.cut \cup srv.open /\ x.ok = FALSE
        /\ Shape(x)
    BY <2>2, <2>3 DEF Shape
  <2>5. Client(x.dc) /\ Clean(x.dc) /\ x.cut \in SUBSET Uris
    BY <2>3, <2>4, NewClientIs, DriverFields
  <2>6. x \in Drivers  BY <2>3, <2>4, <2>5, DriverFields, DriverMade
  <2>7. Sound(x)  BY <2>4, <2>5, <2>6 DEF Sound, Loaded
  <2> QED  BY <1>0, <2>4, <2>5, <2>7
<1> QED  BY <1>1, <1>2

\* a handler begins with the driver as it is
LEMMA BeginIs ==
  ASSUME Sound(srv)
  PROVE  /\ Sound(Begin) /\ Kept(srv, Begin) /\ Begin.text = srv.text /\ Begin.ana = srv.ana
         /\ Begin.dc = srv.dc /\ Begin.ok
<1>0. PICK x : x = Begin  OBVIOUS
<1>1. srv \in Drivers /\ Shape(srv)  BY DriverFields DEF Sound
<1>2. /\ Kept(srv, x) /\ x.text = srv.text /\ x.ana = srv.ana /\ x.dc = srv.dc
      /\ x.ok = TRUE /\ Shape(x)
  BY <1>0, <1>1 DEF Begin, Shape, Kept, Placed
<1>3. x \in Drivers  BY <1>1, <1>2, DriverFields, DriverMade DEF Kept, Placed
<1>4. Sound(x)  BY <1>2, <1>3 DEF Sound, Kept, Placed, Loaded
<1>5. x.ok  BY <1>2, Zenon
<1> QED  BY <1>0, <1>2, <1>4, <1>5

----------------------------------------------------------------------------
(* The invariant                                                             *)

\* In explore mode: an open document whose last analysis came to its push has
\* the diagnostics of both kinds, those of its text, stale at most for documents
\* changed since the save, unless a query analysed it anew.
Diagnosed(s, un, re) ==
  s.comp = {} => \A u \in s.open \ s.cut :
    Pair(s, u) /\ Fresh(s, u) /\ (u \in re \/ Held(s, u, un))

\* An open document has the editor's text, or was reloaded under the editor.
Following(s, ed, cl) ==
  \A u \in s.open : ed[u] # Closed /\ (s.text[u] = ed[u] \/ u \in cl)

\* the files and the editor
Setting ==
  /\ DiskOK
  /\ editor \in [Uris -> Texts \cup {Closed}]
  /\ clean \subseteq Uris /\ \A u \in clean : editor[u] # Closed
  /\ pending \in SUBSET (Uris \X Kinds) /\ edits \in Nat

\* The inductive invariant: what handlers keep of the driver's record, the files
\* and the editor, and what the documents' texts and diagnostics owe to them.
Inv ==
  /\ Sound(srv) /\ DOMAIN srv.view = srv.comp
  /\ Setting
  /\ Following(srv, editor, clobbered)
  /\ Diagnosed(srv, unsaved, rebuilt)

\* what a handler owes to the diagnostics of every document in explore mode
Handled(s, x) ==
  s.comp = {} => \A u \in Uris :
    /\ Effect(s, x, u)
    /\ u \in x.open /\ u \notin s.open => Current(x, u) \/ u \in x.cut

\* The diagnostics after a handler: what it leaves as it was is still right.
LEMMA DiagnosedStep ==
  ASSUME NEW s, NEW x, Sound(s), Sound(x), x.comp = s.comp,
         NEW un, NEW re, Diagnosed(s, un, re), NEW un2, Handled(s, x),
         un \cup Moves(s, x) \subseteq un2 \/ \A u \in x.open \ x.cut : x.ana[u] # {}
  PROVE  Diagnosed(x, un2, {u \in re : x.dc.diags[u] = s.dc.diags[u]})
<1> SUFFICES ASSUME x.comp = {}, NEW u \in x.open \ x.cut
             PROVE  /\ Pair(x, u) /\ Fresh(x, u)
                    /\ \/ u \in {v \in re : x.dc.diags[v] = s.dc.diags[v]}
                       \/ Held(x, u, un2)
  BY DEF Diagnosed
<1>u. u \in Uris  BY DriverFields DEF Sound
<1>1. /\ Effect(s, x, u)
      /\ u \notin s.open => Current(x, u)
  BY <1>u DEF Handled
<1>2. CASE Current(x, u)  BY <1>u, <1>2, CurrentHeld
<1>3. CASE Same(s, x, u) /\ ~Current(x, u)
  <2>1. /\ x.dc.diags[u] = s.dc.diags[u] /\ u \in s.open /\ u \notin s.cut
        /\ x.text[u] = s.text[u] \/ s.text[u] = NoDoc
    BY <1>1, <1>3 DEF Same, Unreported
  <2>2. Pair(s, u) /\ Fresh(s, u) /\ (u \in re \/ Held(s, u, un))
    BY <2>1 DEF Diagnosed
  <2>3. Pair(x, u)  BY <2>1, <2>2 DEF Pair
  <2>4. Fresh(x, u)
    <3>1. x.text[u] = s.text[u]  BY <2>1 DEF Sound, Loaded
    <3>2. ParseReport(x, u) = ParseReport(s, u)  BY <3>1 DEF ParseReport
    <3> QED  BY <2>1, <2>2, <3>2 DEF Fresh
  <2>5. ASSUME u \notin re PROVE Held(x, u, un2)
    <3>1. Held(s, u, un)  BY <2>2, <2>5
    <3>2. Held(x, u, un \cup Moves(s, x))  BY <1>u, <1>3, <3>1, SameHeld
    <3>3. CASE un \cup Moves(s, x) \subseteq un2  BY <3>2, <3>3 DEF Held
    <3>4. CASE x.ana[u] # {}
      <4> SUFFICES ASSUME Pair(x, u) PROVE Stale(x, u) \subseteq un2
        BY <3>2 DEF Held
      <4>1. /\ DOMAIN Seen(x, u) = x.ana[u]
            /\ \A v \in x.ana[u] : Seen(x, u)[v] = x.text[v]
        BY <3>2, <3>4 DEF Held
      <4>2. Stale(x, u) = {}  BY <4>1 DEF Stale
      <4> QED  BY <4>2
    <3> QED  BY <3>3, <3>4
  <2> QED  BY <2>1, <2>3, <2>4, <2>5
<1> QED  BY <1>1, <1>2, <1>3 DEF Effect

----------------------------------------------------------------------------
(* The handlers keep the invariant                                           *)

\* what the model notes after a handler, in the terms of DiagnosedStep
LEMMA NoteIs ==
  ASSUME Inv, Sound(srv'), srv'.comp = srv.comp, Handled(srv, srv'),
         unsaved \cup Changed \subseteq unsaved' \/ \A u \in srv'.open \ srv'.cut : srv'.ana[u] # {},
         rebuilt' = {u \in rebuilt : srv'.dc.diags[u] = srv.dc.diags[u]}
  PROVE  Diagnosed(srv', unsaved', rebuilt')
<1>1. Changed = Moves(srv, srv')  BY DEF Changed, Moves
<1>2. Sound(srv) /\ Diagnosed(srv, unsaved, rebuilt)  BY DEF Inv
<1>3. \/ unsaved \cup Moves(srv, srv') \subseteq unsaved'
      \/ \A u \in srv'.open \ srv'.cut : srv'.ana[u] # {}
  BY <1>1
<1>4. Diagnosed(srv', unsaved', {u \in rebuilt : srv'.dc.diags[u] = srv.dc.diags[u]})
  BY <1>2, <1>3, DiagnosedStep
<1> QED  BY <1>4

\* what was done to the driver as the handler found it
LEMMA EffectBegin ==
  ASSUME Sound(srv), NEW x, NEW u
  PROVE  /\ Effect(Begin, x, u) => Effect(srv, x, u)
         /\ Same(Begin, x, u) => Same(srv, x, u)
BY BeginIs DEF Effect, Same, Unreported, AnaKept, Kept

\* the parts of the invariant that a handler of messages must restore
Restored ==
  /\ Sound(srv') /\ DOMAIN srv'.view = srv'.comp
  /\ Following(srv', editor', clobbered')
  /\ Diagnosed(srv', unsaved', rebuilt')

\* onDocDidOpen restores what the invariant says of the driver
LEMMA DidOpenStep ==
  ASSUME Inv, NEW u \in Uris, DidOpen(u)
  PROVE  Restored
<1>1. /\ Sound(srv) /\ DOMAIN srv.view = srv.comp /\ DiskOK
      /\ editor \in [Uris -> Texts \cup {Closed}]
      /\ Following(srv, editor, clobbered)
  BY DEF Inv, Setting
<1>2. /\ editor[u] = Closed /\ disk[u] # Missing
      /\ editor' = [editor EXCEPT ![u] = disk[u]]
      /\ srv' = OpenDocument(Begin, u, disk[u])
      /\ unsaved' = unsaved \cup Changed /\ Note
  BY DEF DidOpen
<1>3. disk[u] \in Texts  BY <1>1, <1>2 DEF DiskOK
<1>4. /\ Sound(Begin) /\ Kept(srv, Begin) /\ Begin.text = srv.text /\ Begin.ok
  BY <1>1, BeginIs
<1>5. Opened(Begin, srv', u, disk[u])  BY <1>1, <1>2, <1>3, <1>4, OpenDocumentIs
<1>6. /\ Sound(srv') /\ srv'.comp = srv.comp /\ srv'.view = srv.view
      /\ srv'.text[u] = disk[u]
      /\ \A v \in Uris \ {u} : srv'.text[v] = srv.text[v] \/ srv.text[v] = NoDoc
  BY <1>4, <1>5 DEF Opened, Kept, Placed
<1>7. /\ srv'.ok => srv'.open = srv.open \cup {u}
      /\ ~srv'.ok => srv'.open = srv.open
  BY <1>4, <1>5 DEF Opened, Kept, Placed
<1>8. u \notin srv.open /\ srv.open \subseteq Loaded(srv)
  BY <1>1, <1>2 DEF Following, Sound
<1>9. Following(srv', editor', clobbered')
  <2> SUFFICES ASSUME NEW v \in srv'.open
               PROVE  editor'[v] # Closed /\ (srv'.text[v] = editor'[v] \/ v \in clobbered')
    BY DEF Following
  <2>1. CASE v = u  BY <1>1, <1>2, <1>3, <1>6, <2>1, TextsAre
  <2>2. CASE v # u
    <3>1. v \in srv.open /\ v \in Uris  BY <1>7, <1>8, <2>2 DEF Loaded
    <3>2. srv'.text[v] = srv.text[v]  BY <1>6, <1>8, <2>2, <3>1 DEF Loaded
    <3>3. editor'[v] = editor[v]  BY <1>1, <1>2, <2>2, <3>1
    <3> QED  BY <1>1, <1>2, <3>1, <3>2, <3>3 DEF Following, Note
  <2> QED  BY <2>1, <2>2
<1>10. Handled(srv, srv')
  <2> SUFFICES ASSUME srv.comp = {}, NEW v \in Uris
               PROVE  /\ Effect(srv, srv', v)
                      /\ v \in srv'.open /\ v \notin srv.open => Current(srv', v)
    BY DEF Handled
  <2>1. Begin.comp = {}  BY <1>4 DEF Kept, Placed
  <2>2. /\ \A w \in Uris : Effect(Begin, srv', w)
        /\ srv'.ok => Current(srv', u)
    BY <1>1, <1>2, <1>3, <1>4, <2>1, OpenEffects
  <2> QED  BY <1>1, <1>7, <2>2, EffectBegin
<1>11. Diagnosed(srv', unsaved', rebuilt')
  BY <1>2, <1>6, <1>10, NoteIs DEF Note
<1> QED  BY <1>1, <1>6, <1>9, <1>11 DEF Restored

\* so does onDocDidClose
LEMMA DidCloseStep ==
  ASSUME Inv, NEW u \in Uris, DidClose(u)
  PROVE  Restored
<1>1. /\ Sound(srv) /\ DOMAIN srv.view = srv.comp
      /\ editor \in [Uris -> Texts \cup {Closed}]
      /\ Following(srv, editor, clobbered)
  BY DEF Inv, Setting
<1>2. /\ editor' = [editor EXCEPT ![u] = Closed]
      /\ srv' = CloseDocument(Begin, u)
      /\ unsaved' = unsaved /\ Note
  BY DEF DidClose
<1>3. /\ Sound(Begin) /\ Kept(srv, Begin) /\ Begin.text = srv.text /\ Begin.ana = srv.ana
      /\ Begin.dc = srv.dc
  BY <1>1, BeginIs
<1>4. /\ Sound(srv') /\ srv'.comp = srv.comp /\ srv'.text = srv.text
      /\ srv'.view = srv.view /\ srv'.ana = srv.ana
      /\ srv'.open = srv.open \ {u} /\ srv'.cut = srv.cut \ {u}
      /\ \A v \in Uris \ {u} : srv'.dc.diags[v] = srv.dc.diags[v]
  BY <1>2, <1>3, CloseDocumentIs DEF Kept, Placed
<1>5. Following(srv', editor', clobbered')
  <2> SUFFICES ASSUME NEW v \in srv'.open
               PROVE  editor'[v] # Closed /\ (srv'.text[v] = editor'[v] \/ v \in clobbered')
    BY DEF Following
  <2>1. v \in srv.open /\ v \in Uris /\ v # u  BY <1>1, <1>4 DEF Sound, Loaded
  <2>2. editor'[v] = editor[v]  BY <1>1, <1>2, <2>1
  <2> QED  BY <1>1, <1>2, <1>4, <2>1, <2>2 DEF Following, Note
<1>6. Handled(srv, srv')
  <2> SUFFICES ASSUME srv.comp = {}, NEW v \in Uris
               PROVE  Effect(srv, srv', v) /\ (v \in srv'.open => v \in srv.open)
    BY DEF Handled
  <2>1. CASE v = u  BY <1>4, <2>1 DEF Effect
  <2>2. CASE v # u  BY <1>4, <2>2 DEF Effect, Same, Unreported, AnaKept
  <2> QED  BY <2>1, <2>2
<1>7. Changed = {}  BY <1>4 DEF Changed
<1>8. Diagnosed(srv', unsaved', rebuilt')
  BY <1>2, <1>4, <1>6, <1>7, NoteIs DEF Note
<1> QED  BY <1>1, <1>4, <1>5, <1>8 DEF Restored

\* A handler that gave up before it changed anything but what is loaded.
LEMMA LoadedOnly ==
  ASSUME Inv, Sound(srv'), Kept(srv, srv'), Grown(srv, srv'), srv'.ana = srv.ana, srv'.dc = srv.dc
  PROVE  /\ \A v \in Uris : Same(srv, srv', v)
         /\ \A v \in srv.open : srv'.text[v] = srv.text[v]
         /\ srv'.open = srv.open /\ srv'.comp = srv.comp /\ srv'.view = srv.view
<1>1. Sound(srv) /\ srv.open \subseteq Loaded(srv)  BY DEF Inv, Sound
<1>2. DiskOK  BY DEF Inv, Setting
<1>3. \A v \in Uris : Same(srv, srv', v)
  BY <1>1, GrownKeeps DEF Same, Unreported, Kept, Grown
<1>4. \A v \in srv.open : srv'.text[v] = srv.text[v]  BY <1>1, <1>2, GrownLoaded
<1> QED  BY <1>3, <1>4 DEF Kept, Placed

\* A new text and its analysis, up to the stage where it is cut.
LEMMA NewTextIs ==
  ASSUME Inv, NEW d, Sound(d), Kept(srv, d), Grown(srv, d), d.ana = srv.ana, d.dc = srv.dc, d.ok,
         NEW u \in Uris, NEW t \in Texts, NEW stage \in Stages
  PROVE  LET x == AnalyzeTo(SetText(d, u, t), u, stage) IN
         /\ Sound(x) /\ Placed(srv, x) /\ x.text[u] = t
         /\ \A v \in srv.open \ {u} : x.text[v] = srv.text[v]
         /\ \A v \in Uris : Effect(srv, x, v)
<1>1. Sound(srv) /\ srv.open \subseteq Loaded(srv) /\ DiskOK  BY DEF Inv, Sound, Setting
<1>2. PICK k : k = SetText(d, u, t)  OBVIOUS
<1>3. /\ Sound(k) /\ Kept(d, k) /\ k.dc = d.dc /\ k.ok
      /\ k.text[u] = t /\ OtherTexts(d, k, u)
      /\ k.ana[u] = {} /\ Invalidated(d, k, u) /\ Loaded(k) = Loaded(d) \cup {u}
  BY <1>2, SetTextIs
<1>4. PICK x : x = AnalyzeTo(k, u, stage)  OBVIOUS
<1>5. Working(k, x, u) /\ (u \in x.cut \/ Analysed(x, u))
  BY <1>1, <1>3, <1>4, AnalyzeIs
<1>6. Sound(x) /\ Placed(k, x) /\ Grown(k, x)  BY <1>5 DEF Working
<1>7. x.text[u] = t  BY <1>1, <1>3, <1>6, GrownLoaded
<1>8. ASSUME NEW v \in srv.open \ {u} PROVE x.text[v] = srv.text[v]
  <2>1. v \in Loaded(d) /\ d.text[v] = srv.text[v]  BY <1>1, GrownLoaded
  <2>2. v \in Loaded(k) /\ k.text[v] = d.text[v]  BY <1>3, <2>1 DEF OtherTexts, Loaded
  <2> QED  BY <1>1, <1>6, <2>1, <2>2, GrownLoaded
<1>9. ASSUME NEW v \in Uris \ {u} PROVE Effect(srv, x, v)
  <2>1. AnaKept(srv, d, v)  BY <1>1, GrownKeeps
  <2>2. AnaKept(d, k, v)
    <3>1. d.ana[v] \subseteq Uris  BY DriverFields DEF Sound
    <3> QED  BY <1>3, <3>1 DEF AnaKept, OtherTexts, Invalidated
  <2>3. AnaKept(srv, k, v)  BY <2>1, <2>2, AnaKeptTrans
  <2>4. Same(srv, k, v)
    BY <1>3, <2>3 DEF Same, Unreported, Kept, OtherTexts, Grown
  <2> QED  BY <1>1, <1>3, <1>5, <2>4, WorkingEffects DEF Effect
<1>10. Effect(srv, x, u)  BY <1>5, AnalysedIsCurrent DEF Effect
<1>12. Placed(srv, x)  BY <1>3, <1>6 DEF Kept, Placed
<1> QED  BY <1>2, <1>4, <1>6, <1>7, <1>8, <1>9, <1>10, <1>12

\* so does onDocDidChange, wherever it is cut short
LEMMA ChangeStep ==
  ASSUME Inv, NEW u \in Uris, NEW new \in Texts, NEW stage \in Stages,
         editor[u] # Closed, Change(u, new, stage)
  PROVE  Restored
<1>1. /\ Sound(srv) /\ DOMAIN srv.view = srv.comp /\ DiskOK
      /\ editor \in [Uris -> Texts \cup {Closed}]
      /\ Following(srv, editor, clobbered) /\ srv.open \subseteq Loaded(srv)
  BY DEF Inv, Setting, Sound
<1>2. /\ Sound(Begin) /\ Kept(srv, Begin) /\ Begin.text = srv.text /\ Begin.ana = srv.ana
      /\ Begin.dc = srv.dc /\ Begin.ok
  BY <1>1, BeginIs
<1>3. PICK doc : doc = GetDocument(Begin, u)  OBVIOUS
<1>4. /\ Sound(doc) /\ Kept(Begin, doc) /\ Grown(Begin, doc) /\ doc.ana = Begin.ana
      /\ doc.dc = Begin.dc
  BY <1>1, <1>2, <1>3, GetDocumentIs
<1>5. Kept(srv, doc) /\ Grown(srv, doc) /\ doc.ana = srv.ana /\ doc.dc = srv.dc
  BY <1>2, <1>4 DEF Kept, Placed, Grown
<1>6. /\ editor' = [editor EXCEPT ![u] = new] /\ unsaved' = unsaved \cup Changed /\ Note
      /\ \/ ~doc.ok /\ srv' = doc
         \/ doc.ok /\ doc.text[u] # editor[u] /\ srv' = Abort(doc)
         \/ /\ doc.ok
            /\ srv' = AnalyzeTo(SetText(doc, u, IF doc.text[u] = editor[u] THEN new ELSE Garbled),
                                u, stage)
  BY <1>3 DEF Change
<1>7. u \in srv.open => doc.ok /\ doc.text[u] = srv.text[u]
  BY <1>1, <1>2, <1>3 DEF GetDocument, Loaded
<1> DEFINE t == IF doc.text[u] = editor[u] THEN new ELSE Garbled
<1>8. /\ Sound(srv') /\ Placed(srv, srv')
      /\ \A v \in srv.open \ {u} : srv'.text[v] = srv.text[v]
      /\ u \in srv.open => srv'.text[u] = new \/ doc.text[u] # editor[u]
      /\ Handled(srv, srv')
  <2>1. ASSUME srv' = doc \/ srv' = Abort(doc),
               u \in srv.open => doc.text[u] # editor[u]
        PROVE  /\ Sound(srv') /\ Placed(srv, srv')
               /\ \A v \in srv.open : srv'.text[v] = srv.text[v]
               /\ Handled(srv, srv')
    <3>1. /\ Sound(srv') /\ Kept(doc, srv') /\ srv'.text = doc.text /\ srv'.ana = doc.ana
          /\ srv'.dc = doc.dc
      BY <1>4, <2>1, AbortIs DEF Kept, Placed
    <3>2. Sound(srv') /\ Kept(srv, srv') /\ Grown(srv, srv') /\ srv'.ana = srv.ana /\ srv'.dc = srv.dc
      BY <1>5, <3>1 DEF Kept, Placed, Grown
    <3>3. /\ \A v \in Uris : Same(srv, srv', v)
          /\ \A v \in srv.open : srv'.text[v] = srv.text[v]
          /\ srv'.open = srv.open
      BY <3>2, LoadedOnly
    <3> QED  BY <2>1, <3>2, <3>3 DEF Handled, Effect, Kept
  <2>2. CASE ~doc.ok /\ srv' = doc
    BY <1>7, <2>1, <2>2
  <2>3. CASE doc.text[u] # editor[u] /\ srv' = Abort(doc)
    BY <2>1, <2>3
  <2>4. CASE doc.ok /\ srv' = AnalyzeTo(SetText(doc, u, t), u, stage)
    <3>1. t \in Texts  BY DEF Texts
    <3>2. doc.text[u] = editor[u] => t = new  OBVIOUS
    <3> HIDE DEF t
    <3>3. /\ Sound(srv') /\ Placed(srv, srv') /\ srv'.text[u] = t
          /\ \A v \in srv.open \ {u} : srv'.text[v] = srv.text[v]
          /\ \A v \in Uris : Effect(srv, srv', v)
      BY <1>4, <1>5, <2>4, <3>1, NewTextIs
    <3>4. Handled(srv, srv')  BY <3>3 DEF Handled, Placed
    <3> QED  BY <3>2, <3>3, <3>4
  <2> QED  BY <1>6, <2>2, <2>3, <2>4
<1>9. srv'.open = srv.open /\ srv'.comp = srv.comp /\ srv'.view = srv.view  BY <1>8 DEF Placed
<1>10. Following(srv', editor', clobbered')
  <2> SUFFICES ASSUME NEW v \in srv.open
               PROVE  editor'[v] # Closed /\ (srv'.text[v] = editor'[v] \/ v \in clobbered')
    BY <1>9 DEF Following
  <2>1. v \in Uris  BY <1>1 DEF Loaded
  <2>2. CASE v = u
    <3>1. editor'[u] = new /\ new # Closed  BY <1>1, <1>6, TextsAre
    <3>2. srv'.text[u] = new \/ u \in clobbered
      BY <1>1, <1>7, <1>8, <2>2 DEF Following
    <3> QED  BY <1>6, <2>2, <3>1, <3>2 DEF Note
  <2>3. CASE v # u
    <3>1. editor'[v] = editor[v] /\ srv'.text[v] = srv.text[v]  BY <1>1, <1>6, <1>8, <2>1, <2>3
    <3> QED  BY <1>1, <1>6, <3>1 DEF Following, Note
  <2> QED  BY <2>2, <2>3
<1>11. Diagnosed(srv', unsaved', rebuilt')
  BY <1>6, <1>8, <1>9, NoteIs DEF Note
<1> QED  BY <1>1, <1>8, <1>9, <1>10, <1>11 DEF Restored

\* the saved document takes the editor's text first
LEMMA SaveTextIs ==
  ASSUME Inv, NEW u \in srv.open, NEW t \in Texts
  PROVE  LET x == IF srv.text[u] = t THEN Begin ELSE OpenDocument(Begin, u, t) IN
         /\ Sound(x) /\ x.open = srv.open /\ x.comp = srv.comp /\ x.view = srv.view
         /\ x.text[u] = t /\ \A v \in srv.open \ {u} : x.text[v] = srv.text[v]
         /\ srv.comp = {} => /\ \A v \in Uris \ {u} : Same(srv, x, v)
                             /\ Effect(srv, x, u)
<1>1. Sound(srv) /\ srv.open \subseteq Loaded(srv) /\ DiskOK /\ u \in Uris
  BY DEF Inv, Sound, Setting, Loaded
<1>2. /\ Sound(Begin) /\ Kept(srv, Begin) /\ Begin.text = srv.text /\ Begin.ana = srv.ana
      /\ Begin.dc = srv.dc /\ Begin.ok
  BY <1>1, BeginIs
<1>3. PICK x : x = IF srv.text[u] = t THEN Begin ELSE OpenDocument(Begin, u, t)  OBVIOUS
<1>4. CASE srv.text[u] = t
  <2>1. x = Begin  BY <1>3, <1>4
  <2>2. \A v \in Uris : Same(srv, x, v)  BY <1>2, <2>1 DEF Same, Unreported, AnaKept, Kept
  <2> QED  BY <1>1, <1>2, <1>3, <1>4, <2>1, <2>2 DEF Kept, Placed, Effect
<1>5. CASE srv.text[u] # t
  <2>1. x = OpenDocument(Begin, u, t)  BY <1>3, <1>5
  <2>2. Opened(Begin, x, u, t)  BY <1>1, <1>2, <2>1, OpenDocumentIs
  <2>3. /\ Sound(x) /\ x.comp = srv.comp /\ x.view = srv.view /\ x.text[u] = t
        /\ \A v \in Uris \ {u} : x.text[v] = srv.text[v] \/ srv.text[v] = NoDoc
    BY <1>2, <2>2 DEF Opened, Kept, Placed
  <2>4. /\ x.ok => x.open = srv.open \cup {u}
        /\ ~x.ok => x.open = srv.open
    BY <1>2, <2>2 DEF Opened, Kept, Placed
  <2>5. x.open = srv.open  BY <2>4
  <2>6. \A v \in srv.open \ {u} : x.text[v] = srv.text[v]  BY <1>1, <2>3 DEF Loaded
  <2>7. ASSUME srv.comp = {}
        PROVE  (\A v \in Uris \ {u} : Same(srv, x, v)) /\ Effect(srv, x, u)
    <3>1. Begin.comp = {}  BY <1>2, <2>7 DEF Kept, Placed
    <3>2. /\ \A v \in Uris \ {u} : Same(Begin, x, v)
          /\ \A v \in Uris : Effect(Begin, x, v)
      BY <1>1, <1>2, <2>1, <3>1, OpenEffects
    <3> QED  BY <1>1, <3>2, EffectBegin
  <2> QED  BY <1>3, <2>3, <2>5, <2>6, <2>7
<1> QED  BY <1>4, <1>5

\* the text that a save first gives the document
SaveText(u, t) == IF srv.text[u] = t THEN Begin ELSE OpenDocument(Begin, u, t)

\* what a save of an open document leaves
Saved(x, u, t) ==
  /\ Sound(x) /\ x.open = srv.open /\ x.comp = srv.comp /\ DOMAIN x.view = x.comp
  /\ x.text[u] = t /\ \A v \in srv.open \ {u} : x.text[v] = srv.text[v]
  /\ srv.comp = {} => \A v \in Uris : Effect(srv, x, v)
  /\ srv.comp = {} /\ x.ok => \A v \in srv.open : x.ana[v] # {}

\* the driver after a save of an open document
LEMMA SavedIs ==
  ASSUME Inv, NEW u \in srv.open, NEW t \in Texts, NEW others \in Orders(srv.open \ {u}),
         NEW x, x = IF SaveText(u, t).ok THEN SaveDocument(SaveText(u, t), u, others)
                                         ELSE SaveText(u, t)
  PROVE  Saved(x, u, t)
<1>1. Sound(srv) /\ srv.open \subseteq Loaded(srv) /\ DiskOK /\ u \in Uris /\ DOMAIN srv.view = srv.comp
  BY DEF Inv, Sound, Setting, Loaded
<1>2. PICK s : s = SaveText(u, t)  OBVIOUS
<1>3. /\ Sound(s) /\ s.open = srv.open /\ s.comp = srv.comp /\ s.view = srv.view
      /\ s.text[u] = t /\ \A v \in srv.open \ {u} : s.text[v] = srv.text[v]
      /\ srv.comp = {} => /\ \A v \in Uris \ {u} : Same(srv, s, v)
                          /\ Effect(srv, s, u)
  BY <1>2, SaveTextIs DEF SaveText
<1>5. x = IF s.ok THEN SaveDocument(s, u, others) ELSE s  BY <1>2
<1>6. u \in Loaded(s) /\ srv.open \subseteq Loaded(s)  BY <1>3, TextsAre DEF Loaded, Sound
<1>7. CASE ~s.ok
  <2>1. x = s  BY <1>5, <1>7
  <2> QED  BY <1>1, <1>3, <1>7, <2>1 DEF Saved, Effect
<1>8. CASE s.ok /\ s.comp = {}
  <2>1. x = SaveDocument(s, u, others)  BY <1>5, <1>8
  <2>2. Lists(others, s.open \ {u})
    <3>1. srv.open \ {u} \in SUBSET Uris  BY <1>1 DEF Loaded
    <3> QED  BY <1>3, <3>1, SubsetsFinite, OrdersList
  <2>3. /\ Sound(x) /\ x.open = s.open /\ x.comp = s.comp /\ x.view = s.view /\ Grown(s, x)
        /\ \A v \in Uris : Effect(srv, x, v)
        /\ x.ok => \A v \in s.open : x.ana[v] # {}
    <3>1. \A v \in Uris \ {u} : Same(srv, s, v)  BY <1>3, <1>8
    <3>2. DiskOK /\ Sound(s) /\ s.ok /\ s.comp = {} /\ u \in Loaded(s)  BY <1>1, <1>3, <1>6, <1>8
    <3>3. SaveExplored(srv, s, x)  BY <2>1, <2>2, <3>1, <3>2, SaveExploreIs
    <3> QED  BY <3>3 DEF SaveExplored
  <2>4. \A v \in Loaded(s) : x.text[v] = s.text[v]  BY <1>1, <2>3, GrownLoaded
  <2> QED  BY <1>1, <1>3, <1>6, <2>3, <2>4 DEF Saved
<1>9. CASE s.ok /\ s.comp # {}
  <2>1. x = SaveDocument(s, u, others)  BY <1>5, <1>9
  <2>2. Sound(x) /\ BuildSaved(s, x)  BY <1>1, <1>3, <1>6, <1>9, <2>1, SaveBuildIs
  <2>3. /\ DOMAIN x.view = x.comp /\ x.open = s.open /\ x.comp = s.comp
        /\ \A v \in Loaded(s) : x.text[v] = s.text[v]
    BY <1>1, <2>2, GrownLoaded DEF BuildSaved
  <2> QED  BY <1>3, <1>6, <1>9, <2>2, <2>3 DEF Saved
<1> QED  BY <1>7, <1>8, <1>9

\* onDocDidSave, of a document that is open and of one that is not
LEMMA DidSaveStep ==
  ASSUME Inv, NEW u \in Uris, DidSave(u)
  PROVE  Restored
<1>1. /\ Sound(srv) /\ DOMAIN srv.view = srv.comp /\ srv.open \subseteq Loaded(srv)
      /\ editor \in [Uris -> Texts \cup {Closed}]
      /\ Following(srv, editor, clobbered)
  BY DEF Inv, Setting, Sound
<1>2. /\ editor[u] # Closed /\ editor' = editor /\ Note
      /\ IF u \notin srv.open THEN srv' = Begin
         ELSE \E others \in Orders(srv.open \ {u}) :
                srv' = IfOk(LAMBDA x : SaveDocument(x, u, others),
                            IF srv.text[u] = editor[u] THEN Begin
                            ELSE OpenDocument(Begin, u, editor[u]))
      /\ unsaved' = IF u \in srv.open /\ srv'.ok THEN {} ELSE unsaved \cup Changed
  BY DEF DidSave
<1>3. editor[u] \in Texts  BY <1>1, <1>2
<1>4. /\ Sound(srv') /\ srv'.open = srv.open /\ srv'.comp = srv.comp /\ DOMAIN srv'.view = srv'.comp
      /\ \A v \in srv.open : srv'.text[v] = srv.text[v] \/ srv'.text[v] = editor[v]
      /\ srv.comp = {} => \A v \in Uris : Effect(srv, srv', v)
      /\ srv.comp = {} => unsaved \cup Changed \subseteq unsaved' \/ \A v \in srv.open : srv'.ana[v] # {}
  <2>1. CASE u \notin srv.open
    <3>1. srv' = Begin /\ unsaved' = unsaved \cup Changed  BY <1>2, <2>1
    <3>2. /\ Sound(Begin) /\ Kept(srv, Begin) /\ Begin.text = srv.text /\ Begin.ana = srv.ana
          /\ Begin.dc = srv.dc
      BY <1>1, BeginIs
    <3>3. \A v \in Uris : Effect(srv, srv', v)
      BY <3>1, <3>2 DEF Effect, Same, Unreported, AnaKept, Kept
    <3> QED  BY <1>1, <3>1, <3>2, <3>3 DEF Kept, Placed
  <2>2. CASE u \in srv.open
    <3>1. PICK others \in Orders(srv.open \ {u}) :
            srv' = IfOk(LAMBDA x : SaveDocument(x, u, others),
                        IF srv.text[u] = editor[u] THEN Begin ELSE OpenDocument(Begin, u, editor[u]))
      BY <1>2, <2>2
    <3>2. /\ Sound(srv') /\ srv'.open = srv.open /\ srv'.comp = srv.comp
          /\ DOMAIN srv'.view = srv'.comp
          /\ srv'.text[u] = editor[u] /\ \A v \in srv.open \ {u} : srv'.text[v] = srv.text[v]
          /\ srv.comp = {} => \A v \in Uris : Effect(srv, srv', v)
          /\ srv.comp = {} /\ srv'.ok => \A v \in srv.open : srv'.ana[v] # {}
      <4>1. srv' = IF SaveText(u, editor[u]).ok
                   THEN SaveDocument(SaveText(u, editor[u]), u, others)
                   ELSE SaveText(u, editor[u])
        BY <3>1 DEF IfOk, SaveText
      <4>2. Saved(srv', u, editor[u])  BY <1>3, <2>2, <4>1, SavedIs
      <4> QED  BY <4>2 DEF Saved
    <3>3. ~srv'.ok => unsaved' = unsaved \cup Changed  BY <1>2
    <3> QED  BY <3>2, <3>3
  <2> QED  BY <2>1, <2>2
<1>5. Following(srv', editor', clobbered')
  <2> SUFFICES ASSUME NEW v \in srv.open
               PROVE  editor'[v] # Closed /\ (srv'.text[v] = editor'[v] \/ v \in clobbered')
    BY <1>4 DEF Following
  <2> QED  BY <1>1, <1>2, <1>4 DEF Following, Note
<1>6. Diagnosed(srv', unsaved', rebuilt')
  <2>1. CASE srv.comp # {}  BY <1>4, <2>1 DEF Diagnosed
  <2>2. CASE srv.comp = {}
    <3>1. Handled(srv, srv')  BY <1>2, <1>4 DEF Handled
    <3>2. unsaved \cup Changed \subseteq unsaved' \/ \A v \in srv'.open \ srv'.cut : srv'.ana[v] # {}
      BY <1>4, <2>2
    <3> QED  BY <1>2, <1>4, <3>1, <3>2, NoteIs DEF Note
  <2> QED  BY <2>1, <2>2
<1> QED  BY <1>4, <1>5, <1>6 DEF Restored

\* a query analyses one document, and reports nothing
LEMMA QueryStep ==
  ASSUME Inv, NEW u \in Uris, Query(u)
  PROVE  Restored
<1>1. /\ Sound(srv) /\ DOMAIN srv.view = srv.comp /\ srv.open \subseteq Loaded(srv) /\ DiskOK
      /\ Following(srv, editor, clobbered)
      /\ Diagnosed(srv, unsaved, rebuilt)
  BY DEF Inv, Setting, Sound
<1>2. PICK doc : doc = GetDocument(Begin, u)  OBVIOUS
<1>3. /\ srv' = IF doc.ok THEN GetAnalysis(doc, u) ELSE doc
      /\ rebuilt' = IF srv'.ana[u] # srv.ana[u] THEN rebuilt \cup {u} ELSE rebuilt
      /\ editor' = editor /\ unsaved' = unsaved /\ clobbered' = clobbered
  BY <1>2 DEF Query
<1>4. /\ Sound(Begin) /\ Kept(srv, Begin) /\ Begin.text = srv.text /\ Begin.ana = srv.ana
      /\ Begin.dc = srv.dc
  BY <1>1, BeginIs
<1>5. /\ Sound(doc) /\ Kept(Begin, doc) /\ Grown(Begin, doc) /\ doc.ana = Begin.ana
      /\ doc.dc = Begin.dc
      /\ doc.ok => Begin.ok /\ u \in Loaded(doc)
  BY <1>1, <1>2, <1>4, GetDocumentIs
<1>6. /\ Sound(srv') /\ Kept(doc, srv') /\ Grown(doc, srv') /\ srv'.dc = doc.dc
      /\ \A v \in Uris \ {u} : srv'.ana[v] = doc.ana[v]
  <2>1. CASE doc.ok /\ doc.ana[u] = {}
    <3>1. srv' = RefreshAnalysis(doc, u)  BY <1>3, <2>1 DEF GetAnalysis
    <3> QED  BY <1>1, <1>5, <2>1, <3>1, RefreshAnalysisIs
  <2>2. CASE ~(doc.ok /\ doc.ana[u] = {})
    <3>1. srv' = doc  BY <1>3, <2>2 DEF GetAnalysis
    <3> QED  BY <1>5, <3>1 DEF Kept, Placed, Grown
  <2> QED  BY <2>1, <2>2
<1>7. /\ Kept(srv, srv') /\ Grown(srv, srv') /\ srv'.dc = srv.dc
      /\ \A v \in Uris \ {u} : srv'.ana[v] = srv.ana[v]
  BY <1>4, <1>5, <1>6 DEF Kept, Placed, Grown
<1>8. \A v \in srv.open : srv'.text[v] = srv.text[v] /\ v \in Uris  BY <1>1, <1>7, GrownLoaded DEF Loaded
<1>9. Following(srv', editor', clobbered')  BY <1>1, <1>3, <1>7, <1>8 DEF Following, Kept, Placed
<1>10. unsaved \cup Moves(srv, srv') = unsaved
  <2>1. Moves(srv, srv') = {}  BY <1>7 DEF Moves, Grown
  <2> QED  BY <2>1
<1>11. ASSUME srv.comp = {}, NEW v \in srv.open \ srv.cut
       PROVE  Pair(srv', v) /\ Fresh(srv', v) /\ (v \in rebuilt' \/ Held(srv', v, unsaved))
  <2>1. v \in Uris /\ Pair(srv, v) /\ Fresh(srv, v) /\ (v \in rebuilt \/ Held(srv, v, unsaved))
    BY <1>1, <1>8, <1>11 DEF Diagnosed
  <2>2. Pair(srv', v)  BY <1>7, <2>1 DEF Pair
  <2>3. Fresh(srv', v)
    <3>1. ParseReport(srv', v) = ParseReport(srv, v)  BY <1>8 DEF ParseReport
    <3> QED  BY <1>7, <2>1, <3>1 DEF Fresh
  <2>4. ASSUME v \notin rebuilt' PROVE Held(srv', v, unsaved)
    <3>1. srv'.ana[v] = srv.ana[v] /\ v \notin rebuilt  BY <1>3, <1>7, <2>1, <2>4
    <3>2. AnaKept(srv, srv', v)  BY <1>1, <1>7, <2>1, <3>1, GrownKeeps
    <3>3. Same(srv, srv', v)  BY <1>7, <1>8, <3>2 DEF Same, Unreported, Kept
    <3>4. Held(srv', v, unsaved \cup Moves(srv, srv'))  BY <2>1, <3>1, <3>3, SameHeld
    <3> QED  BY <1>10, <3>4
  <2> QED  BY <2>2, <2>3, <2>4
<1>12. Diagnosed(srv', unsaved', rebuilt')
  BY <1>3, <1>7, <1>11 DEF Diagnosed, Kept, Placed
<1> QED  BY <1>1, <1>6, <1>7, <1>9, <1>12 DEF Restored, Kept, Placed

\* the watcher's batch, in any order of its changes
LEMMA WatchedFilesStep ==
  ASSUME Inv, WatchedFiles
  PROVE  Restored
<1>1. /\ Sound(srv) /\ DOMAIN srv.view = srv.comp /\ srv.open \subseteq Loaded(srv) /\ DiskOK
      /\ Following(srv, editor, clobbered) /\ pending \in SUBSET (Uris \X Kinds)
  BY DEF Inv, Setting, Sound
<1>p. PICK cs \in SUBSET pending : \E batch \in Orders(cs) :
        /\ srv' = IndexWatched(HandleWatched(Begin, batch), batch)
        /\ unsaved' = unsaved \cup Changed
        /\ rebuilt' = {u \in rebuilt : srv'.dc.diags[u] = srv.dc.diags[u]}
        /\ clobbered' = {u \in clobbered \cup Changed : editor[u] \notin {Closed, srv'.text[u]}}
        /\ editor' = editor
  BY DEF WatchedFiles
<1>2. PICK batch \in Orders(cs) :
        /\ srv' = IndexWatched(HandleWatched(Begin, batch), batch)
        /\ unsaved' = unsaved \cup Changed
        /\ rebuilt' = {u \in rebuilt : srv'.dc.diags[u] = srv.dc.diags[u]}
        /\ clobbered' = {u \in clobbered \cup Changed : editor[u] \notin {Closed, srv'.text[u]}}
        /\ editor' = editor
  BY <1>p
<1>3. batch \in Seq(Uris \X Kinds)
  <2>2. IsFiniteSet(Kinds)
    <3>1. Kinds = {"Changed"} \cup {"Created"} \cup {"Deleted"}  BY DEF Kinds
    <3>2. IsFiniteSet({"Changed"}) /\ IsFiniteSet({"Created"}) /\ IsFiniteSet({"Deleted"})
      BY FS_Singleton
    <3>3. IsFiniteSet({"Changed"} \cup {"Created"})  BY <3>2, FS_Union
    <3> QED  BY <3>1, <3>2, <3>3, FS_Union
  <2>3. IsFiniteSet(Uris \X Kinds)  BY <2>2, FS_Product, DriverAssumption
  <2>4. cs \in SUBSET (Uris \X Kinds)  BY <1>1
  <2>5. IsFiniteSet(cs)  BY <2>3, <2>4, FS_Subset
  <2>6. Lists(batch, cs)  BY <2>5, OrdersList
  <2>7. batch \in Seq(cs)  BY <2>6 DEF Lists
  <2> QED  BY <2>4, <2>7
<1>4. /\ Sound(Begin) /\ Kept(srv, Begin) /\ Begin.text = srv.text /\ Begin.ok
  BY <1>1, BeginIs
<1>5. Begin.open = srv.open /\ Begin.comp = srv.comp /\ Begin.view = srv.view  BY <1>4 DEF Kept, Placed
<1>6. /\ Sound(srv') /\ srv'.open \subseteq Begin.open /\ srv'.comp = Begin.comp
      /\ srv'.view = Begin.view
      /\ Begin.comp = {} => \A u \in Uris : Effect(Begin, srv', u)
  BY <1>1, <1>2, <1>3, <1>4, <1>5, WatchedIs
<1>7. srv'.open \subseteq srv.open /\ srv'.comp = srv.comp /\ srv'.view = srv.view  BY <1>5, <1>6
<1>8. Following(srv', editor', clobbered')
  <2> SUFFICES ASSUME NEW v \in srv'.open
               PROVE  editor'[v] # Closed /\ (srv'.text[v] = editor'[v] \/ v \in clobbered')
    BY DEF Following
  <2>1. v \in srv.open /\ v \in Loaded(srv) /\ v \in Uris  BY <1>1, <1>7 DEF Loaded
  <2>2. editor'[v] # Closed  BY <1>1, <1>2, <2>1 DEF Following
  <2>3. srv'.text[v] # srv.text[v] => v \in Changed  BY <2>1 DEF Changed, Loaded
  <2> QED  BY <1>1, <1>2, <2>1, <2>2, <2>3 DEF Following
<1>9. Handled(srv, srv')
  <2> SUFFICES ASSUME srv.comp = {}, NEW v \in Uris PROVE Effect(srv, srv', v)
    BY <1>2, <1>7 DEF Handled
  <2> QED  BY <1>1, <1>5, <1>6, EffectBegin
<1>10. Diagnosed(srv', unsaved', rebuilt')
  BY <1>2, <1>6, <1>7, <1>9, NoteIs
<1> QED  BY <1>1, <1>6, <1>7, <1>8, <1>10 DEF Restored

\* a change of mode
LEMMA SwitchStep ==
  ASSUME Inv, NEW new, Built(new), srv' = Replace(new),
         unsaved' = unsaved \cup {u \in srv.open : disk[u] # srv.text[u]},
         rebuilt' = {},
         clobbered' = {u \in clobbered : srv'.text[u] # editor[u]},
         editor' = editor
  PROVE  Restored
<1>1. /\ Sound(srv) /\ DOMAIN srv.view = srv.comp /\ Following(srv, editor, clobbered)
  BY DEF Inv
<1>2. /\ Sound(srv') /\ DOMAIN srv'.view = srv'.comp /\ srv'.open = srv.open
      /\ \A u \in srv'.open : srv'.text[u] = srv.text[u]
      /\ srv'.ok => CopyShows(srv')
      /\ ~srv'.ok => srv'.open \subseteq srv'.cut
  BY <1>1, ReplaceIs
<1>3. Following(srv', editor', clobbered')  BY <1>1, <1>2 DEF Following
<1>4. Moved \subseteq unsaved'  BY DEF Moved
<1>5. ASSUME srv'.comp = {}, NEW u \in srv'.open \ srv'.cut
      PROVE  Pair(srv', u) /\ Fresh(srv', u) /\ Held(srv', u, unsaved')
  <2>1. srv'.ok /\ u \in Uris  BY <1>2, <1>5, DriverFields DEF Sound
  <2>2. Pair(srv', u) /\ Fresh(srv', u) /\ Held(srv', u, Moved)
    BY <1>2, <1>5, <2>1 DEF CopyShows
  <2>3. Held(srv', u, unsaved')  BY <1>4, <2>2 DEF Held
  <2> QED  BY <2>2, <2>3
<1>6. Diagnosed(srv', unsaved', rebuilt')  BY <1>5 DEF Diagnosed
<1> QED  BY <1>2, <1>3, <1>6 DEF Restored

----------------------------------------------------------------------------
(* The invariant holds                                                       *)

\* Initially there is no document.
LEMMA InitInv == Init => Inv
<1> SUFFICES ASSUME Init PROVE Inv  OBVIOUS
<1>1. /\ srv = NewDriver(DC!NoDiags, {u \in Uris : disk[u] # Missing})
      /\ disk \in [Uris -> {0, Missing}]
      /\ editor = [u \in Uris |-> Closed]
      /\ clean = {} /\ pending = {} /\ edits = 0
  BY DEF Init
<1>2. 0 \in Texts  BY DriverAssumption DEF Texts
<1>3. Setting  BY <1>1, <1>2 DEF Setting, DiskOK
<1>4. /\ Shape(srv) /\ srv.text = [u \in Uris |-> NoDoc] /\ srv.open = {}
      /\ srv.index = {u \in Uris : disk[u] # Missing} /\ srv.cut = {}
      /\ srv.ana = [u \in Uris |-> {}] /\ srv.comp = {} /\ srv.sources = {} /\ srv.view = <<>>
      /\ srv.dc = DC!NewClient(DC!NoDiags) /\ srv.ok = TRUE
  BY <1>1 DEF NewDriver, Shape
<1>5. Client(srv.dc) /\ Clean(srv.dc) /\ \A u \in Uris : srv.dc.diags[u] = <<>>
  BY <1>4, NewClientIs, NoDiagsIs
<1>6. srv.ana \in [Uris -> SUBSET Uris] /\ \A u \in Uris : srv.ana[u] = {}  BY <1>4
<1>7. srv \in Drivers
  <2>1. srv.text \in [Uris -> Texts \cup {NoDoc}] /\ srv.open \in SUBSET Uris  BY <1>4
  <2>2. srv.index \in SUBSET Uris /\ srv.comp \in SUBSET Uris /\ srv.sources \in SUBSET Uris
    BY <1>4
  <2>3. srv.view \in Views /\ srv.ok \in BOOLEAN /\ Shape(srv) /\ srv.cut \in SUBSET Uris
    BY <1>4, EmptyView
  <2> QED  BY <1>5, <1>6, <2>1, <2>2, <2>3, DriverMade
<1>8. Sound(srv)  BY <1>4, <1>5, <1>6, <1>7 DEF Sound
<1>9. Following(srv, editor, clobbered)  BY <1>4 DEF Following
<1>10. Diagnosed(srv, unsaved, rebuilt)  BY <1>4 DEF Diagnosed
<1> QED  BY <1>3, <1>4, <1>8, <1>9, <1>10, EmptyView DEF Inv

\* The handlers' lemmas and the types of files and editor give the invariant.
LEMMA RestoredInv ==
  ASSUME Restored, Setting'
  PROVE  Inv'
BY DEF Restored, Inv

\* the texts that edits and other programs write
LEMMA EditText ==
  ASSUME edits \in Nat, edits < MaxEdits
  PROVE  edits + 1 \in Texts /\ edits + 1 \in Nat
BY DriverAssumption DEF Texts

\* Every step keeps the invariant, whatever it is cut short by.
LEMMA NextInv == Inv /\ [Next]_vars => Inv'
<1> SUFFICES ASSUME Inv, [Next]_vars PROVE Inv'  OBVIOUS
<1>0. Setting /\ Sound(srv) /\ DOMAIN srv.view = srv.comp /\ DiskOK
  BY DEF Inv, Setting
<1>s. /\ disk \in [Uris -> Texts \cup {Missing}] /\ editor \in [Uris -> Texts \cup {Closed}]
      /\ clean \subseteq Uris /\ (\A u \in clean : editor[u] # Closed)
      /\ pending \in SUBSET (Uris \X Kinds) /\ edits \in Nat
  BY DEF Inv, Setting, DiskOK
<1>k. "Changed" \in Kinds /\ "Created" \in Kinds /\ "Deleted" \in Kinds  BY DEF Kinds
<1>1. ASSUME NEW u \in Uris, DidOpen(u) PROVE Inv'
  <2>1. /\ disk[u] # Missing /\ editor' = [editor EXCEPT ![u] = disk[u]]
        /\ clean' = clean \cup {u} /\ disk' = disk /\ pending' = pending /\ edits' = edits
    BY <1>1 DEF DidOpen
  <2>2. Setting'  BY <1>s, <2>1, TextsAre DEF Setting, DiskOK
  <2> QED  BY <1>1, <2>2, DidOpenStep, RestoredInv
<1>2. ASSUME NEW u \in Uris, DidSave(u) PROVE Inv'
  <2>1. /\ editor[u] # Closed /\ disk' = [disk EXCEPT ![u] = editor[u]]
        /\ clean' = clean \cup {u} /\ pending' = pending \cup {<<u, "Changed">>}
        /\ editor' = editor /\ edits' = edits
    BY <1>2 DEF DidSave
  <2>2. Setting'  BY <1>s, <1>k, <2>1 DEF Setting, DiskOK
  <2> QED  BY <1>2, <2>2, DidSaveStep, RestoredInv
<1>3. ASSUME NEW u \in Uris, DidClose(u) PROVE Inv'
  <2>1. /\ editor' = [editor EXCEPT ![u] = Closed] /\ clean' = clean \ {u}
        /\ disk' = disk /\ pending' = pending /\ edits' = edits
    BY <1>3 DEF DidClose
  <2>2. Setting'  BY <1>s, <2>1 DEF Setting, DiskOK
  <2> QED  BY <1>3, <2>2, DidCloseStep, RestoredInv
<1>4. ASSUME NEW u \in Uris, Query(u) PROVE Inv'
  <2>1. UNCHANGED <<disk, editor, clean, pending, edits>>  BY <1>4 DEF Query
  <2>2. Setting'  BY <1>s, <2>1 DEF Setting, DiskOK
  <2> QED  BY <1>4, <2>2, QueryStep, RestoredInv
<1>5. ASSUME NEW u \in Uris, EditorReloads(u) PROVE Inv'
  <2>1. /\ u \in clean /\ disk[u] # Missing /\ editor[u] # Closed /\ Change(u, disk[u], "end")
        /\ clean' = clean /\ edits' = edits
    BY <1>5 DEF EditorReloads
  <2>2. disk[u] \in Texts /\ "end" \in Stages  BY <1>s, <2>1 DEF Stages
  <2>3. disk' = disk /\ pending' = pending /\ editor' = [editor EXCEPT ![u] = disk[u]]
    BY <2>1 DEF Change
  <2>4. Setting'  BY <1>s, <2>1, <2>2, <2>3, TextsAre DEF Setting, DiskOK
  <2>5. Restored  BY <2>1, <2>2, ChangeStep
  <2> QED  BY <2>4, <2>5, RestoredInv
<1>6. ASSUME NEW u \in Uris, NEW stage \in Stages, DidChange(u, stage) PROVE Inv'
  <2>1. /\ editor[u] # Closed /\ edits < MaxEdits /\ Change(u, edits + 1, stage)
        /\ clean' = clean \ {u} /\ edits' = edits + 1
    BY <1>6 DEF DidChange
  <2>2. edits + 1 \in Texts /\ edits + 1 \in Nat  BY <1>s, <2>1, EditText
  <2>3. disk' = disk /\ pending' = pending /\ editor' = [editor EXCEPT ![u] = edits + 1]
    BY <2>1 DEF Change
  <2>4. Setting'  BY <1>s, <2>1, <2>2, <2>3, TextsAre DEF Setting, DiskOK
  <2>5. Restored  BY <2>1, <2>2, ChangeStep
  <2> QED  BY <2>4, <2>5, RestoredInv
<1>7. ASSUME NEW u \in Uris, NEW t \in 1..MaxEdits \cup {Missing}, WriteFile(u, t) PROVE Inv'
  <2>1. /\ edits < MaxEdits /\ edits' = edits + 1 /\ t \in {edits + 1, Missing}
        /\ disk' = [disk EXCEPT ![u] = t]
        /\ pending' = pending \cup {<<u, IF t = Missing THEN "Deleted" ELSE
                                         IF disk[u] = Missing THEN "Created" ELSE "Changed">>}
        /\ UNCHANGED <<srv, editor, clean, unsaved, rebuilt, clobbered>>
    BY <1>7 DEF WriteFile
  <2>2. edits + 1 \in Texts /\ edits + 1 \in Nat  BY <1>s, <2>1, EditText
  <2>3. disk' \in [Uris -> Texts \cup {Missing}]  BY <1>s, <2>1, <2>2
  <2>4. pending' \in SUBSET (Uris \X Kinds)  BY <1>s, <1>k, <2>1
  <2>5. Setting'  BY <1>s, <2>1, <2>2, <2>3, <2>4 DEF Setting, DiskOK
  <2> QED  BY <2>1, <2>5 DEF Inv
<1>8. ASSUME WatchedFiles PROVE Inv'
  <2>1. UNCHANGED <<disk, editor, clean, edits>> /\ pending' \subseteq pending
    BY <1>8 DEF WatchedFiles
  <2>2. Setting'  BY <1>s, <2>1 DEF Setting, DiskOK
  <2> QED  BY <1>8, <2>2, WatchedFilesStep, RestoredInv
<1>o. \A order \in Orders(srv.open) : Lists(order, srv.open)
  <2>1. IsFiniteSet(srv.open)
    <3>1. srv.open \in SUBSET Uris  BY <1>0, DriverFields DEF Sound
    <3> QED  BY <3>1, SubsetsFinite
  <2> QED  BY <2>1, OrdersList
<1>9. ASSUME NEW new, Built(new), srv' = Replace(new),
             unsaved' = unsaved \cup {u \in srv.open : disk[u] # srv.text[u]}, rebuilt' = {},
             clobbered' = {u \in clobbered : srv'.text[u] # editor[u]},
             UNCHANGED <<disk, editor, clean, pending, edits, echo>>
      PROVE  Inv'
  <2>1. UNCHANGED <<disk, editor, clean, pending, edits>>  BY <1>9
  <2>2. Setting'  BY <1>s, <2>1 DEF Setting, DiskOK
  <2>3. Restored  BY <1>9, <2>1, SwitchStep
  <2> QED  BY <2>2, <2>3, RestoredInv
<1>10. CASE SetExplore
  <2>1. PICK order \in Orders(srv.open) : srv' = Replace(NewExplore(order))
    BY <1>10 DEF SetExplore, Switch
  <2>2. Built(NewExplore(order))  BY <1>0, <1>o, NewExploreBuilt
  <2> QED  BY <1>9, <1>10, <2>1, <2>2 DEF SetExplore, Switch
<1>11. CASE SetBuildFile
  <2>1. PICK order \in Orders(srv.open) : srv' = Replace(NewBuild(order))
    BY <1>11 DEF SetBuildFile, Switch
  <2>2. Built(NewBuild(order))  BY <1>0, <1>o, NewBuildBuilt
  <2> QED  BY <1>9, <1>11, <2>1, <2>2 DEF SetBuildFile, Switch
<1>12. ASSUME NEW u \in Uris, SetTopLevel(u) PROVE Inv'
  <2>1. PICK hasTop \in BOOLEAN : Switch(LAMBDA order : NewTop(u, hasTop, order))
    BY <1>12 DEF SetTopLevel
  <2>2. PICK order \in Orders(srv.open) : srv' = Replace(NewTop(u, hasTop, order))
    BY <2>1 DEF Switch
  <2>3. Built(NewTop(u, hasTop, order))  BY <1>0, <1>o, NewTopBuilt
  <2> QED  BY <1>9, <2>1, <2>2, <2>3 DEF Switch
<1>13. CASE UNCHANGED vars
  BY <1>13 DEF vars, history, Inv, Setting, DiskOK
<1> QED
  BY <1>1, <1>2, <1>3, <1>4, <1>5, <1>6, <1>7, <1>8, <1>10, <1>11, <1>12, <1>13 DEF Next

\* so it holds throughout
LEMMA Invariance == Spec => []Inv
BY InitInv, NextInv, PTL DEF Spec

----------------------------------------------------------------------------
(* What the invariant says                                                   *)

(* The driver's record, the files and the editor have the types that         *)
(* ServerDriver's fields have: open documents and those of the compilation   *)
(* are loaded, and a kept analysis holds its document and dependencies only. *)
THEOREM TypeCorrect == Spec => []TypeOK
<1>1. ASSUME Inv PROVE TypeOK
  <2>1. Sound(srv) /\ DOMAIN srv.view = srv.comp /\ Setting  BY <1>1 DEF Inv
  <2> QED  BY <2>1 DEF TypeOK, Sound, Setting, Loaded, DiskOK
<1> QED  BY <1>1, Invariance, PTL

(* Every handler of the driver, cut short by a cancellation or an exception  *)
(* at any point, leaves no document with diagnostics on screen that differ   *)
(* from the driver's and that the next pushDiags would not bring up to date. *)
THEOREM CleanMeansShownTheorem == Spec => []CleanMeansShown
<1>1. ASSUME Inv PROVE CleanMeansShown
  <2>1. Clean(srv.dc)  BY <1>1 DEF Inv, Sound
  <2> QED  BY <2>1 DEF CleanMeansShown, DC!CleanMeansShown, Clean
<1> QED  BY <1>1, Invariance, PTL

(* onDocDidChange, onDocDidSave, the watcher and the copies that a new       *)
(* driver makes keep the server's text of an open document the editor's,     *)
(* unless reloadBuffer took the file's text under the editor.                *)
THEOREM OpenTextTheorem == Spec => []OpenTextIsEditors
<1>1. ASSUME Inv PROVE OpenTextIsEditors
  <2>1. Following(srv, editor, clobbered)  BY <1>1 DEF Inv
  <2> QED  BY <2>1 DEF Following, OpenTextIsEditors
<1> QED  BY <1>1, Invariance, PTL

(* In explore mode every open document has its parse and shallow             *)
(* diagnostics, once each and of the text it has, through any number of      *)
(* edits, failures, watched changes and new drivers, unless its last         *)
(* analysis was cut short by a newer change or an exception, and then only   *)
(* until its next one.                                                       *)
THEOREM ShowTheirTextTheorem == Spec => []OpenDocumentsShowTheirText
<1>1. ASSUME Inv, Explore, NEW u \in srv.open \ srv.cut
      PROVE  /\ Len(srv.dc.diags[u]) = 2
             /\ srv.dc.diags[u][1] = ParseReport(srv, u)
             /\ srv.dc.diags[u][2][1] = "shallow" /\ srv.dc.diags[u][2][2][u] = srv.text[u]
  <2>1. u \in Uris  BY <1>1, DriverFields DEF Inv, Sound
  <2>2. Pair(srv, u) /\ Fresh(srv, u)  BY <1>1 DEF Inv, Diagnosed, Explore
  <2>5. /\ Len(srv.dc.diags[u]) = 2
        /\ srv.dc.diags[u][2] = <<"shallow", Seen(srv, u)>>
        /\ Seen(srv, u)[u] = srv.dc.diags[u][1][2][u]
    BY <2>1, <2>2, SeenIs, ZenonT(60)
  <2>6. srv.dc.diags[u][1] = ParseReport(srv, u)  BY <2>2 DEF Fresh
  <2>7. srv.dc.diags[u][1][2][u] = srv.text[u]  BY <2>6 DEF ParseReport
  <2> QED  BY <2>5, <2>6, <2>7
<1>2. ASSUME Inv PROVE OpenDocumentsShowTheirText
  BY <1>1, <1>2 DEF OpenDocumentsShowTheirText
<1> QED  BY <1>2, Invariance, PTL

(* In explore mode the shallow diagnostics of such a document saw its        *)
(* dependencies with the texts that they have, except those changed since    *)
(* the last completed onDocDidSave, which analyses again every open document *)
(* whose analysis a changed buffer made invalid, unless a query did before.  *)
THEOREM SavedDependenciesTheorem == Spec => []OpenDocumentsShowSavedDependencies
<1>1. ASSUME Inv, Explore, NEW u \in srv.open \ (srv.cut \cup rebuilt)
      PROVE  StaleDeps(u) \subseteq unsaved
  <2>1. u \in Uris  BY <1>1, DriverFields DEF Inv, Sound
  <2>3. Pair(srv, u) /\ Held(srv, u, unsaved)  BY <1>1 DEF Inv, Diagnosed, Explore
  <2>4. Stale(srv, u) \subseteq unsaved  BY <2>3 DEF Held
  <2>5. /\ DOMAIN srv.dc.diags[u] = 1..2
        /\ srv.dc.diags[u][1][1] = "parse"
        /\ srv.dc.diags[u][2] = <<"shallow", Seen(srv, u)>>
    <3>1. PICK p \in [{u} -> Texts], q \in Views :
            srv.dc.diags[u] = <<<<"parse", p>>, <<"shallow", q>>>>
      BY <2>3 DEF Pair
    <3> QED  BY <3>1 DEF Seen
  <2>6. "parse" # "shallow"  OBVIOUS
  <2>7. ASSUME NEW v \in Deps[u], NEW i \in 1..2,
               srv.dc.diags[u][i][1] = "shallow", v \in DOMAIN srv.dc.diags[u][i][2],
               srv.dc.diags[u][i][2][v] # srv.text[v]
        PROVE  v \in Stale(srv, u)
    <3>1. i # 1  BY <2>5, <2>6, <2>7
    <3>2. i = 2  BY <3>1
    <3>3. v \in DOMAIN Seen(srv, u) /\ Seen(srv, u)[v] # srv.text[v]
      BY <2>5, <2>7, <3>2
    <3> QED  BY <3>3 DEF Stale
  <2>8. StaleDeps(u) \subseteq Stale(srv, u)  BY <2>5, <2>7 DEF StaleDeps
  <2> QED  BY <2>4, <2>8
<1>2. ASSUME Inv PROVE OpenDocumentsShowSavedDependencies
  BY <1>1, <1>2 DEF OpenDocumentsShowSavedDependencies
<1> QED  BY <1>2, Invariance, PTL

\* one report after another
LEMMA TwoReports ==
  ASSUME NEW a, NEW b
  PROVE  <<a>> \o <<b>> = <<a, b>> /\ <<a>> \o <<>> = <<a>>
<1>1. <<a>> \in Seq({a, b}) /\ <<b>> \in Seq({a, b}) /\ <<>> \in Seq({a, b})
      /\ Len(<<a>>) = 1 /\ Len(<<b>>) = 1
  OBVIOUS
<1>2. PICK z : z = <<a>> \o <<b>>  OBVIOUS
<1>3. z \in Seq({a, b}) /\ Len(z) = 2 /\ z[1] = a /\ z[2] = b  BY <1>1, <1>2
<1>4. z = [i \in 1..2 |-> z[i]]  BY <1>3
<1>5. z = <<a, b>>  BY <1>3, <1>4
<1>6. <<a>> \o <<>> = <<a>>  BY <1>1
<1> QED  BY <1>2, <1>5, <1>6

(* After onDocDidSave in a build every document there was has, on screen,    *)
(* its parse diagnostics once and, in the compilation, the design's, all of  *)
(* the texts there are: refresh comes before the publishing, clear before    *)
(* both, and publishInactiveRegions changes none of it.                      *)
THEOREM SaveRefreshesBuildTheorem == Spec => SaveRefreshesBuild
<1>1. ASSUME Inv, NEW u \in Uris, DidSave(u), u \in srv.open, srv.comp # {},
             srv'.ok \/ srv.text[u] = editor[u], NEW v \in Uris, srv.text[v] # NoDoc
      PROVE  srv'.dc.shown[v] =
               <<<<"parse", [x \in {v} |-> srv'.text[v]]>>>> \o
               (IF v \in srv'.comp THEN <<<<"design", [x \in srv'.comp |-> srv'.text[x]]>>>>
                                   ELSE <<>>)
  <2>1. PICK others \in Orders(srv.open \ {u}) :
          srv' = IfOk(LAMBDA x : SaveDocument(x, u, others),
                      IF srv.text[u] = editor[u] THEN Begin ELSE OpenDocument(Begin, u, editor[u]))
    BY <1>1 DEF DidSave
  <2>2. PICK s : s = SaveText(u, editor[u])  OBVIOUS
  <2>3. srv' = IF s.ok THEN SaveDocument(s, u, others) ELSE s
    BY <2>1, <2>2 DEF IfOk, SaveText
  <2>4. s.ok /\ srv' = SaveDocument(s, u, others)
    <3>1. CASE srv.text[u] = editor[u]
      <4>1. s = Begin  BY <2>2, <3>1 DEF SaveText
      <4> QED  BY <1>1, <2>3, <4>1, BeginIs DEF Inv
    <3>2. CASE srv'.ok  BY <2>3, <3>2
    <3> QED  BY <1>1, <3>1, <3>2
  <2>5. editor[u] \in Texts /\ DiskOK  BY <1>1 DEF Inv, Setting, DidSave
  <2>6. /\ Sound(s) /\ s.comp = srv.comp /\ s.text[u] = editor[u]
        /\ v \in Loaded(s)
    <3>1. /\ Sound(s) /\ s.comp = srv.comp /\ s.text[u] = editor[u]
      BY <1>1, <2>2, <2>5, SaveTextIs DEF SaveText
    <3>2. v \in Loaded(s)
      <4>1. Sound(srv)  BY <1>1 DEF Inv
      <4>2. Sound(Begin) /\ Begin.text = srv.text /\ Begin.ok  BY <4>1, BeginIs
      <4>3. CASE s = Begin  BY <1>1, <4>2, <4>3 DEF Loaded
      <4>4. CASE s = OpenDocument(Begin, u, editor[u])
        <5>1. Opened(Begin, s, u, editor[u])  BY <2>5, <4>2, <4>4, OpenDocumentIs
        <5>2. v = u \/ s.text[v] = srv.text[v]  BY <1>1, <4>2, <5>1 DEF Opened
        <5> QED  BY <1>1, <2>5, <3>1, <5>2, TextsAre DEF Loaded
      <4> QED  BY <2>2, <4>3, <4>4 DEF SaveText
    <3> QED  BY <3>1, <3>2
  <2>7. u \in Loaded(s)  BY <1>1, <2>5, <2>6, TextsAre DEF Loaded
  <2> DEFINE D == <<"design", [w \in s.comp |-> s.text[w]]>>
             E == <<"design", [x \in srv'.comp |-> srv'.text[x]]>>
             P == <<"parse", [x \in {v} |-> srv'.text[v]]>>
  <2>b. BuildSaved(s, srv')  BY <1>1, <2>4, <2>5, <2>6, <2>7, SaveBuildIs
  <2>8. /\ srv'.comp = s.comp /\ Grown(s, srv')
        /\ srv'.dc.shown[v] = IF v \in s.comp THEN <<ParseReport(s, v), D>>
                                               ELSE <<ParseReport(s, v)>>
    BY <2>6, <2>b DEF BuildSaved
  <2>9. \A w \in Loaded(s) : srv'.text[w] = s.text[w]  BY <2>5, <2>8, GrownLoaded
  <2>10. ParseReport(s, v) = P  BY <2>6, <2>9 DEF ParseReport
  <2>11. D = E
    <3>1. s.comp \subseteq Loaded(s)  BY <2>6 DEF Sound
    <3> QED  BY <2>8, <2>9, <3>1
  <2> HIDE DEF D, E, P
  <2>12. CASE v \in srv'.comp
    <3>1. srv'.dc.shown[v] = <<P, E>>  BY <2>8, <2>10, <2>11, <2>12
    <3>2. srv'.dc.shown[v] = <<P>> \o <<E>>  BY <3>1, TwoReports
    <3> QED  BY <2>12, <3>2 DEF P, E
  <2>13. CASE v \notin srv'.comp
    <3>1. srv'.dc.shown[v] = <<P>>  BY <2>8, <2>10, <2>13
    <3>2. srv'.dc.shown[v] = <<P>> \o <<>>  BY <3>1, TwoReports
    <3> QED  BY <2>13, <3>2 DEF P
  <2> QED  BY <2>12, <2>13
<1>2. ASSUME Inv
      PROVE  \A u \in Uris :
               DidSave(u) /\ u \in srv.open /\ srv.comp # {}
                 /\ (srv'.ok \/ srv.text[u] = editor[u]) =>
               \A v \in Uris : srv.text[v] # NoDoc =>
                 srv'.dc.shown[v] =
                   <<<<"parse", [x \in {v} |-> srv'.text[v]]>>>> \o
                   (IF v \in srv'.comp THEN <<<<"design", [x \in srv'.comp |-> srv'.text[x]]>>>>
                                       ELSE <<>>)
  BY <1>1, <1>2, Zenon
<1> QED  BY <1>2, Invariance, PTL DEF SaveRefreshesBuild
----------------------------------------------------------------------------
(* The diagnostics client under any sequence of calls, and not only those of *)
(* the driver's handlers                                                     *)

VARIABLE dc
CONSTANT MaxReports

Calls == INSTANCE ServerDiagClient

\* what every sequence of calls keeps
CallsInv == Calls!TypeOK /\ Calls!CleanMeansShown

(* A new client with an editor that shows nothing.                           *)
LEMMA CallsInitInv == Calls!Init => CallsInv
<1> SUFFICES ASSUME Calls!Init PROVE CallsInv
  OBVIOUS
<1>1. Calls!NoDiags \in [Uris -> Seq(Reports)]  BY DEF Calls!NoDiags
<1>2. Calls!NewClient(Calls!NoDiags) \in Calls!DiagClients  BY <1>1 DEF Calls!NewClient, Calls!DiagClients
<1> QED  BY <1>2 DEF Calls!Init, CallsInv, Calls!TypeOK, Calls!CleanMeansShown, Calls!NewClient, Calls!NoDiags

(* Each call keeps the invariant.                                            *)
LEMMA CallsNextInv == CallsInv /\ [Calls!Next]_dc => CallsInv'
<1> SUFFICES ASSUME CallsInv, [Calls!Next]_dc PROVE CallsInv'
  OBVIOUS
<1>1. /\ dc \in Calls!DiagClients
      /\ dc = [diags |-> dc.diags, dirty |-> dc.dirty, shown |-> dc.shown]
      /\ dc.diags \in [Uris -> Seq(Reports)] /\ dc.shown \in [Uris -> Seq(Reports)]
      /\ dc.dirty \in SUBSET Uris
  BY DEF CallsInv, Calls!TypeOK, Calls!DiagClients
<1>2. \A u \in Uris \ dc.dirty : dc.shown[u] = dc.diags[u]
  BY DEF CallsInv, Calls!CleanMeansShown
<1>3. Calls!NoDiags \in [Uris -> Seq(Reports)] /\ \A u \in Uris : Calls!NoDiags[u] = <<>>
  BY DEF Calls!NoDiags
<1>4. ASSUME NEW u \in Uris, NEW r \in Reports, dc' = Calls!Report(dc, u, r) PROVE CallsInv'
  <2>1. /\ dc'.diags = [dc.diags EXCEPT ![u] = Append(@, r)]
        /\ dc'.dirty = dc.dirty \cup {u} /\ dc'.shown = dc.shown
        /\ dc' = [diags |-> dc'.diags, dirty |-> dc'.dirty, shown |-> dc'.shown]
    BY <1>1, <1>4 DEF Calls!Report
  <2>2. Append(dc.diags[u], r) \in Seq(Reports)  BY <1>1
  <2>3. dc'.diags \in [Uris -> Seq(Reports)] /\ dc'.dirty \in SUBSET Uris
    BY <1>1, <2>1, <2>2
  <2>4. Calls!TypeOK'  BY <1>1, <2>1, <2>3 DEF Calls!TypeOK, Calls!DiagClients
  <2>5. Calls!CleanMeansShown'  BY <1>1, <1>2, <2>1 DEF Calls!CleanMeansShown
  <2> QED  BY <2>4, <2>5 DEF CallsInv
<1>5. ASSUME NEW u \in Uris, dc' = Calls!ClearUri(dc, u) PROVE CallsInv'
  <2>1. /\ dc'.diags = [dc.diags EXCEPT ![u] = <<>>]
        /\ dc'.dirty = dc.dirty \cup {u} /\ dc'.shown = dc.shown
        /\ dc' = [diags |-> dc'.diags, dirty |-> dc'.dirty, shown |-> dc'.shown]
    BY <1>1, <1>5 DEF Calls!ClearUri
  <2>3. dc'.diags \in [Uris -> Seq(Reports)] /\ dc'.dirty \in SUBSET Uris
    BY <1>1, <2>1
  <2>4. Calls!TypeOK'  BY <1>1, <2>1, <2>3 DEF Calls!TypeOK, Calls!DiagClients
  <2>5. Calls!CleanMeansShown'  BY <1>1, <1>2, <2>1 DEF Calls!CleanMeansShown
  <2> QED  BY <2>4, <2>5 DEF CallsInv
<1>6. CASE dc' = Calls!ClearAll(dc)
  <2>1. /\ dc'.diags = Calls!NoDiags /\ dc'.shown = dc.shown
        /\ dc'.dirty = dc.dirty \cup {u \in Uris : dc.diags[u] # <<>>}
        /\ dc' = [diags |-> dc'.diags, dirty |-> dc'.dirty, shown |-> dc'.shown]
    BY <1>1, <1>6 DEF Calls!ClearAll
  <2>4. Calls!TypeOK'  BY <1>1, <1>3, <2>1 DEF Calls!TypeOK, Calls!DiagClients
  <2>5. Calls!CleanMeansShown'  BY <1>1, <1>2, <1>3, <2>1 DEF Calls!CleanMeansShown
  <2> QED  BY <2>4, <2>5 DEF CallsInv
<1>7. CASE dc' = Calls!ClearAndPush(dc)
  <2>1. /\ dc'.diags = Calls!NoDiags /\ dc'.dirty = {}
        /\ dc'.shown = [u \in Uris |-> IF dc.diags[u] # <<>> \/ u \in dc.dirty
                                       THEN <<>> ELSE dc.shown[u]]
        /\ dc' = [diags |-> dc'.diags, dirty |-> dc'.dirty, shown |-> dc'.shown]
    BY <1>7 DEF Calls!ClearAndPush
  <2>2. dc'.shown \in [Uris -> Seq(Reports)]
    <3>1. <<>> \in Seq(Reports)  OBVIOUS
    <3> QED  BY <1>1, <2>1, <3>1
  <2>4. Calls!TypeOK'  BY <1>3, <2>1, <2>2 DEF Calls!TypeOK, Calls!DiagClients
  <2>5. Calls!CleanMeansShown'  BY <1>1, <1>2, <1>3, <2>1 DEF Calls!CleanMeansShown
  <2> QED  BY <2>4, <2>5 DEF CallsInv
<1>8. CASE dc' = Calls!PushDiags(dc)
  <2>1. /\ dc'.diags = dc.diags /\ dc'.dirty = {}
        /\ dc'.shown = [u \in Uris |-> IF u \in dc.dirty THEN dc.diags[u] ELSE dc.shown[u]]
        /\ dc' = [diags |-> dc'.diags, dirty |-> dc'.dirty, shown |-> dc'.shown]
    BY <1>1, <1>8 DEF Calls!PushDiags
  <2>2. dc'.shown \in [Uris -> Seq(Reports)]  BY <1>1, <2>1
  <2>4. Calls!TypeOK'  BY <1>1, <2>1, <2>2 DEF Calls!TypeOK, Calls!DiagClients
  <2>5. Calls!CleanMeansShown'  BY <1>1, <1>2, <2>1 DEF Calls!CleanMeansShown
  <2> QED  BY <2>4, <2>5 DEF CallsInv
<1>9. CASE UNCHANGED dc
  BY <1>9 DEF CallsInv, Calls!TypeOK, Calls!CleanMeansShown
<1> QED  BY <1>4, <1>5, <1>6, <1>7, <1>8, <1>9 DEF Calls!Next

(* For any documents and any sequence of reports, clears and pushes, the     *)
(* editor shows what was collected, except for documents still to be pushed. *)
THEOREM CallsCleanTheorem == Calls!Spec => []Calls!CleanMeansShown
<1>1. CallsInv => Calls!CleanMeansShown  BY DEF CallsInv
<1> QED  BY <1>1, CallsInitInv, CallsNextInv, PTL DEF Calls!Spec

(* Whatever happened before, clearAndPush leaves the editor showing nothing: *)
(* a document without collected diagnostics is clean and shows none, or is   *)
(* dirty and withdrawn with the others.                                      *)
THEOREM CallsWithdrawingTheorem == Calls!Spec => Calls!WithdrawingLeavesNothing
<1>1. ASSUME CallsInv, [Calls!Next]_dc PROVE [dc' = Calls!ClearAndPush(dc) => dc'.shown = Calls!NoDiags]_dc
  <2> SUFFICES ASSUME dc' = Calls!ClearAndPush(dc) PROVE dc'.shown = Calls!NoDiags
    OBVIOUS
  <2>1. dc'.shown = [u \in Uris |-> IF dc.diags[u] # <<>> \/ u \in dc.dirty
                                    THEN <<>> ELSE dc.shown[u]]
    BY DEF Calls!ClearAndPush
  <2>2. \A u \in Uris \ dc.dirty : dc.shown[u] = dc.diags[u]
    BY <1>1 DEF CallsInv, Calls!CleanMeansShown
  <2> QED  BY <2>1, <2>2 DEF Calls!NoDiags
<1> QED  BY <1>1, CallsInitInv, CallsNextInv, PTL DEF Calls!Spec, Calls!WithdrawingLeavesNothing
=============================================================================
