--------------------------- MODULE WorkspaceProofs ---------------------------
(* Proofs about the workspace index, for any files, contents and             *)
(* configurations: the records always lead to the entries, tables and        *)
(* records are inverse to each other except for re-added paths, and an index *)
(* with nothing left to handle matches the files.  Then about references and *)
(* renaming, for any workspace: what is returned are occurrences of what was *)
(* asked for, and all of them when index and analyses are up to date, so     *)
(* that a renaming changes no meaning.                                       *)
EXTENDS Indexer, References, FiniteSetTheorems, SequenceTheorems, TLAPS

(* What the crawler and the parser record is a set of keys.                  *)
LEMMA KeysOfContents ==
  ASSUME NEW c \in Contents
  PROVE  Parsed(c) \in SUBSET Keys /\ Crawled(c) \in SUBSET Keys
<1>1. c \in AllContents  BY IndexerAssumption
<1>2. /\ c.symbols \in SUBSET Names /\ c.macros \in SUBSET Names
      /\ c.included \in SUBSET Names /\ c.refs \in SUBSET Names
  BY <1>1 DEF AllContents
<1>3. \A ns \in SUBSET Names : /\ Under("symbol", ns) \in SUBSET Keys
                               /\ Under("macro", ns) \in SUBSET Keys
                               /\ Under("reference", ns) \in SUBSET Keys
  BY DEF Under, Keys, Tables
<1>4. Under("macro", c.macros \cup c.included) \in SUBSET Keys  BY <1>2, <1>3
<1>5. Parsed(c) \in SUBSET Keys
  BY <1>2, <1>3, <1>4 DEF Parsed
<1>6. Crawled(c) \in SUBSET Keys
  BY <1>2, <1>3 DEF Crawled
<1> QED  BY <1>5, <1>6

(* A missing file leaves an empty record.                                    *)
LEMMA KeysOfMissing == Crawled(Missing) \in SUBSET Keys
BY DEF Crawled

IInv == TypeOK /\ IndexedIsFound /\ TablesMatchRecords

(* A message of a kind has the fields of that kind.                          *)
LEMMA MessageFields ==
  ASSUME NEW m \in Messages
  PROVE  /\ m.kind = "save" => m.path \in Paths /\ m.content \in Contents
         /\ m.kind = "watch" => m.changes \in Seq(AllChanges)
BY DEF Messages, Load

(* The head of a queue is of the queue's type, and so is the rest.           *)
LEMMA HeadAndTail ==
  ASSUME NEW S, NEW s \in Seq(S), s # <<>>
  PROVE  Head(s) \in S /\ Tail(s) \in Seq(S)
OBVIOUS

(* The environment never touches the index.                                  *)
LEMMA EnvironmentKeepsType == TypeOK /\ Environment => TypeOK'
<1> SUFFICES ASSUME TypeOK, Environment PROVE TypeOK'
  OBVIOUS
<1>1. ASSUME NEW p \in Paths, NEW c \in Contents \cup {Missing}, WriteFile(p, c)
      PROVE  TypeOK'
  <2>1. TypeOfWrite(p, c) \in Types  BY DEF TypeOfWrite, Types
  <2>2. Change(p, TypeOfWrite(p, c)) \in AllChanges  BY <2>1 DEF Change, AllChanges
  <2>3. pending' \in Seq(AllChanges)
    BY <1>1, <2>2 DEF WriteFile, WriteDisk, TypeOK
  <2> QED  BY <1>1, <2>3 DEF WriteFile, WriteDisk, TypeOK, server
<1>2. ASSUME NEW p \in Paths, NEW c \in Contents \cup {Missing}, SaveFile(p, c)
      PROVE  TypeOK'
  <2>1. TypeOfWrite(p, c) \in Types  BY DEF TypeOfWrite, Types
  <2>2. Change(p, TypeOfWrite(p, c)) \in AllChanges  BY <2>1 DEF Change, AllChanges
  <2>3. pending' \in Seq(AllChanges)
    BY <1>2, <2>2 DEF SaveFile, WriteDisk, TypeOK
  <2>4. Save(p, c) \in Messages
    BY <1>2 DEF SaveFile, Save, Messages
  <2>5. inbox' \in Seq(Messages)
    BY <1>2, <2>4 DEF SaveFile, TypeOK
  <2> QED  BY <1>2, <2>3, <2>5 DEF SaveFile, WriteDisk, TypeOK, server
<1>3. Change(ConfigFile, "Changed") \in AllChanges  BY DEF Change, AllChanges, Types
<1>4. ASSUME NEW f \in Configs, SaveConfig(f) PROVE TypeOK'
  BY <1>3, <1>4 DEF SaveConfig, TypeOK, server
<1>5. ASSUME AddDefine PROVE TypeOK'
  <2>1. Load \in Messages  BY DEF Messages
  <2> QED  BY <1>3, <1>5, <2>1 DEF AddDefine, TypeOK, server
<1>6. ASSUME NEW n \in 1..Len(pending), Deliver(n) PROVE TypeOK'
  <2>0. pending \in Seq(AllChanges)  BY DEF TypeOK
  <2>1. SubSeq(pending, 1, n) \in Seq(AllChanges)
    BY <2>0, <1>6, SubSeqProperties
  <2>2. SubSeq(pending, n + 1, Len(pending)) \in Seq(AllChanges)
    BY <2>0, <1>6, SubSeqProperties
  <2>3. Watch(SubSeq(pending, 1, n)) \in Messages
    BY <2>1 DEF Watch, Messages
  <2> QED  BY <1>6, <2>2, <2>3 DEF Deliver, TypeOK, server
<1> QED  BY <1>1, <1>2, <1>4, <1>5, <1>6 DEF Environment

(* ... nor its records and its history.                                      *)
LEMMA EnvironmentKeepsIndex == Environment => UNCHANGED <<entries, indexed, readded>>
BY DEF Environment, WriteFile, SaveFile, SaveConfig, AddDefine, Deliver, server

(* Recording a set of keys for a path whose old entries are all removed.     *)
LEMMA UpdateKeepsInv ==
  ASSUME IInv, NEW p \in Paths, NEW c \in Contents, UpdateDocument(p, c),
         readded' = readded
  PROVE  /\ entries' \in [Keys \X Paths -> Nat]
         /\ indexed' \in [Paths -> SUBSET Keys]
         /\ IndexedIsFound'
         /\ TablesMatchRecords'
<1>4. Parsed(c) \in SUBSET Keys  BY KeysOfContents
<1>5. entries \in [Keys \X Paths -> Nat] /\ indexed \in [Paths -> SUBSET Keys]
  BY DEF IInv, TypeOK
<1> DEFINE e == Without(entries, p, indexed[p])
<1>6. /\ e \in [Keys \X Paths -> Nat]
      /\ \A k \in Keys, q \in Paths :
           e[<<k, q>>] = IF q = p /\ k \in indexed[p] THEN 0 ELSE entries[<<k, q>>]
  BY <1>5 DEF Without
<1>7. entries' = With(e, p, Parsed(c)) /\ indexed' = [indexed EXCEPT ![p] = Parsed(c)]
  BY DEF UpdateDocument
<1> HIDE DEF e
<1>8. /\ entries' \in [Keys \X Paths -> Nat]
      /\ \A k \in Keys, q \in Paths :
           entries'[<<k, q>>] = IF q = p /\ k \in Parsed(c) THEN e[<<k, q>>] + 1 ELSE e[<<k, q>>]
  BY <1>6, <1>7 DEF With
<1>11. IndexedIsFound'
  <2>1. ASSUME NEW q \in Paths, NEW k \in indexed'[q] PROVE entries'[<<k, q>>] > 0
    <3>1. CASE q = p
      <4>1. k \in Parsed(c)  BY <3>1, <1>5, <1>7
      <4>2. e[<<k, q>>] \in Nat  BY <4>1, <1>4, <1>6
      <4> QED  BY <4>1, <4>2, <3>1, <1>4, <1>8
    <3>2. CASE q # p
      <4>1. k \in indexed[q]  BY <3>2, <1>5, <1>7
      <4>2. entries[<<k, q>>] > 0  BY <4>1 DEF IInv, IndexedIsFound, FilesFor
      <4>3. k \in Keys  BY <4>1, <1>5
      <4> QED  BY <4>2, <4>3, <3>2, <1>6, <1>8
    <3> QED  BY <3>1, <3>2
  <2> QED  BY <2>1 DEF IndexedIsFound, FilesFor
<1>12. TablesMatchRecords'
  <2>2. ASSUME NEW q \in Paths \ readded, NEW k \in Keys
        PROVE  entries'[<<k, q>>] = IF k \in indexed'[q] THEN 1 ELSE 0
    <3>1. entries[<<k, q>>] = IF k \in indexed[q] THEN 1 ELSE 0
      BY DEF IInv, TablesMatchRecords
    <3>2. CASE q = p
      BY <3>1, <3>2, <1>5, <1>6, <1>7, <1>8
    <3>3. CASE q # p
      BY <3>1, <3>3, <1>5, <1>6, <1>7, <1>8
    <3> QED  BY <3>2, <3>3
  <2> QED  BY <2>2 DEF TablesMatchRecords
<1>13. indexed' \in [Paths -> SUBSET Keys]  BY <1>4, <1>5, <1>7
<1> QED  BY <1>8, <1>11, <1>12, <1>13

(* A save that is ignored, or recorded under the file's own content or that  *)
(* of an owner.                                                              *)
LEMMA SaveKeepsInv == IInv /\ HandleSave => IInv'
<1> SUFFICES ASSUME IInv, HandleSave PROVE IInv'
  OBVIOUS
<1> DEFINE p == Head(inbox).path
           c == Head(inbox).content
<1>1. inbox \in Seq(Messages) /\ inbox # <<>>  BY DEF IInv, TypeOK, HandleSave
<1>2. Head(inbox) \in Messages /\ Tail(inbox) \in Seq(Messages)  BY <1>1, HeadAndTail
<1>3. p \in Paths /\ c \in Contents  BY <1>2, MessageFields DEF HandleSave
<1>4. /\ inbox' = Tail(inbox)
      /\ UNCHANGED <<disk, config, changes, toAdd, pending, writes, readded>>
  BY DEF HandleSave
<1>5. \/ UNCHANGED <<entries, indexed, unseen>>
      \/ /\ \E d \in Contents : UpdateDocument(p, d)
         /\ unseen' \in {unseen \ {p}, unseen \cup {p}}
  BY <1>3 DEF HandleSave
<1> HIDE DEF p, c
<1>6. CASE UNCHANGED <<entries, indexed, unseen>>
  BY <1>2, <1>4, <1>6 DEF IInv, TypeOK, IndexedIsFound, TablesMatchRecords, FilesFor
<1>7. ASSUME NEW d \in Contents, UpdateDocument(p, d), unseen' \in {unseen \ {p}, unseen \cup {p}}
      PROVE  IInv'
  <2>1. /\ entries' \in [Keys \X Paths -> Nat] /\ indexed' \in [Paths -> SUBSET Keys]
        /\ IndexedIsFound' /\ TablesMatchRecords'
    BY <1>3, <1>4, <1>7, UpdateKeepsInv
  <2>2. unseen' \in SUBSET Paths  BY <1>3, <1>7 DEF IInv, TypeOK
  <2>3. TypeOK'  BY <1>2, <1>4, <2>1, <2>2 DEF IInv, TypeOK
  <2> QED  BY <2>1, <2>3 DEF IInv
<1> QED  BY <1>5, <1>6, <1>7

(* Removing a path keeps the tables and the records inverse to each other.   *)
LEMMA RemoveKeepsInv ==
  ASSUME IInv, NEW p \in Paths, RemovePath(p), UNCHANGED <<disk, readded>>
  PROVE  /\ entries' \in [Keys \X Paths -> Nat]
         /\ indexed' \in [Paths -> SUBSET Keys]
         /\ unseen' \in SUBSET Paths
         /\ IndexedIsFound'
         /\ TablesMatchRecords'
<1>1. entries \in [Keys \X Paths -> Nat] /\ indexed \in [Paths -> SUBSET Keys]
  BY DEF IInv, TypeOK
<1>2. entries' = Without(entries, p, indexed[p]) /\ indexed' = [indexed EXCEPT ![p] = {}]
  BY DEF RemovePath
<1>3. /\ entries' \in [Keys \X Paths -> Nat]
      /\ \A k \in Keys, q \in Paths :
           entries'[<<k, q>>] = IF q = p /\ k \in indexed[p] THEN 0 ELSE entries[<<k, q>>]
  BY <1>1, <1>2 DEF Without
<1>4. indexed' \in [Paths -> SUBSET Keys]  BY <1>1, <1>2
<1>5. unseen' \in SUBSET Paths  BY DEF RemovePath, IInv, TypeOK
<1>6. IndexedIsFound'
  <2>1. ASSUME NEW q \in Paths, NEW k \in indexed'[q]  PROVE  q \in FilesFor(k)'
    <3>1. q # p /\ k \in indexed[q]
      BY <1>1, <1>2
    <3>2. k \in Keys /\ entries[<<k, q>>] > 0
      BY <3>1, <1>1 DEF IInv, IndexedIsFound, FilesFor
    <3>3. entries'[<<k, q>>] > 0
      BY <3>1, <3>2, <1>3
    <3> QED  BY <3>3 DEF FilesFor
  <2> QED  BY <2>1 DEF IndexedIsFound
<1>7. TablesMatchRecords'
  <2>1. ASSUME NEW q \in Paths \ readded, NEW k \in Keys
        PROVE  entries'[<<k, q>>] = IF k \in indexed'[q] THEN 1 ELSE 0
    <3>1. entries[<<k, q>>] = IF k \in indexed[q] THEN 1 ELSE 0
      BY DEF IInv, TablesMatchRecords
    <3> QED  BY <3>1, <1>1, <1>2, <1>3
  <2> QED  BY <2>1 DEF TablesMatchRecords
<1> QED  BY <1>3, <1>4, <1>5, <1>6, <1>7

(* Each change of a notification keeps the invariant.                        *)
LEMMA ChangeKeepsInv ==
  ASSUME IInv, NEW p \in Paths, HandleCreated(p) \/ HandleChanged(p) \/ HandleDeleted(p)
  PROVE  IInv'
<1>1. changes \in Seq(AllChanges) /\ changes # <<>>
  BY DEF IInv, TypeOK, HandleCreated, HandleChanged, HandleDeleted
<1>2. changes' \in Seq(AllChanges)
  BY <1>1, HeadAndTail DEF HandleCreated, HandleChanged, HandleDeleted
<1>3. toAdd' \in [Paths -> Nat]
  BY DEF IInv, TypeOK, HandleCreated, HandleChanged, HandleDeleted
<1>4. CASE HandleCreated(p)
  BY <1>2, <1>3, <1>4
  DEF HandleCreated, IInv, TypeOK, IndexedIsFound, TablesMatchRecords, FilesFor
<1>5. CASE HandleChanged(p) \/ HandleDeleted(p)
  <2>1. RemovePath(p) /\ UNCHANGED <<disk, readded>>
    BY <1>5 DEF HandleChanged, HandleDeleted
  <2>2. /\ entries' \in [Keys \X Paths -> Nat]
        /\ indexed' \in [Paths -> SUBSET Keys]
        /\ unseen' \in SUBSET Paths
        /\ IndexedIsFound'
        /\ TablesMatchRecords'
    BY <2>1, RemoveKeepsInv
  <2>3. TypeOK'
    BY <1>2, <1>3, <1>5, <2>2 DEF HandleChanged, HandleDeleted, IInv, TypeOK
  <2> QED  BY <2>2, <2>3 DEF IInv
<1> QED  BY <1>4, <1>5

(* Adding a file beside its old entries keeps its new record findable; only  *)
(* a path that had a record may lose the exact correspondence.               *)
LEMMA AddKeepsInv ==
  ASSUME IInv, NEW p \in Paths, AddDocument(p)
  PROVE  IInv'
<1> DEFINE ks == Crawled(disk[p])
<1>1. entries \in [Keys \X Paths -> Nat] /\ indexed \in [Paths -> SUBSET Keys]
  BY DEF IInv, TypeOK
<1>2. ks \in SUBSET Keys
  <2>1. disk[p] \in Contents \/ disk[p] = Missing  BY DEF IInv, TypeOK
  <2> QED  BY <2>1, KeysOfContents, KeysOfMissing
<1>3. entries' = With(entries, p, ks) /\ indexed' = [indexed EXCEPT ![p] = ks]
  BY DEF AddDocument
<1> HIDE DEF ks
<1>4. /\ entries' \in [Keys \X Paths -> Nat]
      /\ \A k \in Keys, q \in Paths :
           entries'[<<k, q>>] = IF q = p /\ k \in ks THEN entries[<<k, q>>] + 1 ELSE entries[<<k, q>>]
  BY <1>1, <1>3 DEF With
<1>5. toAdd' \in [Paths -> Nat]
  <2>1. toAdd \in [Paths -> Nat] /\ toAdd[p] > 0 /\ toAdd' = [toAdd EXCEPT ![p] = @ - 1]
    BY DEF AddDocument, IInv, TypeOK
  <2> QED  BY <2>1
<1>6. TypeOK'
  BY <1>1, <1>2, <1>3, <1>4, <1>5 DEF AddDocument, IInv, TypeOK
<1>7. IndexedIsFound'
  <2>1. ASSUME NEW q \in Paths, NEW k \in indexed'[q] PROVE entries'[<<k, q>>] > 0
    <3>1. CASE q = p
      <4>1. k \in ks  BY <3>1, <1>1, <1>3
      <4>2. entries[<<k, q>>] \in Nat  BY <4>1, <1>1, <1>2
      <4> QED  BY <4>1, <4>2, <3>1, <1>2, <1>4
    <3>2. CASE q # p
      <4>1. k \in indexed[q]  BY <3>2, <1>1, <1>3
      <4>2. entries[<<k, q>>] > 0  BY <4>1 DEF IInv, IndexedIsFound, FilesFor
      <4>3. k \in Keys  BY <4>1, <1>1
      <4> QED  BY <4>2, <4>3, <3>2, <1>4
    <3> QED  BY <3>1, <3>2
  <2> QED  BY <2>1 DEF IndexedIsFound, FilesFor
<1>8. TablesMatchRecords'
  <2>1. readded' = IF indexed[p] = {} THEN readded ELSE readded \cup {p}  BY DEF AddDocument
  <2>2. ASSUME NEW q \in Paths \ readded', NEW k \in Keys
        PROVE  entries'[<<k, q>>] = IF k \in indexed'[q] THEN 1 ELSE 0
    <3>1. q \in Paths \ readded  BY <2>1
    <3>2. entries[<<k, q>>] = IF k \in indexed[q] THEN 1 ELSE 0
      BY <3>1 DEF IInv, TablesMatchRecords
    <3>3. CASE q = p
      <4>1. indexed[p] = {}  BY <2>1, <3>3
      <4> QED  BY <4>1, <3>2, <3>3, <1>1, <1>3, <1>4
    <3>4. CASE q # p
      BY <3>2, <3>4, <1>1, <1>3, <1>4
    <3> QED  BY <3>3, <3>4
  <2> QED  BY <2>2 DEF TablesMatchRecords
<1> QED  BY <1>6, <1>7, <1>8 DEF IInv

(* Starting a load or a notification leaves the index alone.                 *)
LEMMA StartKeepsInv == IInv /\ (HandleLoad \/ HandleReload \/ HandleWatch) => IInv'
<1> SUFFICES ASSUME IInv, HandleLoad \/ HandleReload \/ HandleWatch PROVE IInv'
  OBVIOUS
<1>1. inbox \in Seq(Messages) /\ inbox # <<>>
  BY DEF IInv, TypeOK, HandleLoad, HandleReload, HandleWatch
<1>2. Head(inbox) \in Messages /\ Tail(inbox) \in Seq(Messages)  BY <1>1, HeadAndTail
<1>3. FilesToIndex \in [Paths -> Nat]
  <2>1. config \in [Paths -> Nat]  BY IndexerAssumption DEF IInv, TypeOK
  <2> QED  BY <2>1 DEF FilesToIndex
<1>4. unseen' \in SUBSET Paths
  BY DEF IInv, TypeOK, HandleLoad, HandleReload, HandleWatch, PathsOf
<1>5. changes' \in Seq(AllChanges) /\ toAdd' \in [Paths -> Nat] /\ inbox' \in Seq(Messages)
  BY <1>2, <1>3, MessageFields
     DEF IInv, TypeOK, HandleLoad, HandleReload, HandleWatch, LoadConfig
<1>6. UNCHANGED <<disk, config, entries, indexed, pending, writes, readded>>
  BY DEF HandleLoad, HandleReload, HandleWatch
<1> QED  BY <1>4, <1>5, <1>6 DEF IInv, TypeOK, IndexedIsFound, TablesMatchRecords, FilesFor

(* The invariant holds in the empty index and is kept by every step.         *)
LEMMA InitInv == Init => IInv
<1> SUFFICES ASSUME Init PROVE IInv
  OBVIOUS
<1>1. TypeOK
  <2>1. inbox \in Seq(Messages)  BY DEF Init, Messages
  <2>2. Nothing \in [Paths -> Nat]  BY DEF Nothing
  <2> QED  BY <2>1, <2>2 DEF Init, TypeOK
<1> QED  BY <1>1 DEF Init, IInv, IndexedIsFound, TablesMatchRecords

(* Every step of the server and of its environment keeps the invariant.      *)
LEMMA NextKeepsInv == IInv /\ [Next]_vars => IInv'
<1> SUFFICES ASSUME IInv, [Next]_vars PROVE IInv'
  OBVIOUS
<1>1. CASE Environment
  <2>1. TypeOK'  BY <1>1, EnvironmentKeepsType DEF IInv
  <2>2. UNCHANGED <<entries, indexed, readded>>  BY <1>1, EnvironmentKeepsIndex
  <2> QED  BY <2>1, <2>2 DEF IInv, IndexedIsFound, TablesMatchRecords, FilesFor
<1>2. CASE HandleSave  BY <1>2, SaveKeepsInv
<1>3. CASE HandleLoad \/ HandleReload \/ HandleWatch  BY <1>3, StartKeepsInv
<1>4. ASSUME NEW p \in Paths, HandleCreated(p) \/ HandleChanged(p) \/ HandleDeleted(p)
      PROVE  IInv'
  BY <1>4, ChangeKeepsInv
<1>5. ASSUME NEW p \in Paths, AddDocument(p) PROVE IInv'
  BY <1>5, AddKeepsInv
<1>6. CASE UNCHANGED vars
  BY <1>6 DEF vars, IInv, TypeOK, IndexedIsFound, TablesMatchRecords, FilesFor
<1> QED  BY <1>1, <1>2, <1>3, <1>4, <1>5, <1>6 DEF Next, Server

(* So it always holds.                                                       *)
LEMMA InvHolds == Spec => []IInv
BY InitInv, NextKeepsInv, PTL DEF Spec

(* The state of the index keeps its type.                                    *)
THEOREM IndexTypeCorrect == Spec => []TypeOK
<1>1. IInv => TypeOK  BY DEF IInv
<1> QED  BY <1>1, InvHolds, PTL

(* For any files and any order of saves, crawls and notifications, every     *)
(* recorded key of a file leads to the file.                                 *)
THEOREM IndexedIsFoundTheorem == Spec => []IndexedIsFound
<1>1. IInv => IndexedIsFound  BY DEF IInv
<1> QED  BY <1>1, InvHolds, PTL

(* A path never added on top of a record is listed exactly once under each   *)
(* key of its record and under no other.                                     *)
THEOREM TablesMatchRecordsTheorem == Spec => []TablesMatchRecords
<1>1. IInv => TablesMatchRecords  BY DEF IInv
<1> QED  BY <1>1, InvHolds, PTL

(***************************************************************************)
(* The quiet index.  A change of p that is reported but not handled is in  *)
(* the notification at hand, in one on its way, or still with the client.  *)
(***************************************************************************)
Of(s, p) == \E i \in DOMAIN s : s[i].path = p

\* A notification behind the k-th message has a change of p.
Later(box, k, p) ==
  \E l \in DOMAIN box : l > k /\ box[l].kind = "watch" /\ Of(box[l].changes, p)

Coming(p) == Of(changes, p) \/ Later(inbox, 0, p) \/ Of(pending, p) \/ toAdd[p] > 0

Current(p) ==
  IF disk[p] = Missing THEN indexed[p] = {} ELSE indexed[p] \in {Crawled(disk[p]), Parsed(disk[p])}

\* No deletion of p is the last of its changes, in a sequence or altogether.
EndsWell(s, p) ==
  \A i \in DOMAIN s : s[i] = Change(p, "Deleted") => \E j \in DOMAIN s : j > i /\ s[j].path = p
Fine(box, ch, pe, p) ==
  /\ EndsWell(pe, p)
  /\ \A k \in DOMAIN box : box[k].kind = "watch" =>
        EndsWell(box[k].changes, p) \/ Later(box, k, p) \/ Of(pe, p)
  /\ EndsWell(ch, p) \/ Later(box, 0, p) \/ Of(pe, p)

\* Only changes that the watcher was asked to report are reported.
Sent(s) == \A i \in DOMAIN s : s[i].path \in Paths => s[i].type \in EventTypes
SentIn(box) == \A k \in DOMAIN box : box[k].kind = "watch" => Sent(box[k].changes)
ReportsInv == Sent(changes) /\ Sent(pending) /\ SentIn(inbox)

\* The invariant beside IInv: a record is of the file as it is, or a report is
\* coming, and the last report on a file that exists is not of a deletion.
Covered == \A p \in Paths \ unseen : Coming(p) \/ Current(p)
AllFine == "Created" \in EventTypes =>
             \A p \in Paths : disk[p] # Missing => Fine(inbox, changes, pending, p)
Rest == ReportsInv /\ Covered /\ AllFine

\* A watcher that reports deletions reports files that are made again.
SeesRecreation == "Deleted" \in EventTypes => "Created" \in EventTypes

(* A sequence that grows at its end.                                         *)
LEMMA Grown ==
  ASSUME NEW S, NEW s \in Seq(S), NEW x \in S
  PROVE  /\ DOMAIN s = 1..Len(s) /\ Len(s) \in Nat /\ DOMAIN Append(s, x) = 1..(Len(s) + 1)
         /\ \A i \in DOMAIN s : i \in DOMAIN Append(s, x) /\ Append(s, x)[i] = s[i] /\ i < Len(s) + 1
         /\ \A i \in DOMAIN Append(s, x) : i \in DOMAIN s \/ i = Len(s) + 1
         /\ Append(s, x)[Len(s) + 1] = x /\ Len(s) + 1 \in DOMAIN Append(s, x)
  BY AppendProperties

(* A sequence that loses its head.                                           *)
LEMMA Shortened ==
  ASSUME NEW S, NEW s \in Seq(S), s # <<>>
  PROVE  /\ 1 \in DOMAIN s /\ Head(s) = s[1] /\ DOMAIN s \subseteq Nat
         /\ \A i \in DOMAIN Tail(s) : i + 1 \in DOMAIN s /\ Tail(s)[i] = s[i + 1] /\ i \in Nat /\ i > 0
         /\ \A i \in DOMAIN s : i > 1 => i - 1 \in DOMAIN Tail(s) /\ Tail(s)[i - 1] = s[i]
  OBVIOUS

(* A sequence that is cut in two.                                            *)
LEMMA Cut ==
  ASSUME NEW S, NEW s \in Seq(S), NEW n \in 1..Len(s)
  PROVE  LET first == SubSeq(s, 1, n)
             rest == SubSeq(s, n + 1, Len(s))
         IN  /\ first \in Seq(S) /\ rest \in Seq(S) /\ DOMAIN s \subseteq Nat
             /\ \A i \in DOMAIN first : i \in DOMAIN s /\ first[i] = s[i] /\ i <= n
             /\ \A i \in DOMAIN s : i <= n => i \in DOMAIN first /\ first[i] = s[i]
             /\ \A i \in DOMAIN rest : i + n \in DOMAIN s /\ rest[i] = s[i + n] /\ i \in Nat
             /\ \A i \in DOMAIN s : i > n => i - n \in DOMAIN rest /\ rest[i - n] = s[i]
             /\ \A i, j \in DOMAIN s : i <= n /\ j > n => j > i
<1>1. /\ SubSeq(s, 1, n) \in Seq(S) /\ Len(SubSeq(s, 1, n)) = n
      /\ \A i \in 1..n : SubSeq(s, 1, n)[i] = s[i]
  BY SubSeqProperties
<1>2. /\ SubSeq(s, n + 1, Len(s)) \in Seq(S) /\ Len(SubSeq(s, n + 1, Len(s))) = Len(s) - n
      /\ \A i \in 1..(Len(s) - n) : SubSeq(s, n + 1, Len(s))[i] = s[i + n]
  BY SubSeqProperties
<1> QED  BY <1>1, <1>2, SMTT(30)

(* What an append does to the changes of a path.                             *)
LEMMA AppendChanges ==
  ASSUME NEW s \in Seq(AllChanges), NEW x \in AllChanges, NEW p
  PROVE  /\ Of(s, p) \/ x.path = p => Of(Append(s, x), p)
         /\ EndsWell(s, p) /\ x # Change(p, "Deleted") => EndsWell(Append(s, x), p)
         /\ x.path = p /\ x # Change(p, "Deleted") => EndsWell(Append(s, x), p)
         /\ Sent(s) /\ (x.path \in Paths => x.type \in EventTypes) => Sent(Append(s, x))
<1> DEFINE t == Append(s, x)
<1>0. /\ DOMAIN s = 1..Len(s) /\ Len(s) \in Nat
      /\ \A i \in DOMAIN s : i \in DOMAIN t /\ t[i] = s[i] /\ i < Len(s) + 1
      /\ \A i \in DOMAIN t : i \in DOMAIN s \/ i = Len(s) + 1
      /\ t[Len(s) + 1] = x /\ Len(s) + 1 \in DOMAIN t
  BY Grown
<1> HIDE DEF t
<1>1. Of(s, p) \/ x.path = p => Of(t, p)  BY <1>0 DEF Of
<1>2. EndsWell(s, p) /\ x # Change(p, "Deleted") => EndsWell(t, p)
  BY <1>0, Zenon DEF EndsWell
<1>3. x.path = p /\ x # Change(p, "Deleted") => EndsWell(t, p)
  <2> SUFFICES ASSUME x.path = p, x # Change(p, "Deleted"),
                      NEW i \in DOMAIN t, t[i] = Change(p, "Deleted")
               PROVE  \E j \in DOMAIN t : j > i /\ t[j].path = p
    BY DEF EndsWell
  <2>1. i \in DOMAIN s  BY <1>0
  <2>2. Len(s) + 1 > i  BY <2>1, <1>0
  <2> QED  BY <2>2, <1>0
<1>4. Sent(s) /\ (x.path \in Paths => x.type \in EventTypes) => Sent(t)
  BY <1>0 DEF Sent
<1> QED  BY <1>1, <1>2, <1>3, <1>4 DEF t

(* What handling the first of the changes does.                              *)
LEMMA TailChanges ==
  ASSUME NEW s \in Seq(AllChanges), s # <<>>, NEW p
  PROVE  /\ Of(s, p) /\ Head(s).path # p => Of(Tail(s), p)
         /\ EndsWell(s, p) => EndsWell(Tail(s), p)
         /\ EndsWell(s, p) /\ Head(s) = Change(p, "Deleted") => Of(Tail(s), p)
         /\ Sent(s) => Sent(Tail(s)) /\ (Head(s).path \in Paths => Head(s).type \in EventTypes)
<1> DEFINE t == Tail(s)
<1>0. /\ 1 \in DOMAIN s /\ Head(s) = s[1] /\ DOMAIN s \subseteq Nat
      /\ \A i \in DOMAIN t : i + 1 \in DOMAIN s /\ t[i] = s[i + 1] /\ i \in Nat /\ i > 0
      /\ \A i \in DOMAIN s : i > 1 => i - 1 \in DOMAIN t /\ t[i - 1] = s[i]
  BY Shortened, Zenon
<1>d. \A i \in DOMAIN s : i = 1 \/ i > 1  OBVIOUS
<1> HIDE DEF t
<1>1. Of(s, p) /\ Head(s).path # p => Of(t, p)  BY <1>0, <1>d, Zenon DEF Of
<1>2. EndsWell(s, p) => EndsWell(t, p)
  <2> SUFFICES ASSUME EndsWell(s, p), NEW i \in DOMAIN t, t[i] = Change(p, "Deleted")
               PROVE  \E j \in DOMAIN t : j > i /\ t[j].path = p
    BY DEF EndsWell
  <2>1. i + 1 \in DOMAIN s /\ s[i + 1] = Change(p, "Deleted")  BY <1>0
  <2>2. PICK j \in DOMAIN s : j > i + 1 /\ s[j].path = p  BY <2>1 DEF EndsWell
  <2>3. j > 1 /\ j - 1 > i  BY <2>1, <2>2, <1>0
  <2> QED  BY <2>2, <2>3, <1>0
<1>3. EndsWell(s, p) /\ Head(s) = Change(p, "Deleted") => Of(t, p)
  <2> SUFFICES ASSUME EndsWell(s, p), s[1] = Change(p, "Deleted") PROVE Of(t, p)
    BY <1>0
  <2>1. PICK j \in DOMAIN s : j > 1 /\ s[j].path = p  BY <1>0 DEF EndsWell
  <2> QED  BY <2>1, <1>0 DEF Of
<1>4. Sent(s) => Sent(t) /\ (Head(s).path \in Paths => Head(s).type \in EventTypes)
  BY <1>0 DEF Sent
<1> QED  BY <1>1, <1>2, <1>3, <1>4 DEF t

(* What reporting the first n of the changes does.                           *)
LEMMA CutChanges ==
  ASSUME NEW s \in Seq(AllChanges), NEW n \in 1..Len(s), NEW p
  PROVE  LET first == SubSeq(s, 1, n)
             rest == SubSeq(s, n + 1, Len(s))
         IN  /\ Of(s, p) => Of(first, p) \/ Of(rest, p)
             /\ EndsWell(s, p) => EndsWell(rest, p) /\ (EndsWell(first, p) \/ Of(rest, p))
             /\ Sent(s) => Sent(first) /\ Sent(rest)
<1> DEFINE first == SubSeq(s, 1, n)
           rest == SubSeq(s, n + 1, Len(s))
<1>0. /\ DOMAIN s \subseteq Nat /\ n \in Nat
      /\ \A i \in DOMAIN first : i \in DOMAIN s /\ first[i] = s[i] /\ i <= n
      /\ \A i \in DOMAIN s : i <= n => i \in DOMAIN first /\ first[i] = s[i]
      /\ \A i \in DOMAIN rest : i + n \in DOMAIN s /\ rest[i] = s[i + n] /\ i \in Nat
      /\ \A i \in DOMAIN s : i > n => i - n \in DOMAIN rest /\ rest[i - n] = s[i]
  BY Cut, SMT
<1>d. \A i \in DOMAIN s : i <= n \/ i > n  BY <1>0
<1> HIDE DEF first, rest
<1>1. Of(s, p) => Of(first, p) \/ Of(rest, p)  BY <1>0, <1>d, Zenon DEF Of
<1>2. ASSUME EndsWell(s, p) PROVE EndsWell(rest, p)
  <2> SUFFICES ASSUME NEW i \in DOMAIN rest, rest[i] = Change(p, "Deleted")
               PROVE  \E j \in DOMAIN rest : j > i /\ rest[j].path = p
    BY DEF EndsWell
  <2>1. i + n \in DOMAIN s /\ s[i + n] = Change(p, "Deleted") /\ i \in Nat  BY <1>0
  <2>2. PICK j \in DOMAIN s : j > i + n /\ s[j].path = p  BY <1>2, <2>1 DEF EndsWell
  <2>3. j > n /\ j - n > i  BY <2>1, <2>2, <1>0
  <2> QED  BY <2>2, <2>3, <1>0
<1>3. ASSUME EndsWell(s, p), ~Of(rest, p) PROVE EndsWell(first, p)
  <2> SUFFICES ASSUME NEW i \in DOMAIN first, first[i] = Change(p, "Deleted")
               PROVE  \E j \in DOMAIN first : j > i /\ first[j].path = p
    BY DEF EndsWell
  <2>1. i \in DOMAIN s /\ s[i] = Change(p, "Deleted")  BY <1>0
  <2>2. PICK j \in DOMAIN s : j > i /\ s[j].path = p  BY <1>3, <2>1 DEF EndsWell
  <2>3. j <= n
    <3>1. CASE j > n  BY <3>1, <2>2, <1>0, <1>3, Zenon DEF Of
    <3> QED  BY <3>1, <1>d
  <2> QED  BY <2>2, <2>3, <1>0, Zenon
<1>4. Sent(s) => Sent(first) /\ Sent(rest)  BY <1>0 DEF Sent
<1> QED  BY <1>1, <1>2, <1>3, <1>4 DEF first, rest

(* A message that is sent keeps what is behind the others, and adds its own. *)
LEMMA LaterSent ==
  ASSUME NEW box \in Seq(Messages), NEW m \in Messages, NEW p
  PROVE  /\ \A k : Later(box, k, p) => Later(Append(box, m), k, p)
         /\ m.kind = "watch" /\ Of(m.changes, p) =>
              \A k \in {0} \cup DOMAIN box : Later(Append(box, m), k, p)
<1> DEFINE new == Append(box, m)
<1>0. /\ DOMAIN box = 1..Len(box) /\ Len(box) \in Nat
      /\ \A i \in DOMAIN box : i \in DOMAIN new /\ new[i] = box[i] /\ i < Len(box) + 1
      /\ new[Len(box) + 1] = m /\ Len(box) + 1 \in DOMAIN new
  BY Grown
<1>d. \A k \in {0} \cup DOMAIN box : Len(box) + 1 > k  BY <1>0
<1> HIDE DEF new
<1>1. \A k : Later(box, k, p) => Later(new, k, p)  BY <1>0, Zenon DEF Later
<1>2. m.kind = "watch" /\ Of(m.changes, p) => \A k \in {0} \cup DOMAIN box : Later(new, k, p)
  BY <1>0, <1>d, Zenon DEF Later
<1> QED  BY <1>1, <1>2 DEF new

(* When the first message is handled the others move up.                     *)
LEMMA LaterTaken ==
  ASSUME NEW box \in Seq(Messages), box # <<>>, NEW p
  PROVE  /\ \A k \in Nat \ {0} : Later(box, k, p) => Later(Tail(box), k - 1, p)
         /\ Later(box, 0, p) => \/ Head(box).kind = "watch" /\ Of(Head(box).changes, p)
                                \/ Later(Tail(box), 0, p)
<1> DEFINE rest == Tail(box)
<1>0. /\ 1 \in DOMAIN box /\ Head(box) = box[1] /\ DOMAIN box \subseteq Nat
      /\ \A i \in DOMAIN box : i > 1 => i - 1 \in DOMAIN rest /\ rest[i - 1] = box[i]
  BY Shortened, Zenon
<1>d. \A i \in DOMAIN box : (i = 1 \/ i > 1) /\ (i > 1 => i - 1 > 0)  OBVIOUS
<1> HIDE DEF rest
<1>1. \A k \in Nat \ {0} : Later(box, k, p) => Later(rest, k - 1, p)
  <2> SUFFICES ASSUME NEW k \in Nat \ {0}, Later(box, k, p) PROVE Later(rest, k - 1, p)
    OBVIOUS
  <2>1. PICK l \in DOMAIN box : l > k /\ box[l].kind = "watch" /\ Of(box[l].changes, p)
    BY DEF Later
  <2>2. l > 1 /\ l - 1 > k - 1  BY <2>1, <1>0
  <2>3. l - 1 \in DOMAIN rest /\ rest[l - 1] = box[l]  BY <2>2, <1>0
  <2> QED  BY <2>1, <2>2, <2>3, Zenon DEF Later
<1>2. Later(box, 0, p) => \/ Head(box).kind = "watch" /\ Of(Head(box).changes, p)
                          \/ Later(rest, 0, p)
  BY <1>0, <1>d, Zenon DEF Later
<1> QED  BY <1>1, <1>2 DEF rest

(* A write that the watcher sees, unless it is a deletion of p.              *)
LEMMA FineWrite ==
  ASSUME NEW box, NEW ch, NEW pe \in Seq(AllChanges), NEW x \in AllChanges, NEW p,
         x # Change(p, "Deleted"), Fine(box, ch, pe, p) \/ x.path = p
  PROVE  Fine(box, ch, Append(pe, x), p)
<1>1. EndsWell(Append(pe, x), p)  BY AppendChanges DEF Fine
<1>2. Of(pe, p) \/ x.path = p => Of(Append(pe, x), p)  BY AppendChanges
<1> QED  BY <1>1, <1>2, Zenon DEF Fine

(* A message that is not about the watched files.                            *)
LEMMA FineSend ==
  ASSUME NEW box \in Seq(Messages), NEW ch, NEW pe, NEW m \in Messages, NEW p,
         m.kind # "watch", Fine(box, ch, pe, p)
  PROVE  Fine(Append(box, m), ch, pe, p)
<1> DEFINE new == Append(box, m)
<1>0. /\ \A i \in DOMAIN box : i \in DOMAIN new /\ new[i] = box[i]
      /\ \A i \in DOMAIN new : i \in DOMAIN box \/ i = Len(box) + 1
      /\ new[Len(box) + 1] = m
  BY Grown
<1>1. \A k : Later(box, k, p) => Later(new, k, p)  BY LaterSent
<1> HIDE DEF new
<1>2. \A k \in DOMAIN new : new[k].kind = "watch" => k \in DOMAIN box /\ new[k] = box[k]
  BY <1>0, Zenon
<1>3. Fine(new, ch, pe, p)  BY <1>1, <1>2, Zenon DEF Fine
<1> QED  BY <1>3 DEF new

(* A notification with the first n changes.                                  *)
LEMMA FineDeliver ==
  ASSUME NEW box \in Seq(Messages), NEW ch, NEW pe \in Seq(AllChanges), NEW n \in 1..Len(pe),
         NEW p, Fine(box, ch, pe, p)
  PROVE  Fine(Append(box, Watch(SubSeq(pe, 1, n))), ch, SubSeq(pe, n + 1, Len(pe)), p)
<1> DEFINE first == SubSeq(pe, 1, n)
           rest == SubSeq(pe, n + 1, Len(pe))
           m == Watch(first)
           new == Append(box, m)
<1>1. /\ Of(pe, p) => Of(first, p) \/ Of(rest, p)
      /\ EndsWell(rest, p) /\ (EndsWell(first, p) \/ Of(rest, p))
  BY CutChanges DEF Fine
<1>2. first \in Seq(AllChanges)  BY Cut
<1> HIDE DEF first, rest
<1>3. m \in Messages /\ m.kind = "watch" /\ m.changes = first
  BY <1>2 DEF Messages, Watch
<1> HIDE DEF m
<1>0. /\ \A i \in DOMAIN box : i \in DOMAIN new /\ new[i] = box[i]
      /\ \A i \in DOMAIN new : i \in DOMAIN box \/ i = Len(box) + 1
      /\ new[Len(box) + 1] = m
  BY <1>3, Grown
<1>4. /\ \A k : Later(box, k, p) => Later(new, k, p)
      /\ Of(first, p) => \A k \in {0} \cup DOMAIN box : Later(new, k, p)
  BY <1>3, LaterSent
<1> HIDE DEF new
<1>5. Fine(new, ch, rest, p)
  <2>1. \A k \in DOMAIN new : new[k].kind = "watch" =>
           EndsWell(new[k].changes, p) \/ Later(new, k, p) \/ Of(rest, p)
    <3> SUFFICES ASSUME NEW k \in DOMAIN new, new[k].kind = "watch"
                 PROVE  EndsWell(new[k].changes, p) \/ Later(new, k, p) \/ Of(rest, p)
      OBVIOUS
    <3>1. CASE k \in DOMAIN box
      BY <3>1, <1>0, <1>1, <1>4, Zenon DEF Fine
    <3>2. CASE k = Len(box) + 1  BY <3>2, <1>0, <1>1, <1>3, Zenon
    <3> QED  BY <3>1, <3>2, <1>0
  <2>2. EndsWell(ch, p) \/ Later(new, 0, p) \/ Of(rest, p)
    BY <1>1, <1>4, Zenon DEF Fine
  <2> QED  BY <2>1, <2>2, <1>1 DEF Fine
<1> QED  BY <1>5 DEF new, m, first, rest

(* The server takes the first message, when it has no change at hand.        *)
LEMMA FineTake ==
  ASSUME NEW box \in Seq(Messages), box # <<>>, NEW ch, NEW pe, NEW p, Fine(box, ch, pe, p)
  PROVE  /\ Fine(Tail(box), <<>>, pe, p)
         /\ Head(box).kind = "watch" => Fine(Tail(box), Head(box).changes, pe, p)
<1> DEFINE rest == Tail(box)
<1>0. /\ 1 \in DOMAIN box /\ Head(box) = box[1]
      /\ \A i \in DOMAIN rest : i + 1 \in DOMAIN box /\ rest[i] = box[i + 1] /\ i \in Nat
  BY Shortened, Zenon
<1>1. \A k \in Nat \ {0} : Later(box, k, p) => Later(rest, k - 1, p)
  BY LaterTaken, Zenon
<1> HIDE DEF rest
<1>2. \A k \in DOMAIN rest : rest[k].kind = "watch" =>
         EndsWell(rest[k].changes, p) \/ Later(rest, k, p) \/ Of(pe, p)
  <2> SUFFICES ASSUME NEW k \in DOMAIN rest, rest[k].kind = "watch"
               PROVE  EndsWell(rest[k].changes, p) \/ Later(rest, k, p) \/ Of(pe, p)
    OBVIOUS
  <2>1. k + 1 \in DOMAIN box /\ rest[k] = box[k + 1] /\ k \in Nat  BY <1>0
  <2>2. EndsWell(box[k + 1].changes, p) \/ Later(box, k + 1, p) \/ Of(pe, p)
    BY <2>1, Zenon DEF Fine
  <2>3. k + 1 \in Nat \ {0} /\ (k + 1) - 1 = k  BY <2>1
  <2>4. Later(box, k + 1, p) => Later(rest, k, p)
    <3>1. Later(box, k + 1, p) => Later(rest, (k + 1) - 1, p)  BY <2>3, <1>1, Zenon
    <3> QED  BY <3>1, <2>3
  <2> QED  BY <2>1, <2>2, <2>4, Zenon
<1>3. EndsWell(<<>>, p)  BY DEF EndsWell
<1>4. Head(box).kind = "watch" =>
         EndsWell(Head(box).changes, p) \/ Later(rest, 0, p) \/ Of(pe, p)
  <2>1. box[1].kind = "watch" =>
           EndsWell(box[1].changes, p) \/ Later(box, 1, p) \/ Of(pe, p)
    BY <1>0, Zenon DEF Fine
  <2>2. Later(box, 1, p) => Later(rest, 0, p)
    <3>1. Later(box, 1, p) => Later(rest, 1 - 1, p)  BY <1>1
    <3> QED  BY <3>1
  <2> QED  BY <2>1, <2>2, <1>0, Zenon
<1>5. EndsWell(pe, p)  BY DEF Fine
<1>6. Fine(rest, <<>>, pe, p)  BY <1>2, <1>3, <1>5, Zenon DEF Fine
<1>7. Head(box).kind = "watch" => Fine(rest, Head(box).changes, pe, p)
  BY <1>2, <1>4, <1>5, Zenon DEF Fine
<1> QED  BY <1>6, <1>7 DEF rest

(* The server handles the first change at hand.                              *)
LEMMA FineStep ==
  ASSUME NEW box, NEW ch \in Seq(AllChanges), ch # <<>>, NEW pe, NEW p, Fine(box, ch, pe, p)
  PROVE  Fine(box, Tail(ch), pe, p)
<1>1. EndsWell(ch, p) => EndsWell(Tail(ch), p)  BY TailChanges
<1> QED  BY <1>1, Zenon DEF Fine

(* The messages on their way keep to what is reported.                       *)
LEMMA SentSend ==
  ASSUME NEW box \in Seq(Messages), NEW m \in Messages, SentIn(box),
         m.kind = "watch" => Sent(m.changes)
  PROVE  SentIn(Append(box, m))
<1> DEFINE new == Append(box, m)
<1>0. /\ \A i \in DOMAIN box : new[i] = box[i]
      /\ \A i \in DOMAIN new : i \in DOMAIN box \/ i = Len(box) + 1
      /\ new[Len(box) + 1] = m
  BY Grown
<1> HIDE DEF new
<1>1. SentIn(new)  BY <1>0, Zenon DEF SentIn
<1> QED  BY <1>1 DEF new

(* ... and so do the rest when the first of them is taken.                  *)
LEMMA SentTake ==
  ASSUME NEW box \in Seq(Messages), box # <<>>, SentIn(box)
  PROVE  SentIn(Tail(box)) /\ (Head(box).kind = "watch" => Sent(Head(box).changes))
<1> DEFINE rest == Tail(box)
<1>0. /\ 1 \in DOMAIN box /\ Head(box) = box[1]
      /\ \A i \in DOMAIN rest : i + 1 \in DOMAIN box /\ rest[i] = box[i + 1]
  BY Shortened, Zenon
<1> HIDE DEF rest
<1>1. SentIn(rest)  BY <1>0, Zenon DEF SentIn
<1>2. Head(box).kind = "watch" => Sent(Head(box).changes)  BY <1>0, Zenon DEF SentIn
<1> QED  BY <1>1, <1>2 DEF rest

(* Nothing is indexed at first, and nothing but the first load is coming.   *)
LEMMA QuietInit == Init => Rest
<1> SUFFICES ASSUME Init PROVE Rest
  OBVIOUS
<1>1. inbox = <<Load>> /\ changes = <<>> /\ pending = <<>> /\ Load.kind = "load"
  BY DEF Init, Load
<1>2. inbox[1] = Load /\ DOMAIN inbox = {1}  BY <1>1
<1>3. \A k \in DOMAIN inbox : inbox[k].kind # "watch"  BY <1>1, <1>2
<1>4. DOMAIN changes = {} /\ DOMAIN pending = {}  BY <1>1
<1>5. ReportsInv  BY <1>3, <1>4, Zenon DEF ReportsInv, SentIn, Sent
<1>6. AllFine  BY <1>3, <1>4, Zenon DEF AllFine, Fine, EndsWell
<1>7. Covered
  <2>1. \A p \in Paths \ unseen : disk[p] = Missing /\ indexed[p] = {}  BY DEF Init
  <2> QED  BY <2>1 DEF Covered, Current
<1> QED  BY <1>5, <1>6, <1>7 DEF Rest

(* A write: what the watcher does not report is counted as unseen.           *)
LEMMA WriteKeepsRest ==
  ASSUME IInv, Rest, NEW p \in Paths, NEW c \in Contents \cup {Missing}, WriteDisk(p, c),
         UNCHANGED server,
         \/ inbox' = inbox
         \/ \E m \in Messages : m.kind # "watch" /\ inbox' = Append(inbox, m)
  PROVE  Rest'
<1> DEFINE t == TypeOfWrite(p, c)
           x == Change(p, t)
<1>1. /\ pending \in Seq(AllChanges) /\ inbox \in Seq(Messages)
      /\ disk \in [Paths -> Contents \cup {Missing}]
  BY DEF IInv, TypeOK
<1>2. /\ disk' = [disk EXCEPT ![p] = c]
      /\ pending' = IF t \in EventTypes THEN Append(pending, x) ELSE pending
      /\ unseen' = IF t \in EventTypes THEN unseen ELSE unseen \cup {p}
  BY DEF WriteDisk
<1>3. changes' = changes /\ toAdd' = toAdd /\ indexed' = indexed  BY DEF server
<1>4. /\ t \in Types
      /\ disk[p] = Missing /\ c # Missing => t = "Created"
      /\ c # Missing => t # "Deleted"
  BY DEF TypeOfWrite, Types
<1>5. x \in AllChanges /\ x.path = p /\ x.type = t
  BY <1>4 DEF AllChanges, Change
<1>6. \A q : x = Change(q, "Deleted") => p = q /\ t = "Deleted"
  BY DEF Change
<1> HIDE DEF t, x
<1>7. \A q : Of(pending, q) => Of(pending', q)
  <2>1. \A q : Of(pending, q) => Of(Append(pending, x), q)  BY <1>1, <1>5, AppendChanges
  <2> QED  BY <2>1, <1>2
<1>8. \A q : Later(inbox, 0, q) => Later(inbox', 0, q)
  BY <1>1, LaterSent
<1>9. ReportsInv'
  <2>1. Sent(pending')
    <3>1. CASE t \in EventTypes
      <4>1. Sent(pending)  BY DEF Rest, ReportsInv
      <4>2. Sent(Append(pending, x))  BY <3>1, <4>1, <1>1, <1>5, AppendChanges
      <4> QED  BY <3>1, <4>2, <1>2
    <3>2. CASE t \notin EventTypes  BY <3>2, <1>2 DEF Rest, ReportsInv
    <3> QED  BY <3>1, <3>2
  <2>2. SentIn(inbox')
    BY <1>1, SentSend DEF Rest, ReportsInv
  <2> QED  BY <2>1, <2>2, <1>3 DEF Rest, ReportsInv
<1>10. Covered'
  <2> SUFFICES ASSUME NEW q \in Paths \ unseen' PROVE Coming(q)' \/ Current(q)'
    BY DEF Covered
  <2>1. q \in Paths \ unseen  BY <1>2
  <2>2. CASE q = p
    <3>1. t \in EventTypes  BY <2>2, <1>2
    <3>2. Of(Append(pending, x), p)  BY <1>1, <1>5, AppendChanges
    <3> QED  BY <2>2, <3>1, <3>2, <1>2 DEF Coming
  <2>3. CASE q # p
    <3>1. disk'[q] = disk[q]  BY <2>3, <1>1, <1>2
    <3>2. CASE Coming(q)  BY <3>2, <1>3, <1>7, <1>8 DEF Coming
    <3>3. CASE Current(q)  BY <3>3, <3>1, <1>3 DEF Current
    <3> QED  BY <2>1, <3>2, <3>3 DEF Rest, Covered
  <2> QED  BY <2>2, <2>3
<1>11. AllFine'
  <2> SUFFICES ASSUME "Created" \in EventTypes, NEW q \in Paths, disk'[q] # Missing
               PROVE  Fine(inbox', changes', pending', q)
    BY DEF AllFine
  <2>1. x # Change(q, "Deleted")
    <3>1. SUFFICES ASSUME x = Change(q, "Deleted") PROVE FALSE  OBVIOUS
    <3>2. p = q /\ t = "Deleted"  BY <3>1, <1>6
    <3>3. c # Missing  BY <3>2, <1>1, <1>2
    <3> QED  BY <3>2, <3>3, <1>4
  <2>2. Fine(inbox, changes, pending', q)
    <3>1. CASE disk[q] # Missing
      <4>1. Fine(inbox, changes, pending, q)  BY <3>1 DEF Rest, AllFine
      <4>2. Fine(inbox, changes, Append(pending, x), q)
        BY <4>1, <2>1, <1>1, <1>5, FineWrite
      <4> QED  BY <4>1, <4>2, <1>2
    <3>2. CASE disk[q] = Missing
      <4>1. q = p /\ c # Missing  BY <3>2, <1>1, <1>2
      <4>2. t \in EventTypes  BY <4>1, <3>2, <1>4
      <4>3. Fine(inbox, changes, Append(pending, x), q)
        BY <4>1, <2>1, <1>1, <1>5, FineWrite
      <4> QED  BY <4>2, <4>3, <1>2
    <3> QED  BY <3>1, <3>2
  <2>3. CASE inbox' = inbox  BY <2>2, <2>3, <1>3
  <2>4. ASSUME NEW m \in Messages, m.kind # "watch", inbox' = Append(inbox, m)
        PROVE  Fine(inbox', changes', pending', q)
    BY <2>2, <2>4, <1>1, <1>3, FineSend
  <2> QED  BY <2>3, <2>4
<1> QED  BY <1>9, <1>10, <1>11 DEF Rest

(* The steps of the environment.                                             *)
LEMMA EnvironmentKeepsRest == IInv /\ Rest /\ Environment => Rest'
<1> SUFFICES ASSUME IInv, Rest, Environment PROVE Rest'
  OBVIOUS
<1>0. /\ pending \in Seq(AllChanges) /\ inbox \in Seq(Messages)
      /\ ConfigFile \notin Paths
  BY IndexerAssumption DEF IInv, TypeOK
<1>1. ASSUME NEW p \in Paths, NEW c \in Contents \cup {Missing}, WriteFile(p, c)
      PROVE  Rest'
  BY <1>1, WriteKeepsRest DEF WriteFile
<1>2. ASSUME NEW p \in Paths, NEW c \in Contents \cup {Missing}, SaveFile(p, c)
      PROVE  Rest'
  <2>1. Save(p, c) \in Messages /\ Save(p, c).kind # "watch"
    BY <1>2 DEF SaveFile, Save, Messages
  <2>2. WriteDisk(p, c) /\ UNCHANGED server /\ inbox' = Append(inbox, Save(p, c))
    BY <1>2 DEF SaveFile
  <2> QED  BY <2>1, <2>2, WriteKeepsRest
<1> DEFINE x == Change(ConfigFile, "Changed")
<1>3. x \in AllChanges /\ x.path = ConfigFile /\ \A q : x # Change(q, "Deleted")
  BY DEF AllChanges, Change, Types
<1>4. Load \in Messages /\ Load.kind # "watch"  BY DEF Messages, Load
<1>5. ASSUME /\ pending' = Append(pending, x)
             /\ inbox' \in {inbox, Append(inbox, Load)}
             /\ UNCHANGED <<disk, unseen, server>>
      PROVE  Rest'
  <2> HIDE DEF x
  <2>1. /\ Sent(Append(pending, x))
        /\ \A q : Of(pending, q) => Of(pending', q)
    BY <1>0, <1>3, <1>5, AppendChanges DEF Rest, ReportsInv
  <2>2. \A q : Later(inbox, 0, q) => Later(inbox', 0, q)
    BY <1>0, <1>4, <1>5, LaterSent
  <2>3. changes' = changes /\ toAdd' = toAdd /\ indexed' = indexed /\ disk' = disk /\ unseen' = unseen
    BY <1>5 DEF server
  <2>4. ReportsInv'
    <3>1. SentIn(inbox')  BY <1>0, <1>4, <1>5, SentSend DEF Rest, ReportsInv
    <3> QED  BY <2>1, <2>3, <3>1, <1>5 DEF Rest, ReportsInv
  <2>5. Covered'
    <3> SUFFICES ASSUME NEW q \in Paths \ unseen PROVE Coming(q)' \/ Current(q)'
      BY <2>3 DEF Covered
    <3>1. Coming(q) => Coming(q)'  BY <2>1, <2>2, <2>3 DEF Coming
    <3>2. Current(q) => Current(q)'  BY <2>3 DEF Current
    <3> QED  BY <3>1, <3>2 DEF Rest, Covered
  <2>6. AllFine'
    <3> SUFFICES ASSUME "Created" \in EventTypes, NEW q \in Paths, disk[q] # Missing
                 PROVE  Fine(inbox', changes', pending', q)
      BY <2>3 DEF AllFine
    <3>1. Fine(inbox, changes, pending, q)  BY DEF Rest, AllFine
    <3>2. Fine(inbox, changes, pending', q)  BY <3>1, <1>0, <1>3, <1>5, FineWrite
    <3>3. Fine(Append(inbox, Load), changes, pending', q)
      BY <3>2, <1>0, <1>4, FineSend
    <3> QED  BY <3>2, <3>3, <2>3, <1>5
  <2> QED  BY <2>4, <2>5, <2>6 DEF Rest
<1>6. ASSUME NEW f \in Configs, SaveConfig(f) PROVE Rest'
  BY <1>5, <1>6 DEF SaveConfig
<1>7. ASSUME AddDefine PROVE Rest'
  BY <1>5, <1>7 DEF AddDefine
<1>8. ASSUME NEW n \in 1..Len(pending), Deliver(n) PROVE Rest'
  <2> DEFINE first == SubSeq(pending, 1, n)
             more == SubSeq(pending, n + 1, Len(pending))
             m == Watch(first)
  <2>1. first \in Seq(AllChanges)  BY <1>0, Cut
  <2>2. /\ \A q : Of(pending, q) => Of(first, q) \/ Of(more, q)
        /\ Sent(first) /\ Sent(more)
    BY <1>0, CutChanges DEF Rest, ReportsInv
  <2>3. inbox' = Append(inbox, m) /\ pending' = more  BY <1>8 DEF Deliver
  <2>4. changes' = changes /\ toAdd' = toAdd /\ indexed' = indexed /\ disk' = disk /\ unseen' = unseen
    BY <1>8 DEF Deliver, server
  <2>5. "Created" \in EventTypes =>
          \A q \in Paths : disk[q] # Missing => Fine(Append(inbox, m), changes, more, q)
    BY <1>0, FineDeliver DEF Rest, AllFine
  <2> HIDE DEF first, more
  <2>6. m \in Messages /\ m.kind = "watch" /\ m.changes = first
    BY <2>1 DEF Messages, Watch
  <2> HIDE DEF m
  <2>7. /\ \A q : Later(inbox, 0, q) => Later(inbox', 0, q)
        /\ \A q : Of(first, q) => Later(inbox', 0, q)
    BY <1>0, <2>3, <2>6, LaterSent
  <2>8. ReportsInv'
    <3>1. SentIn(inbox')  BY <1>0, <2>2, <2>3, <2>6, SentSend DEF Rest, ReportsInv
    <3> QED  BY <2>2, <2>3, <2>4, <3>1 DEF Rest, ReportsInv
  <2>9. Covered'
    <3> SUFFICES ASSUME NEW q \in Paths \ unseen PROVE Coming(q)' \/ Current(q)'
      BY <2>4 DEF Covered
    <3>1. Coming(q) => Coming(q)'  BY <2>2, <2>3, <2>4, <2>7 DEF Coming
    <3>2. Current(q) => Current(q)'  BY <2>4 DEF Current
    <3> QED  BY <3>1, <3>2 DEF Rest, Covered
  <2>10. AllFine'  BY <2>3, <2>4, <2>5 DEF AllFine
  <2> QED  BY <2>8, <2>9, <2>10 DEF Rest
<1> QED  BY <1>1, <1>2, <1>6, <1>7, <1>8 DEF Environment

(* Taking a message: what it was about is handled, at hand, or unseen.       *)
LEMMA TakeKeepsRest == IInv /\ Rest /\ (HandleSave \/ HandleLoad \/ HandleReload \/ HandleWatch) => Rest'
<1> SUFFICES ASSUME IInv, Rest, HandleSave \/ HandleLoad \/ HandleReload \/ HandleWatch
             PROVE  Rest'
  OBVIOUS
<1> DEFINE m == Head(inbox)
<1>0. /\ inbox \in Seq(Messages) /\ inbox # <<>> /\ inbox' = Tail(inbox)
      /\ changes = <<>> /\ toAdd = Nothing
      /\ UNCHANGED <<disk, pending>>
  BY DEF IInv, TypeOK, Idle, HandleSave, HandleLoad, HandleReload, HandleWatch
<1>1. m \in Messages  BY <1>0, HeadAndTail
<1>2. /\ \A q : Later(inbox, 0, q) => \/ m.kind = "watch" /\ Of(m.changes, q)
                                      \/ Later(inbox', 0, q)
      /\ SentIn(inbox') /\ (m.kind = "watch" => Sent(m.changes))
  BY <1>0, LaterTaken, SentTake DEF Rest, ReportsInv
<1>3. "Created" \in EventTypes => \A q \in Paths : disk[q] # Missing =>
         /\ Fine(inbox', <<>>, pending, q)
         /\ m.kind = "watch" => Fine(inbox', m.changes, pending, q)
  BY <1>0, FineTake DEF Rest, AllFine
<1>4. \A q \in Paths : ~Of(<<>>, q) /\ Nothing[q] = 0  BY DEF Of, Nothing
<1>5. \A q \in Paths \ unseen :
         \/ m.kind = "watch" /\ Of(m.changes, q)
         \/ Later(inbox', 0, q) \/ Of(pending, q)
         \/ Current(q)
  BY <1>0, <1>2, <1>4 DEF Rest, Covered, Coming
<1>6. CASE HandleSave
  <2>1. /\ m.kind = "save" /\ changes' = <<>>
        /\ \/ UNCHANGED <<indexed, unseen>>
           \/ /\ indexed' = [indexed EXCEPT ![m.path] = Parsed(m.content)]
              /\ unseen' = IF disk[m.path] = m.content THEN unseen \ {m.path}
                           ELSE unseen \cup {m.path}
           \/ /\ \E o \in Contents : indexed' = [indexed EXCEPT ![m.path] = Parsed(o)]
              /\ unseen' = unseen \cup {m.path}
    BY <1>0, <1>6 DEF HandleSave, UpdateDocument
  <2>2. m.path \in Paths /\ m.content \in Contents  BY <1>1, <2>1, MessageFields
  <2>3. indexed \in [Paths -> SUBSET Keys]  BY DEF IInv, TypeOK
  <2> HIDE DEF m
  <2>4. Covered'
    <3> SUFFICES ASSUME NEW q \in Paths \ unseen' PROVE Coming(q)' \/ Current(q)'
      BY DEF Covered
    <3>1. CASE indexed'[q] = indexed[q] /\ q \notin unseen
      <4>1. Later(inbox', 0, q) \/ Of(pending, q) \/ Current(q)  BY <3>1, <2>1, <1>5
      <4>2. Current(q) => Current(q)'  BY <3>1, <1>0 DEF Current
      <4> QED  BY <4>1, <4>2, <1>0 DEF Coming
    <3>2. CASE q # m.path
      <4>1. q \notin unseen /\ indexed'[q] = indexed[q]  BY <3>2, <2>1, <2>3
      <4> QED  BY <3>1, <4>1
    <3>3. CASE q = m.path /\ ~(indexed'[q] = indexed[q] /\ q \notin unseen)
      <4>1. /\ indexed' = [indexed EXCEPT ![m.path] = Parsed(m.content)]
            /\ disk[q] = m.content
        BY <3>3, <2>1
      <4>2. disk[q] # Missing  BY <4>1, <2>2, IndexerAssumption
      <4>3. indexed'[q] = Parsed(disk[q])  BY <3>3, <4>1, <2>2, <2>3
      <4> QED  BY <4>2, <4>3, <1>0 DEF Current
    <3> QED  BY <3>1, <3>2, <3>3
  <2>5. AllFine'  BY <2>1, <1>0, <1>3 DEF AllFine
  <2>6. ReportsInv'  BY <2>1, <1>0, <1>2 DEF Rest, ReportsInv, Sent
  <2> QED  BY <2>4, <2>5, <2>6 DEF Rest
<1>7. ASSUME changes' = <<>>, indexed' = indexed, unseen \subseteq unseen',
             m.kind = "watch" => unseen' = unseen \cup PathsOf(m.changes)
      PROVE  Rest'
  <2>1. m.kind = "watch" => \A q \in Paths \ unseen' : ~Of(m.changes, q)
    <3> SUFFICES ASSUME m.kind = "watch", NEW q \in Paths \ unseen' PROVE ~Of(m.changes, q)
      OBVIOUS
    <3>1. m.changes \in Seq(AllChanges)  BY <1>1, MessageFields
    <3>2. DOMAIN m.changes = 1..Len(m.changes)  BY <3>1
    <3> HIDE DEF m
    <3> QED  BY <3>2, <1>7 DEF Of, PathsOf
  <2> HIDE DEF m
  <2>2. Covered'
    <3> SUFFICES ASSUME NEW q \in Paths \ unseen' PROVE Coming(q)' \/ Current(q)'
      BY DEF Covered
    <3>1. Later(inbox', 0, q) \/ Of(pending, q) \/ Current(q)  BY <1>7, <2>1, <1>5
    <3>2. Current(q) => Current(q)'  BY <1>7, <1>0 DEF Current
    <3> QED  BY <3>1, <3>2, <1>0 DEF Coming
  <2>3. AllFine'  BY <1>7, <1>0, <1>3 DEF AllFine
  <2>4. ReportsInv'  BY <1>7, <1>0, <1>2 DEF Rest, ReportsInv, Sent
  <2> QED  BY <2>2, <2>3, <2>4 DEF Rest
<1>8. CASE HandleLoad \/ HandleReload
  <2>1. /\ changes' = <<>> /\ indexed' = indexed /\ unseen \subseteq unseen'
        /\ m.kind = "watch" => unseen' = unseen \cup PathsOf(m.changes)
    BY <1>0, <1>8 DEF HandleLoad, HandleReload
  <2> QED  BY <2>1, <1>7
<1>9. CASE HandleWatch /\ changes' = changes
  <2>1. /\ changes' = <<>> /\ indexed' = indexed /\ unseen \subseteq unseen'
        /\ unseen' = unseen \cup PathsOf(m.changes) \/ (changes' = m.changes /\ unseen' = unseen)
    BY <1>0, <1>9 DEF HandleWatch
  <2>2. m.changes = <<>> => PathsOf(m.changes) = {}  BY DEF PathsOf
  <2>3. unseen' = unseen \cup PathsOf(m.changes)  BY <2>1, <2>2
  <2> QED  BY <2>1, <2>3, <1>7
<1>10. CASE HandleWatch /\ changes' = m.changes /\ unseen' = unseen
  <2>1. m.kind = "watch" /\ indexed' = indexed
    BY <1>10 DEF HandleWatch
  <2> HIDE DEF m
  <2>2. Covered'
    <3> SUFFICES ASSUME NEW q \in Paths \ unseen PROVE Coming(q)' \/ Current(q)'
      BY <1>10 DEF Covered
    <3>1. Of(changes', q) \/ Later(inbox', 0, q) \/ Of(pending, q) \/ Current(q)
      BY <1>10, <2>1, <1>5
    <3>2. Current(q) => Current(q)'  BY <2>1, <1>0 DEF Current
    <3> QED  BY <3>1, <3>2, <1>0 DEF Coming
  <2>3. AllFine'  BY <1>10, <2>1, <1>0, <1>3 DEF AllFine
  <2>4. ReportsInv'  BY <1>10, <2>1, <1>0, <1>2 DEF Rest, ReportsInv
  <2> QED  BY <2>2, <2>3, <2>4 DEF Rest
<1>11. HandleWatch => \/ changes' = changes
                      \/ changes' = m.changes /\ unseen' = unseen
  BY DEF HandleWatch
<1> QED  BY <1>6, <1>8, <1>9, <1>10, <1>11

(* A change that the index handles without looking at the others.            *)
LEMMA StepKeepsRest ==
  ASSUME IInv, Rest, NEW p \in Paths,
         changes # <<>>, Head(changes).path = p, changes' = Tail(changes),
         UNCHANGED <<disk, inbox, pending>>,
         \A q \in Paths \ {p} :
           indexed'[q] = indexed[q] /\ toAdd'[q] = toAdd[q] /\ (q \in unseen <=> q \in unseen'),
         p \notin unseen' => Coming(p)' \/ Current(p)'
  PROVE  Rest'
<1>1. changes \in Seq(AllChanges)  BY DEF IInv, TypeOK
<1>2. ReportsInv'  BY <1>1, TailChanges DEF Rest, ReportsInv
<1>3. AllFine'
  <2> SUFFICES ASSUME "Created" \in EventTypes, NEW q \in Paths, disk[q] # Missing
               PROVE  Fine(inbox, Tail(changes), pending, q)
    BY DEF AllFine
  <2>1. Fine(inbox, changes, pending, q)  BY DEF Rest, AllFine
  <2> QED  BY <2>1, <1>1, FineStep
<1>4. Covered'
  <2> SUFFICES ASSUME NEW q \in Paths \ unseen' PROVE Coming(q)' \/ Current(q)'
    BY DEF Covered
  <2>1. CASE q # p
    <3>1. q \in Paths \ unseen  BY <2>1
    <3>2. Of(changes, q) => Of(changes', q)  BY <2>1, <1>1, TailChanges
    <3>3. Coming(q) => Coming(q)'  BY <3>2, <2>1 DEF Coming
    <3>4. Current(q) => Current(q)'  BY <2>1 DEF Current
    <3> QED  BY <3>1, <3>3, <3>4 DEF Rest, Covered
  <2> QED  BY <2>1
<1> QED  BY <1>2, <1>3, <1>4 DEF Rest

(* A file that is to be added is read later; one that is removed either does *)
(* not exist, or was made again and is yet to be reported.                   *)
LEMMA ChangeKeepsRest ==
  ASSUME SeesRecreation, IInv, Rest, NEW p \in Paths,
         HandleCreated(p) \/ HandleChanged(p) \/ HandleDeleted(p)
  PROVE  Rest'
<1>0. /\ changes \in Seq(AllChanges) /\ toAdd \in [Paths -> Nat]
      /\ indexed \in [Paths -> SUBSET Keys]
  BY DEF IInv, TypeOK
<1>1. /\ changes # <<>> /\ Head(changes).path = p /\ changes' = Tail(changes)
      /\ UNCHANGED <<disk, inbox, pending>>
  BY DEF HandleCreated, HandleChanged, HandleDeleted, Change
<1>2. \A q \in Paths \ {p} :
        indexed'[q] = indexed[q] /\ toAdd'[q] = toAdd[q] /\ (q \in unseen <=> q \in unseen')
  BY <1>0 DEF HandleCreated, HandleChanged, HandleDeleted, RemovePath
<1>3. p \notin unseen' => Coming(p)' \/ Current(p)'
  <2>1. CASE HandleCreated(p)
    <3>1. toAdd'[p] > 0  BY <2>1, <1>0 DEF HandleCreated
    <3> QED  BY <3>1 DEF Coming
  <2>2. CASE HandleChanged(p)
    <3>1. CASE disk[p] # Missing
      <4>1. toAdd'[p] > 0  BY <2>2, <3>1, <1>0 DEF HandleChanged
      <4> QED  BY <4>1 DEF Coming
    <3>2. CASE disk[p] = Missing
      <4>1. indexed'[p] = {}  BY <2>2, <1>0 DEF HandleChanged, RemovePath
      <4> QED  BY <4>1, <3>2, <1>1 DEF Current
    <3> QED  BY <3>1, <3>2
  <2>3. CASE HandleDeleted(p)
    <3>1. CASE disk[p] = Missing
      <4>1. indexed'[p] = {}  BY <2>3, <1>0 DEF HandleDeleted, RemovePath
      <4> QED  BY <4>1, <3>1, <1>1 DEF Current
    <3>2. CASE disk[p] # Missing
      <4>1. Head(changes) = Change(p, "Deleted")  BY <2>3 DEF HandleDeleted
      <4>2. Head(changes).type \in EventTypes
        BY <1>0, <1>1, TailChanges DEF Rest, ReportsInv
      <4>3. "Created" \in EventTypes
        BY <4>1, <4>2 DEF SeesRecreation, Change
      <4>4. Fine(inbox, changes, pending, p)  BY <4>3, <3>2 DEF Rest, AllFine
      <4>5. EndsWell(changes, p) => Of(Tail(changes), p)
        BY <4>1, <1>0, <1>1, TailChanges
      <4>6. Of(changes', p) \/ Later(inbox, 0, p) \/ Of(pending, p)
        BY <4>4, <4>5, <1>1 DEF Fine
      <4> QED  BY <4>6, <1>1 DEF Coming
    <3> QED  BY <3>1, <3>2
  <2> QED  BY <2>1, <2>2, <2>3
<1> QED  BY <1>1, <1>2, <1>3, StepKeepsRest

(* Adding a file records it as it is.                                        *)
LEMMA AddKeepsRest ==
  ASSUME IInv, Rest, NEW p \in Paths, AddDocument(p)
  PROVE  Rest'
<1>0. indexed \in [Paths -> SUBSET Keys] /\ toAdd \in [Paths -> Nat]
  BY DEF IInv, TypeOK
<1>1. /\ indexed' = [indexed EXCEPT ![p] = Crawled(disk[p])]
      /\ toAdd' = [toAdd EXCEPT ![p] = @ - 1] /\ unseen' = unseen \ {p}
      /\ UNCHANGED <<disk, inbox, changes, pending>>
  BY DEF AddDocument
<1>2. ReportsInv' /\ AllFine'  BY <1>1 DEF Rest, ReportsInv, AllFine
<1>3. Covered'
  <2> SUFFICES ASSUME NEW q \in Paths \ unseen' PROVE Coming(q)' \/ Current(q)'
    BY DEF Covered
  <2>1. CASE q = p
    <3>1. indexed'[p] = Crawled(disk[p])  BY <1>0, <1>1
    <3>2. Crawled(Missing) = {}  BY DEF Crawled
    <3> QED  BY <2>1, <3>1, <3>2, <1>1 DEF Current
  <2>2. CASE q # p
    <3>1. q \in Paths \ unseen /\ indexed'[q] = indexed[q] /\ toAdd'[q] = toAdd[q]
      BY <2>2, <1>0, <1>1
    <3>2. Coming(q) => Coming(q)'  BY <3>1, <1>1 DEF Coming
    <3>3. Current(q) => Current(q)'  BY <3>1, <1>1 DEF Current
    <3> QED  BY <3>1, <3>2, <3>3 DEF Rest, Covered
  <2> QED  BY <2>1, <2>2
<1> QED  BY <1>2, <1>3 DEF Rest

(* So every step keeps it.                                                   *)
LEMMA NextKeepsRest == SeesRecreation /\ IInv /\ Rest /\ [Next]_vars => Rest'
<1> SUFFICES ASSUME SeesRecreation, IInv, Rest, [Next]_vars PROVE Rest'
  OBVIOUS
<1>1. CASE Environment  BY <1>1, EnvironmentKeepsRest
<1>2. CASE HandleSave \/ HandleLoad \/ HandleReload \/ HandleWatch
  BY <1>2, TakeKeepsRest
<1>3. ASSUME NEW p \in Paths, HandleCreated(p) \/ HandleChanged(p) \/ HandleDeleted(p)
      PROVE  Rest'
  BY <1>3, ChangeKeepsRest
<1>4. ASSUME NEW p \in Paths, AddDocument(p) PROVE Rest'
  BY <1>4, AddKeepsRest
<1>5. CASE UNCHANGED vars
  <2>1. UNCHANGED <<disk, indexed, inbox, changes, toAdd, pending, unseen>>  BY <1>5 DEF vars
  <2> QED  BY <2>1 DEF Rest, ReportsInv, Covered, Coming, Current, AllFine
<1> QED  BY <1>1, <1>2, <1>3, <1>4, <1>5 DEF Next, Server

(* When nothing is on its way, the records are of the files as they are.     *)
LEMMA QuietIsCurrent == Rest /\ Quiet => \A p \in Paths \ unseen : Current(p)
<1> SUFFICES ASSUME Rest, Quiet, NEW p \in Paths \ unseen PROVE Current(p)
  OBVIOUS
<1>1. inbox = <<>> /\ pending = <<>> /\ changes = <<>> /\ toAdd[p] = 0
  BY DEF Quiet, Idle, Nothing
<1>2. ~Coming(p)  BY <1>1 DEF Coming, Of, Later
<1> QED  BY <1>2 DEF Rest, Covered

(* What the crawler finds in a file the parser finds too.                    *)
LEMMA CrawledIsParsed == \A c \in Contents : Crawled(c) \subseteq Parsed(c)
BY IndexerAssumption DEF Crawled, Parsed, Under, AllContents

(* With the findable records, the quiet index is complete.                  *)
LEMMA QuietMeansComplete == IInv /\ Rest => QuietIndexIsComplete
<1> SUFFICES ASSUME IInv, Rest, Quiet, NEW p \in Paths \ unseen
             PROVE  Crawled(disk[p]) \subseteq KeysOf(p)
  BY DEF QuietIndexIsComplete
<1>1. Current(p)  BY QuietIsCurrent
<1>2. \A k \in indexed[p] : k \in KeysOf(p)
  BY DEF IInv, TypeOK, IndexedIsFound, KeysOf
<1>3. Crawled(disk[p]) \subseteq indexed[p]
  <2>1. CASE disk[p] = Missing  BY <2>1 DEF Crawled
  <2>2. CASE disk[p] # Missing
    <3>1. disk[p] \in Contents  BY <2>2 DEF IInv, TypeOK
    <3> QED  BY <1>1, <2>2, <3>1, CrawledIsParsed DEF Current
  <2> QED  BY <2>1, <2>2
<1> QED  BY <1>2, <1>3

(* With tables that match the records, it is sound.                         *)
LEMMA QuietMeansSound == IInv /\ Rest => QuietIndexIsSound
<1> SUFFICES ASSUME IInv, Rest, Quiet, NEW p \in Paths \ (unseen \cup readded)
             PROVE  KeysOf(p) \subseteq (IF disk[p] = Missing THEN {} ELSE Parsed(disk[p]))
  BY DEF QuietIndexIsSound
<1>1. Current(p)  BY QuietIsCurrent
<1>2. KeysOf(p) \subseteq indexed[p]
  <2> SUFFICES ASSUME NEW k \in Keys, entries[<<k, p>>] > 0 PROVE k \in indexed[p]
    BY DEF KeysOf, FilesFor
  <2>1. entries[<<k, p>>] = IF k \in indexed[p] THEN 1 ELSE 0  BY DEF IInv, TablesMatchRecords
  <2> QED  BY <2>1
<1>3. CASE disk[p] = Missing  BY <1>1, <1>2, <1>3 DEF Current
<1>4. CASE disk[p] # Missing
  <2>1. disk[p] \in Contents  BY <1>4 DEF IInv, TypeOK
  <2> QED  BY <1>1, <1>2, <1>4, <2>1, CrawledIsParsed DEF Current
<1> QED  BY <1>3, <1>4

(* So both parts of the invariant always hold.                              *)
LEMMA RestHolds == SeesRecreation => (Spec => [](IInv /\ Rest))
<1> SUFFICES ASSUME SeesRecreation PROVE Spec => [](IInv /\ Rest)
  OBVIOUS
<1>1. Init => IInv /\ Rest  BY InitInv, QuietInit
<1>2. IInv /\ Rest /\ [Next]_vars => (IInv /\ Rest)'  BY NextKeepsInv, NextKeepsRest
<1> QED  BY <1>1, <1>2, PTL DEF Spec

(* For any files, contents, configurations and changes, and any order of     *)
(* saves, crawls and notifications: once nothing is left to report or handle, *)
(* every file is found under what it contains now, unless the index has not  *)
(* heard of its last change: its report was not asked for, or lost with a     *)
(* reload or an exception, or it was saved under its owner's tree.  A watcher *)
(* that reports deletions but no creations would break this.                 *)
THEOREM QuietCompleteTheorem == SeesRecreation => (Spec => []QuietIndexIsComplete)
<1>1. IInv /\ Rest => QuietIndexIsComplete  BY QuietMeansComplete
<1> QED  BY <1>1, RestHolds, PTL

(* ... and, unless it was added on top of a record, under nothing else.      *)
THEOREM QuietSoundTheorem == SeesRecreation => (Spec => []QuietIndexIsSound)
<1>1. IInv /\ Rest => QuietIndexIsSound  BY QuietMeansSound
<1> QED  BY <1>1, RestHolds, PTL

(****************************************************************************)
(* References, renaming and definitions, for any workspace and files.       *)
(****************************************************************************)

(* An analysis has trees of files.                                           *)
LoadGood(tx, n, s) == s.todo \in SUBSET Files /\ s.loaded \in SUBSET Files
Loads == INSTANCE FoldTheorems WITH Step <- LoadNext, Good <- LoadGood

\* getDependentTrees loads files of the workspace only,
LEMMA TreesAreFiles ==
  ASSUME NEW tx, NEW f \in Files
  PROVE  TreesIn(tx, f) \in SUBSET Files
<1> DEFINE K == Cardinality(Files) + 1
           base == [todo |-> {f}, known |-> {}, loaded |-> {}]
<1>1. K \in Nat /\ K \in 0..K  BY WorkspaceAssumption, FS_CardinalityType
<1>2. LoadGood(tx, 0, base)  BY DEF LoadGood
<1>3. ASSUME NEW n \in 0..(K - 1), NEW s, LoadGood(tx, n, s)
      PROVE  LoadGood(tx, n + 1, LoadNext(s, tx))
  <2>1. \A m : Declaring(m) \in SUBSET Files  BY DEF Declaring
  <2> QED  BY <1>3, <2>1 DEF LoadGood, LoadNext
<1> HIDE DEF K, base
<1>4. \A n \in 0..K : LoadGood(tx, n, Loads!Iteration(K, base, tx)[n])
  BY <1>1, <1>2, <1>3, Loads!IterationInduction
<1>5. TreesIn(tx, f) = {f} \cup Loads!Iteration(K, base, tx)[K].loaded
  BY DEF TreesIn, Loads!Iteration, Loads!Iterates, K, base
<1> QED  BY <1>1, <1>4, <1>5 DEF LoadGood

\* for every file,
LEMMA AllTreesAreFiles == \A f \in Files : Trees(f) \in SUBSET Files
BY TreesAreFiles DEF Trees

\* and after a step too.
LEMMA NextTreesAreFiles == (\A f \in Files : Trees(f) \in SUBSET Files)'
BY AllTreesAreFiles, PTL

(* analyses are of files *)
Analyses(an) == an \in [Files -> SUBSET Files]

\* getAnalysis keeps that.
LEMMA AnalyseIs ==
  ASSUME NEW an, Analyses(an), NEW f \in Files
  PROVE  Analyses(Analyse(an, f))
BY TreesAreFiles DEF Analyse, Analyses, Trees


----------------------------------------------------------------------------
(* Tokens and symbols                                                        *)

AreTexts(tx) == \A f \in Files : IsText(tx[f])

Sort(tx, t) == Item(tx, t).sort

\* where a token is, and of which sort
LEMMA TokenIs ==
  ASSUME NEW tx, NEW t \in AllTokens(tx)
  PROVE  /\ t[1] \in Files /\ t[2] \in DOMAIN tx[t[1]] /\ t = <<t[1], t[2], t[3]>>
         /\ t \in Tokens(tx, t[1])
         /\ \/ t[3] = "name" /\ Sort(tx, t) \in UnitSorts \cup MemberSorts \cup NameUses
            \/ t[3] = "unit" /\ Sort(tx, t) \in UnitUses
<1>1. PICK f \in Files : t \in Tokens(tx, f)  BY DEF AllTokens
<1>2. CASE \E i \in DOMAIN tx[f] : /\ t = <<f, i, "name">>
                                   /\ tx[f][i].sort \in UnitSorts \cup MemberSorts \cup NameUses
  BY <1>1, <1>2 DEF Sort, Item
<1>3. CASE \E i \in DOMAIN tx[f] : t = <<f, i, "unit">> /\ tx[f][i].sort \in UnitUses
  BY <1>1, <1>3 DEF Sort, Item
<1> QED  BY <1>1, <1>2, <1>3 DEF Tokens

\* a symbol is a name that declares
LEMMA SymbolIs ==
  ASSUME NEW tx, NEW s \in Symbols(tx)
  PROVE  s \in AllTokens(tx) /\ s[3] = "name" /\ Sort(tx, s) \in UnitSorts \cup MemberSorts
BY DEF Symbols, Sort, Item

\* units are found by their name, in the trees
LEMMA UnitsAre ==
  ASSUME NEW tx, AreTexts(tx), NEW T \in SUBSET Files, NEW n, NEW s \in Units(tx, T, n)
  PROVE  /\ s \in Symbols(tx) /\ s[1] \in T /\ s = <<s[1], 1, "name">>
         /\ Name(tx, s) = n /\ UnitName(tx, s[1]) = n
<1>1. PICK f \in T : s = <<f, 1, "name">> /\ UnitName(tx, f) = n  BY DEF Units
<1>2. IsText(tx[f])  BY DEF AreTexts
<1>3. 1 \in DOMAIN tx[f] /\ tx[f][1].sort \in UnitSorts  BY <1>2 DEF IsText
<1>4. s \in Tokens(tx, f)  BY <1>1, <1>3 DEF Tokens
<1>5. s \in Symbols(tx)  BY <1>1, <1>3, <1>4 DEF Symbols, AllTokens
<1>6. Name(tx, s) = n  BY <1>1 DEF Name, Item, UnitName
<1> QED  BY <1>1, <1>5, <1>6

\* members are found by their name, in their file
LEMMA MembersAre ==
  ASSUME NEW tx, NEW f \in Files, NEW n, NEW s \in Members(tx, f, n)
  PROVE  /\ s \in Symbols(tx) /\ s[1] = f /\ s[3] = "name" /\ Sort(tx, s) \in MemberSorts
         /\ Name(tx, s) = n
<1>1. PICK i \in DOMAIN tx[f] : /\ s = <<f, i, "name">>
                                /\ tx[f][i].sort \in MemberSorts /\ tx[f][i].name = n
  BY DEF Members
<1>2. s \in Tokens(tx, f)  BY <1>1 DEF Tokens
<1>3. s \in Symbols(tx)  BY <1>1, <1>2 DEF Symbols, AllTokens
<1>4. Name(tx, s) = n /\ Sort(tx, s) \in MemberSorts  BY <1>1 DEF Name, Item, Sort
<1> QED  BY <1>1, <1>3, <1>4

\* the same for what is found in the units of one name
LEMMA MembersOfAre ==
  ASSUME NEW tx, AreTexts(tx), NEW T \in SUBSET Files, NEW u, NEW n, NEW s \in MembersOf(tx, T, u, n)
  PROVE  /\ s[1] \in T /\ UnitName(tx, s[1]) = u /\ s \in Members(tx, s[1], n)
         /\ s \in Symbols(tx) /\ Name(tx, s) = n
<1>1. PICK d \in Units(tx, T, u) : s \in Members(tx, d[1], n)  BY DEF MembersOf
<1>2. d[1] \in T /\ UnitName(tx, d[1]) = u  BY UnitsAre
<1> QED  BY <1>1, <1>2, MembersAre

\* more trees, more members
LEMMA MembersOfGrow ==
  ASSUME NEW tx, NEW T, NEW V, T \subseteq V, NEW u, NEW n
  PROVE  MembersOf(tx, T, u, n) \subseteq MembersOf(tx, V, u, n)
BY DEF MembersOf, Units

Picked(tx, f, n) == {i \in DOMAIN tx[f] : tx[f][i].sort = "pick" /\ tx[f][i].name = n}
Imported(tx, f) == {i \in DOMAIN tx[f] : tx[f][i].sort = "import"}

\* what is imported by name hides what is imported with its package
LEMMA ImportsAre ==
  ASSUME NEW tx, NEW f, NEW n
  PROVE  Imports(tx, f, n) = IF Picked(tx, f, n) # {} THEN Picked(tx, f, n) ELSE Imported(tx, f)
BY DEF Imports, Picked, Imported

\* a name is the unit's own, or of an imported package
LEMMA LookupIs ==
  ASSUME NEW tx, NEW T, NEW f, NEW n
  PROVE  Lookup(tx, T, f, n) =
           IF Members(tx, f, n) # {} THEN Members(tx, f, n)
           ELSE UNION {MembersOf(tx, T, tx[f][i].unit, n) : i \in Imports(tx, f, n)}
BY DEF Lookup

\* in either case it is a symbol of that name.
LEMMA LookupAre ==
  ASSUME NEW tx, AreTexts(tx), NEW T \in SUBSET Files, NEW f \in Files, NEW n, NEW s \in Lookup(tx, T, f, n)
  PROVE  s \in Symbols(tx) /\ s[1] \in T \cup {f} /\ Name(tx, s) = n
<1>1. CASE s \in Members(tx, f, n)  BY <1>1, MembersAre
<1>2. CASE s \notin Members(tx, f, n)
  <2>1. PICK i \in Imports(tx, f, n) : s \in MembersOf(tx, T, tx[f][i].unit, n)
    BY <1>2, LookupIs
  <2> QED  BY <2>1, MembersOfAre
<1> QED  BY <1>1, <1>2

\* more trees, more of what is imported
LEMMA LookupGrows ==
  ASSUME NEW tx, NEW T, NEW V, T \subseteq V, NEW f, NEW n
  PROVE  Lookup(tx, T, f, n) \subseteq Lookup(tx, V, f, n)
<1>1. \A u : MembersOf(tx, T, u, n) \subseteq MembersOf(tx, V, u, n)  BY MembersOfGrow
<1> QED  BY <1>1, LookupIs

\* what a token stands for, by its sort
LEMMA SymbolsAtIs ==
  ASSUME NEW tx, NEW t \in AllTokens(tx), NEW T
  PROVE  /\ t[3] = "unit" => SymbolsAt(tx, T, t) = Units(tx, T, Item(tx, t).unit)
         /\ t[3] = "name" /\ Sort(tx, t) \in UnitSorts \cup MemberSorts => SymbolsAt(tx, T, t) = {t}
         /\ t[3] = "name" /\ Sort(tx, t) = "use" =>
               SymbolsAt(tx, T, t) = Lookup(tx, T, t[1], Item(tx, t).name)
         /\ t[3] = "name" /\ Sort(tx, t) \in {"scoped", "pick"} =>
               SymbolsAt(tx, T, t) = MembersOf(tx, T, Item(tx, t).unit, Item(tx, t).name)
         /\ t[3] = "name" /\ Sort(tx, t) \in {"port", "short"} => SymbolsAt(tx, T, t) = Connected(tx, T, t)
<1>1. ASSUME t[3] = "unit" PROVE SymbolsAt(tx, T, t) = Units(tx, T, Item(tx, t).unit)
  <2>1. Sort(tx, t) \in UnitUses  BY <1>1, TokenIs
  <2>2. Item(tx, t).sort # "use" /\ Item(tx, t).sort \notin {"port", "short"}  BY <2>1 DEF Sort, UnitUses
  <2> QED  BY <1>1, <2>2 DEF SymbolsAt
<1>2. ASSUME t[3] = "name", Sort(tx, t) \in UnitSorts \cup MemberSorts PROVE SymbolsAt(tx, T, t) = {t}
  BY <1>2 DEF SymbolsAt, Sort, UnitSorts, MemberSorts, PortSorts
<1>3. ASSUME t[3] = "name", Sort(tx, t) = "use"
      PROVE  SymbolsAt(tx, T, t) = Lookup(tx, T, t[1], Item(tx, t).name)
  BY <1>3 DEF SymbolsAt, Sort, UnitSorts, MemberSorts, PortSorts
<1>4. ASSUME t[3] = "name", Sort(tx, t) \in {"scoped", "pick"}
      PROVE  SymbolsAt(tx, T, t) = MembersOf(tx, T, Item(tx, t).unit, Item(tx, t).name)
  BY <1>4 DEF SymbolsAt, Sort, UnitSorts, MemberSorts, PortSorts
<1>5. ASSUME t[3] = "name", Sort(tx, t) \in {"port", "short"} PROVE SymbolsAt(tx, T, t) = Connected(tx, T, t)
  BY <1>5 DEF SymbolsAt, Sort, UnitSorts, MemberSorts, PortSorts
<1> QED  BY <1>1, <1>2, <1>3, <1>4, <1>5

(* A token's symbols are symbols of its name.                                *)
LEMMA SymbolsAtAre ==
  ASSUME NEW tx, AreTexts(tx), NEW t \in AllTokens(tx), NEW T \in SUBSET Files, NEW s \in SymbolsAt(tx, T, t)
  PROVE  s \in Symbols(tx) /\ s[1] \in T \cup {t[1]} /\ Name(tx, s) = Name(tx, t)
<1>0. /\ t[1] \in Files
      /\ \/ t[3] = "name" /\ Sort(tx, t) \in UnitSorts \cup MemberSorts \cup NameUses
         \/ t[3] = "unit"
  BY TokenIs
<1>1. CASE t[3] = "unit"
  <2>1. s \in Units(tx, T, Item(tx, t).unit)  BY <1>1, SymbolsAtIs
  <2> QED  BY <1>1, <2>1, UnitsAre DEF Name
<1>2. CASE t[3] = "name" /\ Sort(tx, t) \in UnitSorts \cup MemberSorts
  <2>1. s = t  BY <1>2, SymbolsAtIs
  <2> QED  BY <1>2, <2>1 DEF Symbols, Sort, Item
<1>3. CASE t[3] = "name" /\ Sort(tx, t) = "use"
  <2>1. s \in Lookup(tx, T, t[1], Item(tx, t).name)  BY <1>3, SymbolsAtIs
  <2>2. s \in Symbols(tx) /\ s[1] \in T \cup {t[1]} /\ Name(tx, s) = Item(tx, t).name
    BY <1>0, <2>1, LookupAre
  <2> QED  BY <1>3, <2>2 DEF Name
<1>4. CASE t[3] = "name" /\ Sort(tx, t) \in {"scoped", "pick"}
  <2>1. s \in MembersOf(tx, T, Item(tx, t).unit, Item(tx, t).name)  BY <1>4, SymbolsAtIs
  <2>2. s \in Symbols(tx) /\ s[1] \in T /\ Name(tx, s) = Item(tx, t).name
    BY <2>1, MembersOfAre
  <2> QED  BY <1>4, <2>2 DEF Name
<1>5. CASE t[3] = "name" /\ Sort(tx, t) \in {"port", "short"}
  <2>1. s \in Connected(tx, T, t)  BY <1>5, SymbolsAtIs
  <2>2. PICK u : \/ s \in MembersOf(tx, T, u, Item(tx, t).name)
                 \/ s \in Lookup(tx, T, t[1], Item(tx, t).name)
    BY <2>1 DEF Connected
  <2>3. s \in Symbols(tx) /\ s[1] \in T \cup {t[1]} /\ Name(tx, s) = Item(tx, t).name
    BY <1>0, <2>2, LookupAre, MembersOfAre
  <2> QED  BY <1>5, <2>3 DEF Name
<1> QED  BY <1>0, <1>1, <1>2, <1>3, <1>4, <1>5 DEF NameUses

(* More trees give a token more symbols.                                     *)
LEMMA SymbolsAtGrow ==
  ASSUME NEW tx, NEW t \in AllTokens(tx), NEW T, NEW V, T \subseteq V
  PROVE  SymbolsAt(tx, T, t) \subseteq SymbolsAt(tx, V, t)
<1>0. \/ t[3] = "name" /\ Sort(tx, t) \in UnitSorts \cup MemberSorts \cup NameUses
      \/ t[3] = "unit"
  BY TokenIs
<1>1. CASE t[3] = "unit"
  <2>1. Units(tx, T, Item(tx, t).unit) \subseteq Units(tx, V, Item(tx, t).unit)  BY DEF Units
  <2> QED  BY <1>1, <2>1, SymbolsAtIs
<1>2. CASE t[3] = "name" /\ Sort(tx, t) \in UnitSorts \cup MemberSorts  BY <1>2, SymbolsAtIs
<1>3. CASE t[3] = "name" /\ Sort(tx, t) = "use"  BY <1>3, SymbolsAtIs, LookupGrows
<1>4. CASE t[3] = "name" /\ Sort(tx, t) \in {"scoped", "pick"}  BY <1>4, SymbolsAtIs, MembersOfGrow
<1>5. CASE t[3] = "name" /\ Sort(tx, t) \in {"port", "short"}
  <2>1. Connected(tx, T, t) \subseteq Connected(tx, V, t)
    <3> DEFINE u == tx[t[1]][Item(tx, t).of].unit
               n == Item(tx, t).name
    <3>1. MembersOf(tx, T, u, n) \subseteq MembersOf(tx, V, u, n)  BY MembersOfGrow
    <3>2. Lookup(tx, T, t[1], n) \subseteq Lookup(tx, V, t[1], n)  BY LookupGrows
    <3> QED  BY <3>1, <3>2 DEF Connected
  <2> QED  BY <1>5, <2>1, SymbolsAtIs
<1> QED  BY <1>0, <1>1, <1>2, <1>3, <1>4, <1>5 DEF NameUses


----------------------------------------------------------------------------
(* Definitions                                                               *)

UnitsDiffer(tx) == \A f, g \in Files : f # g => UnitName(tx, f) # UnitName(tx, g)

\* a definition of a unit, when the index has the texts
LEMMA UnitFound ==
  ASSUME RefTypeOK, UnitsDiffer(text), indexedText = text,
         NEW t \in AllTokens(text), t[3] = "unit"
  PROVE  Definitions(analysis, t).found = SymbolsAt(text, Files, t)
<1> DEFINE n == Name(text, t)
           f == t[1]
           here == Analyse(analysis, f)
           local == SymbolsAt(text, here[f], t)
           search == local = {} \/ \E s \in local : IsUnit(s) /\ \A u \in local : IsUnit(u) => u[1] # f
           others == IF search THEN Declaring(n) ELSE {}
           sorts == {Item(text, s).sort : s \in local}
           more == {u \in Units(text, others, n) : local = {} \/ Item(text, u).sort \in sorts}
<1>1. f \in Files /\ n = Item(text, t).unit  BY TokenIs DEF Name
<1>2. here[f] \in SUBSET Files
  <2>1. Analyses(here)  BY <1>1, AnalyseIs DEF RefTypeOK, Analyses
  <2> QED  BY <1>1, <2>1 DEF Analyses
<1>3. Definitions(analysis, t).found = local \cup more  BY DEF Definitions
<1>4. SymbolsAt(text, Files, t) = Units(text, Files, n)  BY <1>1, SymbolsAtIs
<1>5. local = Units(text, here[f], n)
  <2> HIDE DEF here
  <2> QED  BY <1>1, SymbolsAtIs
<1> HIDE DEF here, n
<1>6. local \subseteq Units(text, Files, n)  BY <1>2, <1>5 DEF Units
<1>7. Declaring(n) \in SUBSET Files  BY DEF Declaring
<1>8. more \subseteq Units(text, Files, n)
  <2>1. others \in SUBSET Files  BY <1>7
  <2> QED  BY <2>1 DEF Units
<1>9. Units(text, Files, n) \subseteq local \cup more
  <2>1. CASE local = {}
    <3>1. others = Declaring(n)  BY <2>1
    <3>2. Units(text, Files, n) = Units(text, Declaring(n), n)  BY DEF Units, Declaring
    <3> QED  BY <2>1, <3>1, <3>2
  <2>2. CASE local # {}
    <3> HIDE DEF local
    <3>1. PICK g \in here[f] : UnitName(text, g) = n /\ <<g, 1, "name">> \in local
      BY <1>5, <2>2 DEF Units
    <3>2. ASSUME NEW h \in Files, UnitName(text, h) = n PROVE h = g
      BY <1>2, <3>1, <3>2 DEF UnitsDiffer
    <3> QED  BY <3>1, <3>2 DEF Units
  <2> QED  BY <2>1, <2>2
<1> QED  BY <1>3, <1>4, <1>6, <1>8, <1>9

----------------------------------------------------------------------------
(* References                                                                *)

\* There are finitely many symbols, so the loops over them have a bound.
LEMMA SymbolsFinite ==
  ASSUME NEW tx, AreTexts(tx)
  PROVE  IsFiniteSet(Symbols(tx)) /\ Cardinality(Symbols(tx)) \in Nat
<1> DEFINE Dom(f) == 1..Len(tx[f])
           Tok(f) == {<<f, i, "name">> : i \in Dom(f)}
           fn == [f \in Files |-> Tok(f)]
           all == {Tok(f) : f \in Files}
<1>1. ASSUME NEW f \in Files PROVE IsFiniteSet(Tok(f)) /\ DOMAIN tx[f] = Dom(f)
  <2>1. IsText(tx[f])  BY DEF AreTexts
  <2>2. Len(tx[f]) \in Nat /\ DOMAIN tx[f] = Dom(f)  BY <2>1 DEF IsText
  <2>3. IsFiniteSet(1..Len(tx[f]))  BY <2>2, FS_Interval
  <2> DEFINE h == [i \in Dom(f) |-> <<f, i, "name">>]
  <2>4. h \in Surjection(Dom(f), Tok(f))  BY DEF Surjection
  <2> HIDE DEF h
  <2>5. IsFiniteSet(Tok(f))  BY <2>3, <2>4, FS_Surjection
  <2> QED  BY <2>2, <2>5
<1>2. IsFiniteSet(all)
  <2>1. fn \in Surjection(Files, all)  BY DEF Surjection
  <2> HIDE DEF fn, all
  <2> QED  BY <2>1, WorkspaceAssumption, FS_Surjection
<1>3. IsFiniteSet(UNION all)
  <2>1. \A x \in all : IsFiniteSet(x)  BY <1>1
  <2> HIDE DEF all
  <2> QED  BY <1>2, <2>1, FS_UNION
<1>4. Symbols(tx) \in SUBSET UNION all
  <2>1. ASSUME NEW s \in Symbols(tx) PROVE s \in Tok(s[1]) /\ s[1] \in Files
    <3>1. s[1] \in Files /\ s[2] \in DOMAIN tx[s[1]] /\ s = <<s[1], s[2], s[3]>> /\ s[3] = "name"
      BY SymbolIs, TokenIs
    <3> QED  BY <1>1, <3>1
  <2> QED  BY <2>1
<1>5. IsFiniteSet(Symbols(tx))  BY <1>3, <1>4, FS_Subset
<1> QED  BY <1>5, FS_CardinalityType


\* what a token stands for in the whole workspace
LEMMA MeaningIs ==
  ASSUME NEW tx, NEW t \in AllTokens(tx)
  PROVE  Meaning(tx)[t] = SymbolsAt(tx, Files, t)
BY DEF Meaning

\* a token of that unit's name has no more than one symbol
LEMMA UnitsAlone ==
  ASSUME UnitsDiffer(text), NEW T \in SUBSET Files, NEW n
  PROVE  ~(Cardinality(Units(text, T, n)) >= 2)
<1>1. CASE Units(text, T, n) = {}  BY <1>1, FS_EmptySet
<1>2. CASE Units(text, T, n) # {}
  <2>1. PICK f \in T : UnitName(text, f) = n  BY <1>2 DEF Units
  <2>2. \A g \in T : UnitName(text, g) = n => g = f  BY <2>1 DEF UnitsDiffer
  <2>3. Units(text, T, n) = {<<f, 1, "name">>}  BY <2>1, <2>2 DEF Units
  <2>4. Cardinality(Units(text, T, n)) = 1  BY <2>3, FS_Singleton
  <2> QED  BY <2>4
<1> QED  BY <1>1, <1>2

\* more symbols, more namesakes
LEMMA NamesakesGrow ==
  ASSUME NEW c, NEW d, c \subseteq d, NEW name
  PROVE  Namesakes(c, name) \subseteq Namesakes(d, name)
BY DEF Namesakes

\* namesakes are types: they declare nothing, and join nothing
LEMMA NamesakesAre ==
  ASSUME UnitsDiffer(text), NEW c, NEW name, NEW t \in Namesakes(c, name)
  PROVE  /\ t \in AllTokens(text) /\ Name(text, t) = name /\ t \notin Symbols(text)
         /\ \A T \in SUBSET Files : ~(Cardinality(SymbolsAt(text, T, t)) >= 2)
<1>1. t \in AllTokens(text) /\ t[3] = "unit" /\ Name(text, t) = name  BY DEF Namesakes
<1>2. t \notin Symbols(text)  BY <1>1, SymbolIs
<1>3. \A T : SymbolsAt(text, T, t) = Units(text, T, Item(text, t).unit)  BY <1>1, SymbolsAtIs
<1> QED  BY <1>1, <1>2, <1>3, UnitsAlone

\* a reference to x, and not its declaration if that is not asked for
Refers(t, x, name, declaration) ==
  /\ t \in AllTokens(text) /\ Name(text, t) = name
  /\ x \in SymbolsAt(text, Files, t)
  /\ ~declaration => t \notin Symbols(text)

\* addLocalReferences finds nothing but references to the symbol.
LEMMA LocalReferencesAre ==
  ASSUME AreTexts(text), NEW an, Analyses(an), NEW f \in Files, NEW x \in Symbols(text), NEW name,
         NEW t \in LocalReferences(an, f, x, name)
  PROVE  Refers(t, x, name, TRUE) /\ t[1] = f /\ (t \in Symbols(text) => t = x)
<1>1. t \in Tokens(text, f) /\ Name(text, t) = name /\ x \in SymbolsAt(text, an[f], t)
  BY DEF LocalReferences
<1>2. t \in AllTokens(text) /\ t[1] = f  BY <1>1 DEF AllTokens, Tokens
<1>3. an[f] \in SUBSET Files  BY DEF Analyses
<1>4. x \in SymbolsAt(text, Files, t)  BY <1>1, <1>2, <1>3, SymbolsAtGrow
<1>5. ASSUME t \in Symbols(text) PROVE t = x
  <2>1. t[3] = "name" /\ Sort(text, t) \in UnitSorts \cup MemberSorts  BY <1>5, SymbolIs
  <2> QED  BY <1>1, <1>2, <2>1, SymbolsAtIs
<1> QED  BY <1>1, <1>2, <1>4, <1>5 DEF Refers

\* a symbol is its unit's or a member
LEMMA SymbolKind ==
  ASSUME AreTexts(text), NEW x \in Symbols(text)
  PROVE  /\ x[1] \in Files
         /\ IsUnit(x) => x = <<x[1], 1, "name">> /\ Name(text, x) = UnitName(text, x[1])
         /\ ~IsUnit(x) => x \in Members(text, x[1], Name(text, x))
<1>1. x \in AllTokens(text) /\ x[3] = "name" /\ Sort(text, x) \in UnitSorts \cup MemberSorts
  BY SymbolIs
<1>2. x[1] \in Files /\ x[2] \in DOMAIN text[x[1]] /\ x = <<x[1], x[2], "name">>  BY <1>1, TokenIs
<1>3. IsText(text[x[1]])  BY <1>2 DEF AreTexts
<1>4. ASSUME IsUnit(x) PROVE x = <<x[1], 1, "name">> /\ Name(text, x) = UnitName(text, x[1])
  <2>1. x[2] = 1  BY <1>4 DEF IsUnit
  <2> QED  BY <1>1, <1>2, <2>1 DEF Name, UnitName, Item
<1>5. ASSUME ~IsUnit(x) PROVE x \in Members(text, x[1], Name(text, x))
  <2>1. x[2] \in 2..Len(text[x[1]])  BY <1>2, <1>3, <1>5 DEF IsUnit, IsText
  <2>2. Sort(text, x) \in MemberSorts
    BY <1>1, <1>3, <2>1 DEF IsText, Sort, Item, UnitSorts, MemberSorts, UnitUses, NameUses
  <2> QED  BY <1>1, <1>2, <2>2 DEF Members, Sort, Item, Name
<1> QED  BY <1>2, <1>4, <1>5

\* nothing but references to the target are found
LEMMA TargetReferencesAre ==
  ASSUME AreTexts(text), NEW an, Analyses(an), NEW x \in Symbols(text), NEW name, Name(text, x) = name,
         NEW decl \in BOOLEAN
  PROVE  LET r == TargetReferences(an, x, name, decl) IN
         /\ Analyses(r.an)
         /\ \A t \in r.found : Refers(t, x, name, decl) \/ t \in Namesakes({x}, name)
<1> DEFINE f == x[1]
           here == Analyse(an, f)
           unit == Item(text, x).unit
           Known == Item(text, x).sort = "inst" /\ Units(text, here[f], unit) # {}
           local == LocalReferences(here, f, x, name) \ IF decl THEN {} ELSE {x}
<1>1. f \in Files  BY SymbolKind
<1>2. Analyses(here)  BY <1>1, AnalyseIs
<1> HIDE DEF here, Known
<1>3. \A t \in local : Refers(t, x, name, decl)
  BY <1>1, <1>2, LocalReferencesAre DEF Refers
<1> HIDE DEF local
<1>4. ASSUME IsUnit(x)
      PROVE  LET r == TargetReferences(an, x, name, decl) IN
             /\ Analyses(r.an)
             /\ \A t \in r.found : Refers(t, x, name, decl) \/ t \in Namesakes({x}, name)
  <2> DEFINE more == UNION {UnitReferences(g, text[f][1].sort, UnitName(text, f)) :
                              g \in Referencing(UnitName(text, f)) \ {f}}
  <2>0. x = <<f, 1, "name">> /\ name = UnitName(text, f)  BY <1>4, SymbolKind
  <2>1. TargetReferences(an, x, name, decl) = [an |-> here, found |-> local \cup more]
    BY <1>4 DEF TargetReferences, here, local
  <2>2. ASSUME NEW t \in more PROVE Refers(t, x, name, decl)
    <3>1. PICK g \in Files : /\ t \in Tokens(text, g) /\ t[3] = "unit"
                             /\ Name(text, t) = UnitName(text, f)
      BY <2>2 DEF UnitReferences, Referencing
    <3>2. t \in AllTokens(text)  BY <3>1 DEF AllTokens
    <3>3. SymbolsAt(text, Files, t) = Units(text, Files, UnitName(text, f))
      BY <3>1, <3>2, SymbolsAtIs DEF Name
    <3>4. x \in SymbolsAt(text, Files, t)  BY <1>1, <2>0, <3>3 DEF Units
    <3>5. t \notin Symbols(text)  BY <3>1, SymbolIs
    <3> QED  BY <2>0, <3>1, <3>2, <3>4, <3>5 DEF Refers
  <2> HIDE DEF more
  <2> QED  BY <1>2, <1>3, <2>1, <2>2
<1>6. ASSUME ~IsUnit(x), Known
      PROVE  LET r == TargetReferences(an, x, name, decl) IN
             /\ Analyses(r.an)
             /\ \A t \in r.found : Refers(t, x, name, decl) \/ t \in Namesakes({x}, name)
  <2> DEFINE more == UNION {UnitReferences(g, "module", name) : g \in Referencing(unit) \ {f}}
  <2>1. TargetReferences(an, x, name, decl) = [an |-> here, found |-> local \cup more]
    BY <1>6 DEF TargetReferences, here, local, Known
  <2>2. ASSUME NEW t \in more PROVE t \in Namesakes({x}, name)
    <3>1. PICK g \in Files : /\ g # f /\ t \in Tokens(text, g) /\ t[3] = "unit"
                             /\ Name(text, t) = name /\ Item(text, t).sort \in UsesOf("module")
      BY <2>2 DEF UnitReferences, Referencing
    <3>2. t \in AllTokens(text) /\ t[1] = g  BY <3>1 DEF AllTokens, Tokens
    <3>3. Item(text, t).sort = "inst"  BY <3>1 DEF UsesOf
    <3> QED  BY <1>6, <3>1, <3>2, <3>3 DEF Namesakes, Known
  <2> HIDE DEF more
  <2> QED  BY <1>2, <1>3, <2>1, <2>2
<1>5. ASSUME ~IsUnit(x), ~Known
      PROVE  LET r == TargetReferences(an, x, name, decl) IN
             /\ Analyses(r.an)
             /\ \A t \in r.found : Refers(t, x, name, decl) \/ t \in Namesakes({x}, name)
  <2> DEFINE P == UnitName(text, f)
             others == Referencing(P) \ {f}
             syntactic == {g \in others : /\ text[f][1].sort = "package" /\ Item(text, x).sort = "member"
                                          /\ SpelledOut(g, P)}
             after == [g \in Files |-> IF g \in others \ syntactic THEN Analyse(here, g)[g] ELSE here[g]]
             more == UNION {IF g \in syntactic THEN ScopedReferences(g, P, name)
                            ELSE LocalReferences(after, g, x, name) : g \in others}
  <2>0. x \in Members(text, f, name)  BY <1>5, SymbolKind
  <2>1. TargetReferences(an, x, name, decl) = [an |-> after, found |-> more \cup local]
    BY <1>5 DEF TargetReferences, MemberReferences, here, local, Known
  <2>2. Analyses(after)
    <3>1. \A g \in Files : Analyses(Analyse(here, g))  BY <1>2, AnalyseIs
    <3> QED  BY <1>2, <3>1 DEF Analyses
  <2> HIDE DEF after
  <2>3. ASSUME NEW t \in more PROVE Refers(t, x, name, decl)
    <3>1. PICK g \in others : t \in IF g \in syntactic THEN ScopedReferences(g, P, name)
                                    ELSE LocalReferences(after, g, x, name)
      BY <2>3
    <3>2. g \in Files /\ g # f  BY <3>1 DEF Referencing
    <3>3. ASSUME t \in ScopedReferences(g, P, name) PROVE Refers(t, x, name, decl)
      <4>1. /\ t \in Tokens(text, g) /\ t[3] = "name" /\ Sort(text, t) = "scoped"
            /\ Item(text, t).unit = P /\ Item(text, t).name = name
        BY <3>3 DEF ScopedReferences, Sort
      <4>2. t \in AllTokens(text)  BY <3>2, <4>1 DEF AllTokens
      <4>3. SymbolsAt(text, Files, t) = MembersOf(text, Files, P, name)
        BY <4>1, <4>2, SymbolsAtIs
      <4>4. <<f, 1, "name">> \in Units(text, Files, P)  BY <1>1 DEF Units
      <4>5. x \in MembersOf(text, Files, P, name)  BY <2>0, <4>4 DEF MembersOf
      <4>6. t \notin Symbols(text)  BY <4>1, SymbolIs DEF UnitSorts, MemberSorts, PortSorts
      <4> QED  BY <4>1, <4>2, <4>3, <4>5, <4>6 DEF Refers, Name
    <3>4. ASSUME t \in LocalReferences(after, g, x, name) PROVE Refers(t, x, name, decl)
      BY <2>2, <3>2, <3>4, LocalReferencesAre DEF Refers
    <3> QED  BY <3>1, <3>3, <3>4
  <2> HIDE DEF more
  <2> QED  BY <1>3, <2>1, <2>2, <2>3
<1> QED  BY <1>4, <1>5, <1>6


\* The component of a symbol, as it grows.
JoinedGood(m, n, c) == c \in SUBSET Symbols(text)
Joins == INSTANCE FoldTheorems WITH Step <- Joined, Good <- JoinedGood
Chain(t) == Joins!Iteration(Cardinality(Symbols(text)), Meaning(text)[t], Meaning(text))

\* The component is the last of the chain, and all of it are symbols.
LEMMA ChainIs ==
  ASSUME AreTexts(text), NEW t \in AllTokens(text)
  PROVE  /\ Chain(t)[0] = SymbolsAt(text, Files, t)
         /\ \A n \in 0..(Cardinality(Symbols(text)) - 1) :
               Chain(t)[n + 1] = Joined(Chain(t)[n], Meaning(text))
         /\ \A n \in 0..Cardinality(Symbols(text)) : Chain(t)[n] \in SUBSET Symbols(text)
         /\ Component(Meaning(text), t) = Chain(t)[Cardinality(Symbols(text))]
<1> DEFINE m == Meaning(text)
           K == Cardinality(Symbols(text))
<1>1. K \in Nat  BY SymbolsFinite
<1>2. m[t] = SymbolsAt(text, Files, t)  BY MeaningIs
<1>3. \A u \in DOMAIN m : m[u] \in SUBSET Symbols(text)
  <2>1. DOMAIN m = AllTokens(text)  BY DEF Meaning
  <2>2. ASSUME NEW u \in AllTokens(text) PROVE m[u] \in SUBSET Symbols(text)
    <3>1. m[u] = SymbolsAt(text, Files, u)  BY MeaningIs
    <3> QED  BY <3>1, SymbolsAtAre
  <2> QED  BY <2>1, <2>2
<1>4. Component(m, t) = Joins!Iteration(K, m[t], m)[K]
  BY DEF Component, Joins!Iteration, Joins!Iterates
<1>5. t \in DOMAIN m  BY DEF Meaning
<1> HIDE DEF m, K
<1>6. JoinedGood(m, 0, m[t])  BY <1>3, <1>5 DEF JoinedGood
<1>7. \A n \in 0..(K - 1) : \A c : JoinedGood(m, n, c) => JoinedGood(m, n + 1, Joined(c, m))
  BY <1>3 DEF JoinedGood, Joined
<1>8. \A n \in 0..K : JoinedGood(m, n, Joins!Iteration(K, m[t], m)[n])
  BY <1>1, <1>6, <1>7, Joins!IterationInduction
<1>9. /\ Joins!Iteration(K, m[t], m)[0] = m[t]
      /\ \A n \in 0..(K - 1) :
            Joins!Iteration(K, m[t], m)[n + 1] = Joined(Joins!Iteration(K, m[t], m)[n], m)
  BY <1>1, Joins!IterationIs
<1> QED  BY <1>2, <1>4, <1>8, <1>9 DEF Chain, JoinedGood, m, K

\* each of the chain is within the later ones
GrowGood(q, n, c) == c = q.chain[n] /\ \A j \in 0..n : q.chain[j] \subseteq c
JoinedIn(c, q) == Joined(c, q.meaning)
Grows == INSTANCE FoldTheorems WITH Step <- JoinedIn, Good <- GrowGood

\* so all that is ever joined is of the component
LEMMA ChainGrows ==
  ASSUME AreTexts(text), NEW t \in AllTokens(text), NEW n \in 0..Cardinality(Symbols(text))
  PROVE  Chain(t)[n] \subseteq Component(Meaning(text), t)
<1> DEFINE K == Cardinality(Symbols(text))
           q == [meaning |-> Meaning(text), chain |-> Chain(t)]
           base == Chain(t)[0]
<1>1. K \in Nat /\ K \in 0..K  BY SymbolsFinite
<1>2. q.meaning = Meaning(text) /\ q.chain = Chain(t)  OBVIOUS
<1>3. \A j \in 0..(K - 1) : Chain(t)[j + 1] = Joined(Chain(t)[j], Meaning(text))  BY ChainIs
<1> HIDE DEF K, q
<1>4. GrowGood(q, 0, base)  BY <1>2 DEF GrowGood
<1>5. ASSUME NEW j \in 0..(K - 1), NEW c, GrowGood(q, j, c)
      PROVE  GrowGood(q, j + 1, JoinedIn(c, q))
  <2>1. c = Chain(t)[j] /\ JoinedIn(c, q) = Chain(t)[j + 1]
    BY <1>2, <1>3, <1>5 DEF GrowGood, JoinedIn
  <2>2. c \subseteq JoinedIn(c, q)  BY DEF JoinedIn, Joined
  <2>3. \A i \in 0..(j + 1) : i \in 0..j \/ i = j + 1  OBVIOUS
  <2> QED  BY <1>2, <1>5, <2>1, <2>2, <2>3 DEF GrowGood
<1> HIDE DEF base
<1>6. \A j \in 0..K : GrowGood(q, j, Grows!Iteration(K, base, q)[j])
  BY <1>1, <1>4, <1>5, Grows!IterationInduction
<1>7. \A j \in 0..K : Chain(t)[j] \subseteq Chain(t)[K]  BY <1>1, <1>2, <1>6 DEF GrowGood
<1> QED  BY <1>7, ChainIs DEF K

\* a token of the name that was asked for, joined to what was asked for
Occurs(t, asked, c) ==
  /\ t \in AllTokens(text) /\ Name(text, t) = asked.name
  /\ SymbolsAt(text, Files, t) \cap c # {}
  /\ ~asked.declaration => t \notin Symbols(text)

\* asked: the token, its name, and whether declarations are wanted
FollowGood(asked, n, s) ==
  /\ Analyses(s.an)
  /\ s.done \subseteq s.targets
  /\ s.targets \subseteq Chain(asked.token)[n]
  /\ \A x \in s.targets : x \in Symbols(text) /\ Name(text, x) = asked.name
  /\ \A t \in s.refs : \/ /\ Occurs(t, asked, Chain(asked.token)[n])
                           /\ SymbolsAt(text, Files, t) \cap s.targets # {}
                        \/ t \in Namesakes(s.targets, asked.name)
Follows == INSTANCE FoldTheorems WITH Step <- Follow, Good <- FollowGood

\* One target of the loop of getDocReferences keeps to the component.
LEMMA FollowIs ==
  ASSUME AreTexts(text), UnitsDiffer(text), NEW asked, asked.token \in AllTokens(text), asked.declaration \in BOOLEAN,
         NEW q, q.name = asked.name, q.declaration = asked.declaration,
         NEW n \in 0..(Cardinality(Symbols(text)) - 1), NEW s, FollowGood(asked, n, s)
  PROVE  FollowGood(asked, n + 1, Follow(s, q))
<1> DEFINE c == Chain(asked.token)[n]
           d == Chain(asked.token)[n + 1]
<1>1. d = Joined(c, Meaning(text))  BY ChainIs
<1>2. c \subseteq d  BY <1>1 DEF Joined
<1>3. ASSUME NEW t \in AllTokens(text), SymbolsAt(text, Files, t) \cap c # {}
      PROVE  SymbolsAt(text, Files, t) \subseteq d
  <2>1. t \in DOMAIN Meaning(text) /\ Meaning(text)[t] = SymbolsAt(text, Files, t)
    BY MeaningIs DEF Meaning
  <2> QED  BY <1>1, <1>3, <2>1 DEF Joined
<1> HIDE DEF c, d
<1>4. /\ Analyses(s.an) /\ s.done \subseteq s.targets /\ s.targets \subseteq c
      /\ \A x \in s.targets : x \in Symbols(text) /\ Name(text, x) = asked.name
      /\ \A t \in s.refs : \/ Occurs(t, asked, c) /\ SymbolsAt(text, Files, t) \cap s.targets # {}
                           \/ t \in Namesakes(s.targets, asked.name)
  BY DEF FollowGood, c
<1>5. \A t : Occurs(t, asked, c) => Occurs(t, asked, d)  BY <1>2 DEF Occurs
<1>6. CASE s.targets = s.done
  <2>1. Follow(s, q) = s  BY <1>6 DEF Follow
  <2> QED  BY <1>2, <1>4, <1>5, <2>1 DEF FollowGood, d
<1>7. CASE s.targets # s.done
  <2>1. PICK x : x = CHOOSE target \in s.targets \ s.done : TRUE  OBVIOUS
  <2>2. x \in s.targets  BY <1>4, <1>7, <2>1
  <2>3. PICK r : r = TargetReferences(s.an, x, asked.name, asked.declaration)  OBVIOUS
  <2>4. x \in Symbols(text) /\ Name(text, x) = asked.name  BY <1>4, <2>2
  <2>5. /\ Analyses(r.an)
        /\ \A t \in r.found : Refers(t, x, asked.name, asked.declaration) \/ t \in Namesakes({x}, asked.name)
    BY <1>4, <2>3, <2>4, TargetReferencesAre
  <2>6. Follow(s, q) = [an |-> r.an, done |-> s.done \cup {x},
                            targets |-> s.targets \cup Join(r.an, r.found),
                            refs |-> s.refs \cup r.found]
    BY <1>7, <2>1, <2>3 DEF Follow
  <2>7. \A t \in r.found : \/ Occurs(t, asked, c) /\ SymbolsAt(text, Files, t) \cap s.targets # {}
                           \/ t \in Namesakes(s.targets, asked.name)
    <3>1. Namesakes({x}, asked.name) \subseteq Namesakes(s.targets, asked.name)  BY <2>2, NamesakesGrow
    <3> QED  BY <1>4, <2>2, <2>5, <3>1 DEF Refers, Occurs
  <2>8. ASSUME NEW y \in Join(r.an, r.found)
        PROVE  y \in d /\ y \in Symbols(text) /\ Name(text, y) = asked.name
    <3>1. PICK t \in r.found : /\ y \in SymbolsAt(text, r.an[t[1]], t)
                              /\ Cardinality(SymbolsAt(text, r.an[t[1]], t)) >= 2
      BY DEF Join
    <3>0. t \in AllTokens(text) /\ Name(text, t) = asked.name
      BY <2>7, <3>1, NamesakesAre DEF Occurs
    <3>3. r.an[t[1]] \in SUBSET Files  BY <2>5, <3>0, TokenIs DEF Analyses
    <3>5. t \notin Namesakes(s.targets, asked.name)  BY <3>1, <3>3, NamesakesAre
    <3>2. /\ t \in AllTokens(text) /\ Name(text, t) = asked.name
          /\ SymbolsAt(text, Files, t) \cap c # {}
      BY <2>7, <3>0, <3>1, <3>5 DEF Occurs
    <3>4. y \in SymbolsAt(text, Files, t)  BY <3>1, <3>2, <3>3, SymbolsAtGrow
    <3> QED  BY <1>3, <3>2, <3>4, SymbolsAtAre
  <2>9. PICK z : z = Follow(s, q)  OBVIOUS
  <2>10. /\ Analyses(z.an)
         /\ z.done \subseteq z.targets /\ z.targets \subseteq d
         /\ \A y \in z.targets : y \in Symbols(text) /\ Name(text, y) = asked.name
         /\ \A t \in z.refs : \/ Occurs(t, asked, d) /\ SymbolsAt(text, Files, t) \cap z.targets # {}
                              \/ t \in Namesakes(z.targets, asked.name)
    <3>1. s.targets \subseteq z.targets  BY <2>6, <2>9
    <3>2. Namesakes(s.targets, asked.name) \subseteq Namesakes(z.targets, asked.name)  BY <3>1, NamesakesGrow
    <3>3. /\ Analyses(z.an)
          /\ z.done \subseteq z.targets /\ z.targets \subseteq d
          /\ \A y \in z.targets : y \in Symbols(text) /\ Name(text, y) = asked.name
      BY <1>2, <1>4, <2>2, <2>5, <2>6, <2>8, <2>9
    <3>4. ASSUME NEW t \in z.refs
          PROVE  \/ Occurs(t, asked, d) /\ SymbolsAt(text, Files, t) \cap z.targets # {}
                 \/ t \in Namesakes(z.targets, asked.name)
      <4>1. t \in s.refs \/ t \in r.found  BY <2>6, <2>9
      <4>2. \/ Occurs(t, asked, c) /\ SymbolsAt(text, Files, t) \cap s.targets # {}
            \/ t \in Namesakes(s.targets, asked.name)
        BY <1>4, <2>7, <4>1
      <4> QED  BY <1>5, <3>1, <3>2, <4>2
    <3> QED  BY <3>3, <3>4
  <2> QED  BY <2>9, <2>10 DEF FollowGood, d
<1> QED  BY <1>6, <1>7

(* What is returned are occurrences of the name in question, joined to what  *)
(* was asked for, and analyses stay of files.                                *)
LEMMA ReferencesAre ==
  ASSUME AreTexts(text), UnitsDiffer(text), NEW an, Analyses(an), NEW t \in AllTokens(text), NEW decl \in BOOLEAN
  PROVE  LET s == References(an, t, decl)
             c == Component(Meaning(text), t)
         IN  /\ Analyses(s.an)
             /\ \A u \in s.refs : /\ u \in Occurrences(Meaning(text), c, decl) \cup Namesakes(c, Name(text, t))
                                  /\ u \in AllTokens(text) /\ Name(text, u) = Name(text, t)
<1> DEFINE K == Cardinality(Symbols(text))
           first == Analyse(an, t[1])
           q == [name |-> Name(text, t), declaration |-> decl]
           asked == [token |-> t, name |-> Name(text, t), declaration |-> decl]
           base == [an |-> first, refs |-> {}, done |-> {},
                    targets |-> SymbolsAt(text, first[t[1]], t)]
<1>1. K \in Nat /\ K \in 0..K  BY SymbolsFinite
<1>2. t[1] \in Files /\ Analyses(first)  BY TokenIs, AnalyseIs
<1>3. References(an, t, decl) = Follows!Iteration(K, base, q)[K]
  BY DEF References, Follows!Iteration, Follows!Iterates
<1>4. q.name = asked.name /\ q.declaration = asked.declaration /\ asked.token = t /\ asked.name = Name(text, t) /\ asked.declaration = decl  OBVIOUS
<1>5. FollowGood(asked, 0, base)
  <2> HIDE DEF first, asked
  <2>1. first[t[1]] \in SUBSET Files  BY <1>2 DEF Analyses
  <2>2. \A x \in SymbolsAt(text, first[t[1]], t) :
          /\ x \in SymbolsAt(text, Files, t)
          /\ x \in Symbols(text) /\ Name(text, x) = Name(text, t)
    BY <2>1, SymbolsAtAre, SymbolsAtGrow
  <2>3. Chain(asked.token)[0] = SymbolsAt(text, Files, t)  BY <1>4, ChainIs
  <2> QED  BY <1>2, <1>4, <2>2, <2>3 DEF FollowGood
<1> HIDE DEF K, base, asked, q
<1>6. \A n \in 0..(K - 1) : \A x : FollowGood(asked, n, x) => FollowGood(asked, n + 1, Follow(x, q))
  BY <1>4, FollowIs DEF K
<1>7. \A n \in 0..K : FollowGood(asked, n, Follows!Iteration(K, base, q)[n])
  BY <1>1, <1>5, <1>6, Follows!IterationInduction
<1>8. PICK s : s = References(an, t, decl)  OBVIOUS
<1>9. FollowGood(asked, K, s)  BY <1>1, <1>3, <1>7, <1>8
<1>10. Component(Meaning(text), t) = Chain(t)[K] /\ Chain(t)[K] \in SUBSET Symbols(text)
  BY <1>1, ChainIs DEF K
<1>11. ASSUME NEW u \in s.refs
       PROVE  /\ u \in Occurrences(Meaning(text), Chain(t)[K], decl) \cup Namesakes(Chain(t)[K], Name(text, t))
              /\ u \in AllTokens(text) /\ Name(text, u) = Name(text, t)
  <2>a. s.targets \subseteq Chain(t)[K]  BY <1>4, <1>9 DEF FollowGood
  <2>b. CASE u \in Namesakes(s.targets, asked.name)
    <3>1. u \in Namesakes(Chain(t)[K], Name(text, t))  BY <1>4, <2>a, <2>b, NamesakesGrow
    <3> QED  BY <3>1, NamesakesAre
  <2> SUFFICES ASSUME u \notin Namesakes(s.targets, asked.name)
               PROVE  /\ u \in Occurrences(Meaning(text), Chain(t)[K], decl)
                      /\ u \in AllTokens(text) /\ Name(text, u) = Name(text, t)
    BY <2>b
  <2>1. Occurs(u, asked, Chain(t)[K])  BY <1>4, <1>9 DEF FollowGood
  <2>2. /\ u \in AllTokens(text) /\ Name(text, u) = Name(text, t)
        /\ SymbolsAt(text, Files, u) \cap Chain(t)[K] # {}
        /\ ~decl => u \notin Symbols(text)
    BY <1>4, <2>1 DEF Occurs
  <2>3. u \in DOMAIN Meaning(text) /\ Meaning(text)[u] = SymbolsAt(text, Files, u)
    BY <2>2, MeaningIs DEF Meaning
  <2> QED  BY <1>10, <2>2, <2>3 DEF Occurrences
<1>12. Analyses(s.an)  BY <1>9 DEF FollowGood
<1> QED  BY <1>8, <1>10, <1>11, <1>12


----------------------------------------------------------------------------
(* The invariant                                                             *)

\* A text is one of the workspace, up to names that are new.
Derived(tx, ty) ==
  /\ DOMAIN tx = DOMAIN ty
  /\ \A i \in DOMAIN ty : /\ tx[i].sort = ty[i].sort /\ tx[i].of = ty[i].of
                          /\ tx[i].name \in {ty[i].name} \cup NewNames
                          /\ tx[i].unit \in {ty[i].unit} \cup NewNames
FromWorkspace(tx, f) == IsText(tx) /\ MembersDiffer(tx) /\ \E ty \in workspace[f] : Derived(tx, ty)

\* What a unit is used as depends on its sort.
UsesFit(tx) == \A f, g \in Files : AreUses(tx[g], tx[f][1])

RefInv ==
  /\ RefTypeOK
  /\ UnitsDiffer(text) /\ UsesFit(text)
  /\ \A f \in Files : FromWorkspace(text[f], f)

\* the texts after a renaming
NewTexts(tx, new, tokens, name) ==
  /\ DOMAIN new = Files /\ AreTexts(new) /\ \A f \in Files : DOMAIN new[f] = DOMAIN tx[f]
  /\ \A f \in Files : \A i \in DOMAIN tx[f] :
       /\ new[f][i].sort = tx[f][i].sort /\ new[f][i].of = tx[f][i].of
       /\ new[f][i].name = IF <<f, i, "name">> \in tokens THEN name ELSE tx[f][i].name
       /\ new[f][i].unit = IF <<f, i, "unit">> \in tokens THEN name ELSE tx[f][i].unit

\* the texts after a renaming are texts, with the same items
LEMMA RenamedAreTexts ==
  ASSUME NEW tx, AreTexts(tx), NEW tokens, NEW name
  PROVE  NewTexts(tx, Renamed(tx, tokens, name), tokens, name)
<1> DEFINE new == Renamed(tx, tokens, name)
           it(f, i) == [tx[f][i] EXCEPT
                          !.name = IF <<f, i, "name">> \in tokens THEN name ELSE @,
                          !.unit = IF <<f, i, "unit">> \in tokens THEN name ELSE @]
<1>1. DOMAIN new = Files /\ \A f \in Files : new[f] = [i \in DOMAIN tx[f] |-> it(f, i)]
  BY DEF Renamed
<1>2. ASSUME NEW f \in Files, NEW i \in DOMAIN tx[f]
      PROVE  /\ DOMAIN it(f, i) = {"sort", "unit", "name", "of"}
             /\ it(f, i).sort = tx[f][i].sort /\ it(f, i).of = tx[f][i].of
             /\ it(f, i).name = IF <<f, i, "name">> \in tokens THEN name ELSE tx[f][i].name
             /\ it(f, i).unit = IF <<f, i, "unit">> \in tokens THEN name ELSE tx[f][i].unit
  <2>1. DOMAIN tx[f][i] = {"sort", "unit", "name", "of"}  BY DEF AreTexts, IsText
  <2> QED  BY <2>1
<1>3. ASSUME NEW f \in Files PROVE IsText(new[f])
  <2>1. IsText(tx[f])  BY DEF AreTexts
  <2> DEFINE n == Len(tx[f])
  <2>2. n \in Nat \ {0} /\ DOMAIN tx[f] = 1..n  BY <2>1 DEF IsText
  <2>3. new[f] = [i \in 1..n |-> it(f, i)]  BY <1>1, <2>2
  <2> HIDE DEF it, new
  <2>4. Len(new[f]) = n /\ DOMAIN new[f] = 1..n  BY <2>2, <2>3
  <2>5. \A i \in 1..n : new[f][i] = it(f, i)  BY <2>3
  <2>6. ASSUME NEW i \in 1..n
        PROVE  /\ DOMAIN new[f][i] = {"sort", "unit", "name", "of"}
               /\ new[f][i].sort = tx[f][i].sort /\ new[f][i].of = tx[f][i].of
    <3>1. new[f][i] = it(f, i) /\ i \in DOMAIN tx[f]  BY <2>2, <2>5
    <3>2. /\ DOMAIN it(f, i) = {"sort", "unit", "name", "of"}
          /\ it(f, i).sort = tx[f][i].sort /\ it(f, i).of = tx[f][i].of
      BY <1>2, <3>1
    <3> QED  BY <3>1, <3>2
  <2> HIDE DEF n
  <2>8. 1 \in 1..n /\ 2..n \subseteq 1..n  BY <2>2
  <2> QED  BY <2>1, <2>2, <2>4, <2>6, <2>8 DEF IsText, n
<1> HIDE DEF it, new
<1>4. ASSUME NEW f \in Files, NEW i \in DOMAIN tx[f]
      PROVE  i \in DOMAIN new[f] /\ new[f][i] = it(f, i)
  BY <1>1
<1> QED  BY <1>1, <1>2, <1>3, <1>4 DEF AreTexts, NewTexts, new


\* each file has its old text, or one that a change gave it
ChangedGood(c, n, s) ==
  /\ DOMAIN s.text = Files /\ Analyses(s.analysis)
  /\ \A f \in Files : \/ s.text[f] = c[2][f] /\ \A i \in 1..n : c[1][i].file # f
                      \/ \E i \in 1..n : c[1][i].file = f /\ s.text[f] = c[1][i].text
Notices == INSTANCE FoldTheorems WITH Step <- Changed, Good <- ChangedGood

\* after the changes of several documents each has its last text
LEMMA ChangeAllIs ==
  ASSUME RefTypeOK, NEW S, NEW q \in Seq(S), ChangeAll(q), \A i \in DOMAIN q : q[i].file \in Files
  PROVE  /\ DOMAIN text' = Files /\ analysis' \in [Files -> SUBSET Files] /\ open' \in SUBSET Files
         /\ edits' \in 0..MaxEdits /\ UNCHANGED <<workspace, indexedText>>
         /\ \A f \in Files : \/ text'[f] = text[f] /\ \A i \in DOMAIN q : q[i].file # f
                             \/ \E i \in DOMAIN q : q[i].file = f /\ text'[f] = q[i].text
<1> DEFINE base == [text |-> text, analysis |-> analysis]
           c == <<q, text>>
<1>1. Len(q) \in Nat /\ DOMAIN q = 1..Len(q)  OBVIOUS
<1>2. ChangedGood(c, 0, base)  BY DEF ChangedGood, RefTypeOK, Analyses
<1>3. ASSUME NEW n \in 0..(Len(q) - 1), NEW x, ChangedGood(c, n, x)
      PROVE  ChangedGood(c, n + 1, Changed(x, q[n + 1]))
  <2>1. PICK f : f = q[n + 1].file  OBVIOUS
  <2>2. n + 1 \in DOMAIN q /\ f \in Files  BY <1>1, <2>1
  <2>3. PICK tx : tx = [x.text EXCEPT ![f] = q[n + 1].text]  OBVIOUS
  <2>4. PICK y : y = Changed(x, q[n + 1])  OBVIOUS
  <2>5. /\ y.text = tx
        /\ y.analysis = [g \in Files |-> IF g = f THEN TreesIn(tx, f)
                                     ELSE IF f \in x.analysis[g] THEN {} ELSE x.analysis[g]]
    BY <2>1, <2>3, <2>4 DEF Changed
  <2>6. DOMAIN x.text = Files /\ Analyses(x.analysis)  BY <1>3 DEF ChangedGood
  <2>7. DOMAIN tx = Files /\ tx[f] = q[n + 1].text /\ \A g \in Files \ {f} : tx[g] = x.text[g]
    BY <2>2, <2>3, <2>6
  <2>8. Analyses(y.analysis)  BY <2>2, <2>5, <2>6, TreesAreFiles DEF Analyses
  <2>9. ASSUME NEW g \in Files
        PROVE  \/ tx[g] = text[g] /\ \A i \in 1..(n + 1) : q[i].file # g
               \/ \E i \in 1..(n + 1) : q[i].file = g /\ tx[g] = q[i].text
    <3>1. CASE g = f  BY <2>1, <2>7, <3>1
    <3>2. CASE g # f
      <4>1. tx[g] = x.text[g] /\ q[n + 1].file # g  BY <2>1, <2>7, <3>2
      <4>2. CASE \E i \in 1..n : q[i].file = g /\ x.text[g] = q[i].text  BY <4>1, <4>2
      <4>3. CASE x.text[g] = text[g] /\ \A i \in 1..n : q[i].file # g
        <5>1. \A i \in 1..(n + 1) : i \in 1..n \/ i = n + 1  OBVIOUS
        <5> QED  BY <4>1, <4>3, <5>1
      <4> QED  BY <1>3, <4>2, <4>3 DEF ChangedGood
    <3> QED  BY <3>1, <3>2
  <2> QED  BY <2>4, <2>5, <2>7, <2>8, <2>9 DEF ChangedGood
<1>4. ChangedGood(c, Len(q), FoldLeft(Changed, base, q))
  <2>1. \A n \in 0..(Len(q) - 1) : \A x : ChangedGood(c, n, x) => ChangedGood(c, n + 1, Changed(x, q[n + 1]))
    BY <1>3
  <2> HIDE DEF base, c
  <2>2. ChangedGood(c, Len(q), Notices!FoldLeft(Changed, base, q))
    BY <1>2, <2>1, Notices!FoldInduction
  <2>3. Notices!FoldLeft(Changed, base, q) = FoldLeft(Changed, base, q)
    BY DEF Notices!FoldLeft, FoldLeft, Notices!MapThenFoldSet, MapThenFoldSet, Notices!Max, Max
  <2> QED  BY <2>2, <2>3
<1> HIDE DEF base, c
<1>5. PICK z : z = FoldLeft(Changed, base, q)  OBVIOUS
<1>6. /\ text' = z.text /\ analysis' = z.analysis
      /\ open' = open \cup {q[i].file : i \in DOMAIN q}
      /\ edits < MaxEdits /\ edits' = edits + 1 /\ UNCHANGED <<workspace, indexedText>>
  BY <1>5 DEF ChangeAll, base
<1>7. /\ DOMAIN z.text = Files /\ Analyses(z.analysis)
      /\ \A f \in Files : \/ z.text[f] = text[f] /\ \A i \in 1..Len(q) : q[i].file # f
                          \/ \E i \in 1..Len(q) : q[i].file = f /\ z.text[f] = q[i].text
  BY <1>4, <1>5 DEF ChangedGood, c
<1>8. edits' \in 0..MaxEdits  BY <1>6, WorkspaceAssumption DEF RefTypeOK
<1>9. open' \in SUBSET Files  BY <1>6 DEF RefTypeOK
<1> QED  BY <1>1, <1>6, <1>7, <1>8, <1>9 DEF Analyses

\* the rest is about the texts only
LEMMA SameTextsKeep ==
  ASSUME RefInv, RefTypeOK', UNCHANGED <<workspace, text>>
  PROVE  RefInv'
<1>1. (UnitsDiffer(text) /\ UsesFit(text))'  BY DEF RefInv, UnitsDiffer, UsesFit, UnitName
<1>2. (\A f \in Files : FromWorkspace(text[f], f))'  BY DEF RefInv, FromWorkspace
<1> QED  BY <1>1, <1>2 DEF RefInv

\* new texts that are of the workspace and fit together
LEMMA ChangesKeep ==
  ASSUME RefInv, NEW S, NEW q \in Seq(S), ChangeAll(q),
         \A i \in DOMAIN q : q[i].file \in Files /\ FromWorkspace(q[i].text, q[i].file),
         UnitsDiffer(text'), UsesFit(text')
  PROVE  RefInv'
<1>1. /\ DOMAIN text' = Files /\ analysis' \in [Files -> SUBSET Files] /\ open' \in SUBSET Files
      /\ edits' \in 0..MaxEdits /\ UNCHANGED <<workspace, indexedText>>
      /\ \A f \in Files : \/ text'[f] = text[f]
                          \/ \E i \in DOMAIN q : q[i].file = f /\ text'[f] = q[i].text
  BY ChangeAllIs DEF RefInv
<1>2. \A f \in Files : FromWorkspace(text[f], f)  BY DEF RefInv
<1>3. \A f \in Files : FromWorkspace(text'[f], f)  BY <1>1, <1>2
<1>4. RefTypeOK'  BY <1>1, <1>3 DEF RefInv, RefTypeOK, FromWorkspace
<1>5. (\A f \in Files : FromWorkspace(text[f], f))'  BY <1>1, <1>3 DEF FromWorkspace
<1>6. UnitsDiffer(text)' /\ UsesFit(text)'  BY DEF UnitsDiffer, UsesFit, UnitName
<1> QED  BY <1>4, <1>5, <1>6 DEF RefInv

\* texts of the workspace: no names are new, and the rest fits
LEMMA WorkspaceTexts ==
  ASSUME RefTypeOK, NEW f \in Files, NEW tx \in workspace[f]
  PROVE  /\ IsText(tx) /\ 1 \in DOMAIN tx /\ MembersDiffer(tx) /\ FromWorkspace(tx, f)
         /\ \A i \in DOMAIN tx : tx[i].name \notin NewNames /\ tx[i].unit \notin NewNames
         /\ \A g \in Files : \A ty \in workspace[g] :
              AreUses(tx, ty[1]) /\ (f # g => tx[1].name # ty[1].name)
<1>1. workspace \in Workspaces  BY DEF RefTypeOK
<1>2. /\ IsText(tx) /\ MembersDiffer(tx)
      /\ \A i \in DOMAIN tx : {tx[i].name, tx[i].unit} \cap NewNames = {}
      /\ \A g \in Files : \A ty \in workspace[g] : AreUses(tx, ty[1])
  BY <1>1, WorkspaceAssumption
<1>3. 1 \in DOMAIN tx  BY <1>2 DEF IsText
<1>4. Derived(tx, tx)  BY DEF Derived
<1>5. ASSUME NEW g \in Files, NEW ty \in workspace[g], f # g PROVE tx[1].name # ty[1].name
  <2>1. {x[1].name : x \in workspace[f]} \cap {x[1].name : x \in workspace[g]} = {}
    BY <1>1, <1>5, WorkspaceAssumption
  <2> QED  BY <2>1
<1> QED  BY <1>2, <1>3, <1>4, <1>5 DEF FromWorkspace

\* The same between a text of the workspace and one that is derived from one.
LEMMA DerivedFits ==
  ASSUME RefInv, NEW f \in Files, NEW tx \in workspace[f], NEW g \in Files
  PROVE  /\ f # g => tx[1].name # UnitName(text, g)
         /\ AreUses(tx, text[g][1]) /\ AreUses(text[g], tx[1])
<1>1. RefTypeOK /\ FromWorkspace(text[g], g)  BY DEF RefInv
<1>2. PICK ty \in workspace[g] : Derived(text[g], ty)  BY <1>1 DEF FromWorkspace
<1>3. /\ 1 \in DOMAIN tx /\ 1 \in DOMAIN ty
      /\ \A i \in DOMAIN tx : tx[i].name \notin NewNames /\ tx[i].unit \notin NewNames
      /\ AreUses(tx, ty[1]) /\ AreUses(ty, tx[1]) /\ (f # g => tx[1].name # ty[1].name)
  BY <1>1, WorkspaceTexts
<1>4. text[g][1].sort = ty[1].sort /\ text[g][1].name \in {ty[1].name} \cup NewNames
  BY <1>2, <1>3 DEF Derived
<1>5. f # g => tx[1].name # UnitName(text, g)  BY <1>3, <1>4 DEF UnitName
<1>6. AreUses(tx, text[g][1])  BY <1>3, <1>4 DEF AreUses
<1>7. AreUses(text[g], tx[1])
  <2> SUFFICES ASSUME NEW i \in DOMAIN text[g], text[g][i].sort \in UnitUses, text[g][i].unit = tx[1].name
               PROVE  text[g][i].sort \in UsesOf(tx[1].sort)
    BY DEF AreUses
  <2>1. i \in DOMAIN ty /\ text[g][i].sort = ty[i].sort /\ text[g][i].unit \in {ty[i].unit} \cup NewNames
    BY <1>2 DEF Derived
  <2>2. ty[i].unit = tx[1].name  BY <1>3, <2>1
  <2> QED  BY <1>3, <2>1, <2>2 DEF AreUses
<1> QED  BY <1>5, <1>6, <1>7

\* An edit of the user gives a text of the workspace.
LEMMA EditKeeps ==
  ASSUME RefInv, NEW f \in Files, NEW tx \in workspace[f], Edit(f, tx)
  PROVE  RefInv'
<1> DEFINE q == <<[file |-> f, text |-> tx]>>
<1>1. ChangeAll(q)  BY DEF Edit
<1>2. q \in Seq({[file |-> f, text |-> tx]}) /\ DOMAIN q = {1} /\ q[1].file = f /\ q[1].text = tx
  OBVIOUS
<1>3. FromWorkspace(tx, f) /\ AreUses(tx, tx[1])  BY WorkspaceTexts DEF RefInv
<1> HIDE DEF q
<1>4. \A g \in Files : text'[g] = text[g] \/ (g = f /\ text'[g] = tx)
  <2>1. \A g \in Files : \/ text'[g] = text[g]
                         \/ \E i \in DOMAIN q : q[i].file = g /\ text'[g] = q[i].text
    BY <1>1, <1>2, ChangeAllIs DEF RefInv
  <2> QED  BY <1>2, <2>1
<1>5. UnitsDiffer(text')
  <2> SUFFICES ASSUME NEW g \in Files, NEW h \in Files, g # h PROVE text'[g][1].name # text'[h][1].name
    BY DEF UnitsDiffer, UnitName
  <2>1. text[g][1].name # text[h][1].name  BY DEF RefInv, UnitsDiffer, UnitName
  <2>2. \A k \in Files : k # f => tx[1].name # text[k][1].name
    BY DerivedFits DEF UnitName
  <2> QED  BY <1>4, <2>1, <2>2
<1>6. UsesFit(text')
  <2> SUFFICES ASSUME NEW g \in Files, NEW h \in Files PROVE AreUses(text'[h], text'[g][1])
    BY DEF UsesFit
  <2>1. AreUses(text[h], text[g][1])  BY DEF RefInv, UsesFit
  <2>2. AreUses(tx, text[g][1]) /\ AreUses(text[h], tx[1])  BY DerivedFits
  <2> QED  BY <1>3, <1>4, <2>1, <2>2
<1> QED  BY <1>1, <1>2, <1>3, <1>5, <1>6, ChangesKeep

\* The tokens stay, and get the new name or keep theirs.
LEMMA RenamedNames ==
  ASSUME NEW new, NEW R, NEW name, NewTexts(text, new, R, name)
  PROVE  /\ AllTokens(new) = AllTokens(text)
         /\ \A u \in AllTokens(text) :
              /\ Sort(new, u) = Sort(text, u) /\ Item(new, u).of = Item(text, u).of
              /\ Name(new, u) = IF u \in R THEN name ELSE Name(text, u)
<1>1. ASSUME NEW f \in Files PROVE Tokens(new, f) = Tokens(text, f)
  BY DEF Tokens, NewTexts
<1>2. ASSUME NEW u \in AllTokens(text)
      PROVE  /\ Sort(new, u) = Sort(text, u) /\ Item(new, u).of = Item(text, u).of
             /\ Name(new, u) = IF u \in R THEN name ELSE Name(text, u)
  <2>1. /\ u[1] \in Files /\ u[2] \in DOMAIN text[u[1]] /\ u = <<u[1], u[2], u[3]>>
        /\ u[3] \in {"name", "unit"}
    BY TokenIs
  <2>2. PICK f \in Files : f = u[1]  BY <2>1
  <2>5. PICK i \in DOMAIN text[f] : i = u[2]  BY <2>1, <2>2
  <2>3. CASE u[3] = "name"
    <3>1. u = <<f, i, "name">>  BY <2>1, <2>2, <2>3, <2>5
    <3>2. \A tx : Item(tx, u) = tx[f][i] /\ Name(tx, u) = tx[f][i].name
      BY <2>2, <2>3, <2>5 DEF Item, Name
    <3>3. /\ new[f][i].sort = text[f][i].sort /\ new[f][i].of = text[f][i].of
          /\ new[f][i].name = IF <<f, i, "name">> \in R THEN name ELSE text[f][i].name
      BY DEF NewTexts
    <3> QED  BY <3>1, <3>2, <3>3 DEF Sort
  <2>4. CASE u[3] = "unit"
    <3>1. u = <<f, i, "unit">>  BY <2>1, <2>2, <2>4, <2>5
    <3>2. \A tx : Item(tx, u) = tx[f][i] /\ Name(tx, u) = tx[f][i].unit
      BY <2>2, <2>4, <2>5 DEF Item, Name
    <3>3. /\ new[f][i].sort = text[f][i].sort /\ new[f][i].of = text[f][i].of
          /\ new[f][i].unit = IF <<f, i, "unit">> \in R THEN name ELSE text[f][i].unit
      BY DEF NewTexts
    <3> QED  BY <3>1, <3>2, <3>3 DEF Sort
  <2> QED  BY <2>1, <2>3, <2>4
<1>3. AllTokens(new) = AllTokens(text)  BY <1>1 DEF AllTokens
<1> QED  BY <1>2, <1>3

\* tokens of one name get a name that no token has
IsRenaming(new, R, old, name) ==
  /\ NewTexts(text, new, R, name)
  /\ R \subseteq AllTokens(text) /\ \A u \in R : Name(text, u) = old
  /\ \A u \in AllTokens(text) : Name(text, u) # name

\* so names do not fall together,
LEMMA RenamedApart ==
  ASSUME NEW new, NEW R, NEW old, NEW name, IsRenaming(new, R, old, name),
         NEW u \in AllTokens(text), NEW v \in AllTokens(text), Name(new, u) = Name(new, v)
  PROVE  Name(text, u) = Name(text, v)
BY RenamedNames DEF IsRenaming

\* and what holds of the texts holds of the new ones.
LEMMA RenamedFit ==
  ASSUME RefInv, NEW new, NEW R, NEW old, NEW name \in NewNames, IsRenaming(new, R, old, name)
  PROVE  UnitsDiffer(new) /\ UsesFit(new) /\ \A f \in Files : FromWorkspace(new[f], f)
<1>1. NewTexts(text, new, R, name)  BY DEF IsRenaming
<1>2. AreTexts(text) /\ AreTexts(new)  BY <1>1 DEF RefInv, RefTypeOK, AreTexts, NewTexts
<1> DEFINE N(f, i) == <<f, i, "name">>
           U(f, i) == <<f, i, "unit">>
<1>3. ASSUME NEW tx, AreTexts(tx), NEW f \in Files
      PROVE  /\ 1 \in DOMAIN tx[f] /\ tx[f][1].sort \in UnitSorts /\ N(f, 1) \in AllTokens(tx)
             /\ Name(tx, N(f, 1)) = UnitName(tx, f)
             /\ \A i \in DOMAIN tx[f] : tx[f][i].sort \in MemberSorts =>
                  N(f, i) \in AllTokens(tx) /\ Name(tx, N(f, i)) = tx[f][i].name
             /\ \A i \in DOMAIN tx[f] : tx[f][i].sort \in UnitUses =>
                  U(f, i) \in AllTokens(tx) /\ Name(tx, U(f, i)) = tx[f][i].unit
  <2>1. IsText(tx[f])  BY <1>3 DEF AreTexts
  <2>2. 1 \in DOMAIN tx[f] /\ tx[f][1].sort \in UnitSorts  BY <2>1 DEF IsText
  <2>3. ASSUME NEW i \in DOMAIN tx[f], tx[f][i].sort \in UnitSorts \cup MemberSorts
        PROVE  N(f, i) \in AllTokens(tx) /\ Name(tx, N(f, i)) = tx[f][i].name
    <3>1. N(f, i) \in Tokens(tx, f)  BY <2>3 DEF Tokens
    <3> QED  BY <3>1 DEF AllTokens, Name, Item
  <2>4. ASSUME NEW i \in DOMAIN tx[f], tx[f][i].sort \in UnitUses
        PROVE  U(f, i) \in AllTokens(tx) /\ Name(tx, U(f, i)) = tx[f][i].unit
    <3>1. U(f, i) \in Tokens(tx, f)  BY <2>4 DEF Tokens
    <3> QED  BY <3>1 DEF AllTokens, Name, Item
  <2> QED  BY <2>2, <2>3, <2>4 DEF UnitName
<1>4. AllTokens(new) = AllTokens(text)  BY <1>1, RenamedNames
<1>5. \A f \in Files : /\ DOMAIN new[f] = DOMAIN text[f]
                       /\ \A i \in DOMAIN text[f] : new[f][i].sort = text[f][i].sort
  BY <1>1 DEF NewTexts
<1>6. \A u, v \in AllTokens(text) : Name(new, u) = Name(new, v) => Name(text, u) = Name(text, v)
  BY RenamedApart
<1> HIDE DEF N, U
<1>7. UnitsDiffer(new)
  <2> SUFFICES ASSUME NEW f \in Files, NEW g \in Files, f # g PROVE UnitName(new, f) # UnitName(new, g)
    BY DEF UnitsDiffer
  <2>1. UnitName(text, f) # UnitName(text, g)  BY DEF RefInv, UnitsDiffer
  <2> QED  BY <1>2, <1>3, <1>4, <1>6, <2>1
<1>8. UsesFit(new)
  <2> SUFFICES ASSUME NEW f \in Files, NEW g \in Files, NEW i \in DOMAIN new[g],
                      new[g][i].sort \in UnitUses, new[g][i].unit = new[f][1].name
               PROVE  new[g][i].sort \in UsesOf(new[f][1].sort)
    BY DEF UsesFit, AreUses
  <2>1. Name(new, U(g, i)) = Name(new, N(f, 1))  BY <1>2, <1>3 DEF UnitName
  <2>2. text[g][i].sort \in UnitUses /\ i \in DOMAIN text[g]  BY <1>5
  <2>3. text[g][i].unit = text[f][1].name  BY <1>2, <1>3, <1>6, <2>1, <2>2 DEF UnitName
  <2>4. text[g][i].sort \in UsesOf(text[f][1].sort)  BY <2>2, <2>3 DEF RefInv, UsesFit, AreUses
  <2>5. 1 \in DOMAIN text[f]  BY <1>2, <1>3
  <2> QED  BY <1>5, <2>2, <2>4, <2>5
<1>9. ASSUME NEW f \in Files PROVE FromWorkspace(new[f], f)
  <2>1. MembersDiffer(new[f])
    <3> SUFFICES ASSUME NEW i \in DOMAIN new[f], NEW j \in DOMAIN new[f],
                        {new[f][i].sort, new[f][j].sort} \subseteq MemberSorts, new[f][i].name = new[f][j].name
                 PROVE  i = j
      BY DEF MembersDiffer
    <3>1. Name(new, N(f, i)) = Name(new, N(f, j))  BY <1>2, <1>3
    <3>2. /\ i \in DOMAIN text[f] /\ j \in DOMAIN text[f]
          /\ text[f][i].sort \in MemberSorts /\ text[f][j].sort \in MemberSorts
      BY <1>5
    <3>3. text[f][i].name = text[f][j].name  BY <1>2, <1>3, <1>6, <3>1, <3>2
    <3> QED  BY <3>2, <3>3 DEF RefInv, FromWorkspace, MembersDiffer
  <2>2. PICK ty \in workspace[f] : Derived(text[f], ty)  BY DEF RefInv, FromWorkspace
  <2>3. Derived(new[f], ty)
    <3>1. DOMAIN new[f] = DOMAIN ty  BY <1>5, <2>2 DEF Derived
    <3> SUFFICES ASSUME NEW i \in DOMAIN ty
                 PROVE  /\ new[f][i].sort = ty[i].sort /\ new[f][i].of = ty[i].of
                        /\ new[f][i].name \in {ty[i].name} \cup NewNames
                        /\ new[f][i].unit \in {ty[i].unit} \cup NewNames
      BY <3>1 DEF Derived
    <3>2. /\ i \in DOMAIN text[f] /\ text[f][i].sort = ty[i].sort /\ text[f][i].of = ty[i].of
          /\ text[f][i].name \in {ty[i].name} \cup NewNames
          /\ text[f][i].unit \in {ty[i].unit} \cup NewNames
      BY <2>2 DEF Derived
    <3>3. /\ new[f][i].sort = text[f][i].sort /\ new[f][i].of = text[f][i].of
          /\ new[f][i].name \in {text[f][i].name, name} /\ new[f][i].unit \in {text[f][i].unit, name}
      BY <1>1, <3>2 DEF NewTexts
    <3> QED  BY <3>2, <3>3
  <2> QED  BY <1>2, <2>1, <2>2, <2>3 DEF FromWorkspace, AreTexts
<1> QED  BY <1>7, <1>8, <1>9

\* what a renaming leads to
LEMMA RenamingIs ==
  ASSUME RefInv, NEW t \in AllTokens(text), NEW name, \A u \in AllTokens(text) : Name(text, u) # name
  PROVE  LET refs == References(analysis, t, TRUE).refs IN
         IsRenaming(RenamedBy(t, name), refs, Name(text, t), name)
<1>1. AreTexts(text) /\ Analyses(analysis) /\ UnitsDiffer(text)
  BY DEF RefInv, RefTypeOK, AreTexts, Analyses
<1>2. PICK r : r = References(analysis, t, TRUE)  OBVIOUS
<1>3. \A u \in r.refs : u \in AllTokens(text) /\ Name(text, u) = Name(text, t)
  BY <1>1, <1>2, ReferencesAre, ZenonT(60)
<1>4. r.refs \subseteq AllTokens(text)  BY <1>3
<1>5. NewTexts(text, RenamedBy(t, name), r.refs, name)  BY <1>1, <1>2, RenamedAreTexts DEF RenamedBy
<1> QED  BY <1>2, <1>3, <1>4, <1>5 DEF IsRenaming

\* A renaming, sent in any order, ends with the renamed texts.
LEMMA RenameKeeps ==
  ASSUME RefInv, NEW t \in AllTokens(text), NEW name \in NewNames, Rename(t, name)
  PROVE  RefInv'
<1>1. PICK new : new = RenamedBy(t, name)  OBVIOUS
<1>2. PICK order \in SetToSeqs({f \in Files : new[f] # text[f]}) :
        ChangeAll([i \in DOMAIN order |-> [file |-> order[i], text |-> new[order[i]]]])
  BY <1>1 DEF Rename
<1>3. UnitsDiffer(new) /\ UsesFit(new) /\ \A f \in Files : FromWorkspace(new[f], f)
  <2>1. \A u \in AllTokens(text) : Name(text, u) # name  BY DEF Rename
  <2>2. IsRenaming(new, References(analysis, t, TRUE).refs, Name(text, t), name)
    BY <1>1, <2>1, RenamingIs
  <2> QED  BY <2>2, RenamedFit
<1> DEFINE q == [i \in DOMAIN order |-> [file |-> order[i], text |-> new[order[i]]]]
           S == {f \in Files : new[f] # text[f]}
           P == {[file |-> f, text |-> new[f]] : f \in S}
           D == 1..Cardinality(S)
<1>4. Cardinality(S) \in Nat /\ IsFiniteSet(S)
  BY WorkspaceAssumption, FS_Subset, FS_CardinalityType
<1>5. order \in [D -> S] /\ \A i, j \in D : i # j => order[i] # order[j]
  BY <1>2 DEF SetToSeqs
<1>6. ChangeAll(q) /\ S \in SUBSET Files  BY <1>2
<1>7. \A f \in S : \E i \in DOMAIN order : order[i] = f
  <2> HIDE DEF S
  <2>1. order \in Injection(D, S)  BY <1>5 DEF Injection, IsInjective
  <2>2. Cardinality(D) = Cardinality(S)  BY <1>4, FS_Interval
  <2> HIDE DEF D
  <2>3. order \in Surjection(D, S)  BY <1>4, <2>1, <2>2, FS_Injection
  <2>4. \A f \in S : \E i \in D : order[i] = f  BY <2>3 DEF Surjection
  <2>5. DOMAIN order = D  BY <1>5
  <2> QED  BY <2>4, <2>5
<1>8. /\ q \in Seq(P) /\ DOMAIN q = DOMAIN order
      /\ \A i \in DOMAIN q : q[i].file = order[i] /\ q[i].file \in S /\ q[i].text = new[q[i].file]
  <2> HIDE DEF S
  <2>1. q \in [1..Cardinality(S) -> P]  BY <1>5
  <2> QED  BY <1>4, <1>5, <2>1
<1>9. \A f \in Files : f \notin S => new[f] = text[f]  OBVIOUS
<1> HIDE DEF q, S, P, D
<1>10. \A f \in Files : text'[f] = new[f]
  <2>1. \A f \in Files : \/ text'[f] = text[f] /\ \A i \in DOMAIN q : q[i].file # f
                         \/ \E i \in DOMAIN q : q[i].file = f /\ text'[f] = q[i].text
    BY <1>6, <1>8, ChangeAllIs DEF RefInv
  <2>2. TAKE f \in Files
  <2>3. CASE f \in S
    <3>1. \E i \in DOMAIN q : q[i].file = f  BY <1>7, <1>8, <2>3
    <3> QED  BY <1>8, <2>1, <3>1
  <2>4. CASE f \notin S
    <3>1. \A i \in DOMAIN q : q[i].file # f  BY <1>8, <2>4
    <3> QED  BY <1>9, <2>1, <2>4, <3>1
  <2> QED  BY <2>3, <2>4
<1>11. UnitsDiffer(text') /\ UsesFit(text')
  BY <1>3, <1>10 DEF UnitsDiffer, UsesFit, UnitName
<1>12. \A i \in DOMAIN q : q[i].file \in Files /\ FromWorkspace(q[i].text, q[i].file)
  BY <1>3, <1>6, <1>8
<1> QED  BY <1>6, <1>8, <1>11, <1>12, ChangesKeep

\* Queries change analyses only.
LEMMA QueriesKeep ==
  ASSUME RefInv, NEW t \in AllTokens(text), FindReferences(t) \/ FindDefinitions(t)
  PROVE  RefInv'
<1>0. AreTexts(text) /\ Analyses(analysis) /\ UnitsDiffer(text)
  BY DEF RefInv, RefTypeOK, AreTexts, Analyses
<1>1. analysis' \in [Files -> SUBSET Files]
  <2>1. CASE FindReferences(t)
    <3>1. Analyses(References(analysis, t, TRUE).an)  BY <1>0, ReferencesAre
    <3> QED  BY <2>1, <3>1 DEF FindReferences, Analyses
  <2>2. CASE FindDefinitions(t)
    <3> DEFINE here == Analyse(analysis, t[1])
    <3>1. t[1] \in Files /\ Analyses(here)  BY <1>0, TokenIs, AnalyseIs
    <3> HIDE DEF here
    <3>2. PICK G : Definitions(analysis, t).an = [g \in Files |-> IF g \in G THEN Analyse(here, g)[g] ELSE here[g]]
      BY DEF Definitions, here
    <3>3. \A g \in Files : Analyses(Analyse(here, g))  BY <3>1, AnalyseIs
    <3> QED  BY <2>2, <3>1, <3>2, <3>3 DEF FindDefinitions, Analyses
  <2> QED  BY <2>1, <2>2
<1>2. UNCHANGED <<workspace, text, indexedText, open, edits>>
  BY DEF FindReferences, FindDefinitions
<1> QED  BY <1>1, <1>2, SameTextsKeep DEF RefInv, RefTypeOK

\* It holds at the start,
LEMMA RefInitHolds == RefInit => RefInv
<1> SUFFICES ASSUME RefInit PROVE RefInv  OBVIOUS
<1>1. workspace \in Workspaces /\ DOMAIN text = Files /\ \A f \in Files : text[f] \in workspace[f]
  BY DEF RefInit
<1>2. \A f \in Files : IsText(text[f])  BY <1>1, WorkspaceAssumption
<1>3. RefTypeOK
  BY <1>1, <1>2, WorkspaceAssumption DEF RefInit, RefTypeOK
<1>4. UnitsDiffer(text)  BY <1>1, <1>3, WorkspaceTexts DEF UnitsDiffer, UnitName
<1>5. UsesFit(text)  BY <1>1, <1>3, WorkspaceTexts DEF UsesFit
<1>6. \A f \in Files : FromWorkspace(text[f], f)  BY <1>1, <1>3, WorkspaceTexts
<1> QED  BY <1>3, <1>4, <1>5, <1>6 DEF RefInv

\* and every step keeps it.
LEMMA RefNextKeeps == RefInv /\ [RefNext]_refVars => RefInv'
<1> SUFFICES ASSUME RefInv, [RefNext]_refVars PROVE RefInv'  OBVIOUS
<1>1. ASSUME NEW f \in Files, Open(f) PROVE RefInv'
  <2>1. Analyses(Analyse(analysis, f))  BY AnalyseIs DEF RefInv, RefTypeOK, Analyses
  <2>2. RefTypeOK'  BY <1>1, <2>1 DEF Open, Analyses, RefInv, RefTypeOK
  <2> QED  BY <1>1, <2>2, SameTextsKeep DEF Open
<1>2. ASSUME NEW f \in Files, SaveText(f) PROVE RefInv'
  <2>1. \A g \in Files : Trees(g)' \in SUBSET Files  BY NextTreesAreFiles
  <2>2. analysis' \in [Files -> SUBSET Files]
    BY <1>2, <2>1 DEF SaveText, RefInv, RefTypeOK
  <2>3. UNCHANGED <<workspace, text, open, edits>> /\ indexedText' = [indexedText EXCEPT ![f] = text[f]]
    BY <1>2 DEF SaveText
  <2>4. RefTypeOK'  BY <2>2, <2>3 DEF RefInv, RefTypeOK
  <2> QED  BY <2>3, <2>4, SameTextsKeep
<1>3. CASE UNCHANGED refVars
  <2>1. RefTypeOK'  BY <1>3 DEF refVars, RefInv, RefTypeOK
  <2> QED  BY <1>3, <2>1, SameTextsKeep DEF refVars
<1> QED  BY <1>1, <1>2, <1>3, EditKeeps, RenameKeeps, QueriesKeep DEF RefNext

----------------------------------------------------------------------------
(* The trees of an analysis are a closure                                    *)

\* a package or an interface is looked into for more
LooksInto(g) == text[g][1].sort \in {"package", "interface"}
\* what the trees refer to, as in TreesAreClosure
Needed(f, S) == {f} \cup UNION {UNION {Declaring(n) : n \in Referenced(text, g)} : g \in S}
Opened(f, s) == {g \in {f} \cup s.loaded : g = f \/ LooksInto(g)}
ClosedUnder(f, S) == f \in S /\ \A h \in Needed(f, S) : LooksInto(h) => h \in S

\* the trees so far
ClosureGood(f, n, s) ==
  /\ s.todo \in SUBSET Files /\ s.loaded \in SUBSET Files /\ s.todo \subseteq Opened(f, s)
  /\ s.todo = {} \/ n + Cardinality(s.todo) <= Cardinality(s.loaded) + 1
  /\ s.loaded \subseteq Needed(f, Opened(f, s))
  /\ \A m \in s.known : Declaring(m) \subseteq {f} \cup s.loaded
  /\ \A g \in Opened(f, s) \ s.todo : Referenced(text, g) \subseteq s.known
  /\ \A S : ClosedUnder(f, S) => Opened(f, s) \subseteq S
Closes == INSTANCE FoldTheorems WITH Step <- LoadNext, Good <- ClosureGood

\* files are finitely many
LEMMA FilesCount ==
  \A S \in SUBSET Files : /\ IsFiniteSet(S) /\ Cardinality(S) \in Nat
                          /\ Cardinality(S) <= Cardinality(Files)
<1> SUFFICES ASSUME NEW S \in SUBSET Files
             PROVE  /\ IsFiniteSet(S) /\ Cardinality(S) \in Nat
                    /\ Cardinality(S) <= Cardinality(Files)
  OBVIOUS
<1>1. IsFiniteSet(S) /\ Cardinality(S) <= Cardinality(Files)  BY WorkspaceAssumption, FS_Subset
<1> QED  BY <1>1, FS_CardinalityType

\* One tree of the loop of getDependentTrees keeps the invariant of that loop:
LEMMA ClosureStep ==
  ASSUME ~IndexMisnames, NEW f \in Files, NEW n \in Nat, NEW s, ClosureGood(f, n, s)
  PROVE  ClosureGood(f, n + 1, LoadNext(s, text))
<1>0. /\ s.todo \in SUBSET Files /\ s.loaded \in SUBSET Files /\ s.todo \subseteq Opened(f, s)
      /\ s.todo = {} \/ n + Cardinality(s.todo) <= Cardinality(s.loaded) + 1
      /\ s.loaded \subseteq Needed(f, Opened(f, s))
      /\ \A m \in s.known : Declaring(m) \subseteq {f} \cup s.loaded
      /\ \A g \in Opened(f, s) \ s.todo : Referenced(text, g) \subseteq s.known
      /\ \A S : ClosedUnder(f, S) => Opened(f, s) \subseteq S
  BY DEF ClosureGood
<1>1. CASE s.todo = {}
  <2>1. LoadNext(s, text) = s  BY <1>1 DEF LoadNext
  <2> QED  BY <1>0, <1>1, <2>1 DEF ClosureGood
<1>2. CASE s.todo # {}
  <2>1. PICK g : g = CHOOSE h \in s.todo : TRUE  OBVIOUS
  <2>2. g \in s.todo /\ g \in Files /\ g \in Opened(f, s) /\ g \in {f} \cup s.loaded
    BY <1>0, <1>2, <2>1 DEF Opened
  <2>3. PICK known : known = s.known \cup {UnitName(text, g)}  OBVIOUS
  <2>17. PICK declared : declared = UNION {Declaring(m) : m \in Referenced(text, g) \ known}  OBVIOUS
  <2>4. PICK new : new = declared \ s.loaded  OBVIOUS
  <2>5. PICK more : more = {h \in new : LooksInto(h)}  OBVIOUS
  <2>6. PICK z : z = LoadNext(s, text)  OBVIOUS
  <2>7. /\ z.todo = (s.todo \ {g}) \cup more
        /\ z.known = known \cup Referenced(text, g)
        /\ z.loaded = s.loaded \cup new
    BY <1>2, <2>1, <2>17, <2>3, <2>4, <2>5, <2>6 DEF LoadNext, LooksInto
  <2>8. \A m : Declaring(m) \in SUBSET Files  BY DEF Declaring
  <2>9. /\ new \in SUBSET Files /\ more \in SUBSET new /\ new \cap s.loaded = {}
        /\ z.todo \in SUBSET Files /\ z.loaded \in SUBSET Files
    <3>1. new \in SUBSET Files
      <4>1. \A h \in new : \E m : h \in Declaring(m)  BY <2>4, <2>17
      <4> QED  BY <2>8, <4>1
    <3>2. more \in SUBSET new  BY <2>5
    <3>3. new \cap s.loaded = {}  BY <2>4
    <3> QED  BY <1>0, <2>7, <3>1, <3>2, <3>3
  <2>10. Opened(f, z) = Opened(f, s) \cup more  BY <2>5, <2>7 DEF Opened
  <2>11. z.todo \subseteq Opened(f, z)  BY <1>0, <2>7, <2>10
  <2>12. n + 1 + Cardinality(z.todo) <= Cardinality(z.loaded) + 1
    <3>1. Cardinality(s.todo \ {g}) = Cardinality(s.todo) - 1
      BY <1>0, <2>2, FilesCount, FS_RemoveElement
    <3>2. Cardinality(z.loaded) = Cardinality(s.loaded) + Cardinality(new)
      <4>1. s.loaded \cap new = {} /\ IsFiniteSet(s.loaded) /\ IsFiniteSet(new)
        BY <1>0, <2>9, FilesCount
      <4>2. Cardinality(s.loaded \cup new)
              = Cardinality(s.loaded) + Cardinality(new) - Cardinality(s.loaded \cap new)
        BY <4>1, FS_Union
      <4> QED  BY <1>0, <2>7, <2>9, <4>1, <4>2, FilesCount, FS_EmptySet
    <3>3. /\ IsFiniteSet(s.todo \ {g}) /\ IsFiniteSet(more)
          /\ Cardinality(more) <= Cardinality(new)
      BY <1>0, <2>9, FilesCount, FS_Subset
    <3>4. Cardinality((s.todo \ {g}) \cup more)
            = Cardinality(s.todo \ {g}) + Cardinality(more) - Cardinality((s.todo \ {g}) \cap more)
      BY <3>3, FS_Union
    <3>5. /\ Cardinality((s.todo \ {g}) \cap more) \in Nat /\ Cardinality(more) \in Nat
          /\ Cardinality(new) \in Nat /\ Cardinality(s.todo) \in Nat /\ Cardinality(s.loaded) \in Nat
      <4>1. (s.todo \ {g}) \cap more \in SUBSET Files /\ more \in SUBSET Files  BY <1>0, <2>9
      <4> QED  BY <1>0, <2>9, <4>1, FilesCount
    <3> QED  BY <1>0, <1>2, <2>7, <3>1, <3>2, <3>3, <3>4, <3>5
  <2>13. z.loaded \subseteq Needed(f, Opened(f, z))
    <3>1. new \subseteq Needed(f, Opened(f, s))  BY <2>2, <2>4, <2>17 DEF Needed
    <3>2. Needed(f, Opened(f, s)) \subseteq Needed(f, Opened(f, z))  BY <2>10 DEF Needed
    <3> QED  BY <1>0, <2>7, <3>1, <3>2
  <2>14. \A m \in z.known : Declaring(m) \subseteq {f} \cup z.loaded
    <3>1. ASSUME NEW h \in Declaring(UnitName(text, g)) PROVE h = g
      <4>1. h \in Files /\ UnitName(indexedText, h) = UnitName(text, g)  BY <3>1 DEF Declaring
      <4> QED  BY <2>2, <4>1 DEF IndexMisnames
    <3>2. \A m \in known : Declaring(m) \subseteq {f} \cup z.loaded
      BY <1>0, <2>2, <2>3, <2>7, <3>1
    <3>3. ASSUME NEW m \in Referenced(text, g) \ known PROVE Declaring(m) \subseteq z.loaded
      <4>1. Declaring(m) \subseteq declared  BY <2>17
      <4> QED  BY <2>4, <2>7, <4>1
    <3> QED  BY <2>7, <3>2, <3>3
  <2>15. \A h \in Opened(f, z) \ z.todo : Referenced(text, h) \subseteq z.known
    <3>1. s.known \subseteq z.known /\ Referenced(text, g) \subseteq z.known  BY <2>3, <2>7
    <3>2. \A h \in Opened(f, z) \ z.todo : h = g \/ h \in Opened(f, s) \ s.todo
      BY <2>7, <2>10
    <3> QED  BY <1>0, <3>1, <3>2
  <2>16. ASSUME NEW S, ClosedUnder(f, S) PROVE Opened(f, z) \subseteq S
    <3>1. g \in S  BY <1>0, <2>2, <2>16
    <3>2. new \subseteq Needed(f, S)  BY <2>4, <2>17, <3>1 DEF Needed
    <3>3. more \subseteq S  BY <2>5, <2>16, <3>2 DEF ClosedUnder
    <3> QED  BY <1>0, <2>10, <2>16, <3>3
  <2> QED  BY <2>6, <2>9, <2>11, <2>12, <2>13, <2>14, <2>15, <2>16 DEF ClosureGood
<1> QED  BY <1>1, <1>2

\* the trees that are looked into
Into(f) == {g \in Trees(f) : g = f \/ LooksInto(g)}

\* it ends with nothing to look at, and has the closure.
LEMMA ClosureIs ==
  ASSUME ~IndexMisnames, NEW f \in Files
  PROVE  /\ Needed(f, Into(f)) = Trees(f)
         /\ \A S : ClosedUnder(f, S) => Into(f) \subseteq S
<1> DEFINE K == Cardinality(Files) + 1
           base == [todo |-> {f}, known |-> {}, loaded |-> {}]
<1>1. K \in Nat /\ K \in 0..K /\ Cardinality(Files) \in Nat  BY FilesCount
<1>2. ClosureGood(f, 0, base)
  <2>1. Cardinality({f}) = 1 /\ Cardinality({}) = 0  BY FS_Singleton, FS_EmptySet
  <2>2. Opened(f, base) = {f}  BY DEF Opened
  <2>3. \A S : ClosedUnder(f, S) => Opened(f, base) \subseteq S  BY <2>2 DEF ClosedUnder
  <2> QED  BY <2>1, <2>2, <2>3 DEF ClosureGood
<1>3. Trees(f) = {f} \cup Closes!Iteration(K, base, text)[K].loaded
  BY DEF Trees, TreesIn, Closes!Iteration, Closes!Iterates, K, base
<1> HIDE DEF base
<1>4. \A n \in 0..(K - 1) : \A x : ClosureGood(f, n, x) => ClosureGood(f, n + 1, LoadNext(x, text))
  BY <1>1, ClosureStep
<1> DEFINE final == Closes!Iteration(K, base, text)[K]
<1>5. ClosureGood(f, K, final)
  <2> HIDE DEF K
  <2>1. \A n \in 0..K : ClosureGood(f, n, Closes!Iteration(K, base, text)[n])
    BY <1>1, <1>2, <1>4, Closes!IterationInduction
  <2> QED  BY <1>1, <2>1
<1>6. PICK s : s = final  OBVIOUS
<1>7. /\ s.todo \in SUBSET Files /\ s.loaded \in SUBSET Files
      /\ s.todo = {} \/ K + Cardinality(s.todo) <= Cardinality(s.loaded) + 1
      /\ s.loaded \subseteq Needed(f, Opened(f, s))
      /\ \A m \in s.known : Declaring(m) \subseteq {f} \cup s.loaded
      /\ \A g \in Opened(f, s) \ s.todo : Referenced(text, g) \subseteq s.known
      /\ \A S : ClosedUnder(f, S) => Opened(f, s) \subseteq S
  BY <1>5, <1>6 DEF ClosureGood
<1>8. Trees(f) = {f} \cup s.loaded  BY <1>3, <1>6
<1> HIDE DEF final, K
<1>9. s.todo = {}
  <2> SUFFICES ASSUME s.todo # {} PROVE FALSE  OBVIOUS
  <2>1. /\ Cardinality(s.todo) \in Nat /\ Cardinality(s.loaded) \in Nat
        /\ Cardinality(s.loaded) <= Cardinality(Files)
    BY <1>7, FilesCount
  <2>2. Cardinality(s.todo) # 0  BY <1>7, FilesCount, FS_EmptySet
  <2> QED  BY <1>1, <1>7, <2>1, <2>2 DEF K
<1>10. Opened(f, s) = Into(f)  BY <1>8 DEF Opened, Into
<1>11. Needed(f, Into(f)) \subseteq Trees(f)
  <2>1. ASSUME NEW g \in Into(f), NEW n \in Referenced(text, g) PROVE Declaring(n) \subseteq Trees(f)
    BY <1>7, <1>8, <1>9, <1>10
  <2> QED  BY <1>8, <2>1 DEF Needed
<1>12. Trees(f) \subseteq Needed(f, Into(f))  BY <1>7, <1>8, <1>10 DEF Needed
<1> QED  BY <1>7, <1>10, <1>11, <1>12

\* In the words of the property:
LEMMA TreesClosed == TreesAreClosure
<1> SUFFICES ASSUME ~IndexMisnames, NEW f \in Files
             PROVE  /\ Needed(f, Into(f)) = Trees(f)
                    /\ \A S \in SUBSET Into(f) :
                         f \in S /\ Needed(f, S) \cap Into(f) \subseteq S => S = Into(f)
  BY DEF TreesAreClosure, Needed, Into, LooksInto
<1>1. Needed(f, Into(f)) = Trees(f) /\ \A S : ClosedUnder(f, S) => Into(f) \subseteq S
  BY ClosureIs
<1> SUFFICES ASSUME NEW S \in SUBSET Into(f), f \in S, Needed(f, S) \cap Into(f) \subseteq S
             PROVE  Into(f) \subseteq S
  BY <1>1
<1>2. Needed(f, S) \subseteq Trees(f)  BY <1>1 DEF Needed
<1>3. \A h \in Trees(f) : LooksInto(h) => h \in Into(f)  BY DEF Into
<1>4. ClosedUnder(f, S)  BY <1>2, <1>3 DEF ClosedUnder
<1> QED  BY <1>1, <1>4

----------------------------------------------------------------------------
(* The trees of an analysis are enough for its file                          *)

\* An index with the latest texts
Indexed == RefInv /\ indexedText = text

\* The trees have the units that the file refers to,
LEMMA TreesDeclare ==
  ASSUME Indexed, NEW f \in Files, NEW n \in Referenced(text, f)
  PROVE  Units(text, Trees(f), n) = Units(text, Files, n)
<1>1. ~IndexMisnames  BY DEF Indexed, RefInv, UnitsDiffer, IndexMisnames
<1>2. Needed(f, Into(f)) = Trees(f) /\ f \in Into(f) /\ Trees(f) \in SUBSET Files
  BY <1>1, ClosureIs, AllTreesAreFiles DEF Into, Needed
<1>3. Declaring(n) \subseteq Trees(f)  BY <1>2 DEF Needed
<1> QED  BY <1>2, <1>3 DEF Units, Declaring, Indexed

\* their members,
LEMMA TreesHaveMembers ==
  ASSUME Indexed, NEW f \in Files, NEW u \in Referenced(text, f), NEW n
  PROVE  MembersOf(text, Trees(f), u, n) = MembersOf(text, Files, u, n)
BY TreesDeclare DEF MembersOf

\* and so what its names stand for.
LEMMA TreesLookup ==
  ASSUME Indexed, NEW f \in Files, NEW n
  PROVE  Lookup(text, Trees(f), f, n) = Lookup(text, Files, f, n)
<1>1. \A i \in Imports(text, f, n) : text[f][i].unit \in Referenced(text, f)
  BY ImportsAre DEF Picked, Imported, Referenced, UnitUses
<1>2. \A i \in Imports(text, f, n) :
        MembersOf(text, Trees(f), text[f][i].unit, n) = MembersOf(text, Files, text[f][i].unit, n)
  BY <1>1, TreesHaveMembers
<1>3. UNION {MembersOf(text, Trees(f), text[f][i].unit, n) : i \in Imports(text, f, n)}
        = UNION {MembersOf(text, Files, text[f][i].unit, n) : i \in Imports(text, f, n)}
  BY <1>2
<1> QED  BY <1>3, LookupIs

\* a connection is of an instance
LEMMA ConnectionIs ==
  ASSUME AreTexts(text), NEW t \in AllTokens(text), Sort(text, t) \in {"port", "short"}
  PROVE  /\ Item(text, t).of \in DOMAIN text[t[1]]
         /\ text[t[1]][Item(text, t).of].sort = "inst"
<1>1. t[1] \in Files /\ t[2] \in DOMAIN text[t[1]]  BY TokenIs
<1>2. IsText(text[t[1]])  BY <1>1 DEF AreTexts
<1> QED  BY <1>1, <1>2 DEF IsText, Sort, Item

(* A token stands for the same in the trees of its file as in the workspace. *)
LEMMA TreesSuffice ==
  ASSUME Indexed, NEW t \in AllTokens(text)
  PROVE  SymbolsAt(text, Trees(t[1]), t) = SymbolsAt(text, Files, t)
<1> DEFINE f == t[1]
           it == Item(text, t)
<1>0. /\ f \in Files /\ t[2] \in DOMAIN text[f] /\ it = text[f][t[2]]
      /\ \/ t[3] = "name" /\ Sort(text, t) \in UnitSorts \cup MemberSorts \cup NameUses
         \/ t[3] = "unit" /\ Sort(text, t) \in UnitUses
  BY TokenIs DEF Item
<1>a. AreTexts(text)  BY DEF Indexed, RefInv, RefTypeOK, AreTexts
<1>1. Sort(text, t) \in UnitUses => it.unit \in Referenced(text, f)
  BY <1>0 DEF Sort, Referenced
<1>2. CASE t[3] = "unit"  BY <1>0, <1>1, <1>2, SymbolsAtIs, TreesDeclare
<1>3. CASE t[3] = "name" /\ Sort(text, t) \in UnitSorts \cup MemberSorts  BY <1>3, SymbolsAtIs
<1>4. CASE t[3] = "name" /\ Sort(text, t) = "use"  BY <1>0, <1>4, SymbolsAtIs, TreesLookup
<1>5. CASE t[3] = "name" /\ Sort(text, t) \in {"scoped", "pick"}
  BY <1>0, <1>1, <1>5, SymbolsAtIs, TreesHaveMembers DEF UnitUses
<1>6. CASE t[3] = "name" /\ Sort(text, t) \in {"port", "short"}
  <2>1. text[f][it.of].unit \in Referenced(text, f)
    BY <1>a, <1>6, ConnectionIs DEF Referenced, UnitUses
  <2>2. Connected(text, Trees(f), t) = Connected(text, Files, t)
    <3>1. MembersOf(text, Trees(f), text[f][it.of].unit, it.name)
            = MembersOf(text, Files, text[f][it.of].unit, it.name)
      BY <1>0, <2>1, TreesHaveMembers
    <3>2. Lookup(text, Trees(f), f, it.name) = Lookup(text, Files, f, it.name)
      BY <1>0, TreesLookup
    <3> QED  BY <3>1, <3>2 DEF Connected
  <2> QED  BY <1>6, <2>2, SymbolsAtIs
<1> QED  BY <1>0, <1>2, <1>3, <1>4, <1>5, <1>6 DEF NameUses

----------------------------------------------------------------------------
(* All references to a target                                                *)

\* analyses that are not older than the index
Fresh(an) == Analyses(an) /\ \A f \in Files : an[f] # {} => an[f] = Trees(f)

\* getAnalysis makes the trees of the present texts.
LEMMA AnalyseFresh ==
  ASSUME NEW an, Fresh(an), NEW f \in Files
  PROVE  Fresh(Analyse(an, f)) /\ Analyse(an, f)[f] = Trees(f)
<1>1. f \in Trees(f) /\ Trees(f) \in SUBSET Files  BY AllTreesAreFiles DEF Trees, TreesIn
<1>2. CASE an[f] = {}
  <2>1. Analyse(an, f) = [an EXCEPT ![f] = Trees(f)]  BY <1>2 DEF Analyse
  <2> QED  BY <1>1, <2>1 DEF Fresh, Analyses
<1>3. CASE an[f] # {}
  <2>1. Analyse(an, f) = an  BY <1>3 DEF Analyse
  <2> QED  BY <1>3, <2>1 DEF Fresh
<1> QED  BY <1>2, <1>3

\* how a name in one file stands for a member of another
Through(t, x) ==
  \E i \in DOMAIN text[t[1]] :
    /\ text[t[1]][i].unit = UnitName(text, x[1])
    /\ \/ text[t[1]][i].sort = "import"
       \/ text[t[1]][i].sort = "pick" /\ text[t[1]][i].name = Name(text, t)
       \/ Sort(text, t) = "scoped" /\ i = t[2]
       \/ text[t[1]][i].sort = "inst" /\ Sort(text, x) # "inst"

\* A name that declares nothing stands for members, of its own file or through a unit it names.
LEMMA NameStandsForMember ==
  ASSUME AreTexts(text), NEW t \in AllTokens(text), t \notin Symbols(text), t[3] = "name",
         NEW x \in SymbolsAt(text, Files, t)
  PROVE  /\ x \in Members(text, x[1], Name(text, t)) /\ x[1] \in Files
         /\ x[1] = t[1] \/ Through(t, x)
<1> DEFINE f == t[1]
           it == Item(text, t)
           n == it.name
<1>0. /\ f \in Files /\ t[2] \in DOMAIN text[f] /\ it = text[f][t[2]]
      /\ Sort(text, t) \in UnitSorts \cup MemberSorts \cup NameUses
  BY TokenIs DEF Item
<1>1. Sort(text, t) \in NameUses /\ Name(text, t) = n
  BY <1>0 DEF Symbols, Sort, Item, Name, NameUses
<1>2. ASSUME NEW u, x \in MembersOf(text, Files, u, n)
      PROVE  x \in Members(text, x[1], n) /\ x[1] \in Files /\ UnitName(text, x[1]) = u
  BY <1>2, MembersOfAre
<1>3. ASSUME x \in Lookup(text, Files, f, n)
      PROVE  /\ x \in Members(text, x[1], n) /\ x[1] \in Files
             /\ x[1] = f \/ Through(t, x)
  <2>1. CASE x \in Members(text, f, n)  BY <1>0, <2>1, MembersAre
  <2>2. CASE x \notin Members(text, f, n)
    <3>1. PICK i \in Imports(text, f, n) : x \in MembersOf(text, Files, text[f][i].unit, n)
      BY <1>3, <2>2, LookupIs
    <3>2. /\ i \in DOMAIN text[f]
          /\ text[f][i].sort = "import" \/ (text[f][i].sort = "pick" /\ text[f][i].name = n)
      BY ImportsAre DEF Imported, Picked
    <3>3. x \in Members(text, x[1], n) /\ x[1] \in Files /\ UnitName(text, x[1]) = text[f][i].unit
      BY <1>2, <3>1
    <3> QED  BY <1>1, <3>2, <3>3 DEF Through
  <2> QED  BY <2>1, <2>2
<1>4. CASE Sort(text, t) = "use"
  <2>1. x \in Lookup(text, Files, f, n)  BY <1>4, SymbolsAtIs
  <2> QED  BY <1>1, <1>3, <2>1
<1>5. CASE Sort(text, t) \in {"scoped", "pick"}
  <2>1. x \in MembersOf(text, Files, it.unit, n)  BY <1>5, SymbolsAtIs
  <2>2. x \in Members(text, x[1], n) /\ x[1] \in Files /\ UnitName(text, x[1]) = it.unit
    BY <1>2, <2>1
  <2>3. text[f][t[2]].unit = UnitName(text, x[1]) /\ text[f][t[2]].name = n /\ text[f][t[2]].sort = Sort(text, t)
    BY <1>0, <2>2 DEF Sort
  <2> QED  BY <1>0, <1>1, <1>5, <2>2, <2>3 DEF Through
<1>6. CASE Sort(text, t) \in {"port", "short"}
  <2>1. x \in Connected(text, Files, t)  BY <1>6, SymbolsAtIs
  <2>2. \/ x \in MembersOf(text, Files, text[f][it.of].unit, n) /\ Sort(text, x) \in PortSorts
        \/ x \in Lookup(text, Files, f, n)
    BY <2>1 DEF Connected, Sort
  <2>3. it.of \in DOMAIN text[f] /\ text[f][it.of].sort = "inst"  BY <1>6, ConnectionIs
  <2>4. ASSUME x \in MembersOf(text, Files, text[f][it.of].unit, n), Sort(text, x) \in PortSorts
        PROVE  x \in Members(text, x[1], n) /\ x[1] \in Files /\ Through(t, x)
    <3>1. x \in Members(text, x[1], n) /\ x[1] \in Files /\ UnitName(text, x[1]) = text[f][it.of].unit
      BY <1>2, <2>4
    <3> QED  BY <2>3, <2>4, <3>1 DEF Through, PortSorts
  <2> QED  BY <1>1, <1>3, <2>2, <2>4
<1> QED  BY <1>1, <1>4, <1>5, <1>6 DEF NameUses

\* members are not units
LEMMA MemberIsNoUnit ==
  ASSUME AreTexts(text), NEW f \in Files, NEW n, NEW x \in Members(text, f, n)
  PROVE  ~IsUnit(x)
<1>1. PICK i \in DOMAIN text[f] : x = <<f, i, "name">> /\ text[f][i].sort \in MemberSorts
  BY DEF Members
<1>2. IsText(text[f])  BY DEF AreTexts
<1>3. text[f][1].sort \notin MemberSorts  BY <1>2 DEF IsText, UnitSorts, MemberSorts, PortSorts
<1>4. i # 1  BY <1>1, <1>3
<1> QED  BY <1>1, <1>4 DEF IsUnit

(* Spelled out, and of units, there is only one symbol.                      *)
LEMMA OneUnit ==
  ASSUME Indexed, NEW n, NEW x \in Units(text, Files, n)
  PROVE  Units(text, Files, n) = {x}
BY DEF Indexed, RefInv, UnitsDiffer, Units

\* and of members with their package, likewise
LEMMA OneMember ==
  ASSUME Indexed, NEW u, NEW n, NEW x \in MembersOf(text, Files, u, n)
  PROVE  MembersOf(text, Files, u, n) = {x}
<1>1. AreTexts(text)  BY DEF Indexed, RefInv, RefTypeOK, AreTexts
<1> SUFFICES ASSUME NEW y \in MembersOf(text, Files, u, n) PROVE y = x  OBVIOUS
<1>2. /\ x[1] \in Files /\ UnitName(text, x[1]) = u /\ x \in Members(text, x[1], n)
      /\ y[1] \in Files /\ UnitName(text, y[1]) = u /\ y \in Members(text, y[1], n)
  BY <1>1, MembersOfAre
<1>3. x[1] = y[1]  BY <1>2 DEF Indexed, RefInv, UnitsDiffer
<1>4. MembersDiffer(text[x[1]])  BY <1>2 DEF Indexed, RefInv, FromWorkspace
<1>5. PICK i \in DOMAIN text[x[1]] : /\ x = <<x[1], i, "name">>
                                    /\ text[x[1]][i].sort \in MemberSorts /\ text[x[1]][i].name = n
  BY <1>2 DEF Members
<1>6. PICK j \in DOMAIN text[x[1]] : /\ y = <<x[1], j, "name">>
                                    /\ text[x[1]][j].sort \in MemberSorts /\ text[x[1]][j].name = n
  BY <1>2, <1>3 DEF Members
<1>7. i = j  BY <1>4, <1>5, <1>6 DEF MembersDiffer
<1> QED  BY <1>5, <1>6, <1>7

\* fewer symbols, fewer that are imported by name
LEMMA PickedAloneGrows ==
  ASSUME NEW c, NEW d, c \subseteq d, PickedAlone(c)
  PROVE  PickedAlone(d)
BY DEF PickedAlone

\* a reference is found, and with the analysis that joins what it stands for
Finds(r, t, x, declaration) ==
  \/ t \in r.found /\ (r.an[t[1]] = Trees(t[1]) \/ SymbolsAt(text, Files, t) = {x})
  \/ ~declaration /\ t = x

\* what addLocalReferences finds with the trees of the file
LEMMA LocalFinds ==
  ASSUME Indexed, NEW an, Fresh(an), NEW f \in Files, an[f] = Trees(f), NEW x, NEW name,
         NEW t \in AllTokens(text), t[1] = f, Name(text, t) = name, x \in SymbolsAt(text, Files, t)
  PROVE  t \in LocalReferences(an, f, x, name)
<1>1. t \in Tokens(text, f)  BY TokenIs
<1>2. SymbolsAt(text, an[f], t) = SymbolsAt(text, Files, t)  BY TreesSuffice
<1> QED  BY <1>1, <1>2 DEF LocalReferences

(* Every token that stands for the target is found.                          *)
LEMMA TargetFinds ==
  ASSUME Indexed, NEW an, Fresh(an), NEW x \in Symbols(text), NEW name, Name(text, x) = name,
         NEW decl \in BOOLEAN, ~PickedAlone({x})
  PROVE  LET r == TargetReferences(an, x, name, decl) IN
         /\ Fresh(r.an)
         /\ \A t \in AllTokens(text) : x \in SymbolsAt(text, Files, t) => Finds(r, t, x, decl)
<1> DEFINE f == x[1]
           here == Analyse(an, f)
           unit == Item(text, x).unit
           Known == Item(text, x).sort = "inst" /\ Units(text, here[f], unit) # {}
           local == LocalReferences(here, f, x, name) \ IF decl THEN {} ELSE {x}
<1>a. AreTexts(text)  BY DEF Indexed, RefInv, RefTypeOK, AreTexts
<1>1. f \in Files  BY <1>a, SymbolKind
<1>2. Fresh(here) /\ here[f] = Trees(f)  BY <1>1, AnalyseFresh
<1> HIDE DEF here, Known
<1>3. ASSUME NEW t \in AllTokens(text), x \in SymbolsAt(text, Files, t)
      PROVE  /\ t[1] \in Files /\ t \in Tokens(text, t[1]) /\ Name(text, t) = name
             /\ t = <<t[1], t[2], t[3]>> /\ t[2] \in DOMAIN text[t[1]]
             /\ t \in Symbols(text) => t = x
             /\ t[3] = "name" \/ (t[3] = "unit" /\ Sort(text, t) \in UnitUses)
  <2>1. Name(text, x) = Name(text, t)  BY <1>a, <1>3, SymbolsAtAre
  <2>2. ASSUME t \in Symbols(text) PROVE t = x
    <3>1. t[3] = "name" /\ Sort(text, t) \in UnitSorts \cup MemberSorts  BY <2>2, SymbolIs
    <3> QED  BY <1>3, <3>1, SymbolsAtIs
  <2> QED  BY <2>1, <2>2, TokenIs
<1>4. ASSUME NEW t \in AllTokens(text), x \in SymbolsAt(text, Files, t), t[1] = f
      PROVE  t \in local \/ (~decl /\ t = x)
  <2>1. t \in LocalReferences(here, f, x, name)  BY <1>1, <1>2, <1>3, <1>4, LocalFinds
  <2> QED  BY <2>1
<1> HIDE DEF local
<1>5. ASSUME IsUnit(x)
      PROVE  LET r == TargetReferences(an, x, name, decl) IN
             /\ Fresh(r.an)
             /\ \A t \in AllTokens(text) : x \in SymbolsAt(text, Files, t) => Finds(r, t, x, decl)
  <2> DEFINE P == UnitName(text, f)
             others == Referencing(P) \ {f}
             more == UNION {UnitReferences(g, text[f][1].sort, P) : g \in others}
  <2>1. TargetReferences(an, x, name, decl) = [an |-> here, found |-> local \cup more]
    BY <1>5 DEF TargetReferences, here, local
  <2>2. name = P  BY <1>a, <1>5, SymbolKind
  <2>3. ASSUME NEW t \in AllTokens(text), x \in SymbolsAt(text, Files, t), t[1] # f
        PROVE  t \in more /\ SymbolsAt(text, Files, t) = {x}
    <3>1. t \notin Symbols(text)  BY <1>3, <2>3
    <3>2. t[3] = "unit"
      <4> SUFFICES ASSUME t[3] = "name" PROVE FALSE  BY <1>3, <2>3
      <4>1. x \in Members(text, x[1], Name(text, t)) /\ x[1] \in Files
        BY <1>a, <2>3, <3>1, NameStandsForMember
      <4> QED  BY <1>a, <1>5, <4>1, MemberIsNoUnit
    <3>3. Name(text, t) = P /\ Item(text, t).unit = P /\ Sort(text, t) \in UnitUses
      BY <1>3, <2>2, <2>3, <3>2 DEF Name
    <3>4. SymbolsAt(text, Files, t) = Units(text, Files, P)  BY <3>2, <3>3, SymbolsAtIs
    <3>5. Sort(text, t) \in UsesOf(text[f][1].sort)
      BY <1>1, <1>3, <2>3, <3>3 DEF Indexed, RefInv, UsesFit, AreUses, Sort, Item, UnitName
    <3>6. t[1] \in others
      <4>1. P \in Referenced(text, t[1])  BY <1>3, <2>3, <3>3 DEF Referenced, Sort, Item
      <4> QED  BY <1>3, <2>3, <4>1 DEF Referencing, Indexed
    <3>7. t \in UnitReferences(t[1], text[f][1].sort, P)
      BY <1>3, <2>3, <3>2, <3>3, <3>5 DEF UnitReferences, Sort
    <3> QED  BY <2>3, <3>4, <3>6, <3>7, OneUnit
  <2> HIDE DEF more
  <2>4. PICK r : r = TargetReferences(an, x, name, decl)  OBVIOUS
  <2>5. r.an = here /\ r.found = local \cup more  BY <2>1, <2>4
  <2>6. ASSUME NEW t \in AllTokens(text), x \in SymbolsAt(text, Files, t) PROVE Finds(r, t, x, decl)
    <3>1. CASE t[1] = f  BY <1>2, <1>4, <2>5, <2>6, <3>1 DEF Finds
    <3>2. CASE t[1] # f  BY <2>3, <2>5, <2>6, <3>2 DEF Finds
    <3> QED  BY <3>1, <3>2
  <2> QED  BY <1>2, <2>4, <2>5, <2>6
<1>7. ASSUME ~IsUnit(x), NEW t \in AllTokens(text), x \in SymbolsAt(text, Files, t), t[1] # f
      PROVE  /\ t \notin Symbols(text) /\ t[1] \in Files /\ t[3] = "name" /\ Name(text, t) = name
             /\ Through(t, x)
  <2>1. t \notin Symbols(text) /\ t[1] \in Files /\ Name(text, t) = name  BY <1>3, <1>7
  <2>2. t[3] = "name"
    <3> SUFFICES ASSUME t[3] = "unit" PROVE FALSE  BY <1>3, <1>7
    <3>1. x \in Units(text, Files, Item(text, t).unit)  BY <1>7, SymbolsAtIs
    <3>2. x[2] = 1  BY <3>1 DEF Units
    <3> QED  BY <1>7, <3>2 DEF IsUnit
  <2>3. Through(t, x)  BY <1>a, <1>7, <2>1, <2>2, NameStandsForMember
  <2> QED  BY <2>1, <2>2, <2>3
<1>8. ASSUME ~IsUnit(x), Known
      PROVE  LET r == TargetReferences(an, x, name, decl) IN
             /\ Fresh(r.an)
             /\ \A t \in AllTokens(text) : x \in SymbolsAt(text, Files, t) => Finds(r, t, x, decl)
  <2> DEFINE more == UNION {UnitReferences(g, "module", name) : g \in Referencing(unit) \ {f}}
  <2>1. TargetReferences(an, x, name, decl) = [an |-> here, found |-> local \cup more]
    BY <1>8 DEF TargetReferences, here, local, Known
  <2>2. ASSUME NEW t \in AllTokens(text), x \in SymbolsAt(text, Files, t) PROVE t[1] = f
    <3> SUFFICES ASSUME t[1] # f PROVE FALSE  OBVIOUS
    <3> DEFINE g == t[1]
    <3>1. Through(t, x) /\ g \in Files /\ t[3] = "name"  BY <1>7, <1>8, <2>2
    <3>2. Sort(text, x) = "inst"  BY <1>8 DEF Known, Sort
    <3>3. text[f][1].sort # "package"
      <4>1. IsText(text[f]) /\ x[2] \in DOMAIN text[f]  BY <1>a, <1>1, SymbolIs, TokenIs DEF AreTexts
      <4> QED  BY <3>2, <4>1 DEF IsText, Sort, Item
    <3>4. PICK i \in DOMAIN text[g] : /\ text[g][i].unit = UnitName(text, f)
                                      /\ text[g][i].sort \in {"import", "pick", "scoped"}
      BY <3>1, <3>2 DEF Through, Sort, Item
    <3>5. AreUses(text[g], text[f][1])  BY <1>1, <3>1 DEF Indexed, RefInv, UsesFit
    <3>6. text[g][i].sort \in UsesOf(text[f][1].sort)
      BY <3>4, <3>5 DEF AreUses, UnitName, UnitUses
    <3>7. text[f][1].sort \in {"module", "interface"}
      <4>1. IsText(text[f])  BY <1>a, <1>1 DEF AreTexts
      <4> QED  BY <3>3, <4>1 DEF IsText, UnitSorts
    <3> QED  BY <3>4, <3>6, <3>7 DEF UsesOf
  <2> HIDE DEF more
  <2>3. PICK r : r = TargetReferences(an, x, name, decl)  OBVIOUS
  <2>4. r.an = here /\ r.found = local \cup more  BY <2>1, <2>3
  <2>5. ASSUME NEW t \in AllTokens(text), x \in SymbolsAt(text, Files, t) PROVE Finds(r, t, x, decl)
    BY <1>2, <1>4, <2>2, <2>4, <2>5 DEF Finds
  <2> QED  BY <1>2, <2>3, <2>4, <2>5
<1>6. ASSUME ~IsUnit(x), ~Known
      PROVE  LET r == TargetReferences(an, x, name, decl) IN
             /\ Fresh(r.an)
             /\ \A t \in AllTokens(text) : x \in SymbolsAt(text, Files, t) => Finds(r, t, x, decl)
  <2> DEFINE P == UnitName(text, f)
             others == Referencing(P) \ {f}
             syntactic == {g \in others : /\ text[f][1].sort = "package" /\ Item(text, x).sort = "member"
                                          /\ SpelledOut(g, P)}
             after == [g \in Files |-> IF g \in others \ syntactic THEN Analyse(here, g)[g] ELSE here[g]]
             more == UNION {IF g \in syntactic THEN ScopedReferences(g, P, name)
                            ELSE LocalReferences(after, g, x, name) : g \in others}
  <2>1. TargetReferences(an, x, name, decl) = [an |-> after, found |-> more \cup local]
    BY <1>6 DEF TargetReferences, MemberReferences, here, local, Known
  <2>2. /\ Fresh(after) /\ \A g \in others \ syntactic : after[g] = Trees(g)
        /\ after[f] = Trees(f)
    <3>1. \A g \in Files : Fresh(Analyse(here, g)) /\ Analyse(here, g)[g] = Trees(g)
      BY <1>2, AnalyseFresh
    <3>2. others \in SUBSET Files /\ f \notin others  BY DEF Referencing
    <3> HIDE DEF others, syntactic
    <3>3. \A g \in Files : after[g] = IF g \in others \ syntactic THEN Trees(g) ELSE here[g]
      BY <3>1
    <3>4. Analyses(after)
      <4>1. after = [g \in Files |-> after[g]]  OBVIOUS
      <4> HIDE DEF after
      <4>2. \A g \in Files : after[g] \in SUBSET Files
        BY <1>2, <3>3, AllTreesAreFiles DEF Fresh, Analyses
      <4> QED  BY <4>1, <4>2 DEF Analyses
    <3> HIDE DEF after
    <3> QED  BY <1>1, <1>2, <3>2, <3>3, <3>4 DEF Fresh
  <2> HIDE DEF after
  <2>3. ASSUME NEW t \in AllTokens(text), x \in SymbolsAt(text, Files, t), t[1] # f
        PROVE  t \in more /\ (after[t[1]] = Trees(t[1]) \/ SymbolsAt(text, Files, t) = {x})
    <3> DEFINE g == t[1]
    <3>1. /\ t \notin Symbols(text) /\ g \in Files /\ Name(text, t) = name /\ t[2] \in DOMAIN text[g]
          /\ t \in Tokens(text, g)
      BY <1>3, <2>3
    <3>2. t[3] = "name"  BY <1>6, <1>7, <2>3
    <3>3. Through(t, x)  BY <1>6, <1>7, <2>3
    <3>4. PICK i \in DOMAIN text[g] :
            /\ text[g][i].unit = P
            /\ \/ text[g][i].sort = "import"
               \/ text[g][i].sort = "pick" /\ text[g][i].name = name
               \/ Sort(text, t) = "scoped" /\ i = t[2]
               \/ text[g][i].sort = "inst"
      BY <3>1, <3>3 DEF Through
    <3>5. g \in others
      <4>1. text[g][i].sort \in UnitUses  BY <3>4 DEF UnitUses, Sort, Item
      <4>2. P \in Referenced(text, g)  BY <3>4, <4>1 DEF Referenced
      <4> QED  BY <2>3, <3>1, <4>2 DEF Referencing, Indexed
    <3>6. CASE g \in syntactic
      <4>1. text[f][1].sort = "package" /\ text[g][i].sort # "import"
        BY <3>4, <3>6 DEF SpelledOut
      <4>9. text[g][i].sort # "pick"
        <5> SUFFICES ASSUME text[g][i].sort = "pick", text[g][i].name = name PROVE FALSE
          BY <3>4, <4>1 DEF Sort, Item
        <5>1. g # x[1] /\ Item(text, x).sort = "member" /\ SpelledOut(g, P)  BY <2>3, <3>6
        <5> QED  BY <3>1, <3>4, <4>1, <5>1 DEF PickedAlone
      <4>2. text[g][i].sort # "inst"
        <5> SUFFICES ASSUME text[g][i].sort = "inst" PROVE FALSE  OBVIOUS
        <5>1. "inst" \in UsesOf("package")
          <6>1. AreUses(text[g], text[f][1])  BY <1>1, <3>1 DEF Indexed, RefInv, UsesFit
          <6>2. text[g][i].unit = text[f][1].name /\ text[g][i].sort \in UnitUses
            BY <3>4 DEF UnitUses, UnitName
          <6> QED  BY <4>1, <6>1, <6>2 DEF AreUses
        <5> QED  BY <5>1 DEF UsesOf
      <4>3. Sort(text, t) = "scoped" /\ Item(text, t).unit = P  BY <3>4, <4>1, <4>2, <4>9 DEF Item
      <4>4. Item(text, t).name = name  BY <3>1, <3>2 DEF Name
      <4>5. t \in ScopedReferences(g, P, name)
        BY <3>1, <3>2, <4>3, <4>4 DEF ScopedReferences, Sort
      <4>6. SymbolsAt(text, Files, t) = MembersOf(text, Files, P, name)
        BY <3>2, <4>3, <4>4, SymbolsAtIs
      <4>7. SymbolsAt(text, Files, t) = {x}  BY <2>3, <4>6, OneMember
      <4>8. t \in more  BY <3>5, <3>6, <4>5
      <4> QED  BY <4>7, <4>8
    <3>7. CASE g \notin syntactic
      <4>1. after[g] = Trees(g)  BY <2>2, <3>5, <3>7
      <4>2. t \in LocalReferences(after, g, x, name)
        BY <2>2, <2>3, <3>1, <4>1, LocalFinds
      <4>3. t \in more  BY <3>5, <3>7, <4>2
      <4> QED  BY <4>1, <4>3
    <3> QED  BY <3>6, <3>7
  <2> HIDE DEF more
  <2>4. PICK r : r = TargetReferences(an, x, name, decl)  OBVIOUS
  <2>5. r.an = after /\ r.found = more \cup local  BY <2>1, <2>4
  <2>6. ASSUME NEW t \in AllTokens(text), x \in SymbolsAt(text, Files, t) PROVE Finds(r, t, x, decl)
    <3>1. CASE t[1] = f  BY <1>4, <2>2, <2>5, <2>6, <3>1 DEF Finds
    <3>2. CASE t[1] # f  BY <2>3, <2>5, <2>6, <3>2 DEF Finds
    <3> QED  BY <3>1, <3>2
  <2> QED  BY <2>2, <2>4, <2>5, <2>6
<1> QED  BY <1>5, <1>6, <1>8

----------------------------------------------------------------------------
(* The loop over the targets                                                 *)

\* all that stands for a target is found, and its symbols are targets
Finished(s, x, declaration) ==
  \A t \in AllTokens(text) : x \in SymbolsAt(text, Files, t) =>
    /\ t \in s.refs \/ (~declaration /\ t \in Symbols(text))
    /\ SymbolsAt(text, Files, t) \subseteq s.targets

LoopGood(asked, n, s) ==
  /\ FollowGood(asked, n, s) /\ Fresh(s.an)
  /\ s.done = s.targets \/ n <= Cardinality(s.done)
  /\ \A x \in s.done : Finished(s, x, asked.declaration)
  /\ SymbolsAt(text, Files, asked.token) \subseteq s.targets
Loops == INSTANCE FoldTheorems WITH Step <- Follow, Good <- LoopGood

\* sets of symbols have a size
LEMMA SymbolsCount ==
  ASSUME AreTexts(text)
  PROVE  \A S \in SUBSET Symbols(text) : IsFiniteSet(S) /\ Cardinality(S) \in Nat
<1>1. IsFiniteSet(Symbols(text))  BY SymbolsFinite
<1> QED  BY <1>1, FS_Subset, FS_CardinalityType

\* several symbols of one token are joined
LEMMA JoinIs ==
  ASSUME Indexed, NEW r, Fresh(r.an), NEW x, NEW t \in AllTokens(text), x \in SymbolsAt(text, Files, t),
         t \in r.found, r.an[t[1]] = Trees(t[1]) \/ SymbolsAt(text, Files, t) = {x}
  PROVE  SymbolsAt(text, Files, t) \subseteq {x} \cup Join(r.an, r.found)
<1> DEFINE S == SymbolsAt(text, Files, t)
<1>a. AreTexts(text)  BY DEF Indexed, RefInv, RefTypeOK, AreTexts
<1>1. S \in SUBSET Symbols(text)  BY <1>a, SymbolsAtAre
<1>2. IsFiniteSet(S) /\ Cardinality(S) \in Nat  BY <1>a, <1>1, SymbolsCount
<1>3. CASE S = {x}  BY <1>3
<1>4. CASE S # {x}
  <2>1. SymbolsAt(text, r.an[t[1]], t) = S  BY <1>4, TreesSuffice
  <2>2. r.an[t[1]] # {}
    <3>1. t[1] \in Trees(t[1])  BY DEF Trees, TreesIn
    <3> QED  BY <1>4, <3>1
  <2>3. Cardinality(S) >= 2
    <3> HIDE DEF S
    <3>1. S # {}  BY DEF S
    <3>2. Cardinality(S) # 0  BY <1>2, <3>1, FS_EmptySet
    <3>3. Cardinality(S) # 1
      <4> SUFFICES ASSUME Cardinality(S) = 1 PROVE FALSE  OBVIOUS
      <4>1. PICK y : S = {y}  BY <1>2, FS_Singleton
      <4>2. x \in S  BY DEF S
      <4> QED  BY <1>4, <4>1, <4>2
    <3> QED  BY <1>2, <3>2, <3>3
  <2> HIDE DEF S
  <2>4. S \in {syms \in {SymbolsAt(text, r.an[u[1]], u) : u \in {u \in r.found : r.an[u[1]] # {}}} :
                 Cardinality(syms) >= 2}
    BY <2>1, <2>2, <2>3
  <2>5. S \subseteq Join(r.an, r.found)  BY <2>4 DEF Join
  <2> QED  BY <2>5 DEF S
<1> QED  BY <1>3, <1>4

\* One target of the loop: what stands for it is found, and what that joins is a target.
LEMMA LoopStep ==
  ASSUME Indexed, NEW asked, asked.token \in AllTokens(text), asked.declaration \in BOOLEAN,
         NEW q, q.name = asked.name, q.declaration = asked.declaration,
         NEW n \in 0..(Cardinality(Symbols(text)) - 1), NEW s, LoopGood(asked, n, s),
         ~PickedAlone(Component(Meaning(text), asked.token))
  PROVE  LoopGood(asked, n + 1, Follow(s, q))
<1>a. AreTexts(text) /\ UnitsDiffer(text) /\ Cardinality(Symbols(text)) \in Nat
  <2>1. AreTexts(text) /\ UnitsDiffer(text)  BY DEF Indexed, RefInv, RefTypeOK, AreTexts
  <2> QED  BY <2>1, SymbolsFinite
<1>1. /\ FollowGood(asked, n, s) /\ Fresh(s.an)
      /\ s.done = s.targets \/ n <= Cardinality(s.done)
      /\ \A x \in s.done : Finished(s, x, asked.declaration)
      /\ SymbolsAt(text, Files, asked.token) \subseteq s.targets
  BY DEF LoopGood
<1>2. /\ s.done \subseteq s.targets
      /\ \A x \in s.targets : x \in Symbols(text) /\ Name(text, x) = asked.name
  BY <1>1 DEF FollowGood
<1>3. FollowGood(asked, n + 1, Follow(s, q))  BY <1>a, <1>1, FollowIs
<1>4. CASE s.targets = s.done
  <2>1. Follow(s, q) = s  BY <1>4 DEF Follow
  <2> QED  BY <1>1, <1>3, <1>4, <2>1 DEF LoopGood
<1>5. CASE s.targets # s.done
  <2>1. PICK x : x = CHOOSE target \in s.targets \ s.done : TRUE  OBVIOUS
  <2>2. x \in s.targets /\ x \notin s.done  BY <1>2, <1>5, <2>1
  <2>3. PICK r : r = TargetReferences(s.an, x, asked.name, asked.declaration)  OBVIOUS
  <2>4. x \in Symbols(text) /\ Name(text, x) = asked.name  BY <1>2, <2>2
  <2>5. /\ Fresh(r.an)
        /\ \A t \in AllTokens(text) : x \in SymbolsAt(text, Files, t) => Finds(r, t, x, asked.declaration)
    <3>1. s.targets \subseteq Chain(asked.token)[n]  BY <1>1 DEF FollowGood
    <3>2. {x} \subseteq Component(Meaning(text), asked.token)  BY <1>a, <2>2, <3>1, ChainGrows
    <3>3. ~PickedAlone({x})  BY <3>2, PickedAloneGrows
    <3> QED  BY <1>1, <2>3, <2>4, <3>3, TargetFinds
  <2>6. PICK z : z = Follow(s, q)  OBVIOUS
  <2>7. /\ z.an = r.an /\ z.done = s.done \cup {x}
        /\ z.targets = s.targets \cup Join(r.an, r.found)
        /\ z.refs = s.refs \cup r.found
    BY <1>5, <2>1, <2>3, <2>6 DEF Follow
  <2>8. n + 1 <= Cardinality(z.done)
    <3>1. s.done \in SUBSET Symbols(text)  BY <1>2
    <3>2. IsFiniteSet(s.done) /\ Cardinality(s.done) \in Nat  BY <1>a, <3>1, SymbolsCount
    <3>3. PICK done : done = s.done  OBVIOUS
    <3>4. Cardinality(done \cup {x}) = Cardinality(done) + 1  BY <2>2, <3>2, <3>3, FS_AddElement
    <3> QED  BY <1>1, <1>5, <2>7, <3>2, <3>3, <3>4
  <2>9. \A y \in s.done : Finished(z, y, asked.declaration)
    BY <1>1, <2>7 DEF Finished
  <2>10. Finished(z, x, asked.declaration)
    <3> SUFFICES ASSUME NEW t \in AllTokens(text), x \in SymbolsAt(text, Files, t)
                 PROVE  /\ t \in z.refs \/ (~asked.declaration /\ t \in Symbols(text))
                        /\ SymbolsAt(text, Files, t) \subseteq z.targets
      BY DEF Finished
    <3>1. Finds(r, t, x, asked.declaration)  BY <2>5
    <3>2. ASSUME t \in r.found, r.an[t[1]] = Trees(t[1]) \/ SymbolsAt(text, Files, t) = {x}
          PROVE  /\ t \in z.refs \/ (~asked.declaration /\ t \in Symbols(text))
                 /\ SymbolsAt(text, Files, t) \subseteq z.targets
      <4>1. SymbolsAt(text, Files, t) \subseteq {x} \cup Join(r.an, r.found)  BY <2>5, <3>2, JoinIs
      <4> QED  BY <2>2, <2>7, <3>2, <4>1
    <3>3. ASSUME ~asked.declaration, t = x
          PROVE  /\ t \in z.refs \/ (~asked.declaration /\ t \in Symbols(text))
                 /\ SymbolsAt(text, Files, t) \subseteq z.targets
      <4>1. x[3] = "name" /\ Sort(text, x) \in UnitSorts \cup MemberSorts  BY <2>4, SymbolIs
      <4>2. SymbolsAt(text, Files, t) = {x}  BY <3>3, <4>1, SymbolsAtIs
      <4> QED  BY <2>2, <2>4, <2>7, <3>3, <4>2
    <3> QED  BY <3>1, <3>2, <3>3 DEF Finds
  <2>11. SymbolsAt(text, Files, asked.token) \subseteq z.targets  BY <1>1, <2>7
  <2> QED  BY <1>3, <2>5, <2>6, <2>7, <2>8, <2>9, <2>10, <2>11 DEF LoopGood
<1> QED  BY <1>4, <1>5

\* what is joined stays among the targets
WithinGood(S, n, c) == c \subseteq S
Within == INSTANCE FoldTheorems WITH Step <- Joined, Good <- WithinGood

\* What is returned is what stands for some symbols, or joins them.
Closed(refs, token, T, declaration) ==
  /\ SymbolsAt(text, Files, token) \subseteq T
  /\ \A x \in T : \A u \in AllTokens(text) : x \in SymbolsAt(text, Files, u) =>
       /\ u \in refs \/ (~declaration /\ u \in Symbols(text))
       /\ SymbolsAt(text, Files, u) \subseteq T
  /\ \A u \in refs : SymbolsAt(text, Files, u) \cap T # {} \/ u \in Namesakes(T, Name(text, token))

\* The loop ends with all targets done.
LEMMA ReferencesAreClosed ==
  ASSUME Indexed, NEW an, Fresh(an), NEW t \in AllTokens(text), NEW decl \in BOOLEAN,
         ~PickedAlone(Component(Meaning(text), t))
  PROVE  \E T \in SUBSET Symbols(text) :
           T \subseteq Component(Meaning(text), t) /\ Closed(References(an, t, decl).refs, t, T, decl)
<1> DEFINE K == Cardinality(Symbols(text))
           first == Analyse(an, t[1])
           q == [name |-> Name(text, t), declaration |-> decl]
           asked == [token |-> t, name |-> Name(text, t), declaration |-> decl]
           base == [an |-> first, refs |-> {}, done |-> {},
                    targets |-> SymbolsAt(text, first[t[1]], t)]
<1>a. AreTexts(text)  BY DEF Indexed, RefInv, RefTypeOK, AreTexts
<1>1. K \in Nat /\ K \in 0..K  BY <1>a, SymbolsFinite
<1>2. t[1] \in Files /\ Fresh(first) /\ first[t[1]] = Trees(t[1])  BY TokenIs, AnalyseFresh
<1>3. References(an, t, decl) = Loops!Iteration(K, base, q)[K]
  BY DEF References, Loops!Iteration, Loops!Iterates
<1>4. /\ q.name = asked.name /\ q.declaration = asked.declaration
      /\ asked.token = t /\ asked.name = Name(text, t) /\ asked.declaration = decl
  OBVIOUS
<1>5. LoopGood(asked, 0, base)
  <2> HIDE DEF first, asked
  <2>1. SymbolsAt(text, first[t[1]], t) = SymbolsAt(text, Files, t)  BY <1>2, TreesSuffice
  <2>2. \A x \in SymbolsAt(text, Files, t) : x \in Symbols(text) /\ Name(text, x) = Name(text, t)
    BY <1>a, SymbolsAtAre
  <2>3. Chain(asked.token)[0] = SymbolsAt(text, Files, t)  BY <1>a, <1>4, ChainIs
  <2>4. FollowGood(asked, 0, base)  BY <1>2, <1>4, <2>1, <2>2, <2>3 DEF FollowGood, Fresh
  <2>5. 0 <= Cardinality(base.done)  BY FS_EmptySet
  <2> QED  BY <1>2, <1>4, <2>1, <2>4, <2>5 DEF LoopGood
<1> HIDE DEF K, base, asked, q
<1>6. \A n \in 0..(K - 1) : \A x : LoopGood(asked, n, x) => LoopGood(asked, n + 1, Follow(x, q))
  BY <1>4, LoopStep DEF K
<1>7. \A n \in 0..K : LoopGood(asked, n, Loops!Iteration(K, base, q)[n])
  BY <1>1, <1>5, <1>6, Loops!IterationInduction
<1>8. PICK s : s = References(an, t, decl)  OBVIOUS
<1>9. LoopGood(asked, K, s)  BY <1>1, <1>3, <1>7, <1>8
<1>10. s.done = s.targets /\ s.targets \in SUBSET Symbols(text)
  <2>1. s.done \subseteq s.targets /\ s.targets \in SUBSET Symbols(text)
    BY <1>9 DEF LoopGood, FollowGood
  <2> SUFFICES ASSUME s.done # s.targets PROVE FALSE  BY <2>1
  <2>2. PICK y : y \in Symbols(text) /\ y \notin s.done  BY <2>1
  <2>3. Cardinality(s.done) < K
    <3>1. s.done \in SUBSET Symbols(text) /\ s.done # Symbols(text)  BY <2>1, <2>2
    <3>2. IsFiniteSet(Symbols(text))  BY <1>a, SymbolsFinite
    <3>3. PICK done : done = s.done  OBVIOUS
    <3>4. /\ Cardinality(done) <= Cardinality(Symbols(text))
          /\ Cardinality(Symbols(text)) = Cardinality(done) => Symbols(text) = done
      BY <3>1, <3>2, <3>3, FS_Subset
    <3>5. Cardinality(done) \in Nat  BY <1>a, <2>1, <3>3, SymbolsCount
    <3> QED  BY <1>1, <3>1, <3>3, <3>4, <3>5 DEF K
  <2>4. Cardinality(s.done) \in Nat  BY <1>a, <2>1, SymbolsCount
  <2> QED  BY <1>1, <1>9, <2>3, <2>4 DEF LoopGood
<1>11. /\ SymbolsAt(text, Files, t) \subseteq s.targets
       /\ \A x \in s.targets : \A u \in AllTokens(text) : x \in SymbolsAt(text, Files, u) =>
            /\ u \in s.refs \/ (~decl /\ u \in Symbols(text))
            /\ SymbolsAt(text, Files, u) \subseteq s.targets
  BY <1>4, <1>9, <1>10 DEF LoopGood, Finished
<1>12. \A u \in s.refs : SymbolsAt(text, Files, u) \cap s.targets # {} \/ u \in Namesakes(s.targets, Name(text, t))
  BY <1>4, <1>9 DEF LoopGood, FollowGood
<1>14. s.targets \subseteq Component(Meaning(text), t)
  <2>1. s.targets \subseteq Chain(t)[K]  BY <1>4, <1>9 DEF LoopGood, FollowGood
  <2> QED  BY <1>a, <2>1, ChainIs DEF K
<1>13. Closed(s.refs, t, s.targets, decl)  BY <1>11, <1>12 DEF Closed
<1> QED  BY <1>8, <1>10, <1>13, <1>14

\* So the component is among the targets, and its occurrences are found.
LEMMA AllOccurrences ==
  ASSUME Indexed, NEW an, Fresh(an), NEW t \in AllTokens(text), NEW decl \in BOOLEAN,
         ~PickedAlone(Component(Meaning(text), t))
  PROVE  Occurrences(Meaning(text), Component(Meaning(text), t), decl) \subseteq References(an, t, decl).refs
<1> DEFINE K == Cardinality(Symbols(text))
           m == Meaning(text)
<1>1. K \in Nat /\ K \in 0..K
  <2>1. AreTexts(text)  BY DEF Indexed, RefInv, RefTypeOK, AreTexts
  <2> QED  BY <2>1, SymbolsFinite
<1>8. PICK s : s = References(an, t, decl)  OBVIOUS
<1>9. PICK T \in SUBSET Symbols(text) : Closed(s.refs, t, T, decl)  BY <1>8, ReferencesAreClosed
<1>11. /\ SymbolsAt(text, Files, t) \subseteq T
       /\ \A x \in T : \A u \in AllTokens(text) : x \in SymbolsAt(text, Files, u) =>
            /\ u \in s.refs \/ (~decl /\ u \in Symbols(text))
            /\ SymbolsAt(text, Files, u) \subseteq T
  BY <1>9 DEF Closed
<1> HIDE DEF K
<1>12. m = [u \in AllTokens(text) |-> SymbolsAt(text, Files, u)]  BY DEF Meaning
<1> HIDE DEF m
<1>13. Component(m, t) \subseteq T
  <2>1. Component(m, t) = Within!Iteration(K, m[t], m)[K]
    BY DEF Component, Within!Iteration, Within!Iterates, K
  <2>2. WithinGood(T, 0, m[t])  BY <1>11, <1>12 DEF WithinGood
  <2>3. \A n \in 0..(K - 1) : \A c : WithinGood(T, n, c) => WithinGood(T, n + 1, Joined(c, m))
    <3> SUFFICES ASSUME NEW c, c \subseteq T, NEW u \in AllTokens(text), m[u] \cap c # {}
                 PROVE  m[u] \subseteq T
      BY <1>12 DEF WithinGood, Joined
    <3> QED  BY <1>11, <1>12
  <2>4. \A n \in 0..K : WithinGood(T, n, Within!Iteration(K, m[t], m)[n])
    BY <1>1, <2>2, <2>3, Within!IterationInduction
  <2> QED  BY <1>1, <2>1, <2>4 DEF WithinGood
<1>14. ASSUME NEW u \in Occurrences(m, Component(m, t), decl) PROVE u \in s.refs
  <2>1. PICK c : c = Component(m, t)  OBVIOUS
  <2>2. u \in AllTokens(text) /\ m[u] \cap c # {} /\ (~decl => u \notin c)
    BY <1>12, <2>1 DEF Occurrences
  <2>3. PICK x \in m[u] : x \in c /\ x \in T  BY <1>13, <2>1, <2>2
  <2>4. u \in s.refs \/ (~decl /\ u \in Symbols(text))  BY <1>11, <1>12, <2>2, <2>3
  <2>5. ASSUME u \in Symbols(text) PROVE x = u
    <3>1. u[3] = "name" /\ Sort(text, u) \in UnitSorts \cup MemberSorts  BY <2>5, SymbolIs
    <3>2. SymbolsAt(text, Files, u) = {u}  BY <2>2, <3>1, SymbolsAtIs
    <3> QED  BY <1>12, <2>2, <2>3, <3>2
  <2> QED  BY <2>2, <2>3, <2>4, <2>5
<1> QED  BY <1>8, <1>14 DEF m

----------------------------------------------------------------------------
(* A renaming changes no meaning                                             *)

\* what a connection may be of: members that are no instances
PortsOf(tx, u, n) == {s \in MembersOf(tx, Files, u, n) : Item(tx, s).sort \in PortSorts}

\* the symbols T get a new name, and just what stands for them does
Fits(L, u, R, T) == (u \in R => L \subseteq T) /\ (u \notin R => L \cap T = {})
Renames(new, R, T, old, name) ==
  /\ IsRenaming(new, R, old, name) /\ T \subseteq Symbols(text)
  /\ \A u \in AllTokens(text) : Fits(SymbolsAt(text, Files, u), u, R, T)
  /\ ~Dangles(Meaning(text), old)

\* the symbols that are renamed
LEMMA RenamedSymbols ==
  ASSUME NEW new, NEW R, NEW T, NEW old, NEW name, Renames(new, R, T, old, name),
         NEW s \in Symbols(text)
  PROVE  s \in R <=> s \in T
<1>1. s \in AllTokens(text) /\ SymbolsAt(text, Files, s) = {s}  BY SymbolIs, SymbolsAtIs
<1> QED  BY <1>1 DEF Renames, Fits

\* Among some symbols, a token finds those that it found before.
LEMMA SameMatches ==
  ASSUME NEW new, NEW R, NEW T, NEW old, NEW name, Renames(new, R, T, old, name),
         NEW u \in AllTokens(text), NEW X \in SUBSET Symbols(text),
         Fits({s \in X : Name(text, s) = Name(text, u)}, u, R, T)
  PROVE  {s \in X : Name(new, s) = Name(new, u)} = {s \in X : Name(text, s) = Name(text, u)}
<1>1. /\ \A v \in AllTokens(text) : Name(new, v) = IF v \in R THEN name ELSE Name(text, v)
      /\ \A v \in R : Name(text, v) = old
      /\ \A v \in AllTokens(text) : Name(text, v) # name
  BY RenamedNames DEF Renames, IsRenaming
<1>2. \A s \in X : s \in AllTokens(text) /\ (s \in R <=> s \in T)  BY RenamedSymbols DEF Symbols
<1>3. ASSUME NEW s \in X, Name(new, s) = Name(new, u) PROVE Name(text, s) = Name(text, u)
  BY <1>1, <1>2, <1>3
<1>4. ASSUME NEW s \in X, Name(text, s) = Name(text, u) PROVE Name(new, s) = Name(new, u)
  <2>1. s \in R <=> u \in R  BY <1>2, <1>4 DEF Fits
  <2> QED  BY <1>1, <1>2, <1>4, <2>1
<1> QED  BY <1>3, <1>4

\* in particular among the members of a file
LEMMA SameMembers ==
  ASSUME NEW new, NEW R, NEW T, NEW old, NEW name, Renames(new, R, T, old, name),
         NEW u \in AllTokens(text), NEW f \in Files,
         Fits(Members(text, f, Name(text, u)), u, R, T)
  PROVE  Members(new, f, Name(new, u)) = Members(text, f, Name(text, u))
<1> DEFINE X == {<<f, i, "name">> : i \in {i \in DOMAIN text[f] : text[f][i].sort \in MemberSorts}}
<1>1. /\ DOMAIN new[f] = DOMAIN text[f]
      /\ \A i \in DOMAIN text[f] : new[f][i].sort = text[f][i].sort
  BY DEF Renames, IsRenaming, NewTexts
<1>2. ASSUME NEW tx, NEW n, DOMAIN tx[f] = DOMAIN text[f],
             \A i \in DOMAIN text[f] : tx[f][i].sort = text[f][i].sort
      PROVE  Members(tx, f, n) = {s \in X : Name(tx, s) = n}
  <2>1. \A i : Name(tx, <<f, i, "name">>) = tx[f][i].name  BY DEF Name, Item
  <2> QED  BY <1>2, <2>1 DEF Members
<1>3. X \in SUBSET Symbols(text)
  <2>1. ASSUME NEW s \in X PROVE s \in Symbols(text)
    <3>1. PICK i \in DOMAIN text[f] : s = <<f, i, "name">> /\ text[f][i].sort \in MemberSorts
      OBVIOUS
    <3>2. s \in Tokens(text, f)  BY <3>1 DEF Tokens
    <3> QED  BY <3>1, <3>2 DEF Symbols, AllTokens
  <2> QED  BY <2>1
<1>4. \A n : Members(text, f, n) = {s \in X : Name(text, s) = n}  BY <1>2
<1>5. \A n : Members(new, f, n) = {s \in X : Name(new, s) = n}  BY <1>1, <1>2
<1> HIDE DEF X
<1>6. Fits({s \in X : Name(text, s) = Name(text, u)}, u, R, T)  BY <1>4
<1>7. {s \in X : Name(new, s) = Name(new, u)} = {s \in X : Name(text, s) = Name(text, u)}
  BY <1>3, <1>6, SameMatches
<1> QED  BY <1>4, <1>5, <1>7

\* and among the units of the workspace,
LEMMA SameUnits ==
  ASSUME AreTexts(text), NEW new, NEW R, NEW T, NEW old, NEW name, Renames(new, R, T, old, name),
         NEW v \in AllTokens(text), v[3] = "unit"
  PROVE  Units(new, Files, Name(new, v)) = Units(text, Files, Name(text, v))
<1> DEFINE X == {<<f, 1, "name">> : f \in Files}
<1>1. \A tx, n : Units(tx, Files, n) = {s \in X : Name(tx, s) = n}
  <2>1. \A tx : \A f \in Files : Name(tx, <<f, 1, "name">>) = UnitName(tx, f)
    BY DEF Name, Item, UnitName
  <2> QED  BY <2>1 DEF Units
<1>2. X \in SUBSET Symbols(text)
  <2>1. ASSUME NEW s \in X PROVE s \in Symbols(text)
    <3>1. PICK f \in Files : s = <<f, 1, "name">>  OBVIOUS
    <3>2. s \in Units(text, Files, UnitName(text, f))  BY <3>1 DEF Units
    <3> QED  BY <3>2, UnitsAre
  <2> QED  BY <2>1
<1>3. SymbolsAt(text, Files, v) = Units(text, Files, Name(text, v))  BY SymbolsAtIs DEF Name
<1> HIDE DEF X
<1>4. Fits({s \in X : Name(text, s) = Name(text, v)}, v, R, T)  BY <1>1, <1>3 DEF Renames
<1>5. {s \in X : Name(new, s) = Name(new, v)} = {s \in X : Name(text, s) = Name(text, v)}
  BY <1>2, <1>4, SameMatches
<1> QED  BY <1>1, <1>5

\* so the ports and values of a unit stay found,
LEMMA SamePorts ==
  ASSUME AreTexts(text), NEW new, NEW R, NEW T, NEW old, NEW name, Renames(new, R, T, old, name),
         NEW u \in AllTokens(text), NEW v \in AllTokens(text), v[3] = "unit",
         Fits(PortsOf(text, Name(text, v), Name(text, u)), u, R, T)
  PROVE  PortsOf(new, Name(new, v), Name(new, u)) = PortsOf(text, Name(text, v), Name(text, u))
<1>1. Units(new, Files, Name(new, v)) = Units(text, Files, Name(text, v))  BY SameUnits
<1>2. /\ AllTokens(new) = AllTokens(text)
      /\ \A w \in AllTokens(text) : Sort(new, w) = Sort(text, w)
      /\ AreTexts(new) /\ DOMAIN new = Files
  BY RenamedNames DEF Renames, IsRenaming, NewTexts
<1> DEFINE D == Units(text, Files, Name(text, v))
           X == {s \in Symbols(text) : Sort(text, s) \in PortSorts /\ \E d \in D : s[1] = d[1]}
<1>3. ASSUME NEW tx, AreTexts(tx), NEW k, NEW n, Units(tx, Files, k) = D,
             AllTokens(tx) = AllTokens(text), \A w \in AllTokens(text) : Sort(tx, w) = Sort(text, w)
      PROVE  PortsOf(tx, k, n) = {s \in X : Name(tx, s) = n}
  <2>1. Symbols(tx) = Symbols(text)  BY <1>3 DEF Symbols, Sort, Item
  <2>2. ASSUME NEW s \in PortsOf(tx, k, n) PROVE s \in X /\ Name(tx, s) = n
    <3>1. s \in MembersOf(tx, Files, k, n) /\ Sort(tx, s) \in PortSorts  BY <2>2 DEF PortsOf, Sort
    <3>2. s \in Symbols(tx) /\ Name(tx, s) = n  BY <1>3, <3>1, MembersOfAre
    <3>3. PICK d \in D : s \in Members(tx, d[1], n)  BY <1>3, <3>1 DEF MembersOf
    <3>4. d[1] \in Files  BY UnitsAre
    <3>5. s[1] = d[1]  BY <3>3 DEF Members
    <3>6. s \in AllTokens(text)  BY <2>1, <3>2, SymbolIs
    <3> QED  BY <1>3, <2>1, <3>1, <3>2, <3>5, <3>6
  <2>3. ASSUME NEW s \in X, Name(tx, s) = n PROVE s \in PortsOf(tx, k, n)
    <3>1. PICK d \in D : s[1] = d[1]  OBVIOUS
    <3>2. s \in Symbols(text) /\ s \in AllTokens(text) /\ s[3] = "name"  BY SymbolIs
    <3>3. s \in AllTokens(tx) /\ Sort(tx, s) \in PortSorts  BY <1>3, <3>2
    <3>4. s = <<s[1], s[2], "name">> /\ s[2] \in DOMAIN tx[s[1]]  BY <3>2, <3>3, TokenIs
    <3>5. s \in Members(tx, d[1], n)
      BY <2>3, <3>1, <3>2, <3>3, <3>4 DEF Members, Sort, Item, Name, MemberSorts
    <3> QED  BY <1>3, <3>1, <3>3, <3>5 DEF PortsOf, MembersOf, Sort
  <2> QED  BY <2>2, <2>3
<1>4. PortsOf(text, Name(text, v), Name(text, u)) = {s \in X : Name(text, s) = Name(text, u)}
  BY <1>3
<1>5. PortsOf(new, Name(new, v), Name(new, u)) = {s \in X : Name(new, s) = Name(new, u)}
  BY <1>1, <1>2, <1>3
<1>6. X \in SUBSET Symbols(text)  OBVIOUS
<1> HIDE DEF X
<1>7. Fits({s \in X : Name(text, s) = Name(text, u)}, u, R, T)  BY <1>4
<1> QED  BY <1>4, <1>5, <1>6, <1>7, SameMatches

\* so do the members,
LEMMA SameMembersOf ==
  ASSUME AreTexts(text), NEW new, NEW R, NEW T, NEW old, NEW name, Renames(new, R, T, old, name),
         NEW u \in AllTokens(text), NEW v \in AllTokens(text), v[3] = "unit",
         Fits(MembersOf(text, Files, Name(text, v), Name(text, u)), u, R, T)
  PROVE  MembersOf(new, Files, Name(new, v), Name(new, u)) = MembersOf(text, Files, Name(text, v), Name(text, u))
<1>1. Units(new, Files, Name(new, v)) = Units(text, Files, Name(text, v))  BY SameUnits
<1>2. PICK D : D = Units(text, Files, Name(text, v))  OBVIOUS
<1>3. ASSUME NEW d \in D
      PROVE  Members(new, d[1], Name(new, u)) = Members(text, d[1], Name(text, u))
  <2>1. d[1] \in Files  BY <1>2, UnitsAre
  <2>2. Members(text, d[1], Name(text, u)) \subseteq MembersOf(text, Files, Name(text, v), Name(text, u))
    BY <1>2 DEF MembersOf
  <2>3. Fits(Members(text, d[1], Name(text, u)), u, R, T)  BY <2>2 DEF Fits
  <2> QED  BY <2>1, <2>3, SameMembers
<1>4. UNION {Members(new, d[1], Name(new, u)) : d \in D} = UNION {Members(text, d[1], Name(text, u)) : d \in D}
  BY <1>3
<1> QED  BY <1>1, <1>2, <1>4 DEF MembersOf

\* what is imported by name stays so,
LEMMA SamePicked ==
  ASSUME AreTexts(text), NEW new, NEW R, NEW T, NEW old, NEW name, Renames(new, R, T, old, name),
         NEW u \in AllTokens(text), NEW f \in Files,
         \A i \in Picked(text, f, Name(text, u)) :
           Fits(MembersOf(text, Files, text[f][i].unit, Name(text, u)), u, R, T)
  PROVE  Picked(new, f, Name(new, u)) = Picked(text, f, Name(text, u))
<1> DEFINE p(i) == <<f, i, "name">>
<1>1. /\ DOMAIN new[f] = DOMAIN text[f]
      /\ \A i \in DOMAIN text[f] : new[f][i].sort = text[f][i].sort
  BY DEF Renames, IsRenaming, NewTexts
<1>2. ASSUME NEW i \in DOMAIN text[f], text[f][i].sort = "pick"
      PROVE  /\ p(i) \in AllTokens(text) /\ p(i)[3] = "name" /\ Sort(text, p(i)) = "pick"
             /\ \A tx : Name(tx, p(i)) = tx[f][i].name
             /\ SymbolsAt(text, Files, p(i)) = MembersOf(text, Files, text[f][i].unit, text[f][i].name)
  <2>1. p(i) \in Tokens(text, f)  BY <1>2 DEF Tokens, NameUses
  <2>2. p(i) \in AllTokens(text)  BY <2>1 DEF AllTokens
  <2>3. Item(text, p(i)) = text[f][i] /\ p(i)[3] = "name" /\ \A tx : Name(tx, p(i)) = tx[f][i].name
    BY DEF Item, Name
  <2> HIDE DEF p
  <2> QED  BY <1>2, <2>2, <2>3, SymbolsAtIs DEF Sort
<1>3. ASSUME NEW i \in Picked(text, f, Name(text, u))
      PROVE  p(i) \in R <=> u \in R
  <2>1. i \in DOMAIN text[f] /\ text[f][i].sort = "pick" /\ text[f][i].name = Name(text, u)  BY DEF Picked
  <2>2. PICK q : q = p(i)  OBVIOUS
  <2>3. PICK L : L = MembersOf(text, Files, text[f][i].unit, Name(text, u))  OBVIOUS
  <2>4. /\ q \in AllTokens(text) /\ q[3] = "name" /\ Sort(text, q) = "pick" /\ Name(text, q) = Name(text, u)
        /\ SymbolsAt(text, Files, q) = L
    BY <1>2, <2>1, <2>2, <2>3
  <2>5. Fits(L, q, R, T) /\ Fits(L, u, R, T)  BY <2>3, <2>4 DEF Renames
  <2>6. /\ \A w \in R : Name(text, w) = old
        /\ ~Dangles(Meaning(text), old)
    BY DEF Renames, IsRenaming
  <2>7. CASE Name(text, u) # old  BY <2>2, <2>4, <2>6, <2>7
  <2>8. CASE Name(text, u) = old
    <3>1. q \in DOMAIN Meaning(text) /\ Meaning(text)[q] = L  BY <2>4, MeaningIs DEF Meaning
    <3>2. L # {}  BY <2>4, <2>6, <2>8, <3>1 DEF Dangles, Sort
    <3> QED  BY <2>2, <2>5, <3>2 DEF Fits
  <2> QED  BY <2>7, <2>8
<1>4. /\ \A w \in AllTokens(text) : Name(new, w) = IF w \in R THEN name ELSE Name(text, w)
      /\ \A w \in R : Name(text, w) = old
      /\ \A w \in AllTokens(text) : Name(text, w) # name
  BY RenamedNames DEF Renames, IsRenaming
<1> HIDE DEF p
<1>5. ASSUME NEW i \in Picked(new, f, Name(new, u)) PROVE i \in Picked(text, f, Name(text, u))
  <2>1. i \in DOMAIN text[f] /\ text[f][i].sort = "pick" /\ new[f][i].name = Name(new, u)
    BY <1>1 DEF Picked
  <2>2. PICK q : q = p(i)  OBVIOUS
  <2>3. q \in AllTokens(text) /\ Name(new, q) = Name(new, u) /\ Name(text, q) = text[f][i].name
    BY <1>2, <2>1, <2>2
  <2>4. Name(text, q) = Name(text, u)  BY <1>4, <2>3
  <2> QED  BY <2>1, <2>3, <2>4 DEF Picked
<1>6. ASSUME NEW i \in Picked(text, f, Name(text, u)) PROVE i \in Picked(new, f, Name(new, u))
  <2>1. i \in DOMAIN text[f] /\ text[f][i].sort = "pick" /\ text[f][i].name = Name(text, u)  BY DEF Picked
  <2>2. PICK q : q = p(i)  OBVIOUS
  <2>3. /\ q \in AllTokens(text) /\ Name(text, q) = Name(text, u) /\ Name(new, q) = new[f][i].name
        /\ (q \in R <=> u \in R)
    BY <1>2, <1>3, <2>1, <2>2
  <2>4. Name(new, q) = Name(new, u)  BY <1>4, <2>3
  <2> QED  BY <1>1, <2>1, <2>3, <2>4 DEF Picked
<1> QED  BY <1>5, <1>6

\* names in expressions keep what they stand for,
LEMMA SameLookup ==
  ASSUME AreTexts(text), NEW new, NEW R, NEW T, NEW old, NEW name, Renames(new, R, T, old, name),
         NEW u \in AllTokens(text), NEW f \in Files,
         Fits(Lookup(text, Files, f, Name(text, u)), u, R, T)
  PROVE  Lookup(new, Files, f, Name(new, u)) = Lookup(text, Files, f, Name(text, u))
<1> DEFINE n == Name(text, u)
           k == Name(new, u)
           own == Members(text, f, n)
<1>1. Fits(own, u, R, T)
  <2>1. own = {} \/ own = Lookup(text, Files, f, n)  BY LookupIs
  <2> QED  BY <2>1 DEF Fits
<1>2. Members(new, f, k) = own  BY <1>1, SameMembers
<1>3. Imported(new, f) = Imported(text, f)
  BY DEF Renames, IsRenaming, NewTexts, Imported
<1>4. CASE own # {}
  <2> HIDE DEF n, k, own
  <2> QED  BY <1>2, <1>4, LookupIs DEF n, k, own
<1>5. CASE own = {}
  <2> DEFINE from == Imports(text, f, n)
  <2>a. \A i \in from : MembersOf(text, Files, text[f][i].unit, n) \subseteq Lookup(text, Files, f, n)
    BY <1>5, LookupIs
  <2>b. \A i \in from : Fits(MembersOf(text, Files, text[f][i].unit, n), u, R, T)  BY <2>a DEF Fits
  <2>c. Picked(new, f, k) = Picked(text, f, n)
    <3>1. \A i \in Picked(text, f, n) : i \in from  BY ImportsAre
    <3>2. \A i \in Picked(text, f, Name(text, u)) :
            Fits(MembersOf(text, Files, text[f][i].unit, Name(text, u)), u, R, T)
      BY <2>b, <3>1
    <3> QED  BY <3>2, SamePicked
  <2>d. Imports(new, f, k) = from
    <3> HIDE DEF n, k
    <3> QED  BY <1>3, <2>c, ImportsAre
  <2>1. ASSUME NEW i \in from
        PROVE  MembersOf(new, Files, new[f][i].unit, k) = MembersOf(text, Files, text[f][i].unit, n)
    <3>1. i \in DOMAIN text[f] /\ text[f][i].sort \in UnitUses  BY ImportsAre DEF Imported, Picked, UnitUses
    <3>2. PICK v : v = <<f, i, "unit">>  OBVIOUS
    <3>3. v \in AllTokens(text) /\ v[3] = "unit"  BY <3>1, <3>2 DEF AllTokens, Tokens
    <3>4. \A tx : Name(tx, v) = tx[f][i].unit  BY <3>2 DEF Name, Item
    <3>6. Fits(MembersOf(text, Files, Name(text, v), n), u, R, T)  BY <2>b, <3>4
    <3>7. MembersOf(new, Files, Name(new, v), k) = MembersOf(text, Files, Name(text, v), n)
      BY <3>3, <3>6, SameMembersOf
    <3> QED  BY <3>4, <3>7
  <2>2. UNION {MembersOf(new, Files, new[f][i].unit, k) : i \in from}
          = UNION {MembersOf(text, Files, text[f][i].unit, n) : i \in from}
    BY <2>1
  <2> HIDE DEF n, k, from
  <2>3. Lookup(new, Files, f, k) = UNION {MembersOf(new, Files, new[f][i].unit, k) : i \in from}
    BY <1>2, <1>5, <2>d, LookupIs
  <2>4. Lookup(text, Files, f, n) = UNION {MembersOf(text, Files, text[f][i].unit, n) : i \in from}
    BY <1>5, LookupIs DEF from
  <2> QED  BY <2>2, <2>3, <2>4 DEF n, k
<1> QED  BY <1>4, <1>5

\* and so do connections of instances.
LEMMA SameConnected ==
  ASSUME AreTexts(text), NEW new, NEW R, NEW T, NEW old, NEW name, Renames(new, R, T, old, name),
         NEW u \in AllTokens(text), u[3] = "name", Sort(text, u) \in {"port", "short"}
  PROVE  Connected(new, Files, u) = Connected(text, Files, u)
<1> DEFINE f == u[1]
           o == Item(text, u).of
           n == Name(text, u)
           k == Name(new, u)
           inner == PortsOf(text, text[f][o].unit, n)
           innerAfter == PortsOf(new, new[f][o].unit, k)
           around == Lookup(text, Files, f, n)
           aroundAfter == Lookup(new, Files, f, k)
<1>1. f \in Files /\ o \in DOMAIN text[f] /\ text[f][o].sort = "inst"  BY TokenIs, ConnectionIs
<1>2. PICK v : v = <<f, o, "unit">>  OBVIOUS
<1>3. v \in AllTokens(text) /\ v[3] = "unit"  BY <1>1, <1>2 DEF AllTokens, Tokens, UnitUses
<1>4. \A tx : Name(tx, v) = tx[f][o].unit  BY <1>2 DEF Name, Item
<1>5. /\ Item(new, u).of = o /\ Item(new, u).name = k /\ Item(text, u).name = n
      /\ Item(new, u).sort = Sort(text, u) /\ Item(text, u).sort = Sort(text, u)
  BY RenamedNames DEF Renames, IsRenaming, Name, Sort
<1>6. Connected(text, Files, u) = inner \cup IF inner # {} /\ Sort(text, u) = "short" THEN around ELSE {}
  BY <1>5 DEF Connected, PortsOf
<1>7. Connected(new, Files, u) =
        innerAfter \cup IF innerAfter # {} /\ Sort(text, u) = "short" THEN aroundAfter ELSE {}
  BY <1>5 DEF Connected, PortsOf
<1>8. Fits(Connected(text, Files, u), u, R, T)  BY SymbolsAtIs DEF Renames
<1>9. innerAfter = inner
  <2>1. Fits(inner, u, R, T)  BY <1>6, <1>8 DEF Fits
  <2>2. Fits(PortsOf(text, Name(text, v), n), u, R, T)  BY <1>4, <2>1
  <2>3. PortsOf(new, Name(new, v), k) = PortsOf(text, Name(text, v), n)
    BY <1>3, <2>2, SamePorts
  <2> QED  BY <1>4, <2>3
<1>10. ASSUME inner # {}, Sort(text, u) = "short" PROVE aroundAfter = around
  <2>1. Fits(around, u, R, T)  BY <1>6, <1>8, <1>10 DEF Fits
  <2> QED  BY <1>1, <2>1, SameLookup
<1> HIDE DEF inner, innerAfter, around, aroundAfter
<1> QED  BY <1>6, <1>7, <1>9, <1>10

\* No token stands for anything else.
LEMMA SameMeaning ==
  ASSUME AreTexts(text), NEW new, NEW R, NEW T, NEW old, NEW name, Renames(new, R, T, old, name)
  PROVE  Meaning(new) = Meaning(text)
<1>1. AllTokens(new) = AllTokens(text)  BY RenamedNames DEF Renames, IsRenaming
<1>2. ASSUME NEW u \in AllTokens(text) PROVE SymbolsAt(new, Files, u) = SymbolsAt(text, Files, u)
  <2> DEFINE f == u[1]
  <2>0. /\ f \in Files /\ u[2] \in DOMAIN text[f] /\ u = <<f, u[2], u[3]>>
        /\ \/ u[3] = "name" /\ Sort(text, u) \in UnitSorts \cup MemberSorts \cup NameUses
           \/ u[3] = "unit" /\ Sort(text, u) \in UnitUses
    BY TokenIs
  <2>1. Sort(new, u) = Sort(text, u) /\ u \in AllTokens(new)
    BY <1>1, RenamedNames DEF Renames, IsRenaming
  <2>2. Fits(SymbolsAt(text, Files, u), u, R, T)  BY DEF Renames
  <2>3. CASE u[3] = "unit"
    <3>1. \A tx : Name(tx, u) = Item(tx, u).unit  BY <2>3 DEF Name
    <3>2. SymbolsAt(text, Files, u) = Units(text, Files, Name(text, u))  BY <2>3, <3>1, SymbolsAtIs
    <3>3. SymbolsAt(new, Files, u) = Units(new, Files, Name(new, u))  BY <2>1, <2>3, <3>1, SymbolsAtIs
    <3> QED  BY <2>3, <3>2, <3>3, SameUnits
  <2>4. CASE u[3] = "name" /\ Sort(text, u) \in UnitSorts \cup MemberSorts
    BY <2>1, <2>4, SymbolsAtIs
  <2>5. CASE u[3] = "name" /\ Sort(text, u) = "use"
    <3>1. \A tx : Name(tx, u) = Item(tx, u).name  BY <2>5 DEF Name
    <3>2. SymbolsAt(text, Files, u) = Lookup(text, Files, f, Name(text, u))  BY <2>5, <3>1, SymbolsAtIs
    <3>3. SymbolsAt(new, Files, u) = Lookup(new, Files, f, Name(new, u))  BY <2>1, <2>5, <3>1, SymbolsAtIs
    <3> QED  BY <2>0, <2>2, <3>2, <3>3, SameLookup
  <2>6. CASE u[3] = "name" /\ Sort(text, u) \in {"scoped", "pick"}
    <3>1. \A tx : Name(tx, u) = Item(tx, u).name  BY <2>6 DEF Name
    <3>2. PICK v : v = <<f, u[2], "unit">>  OBVIOUS
    <3>3. v \in AllTokens(text) /\ v[3] = "unit"
      BY <2>0, <2>6, <3>2 DEF AllTokens, Tokens, UnitUses, Sort, Item
    <3>4. \A tx : Name(tx, v) = Item(tx, u).unit  BY <3>2 DEF Name, Item
    <3>5. SymbolsAt(text, Files, u) = MembersOf(text, Files, Name(text, v), Name(text, u))
      BY <2>6, <3>1, <3>4, SymbolsAtIs
    <3>6. SymbolsAt(new, Files, u) = MembersOf(new, Files, Name(new, v), Name(new, u))
      BY <2>1, <2>6, <3>1, <3>4, SymbolsAtIs
    <3> QED  BY <2>2, <3>3, <3>5, <3>6, SameMembersOf
  <2>7. CASE u[3] = "name" /\ Sort(text, u) \in {"port", "short"}
    BY <2>1, <2>7, SymbolsAtIs, SameConnected
  <2> QED  BY <2>0, <2>3, <2>4, <2>5, <2>6, <2>7 DEF NameUses
<1> QED  BY <1>1, <1>2 DEF Meaning

\* What getDocRename returns is such a renaming.
LEMMA RenamingKeepsMeaning ==
  ASSUME Indexed, Fresh(analysis), NEW t \in AllTokens(text), NEW name,
         \A u \in AllTokens(text) : Name(text, u) # name,
         ~PickedAlone(Component(Meaning(text), t)), Namesakes(Component(Meaning(text), t), Name(text, t)) = {},
         ~Dangles(Meaning(text), Name(text, t))
  PROVE  Meaning(RenamedBy(t, name)) = Meaning(text)
<1>a. RefInv /\ AreTexts(text)  BY DEF Indexed, RefInv, RefTypeOK, AreTexts
<1>1. PICK R : R = References(analysis, t, TRUE).refs  OBVIOUS
<1>2. PICK new : new = RenamedBy(t, name)  OBVIOUS
<1>3. IsRenaming(new, R, Name(text, t), name)  BY <1>a, <1>1, <1>2, RenamingIs
<1>4. PICK T \in SUBSET Symbols(text) : T \subseteq Component(Meaning(text), t) /\ Closed(R, t, T, TRUE)
  BY <1>1, ReferencesAreClosed
<1>7. Namesakes(T, Name(text, t)) = {}  BY <1>4, NamesakesGrow
<1>5. ASSUME NEW u \in AllTokens(text) PROVE Fits(SymbolsAt(text, Files, u), u, R, T)
  <2>1. CASE u \in R
    <3>1. PICK x : x \in SymbolsAt(text, Files, u) /\ x \in T  BY <1>4, <1>7, <2>1 DEF Closed
    <3> QED  BY <1>4, <2>1, <3>1 DEF Closed, Fits
  <2>2. CASE u \notin R  BY <1>4, <2>2 DEF Closed, Fits
  <2> QED  BY <2>1, <2>2
<1>6. Renames(new, R, T, Name(text, t), name)  BY <1>3, <1>5 DEF Renames
<1> QED  BY <1>a, <1>2, <1>6, SameMeaning

\* The invariant of the references, for any workspace.
LEMMA RefInvariant == RefSpec => []RefInv
BY RefInitHolds, RefNextKeeps, PTL DEF RefSpec

(* Texts stay texts of the grammar, also renamed ones, and an analysis has   *)
(* trees of files of the workspace.                                          *)
THEOREM RefTypeCorrect == RefSpec => []RefTypeOK
<1>1. RefInv => RefTypeOK  BY DEF RefInv
<1> QED  BY <1>1, RefInvariant, PTL

(* The definition of a unit is found wherever it is, whatever was analysed   *)
(* before: the index is asked when the analysis has nothing, or only a unit  *)
(* of another file (getDefinitionInfoAt).                                    *)
THEOREM UnitsAreFoundTheorem == RefSpec => []UnitsAreFound
<1>1. RefInv => UnitsAreFound  BY UnitFound DEF RefInv, UnitsAreFound
<1> QED  BY <1>1, RefInvariant, PTL

(* What getDocReferences returns are occurrences of what was asked for,      *)
(* however stale the index and the analyses are, or types that have the name *)
(* of an instance among it.                                                  *)
THEOREM ReferencesAreOccurrencesTheorem == RefSpec => []ReferencesAreOccurrences
<1>1. RefInv => ReferencesAreOccurrences
  <2> SUFFICES ASSUME RefInv PROVE ReferencesAreOccurrences  OBVIOUS
  <2>1. AreTexts(text) /\ Analyses(analysis) /\ UnitsDiffer(text)  BY DEF RefInv, RefTypeOK, AreTexts, Analyses
  <2>2. ASSUME NEW t \in AllTokens(text), NEW decl \in BOOLEAN
        PROVE  References(analysis, t, decl).refs
                 \subseteq Occurrences(Meaning(text), Component(Meaning(text), t), decl)
                             \cup Namesakes(Component(Meaning(text), t), Name(text, t))
    BY <2>1, ReferencesAre
  <2> QED  BY <2>2 DEF ReferencesAreOccurrences
<1> QED  BY <1>1, RefInvariant, PTL

(* getDependentTrees ends, with the closure of what the file refers to, when *)
(* no file has a name that the index has for another.                        *)
THEOREM TreesAreClosureTheorem == RefSpec => []TreesAreClosure
BY TreesClosed, PTL

(* With index and analyses up to date getDocReferences returns every         *)
(* occurrence in the workspace: the loop over the targets ends with all that *)
(* tokens with several symbols join, unless a member among it is imported by *)
(* its name only.                                                            *)
THEOREM ReferencesAreCompleteTheorem == RefSpec => []ReferencesAreComplete
<1>1. RefInv => ReferencesAreComplete
  <2> SUFFICES ASSUME RefInv, UpToDate, NEW t \in AllTokens(text), NEW decl \in BOOLEAN,
                      ~PickedAlone(Component(Meaning(text), t))
               PROVE  Occurrences(Meaning(text), Component(Meaning(text), t), decl)
                        \subseteq References(analysis, t, decl).refs
    BY DEF ReferencesAreComplete
  <2>1. Indexed /\ Fresh(analysis)  BY DEF Indexed, Fresh, UpToDate, RefInv, RefTypeOK, Analyses
  <2> QED  BY <2>1, AllOccurrences
<1> QED  BY <1>1, RefInvariant, PTL

(* After getDocRename with a new name every token stands for what it stood   *)
(* for before, but for what is imported by its name only, an instance with   *)
(* the name of a type, and imports of what is not there.                     *)
THEOREM RenameKeepsMeaningTheorem == RefSpec => []RenameKeepsMeaning
<1>1. RefInv => RenameKeepsMeaning
  <2> SUFFICES ASSUME RefInv, UpToDate, NEW t \in AllTokens(text), NEW name \in NewNames,
                      \A u \in AllTokens(text) : Name(text, u) # name,
                      ~PickedAlone(Component(Meaning(text), t)), ~Dangles(Meaning(text), Name(text, t)),
                      Namesakes(Component(Meaning(text), t), Name(text, t)) = {}
               PROVE  Meaning(RenamedBy(t, name)) = Meaning(text)
    BY DEF RenameKeepsMeaning
  <2>1. Indexed /\ Fresh(analysis)  BY DEF Indexed, Fresh, UpToDate, RefInv, RefTypeOK, Analyses
  <2> QED  BY <2>1, RenamingKeepsMeaning
<1> QED  BY <1>1, RefInvariant, PTL

=============================================================================
