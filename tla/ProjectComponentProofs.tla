----------------------- MODULE ProjectComponentProofs -----------------------
(* The design on the server, the tree and the search of the hierarchy view   *)
(* end up as chosen last, for all values of the constants.                   *)
EXTENDS ProjectComponent, SequenceTheorems, TLAPS

(***************************************************************************)
(* Types.                                                                  *)
(***************************************************************************)
PathOrNone == Paths \cup {None}
Texts == Queries \cup {NoText}
Units == [design : Sources, rev : Nat, known : SUBSET Paths]
Items == [rev : Nat, path : PathOrNone]
Actors == {None, "hierarchy", "terminal", "editor"}
Points == {"free", "done", "generate", "set", "unit", "modules", "restore", "open",
           "resolve", "message", "reveal", "activate", "show", "pick"}

TaskType ==
    [at : Points, goal : Sources, tracks : BOOLEAN, refreshes : BOOLEAN,
     preserve : BOOLEAN, reveals : BOOLEAN, previous : PathOrNone, tree : Units,
     path : PathOrNone, item : Items, opens : BOOLEAN, opened : PathOrNone,
     activates : BOOLEAN, acts : Actors, owner : BOOLEAN, query : Texts,
     pending : Texts \cup {None}, searching : BOOLEAN, shown : Texts \cup {None},
     found : BOOLEAN]

\* The source file that is watched is one of a command, a command that has run is
\* followed by a new tree, and a path that is asked for is one.
Proper(task) ==
    /\ task.tracks => task.goal.type = "commandBuild"
    /\ task.at = "generate" => task.refreshes
    /\ task.at \in {"open", "resolve"} => task.path # None
    /\ task.at = "restore" => task.previous # None

Kinds == {"set", "unit", "modules", "scopes", "show", "activate", "search"}
Args(kind) == CASE kind = "set" -> Sources
                [] kind = "search" -> Texts
                [] OTHER -> PathOrNone
Requests == [kind : Kinds, task : Nat, arg : Sources \cup PathOrNone \cup Texts]
Servers == [design : Sources, rev : Nat]
Replies == [request : Requests, ok : BOOLEAN, value : Servers]

Typed ==
    /\ source \in Sources
    /\ watcher \in Commands \cup {None}
    /\ unit \in Units
    /\ modules \in Nat
    /\ focused \in Items
    /\ interaction \in Actors
    /\ tasks \in [Tasks -> TaskType]
    /\ \A t \in Tasks : Proper(tasks[t])
    /\ typed \in 0..MaxTyped
    /\ toServer \in Seq(Requests)
    /\ fromServer \in Seq(Replies)
    /\ \A i \in 1..Len(toServer) : toServer[i].arg \in Args(toServer[i].kind)
    /\ \A i \in 1..Len(fromServer) :
           fromServer[i].request.arg \in Args(fromServer[i].request.kind)
    /\ server \in Servers
    /\ refused \in BOOLEAN
    /\ saved \in Sources /\ reloads \in 0..MaxReloads
    /\ reload \in {"none", "done", "failed"} /\ untold \in BOOLEAN

(***************************************************************************)
(* Requests under way.                                                     *)
(***************************************************************************)
\* The requests that are not answered yet, and those whose answers have not
\* arrived, in the order in which they were made.
LineOf(answers, requests) == [i \in 1..Len(answers) |-> answers[i].request] \o requests
Line == LineOf(fromServer, toServer)

\* A command that has yet to make its first request has none under way.
NoneYet ==
    \A i \in 1..Len(Line) : \A t \in Tasks :
        Line[i].task = t => tasks[t].at \notin {"free", "generate"}

\* The command that asked for a design waits for it, has asked for no other, and
\* will ask for the tree of any design but the empty one.
SetsAwaited ==
    \A i \in 1..Len(Line) : \A t \in Tasks : Line[i].kind = "set" /\ Line[i].task = t =>
        /\ tasks[t].at = "set"
        /\ Line[i].arg # NoSource => tasks[t].refreshes
        /\ \A j \in 1..Len(Line) : Line[j].kind = "set" /\ Line[j].task = t => j = i

\* A design that nobody waits for is followed by a request for the tree.
SavesFollowed ==
    \A i \in 1..Len(Line) : Line[i].kind = "set" /\ Line[i].task \notin Tasks =>
        \E j \in (i + 1)..Len(Line) : Line[j].kind = "unit"

Waits == NoneYet /\ SetsAwaited /\ SavesFollowed

(***************************************************************************)
(* The design on the server.                                               *)
(***************************************************************************)
NoSet == \A i \in 1..Len(toServer) : toServer[i].kind # "set"

\* The last design asked for is the one chosen.
LastSetIsSource ==
    \A i \in 1..Len(toServer) :
        (/\ toServer[i].kind = "set"
         /\ \A j \in (i + 1)..Len(toServer) : toServer[j].kind # "set")
        => toServer[i].arg = source

\* What the server restores in a reload is what is chosen, unless that is a top file.
SavedIsSource ==
    source # NoSource /\ ~refused /\ reload # "failed" /\ NoSet /\ source.type # "topfile"
        => saved = source

Follows == LastSetIsSource /\ ServerFollowsSource /\ SavedIsSource

(***************************************************************************)
(* The tree.                                                               *)
(***************************************************************************)
\* Answers arrive in the order of the designs that they are about.
InOrder ==
    \A i \in 1..Len(fromServer) :
        LET v == fromServer[i].value IN
        /\ v.rev <= server.rev
        /\ v.rev = server.rev => v = server
        /\ \A j \in i..Len(fromServer) : v.rev <= fromServer[j].value.rev

\* A command is about to learn that the server has made its design, and will
\* then ask for the tree.
MadeUntold ==
    \E i \in 1..Len(fromServer) :
        LET r == fromServer[i] IN
        r.request.kind = "set" /\ r.request.task \in Tasks /\ r.ok /\ r.request.arg = source

Asked(kind) == \E i \in 1..Len(toServer) : toServer[i].kind = kind
Told(kind) == \E i \in 1..Len(fromServer) :
                  fromServer[i].request.kind = kind /\ fromServer[i].value = server
\* What is still to be told of this kind is of the server's design.
OnlyTold(kind) == \A i \in 1..Len(fromServer) :
                      fromServer[i].request.kind = kind => fromServer[i].value = server

\* The tree is the design's, and so are the modules, or they will be.
TreeShown ==
    /\ OnlyTold("unit")
    /\ IF PathsOf(server.design) = {} THEN unit = NoUnit
       ELSE /\ unit.rev = server.rev /\ unit.design = server.design
            /\ \/ Asked("modules") \/ Told("modules")
               \/ modules = server.rev /\ OnlyTold("modules")

TreeFollows ==
    source # NoSource /\ ~refused /\ ~untold /\ NoSet =>
        MadeUntold \/ Asked("unit") \/ Told("unit") \/ TreeShown

(***************************************************************************)
(* The search.                                                             *)
(***************************************************************************)
Searches(t) == {i \in 1..Len(Line) : Line[i].kind = "search" /\ Line[i].task = t}

\* A picker has one search under way at most, which is for the text in it unless
\* that is waiting.
PickerWaits(t) ==
    /\ tasks[t].searching =>
         /\ \A i, j \in Searches(t) : i = j
         /\ \/ tasks[t].pending = tasks[t].query
            \/ tasks[t].pending = None /\ \A i \in Searches(t) : Line[i].arg = tasks[t].query
    /\ ~tasks[t].searching =>
         Searches(t) = {} /\ tasks[t].pending = None /\ tasks[t].shown = tasks[t].query

SearchFollows == \A t \in Tasks : tasks[t].at = "pick" => PickerWaits(t)

Inv == Typed /\ Waits /\ Follows /\ InOrder /\ TreeFollows /\ SearchFollows
(***************************************************************************)
(* Steps.  Every action but the server's changes one command at most, puts *)
(* requests behind those under way, and takes one answer at most.          *)
(***************************************************************************)
Takes(k) ==
    \/ k = 0 /\ fromServer' = fromServer
    \/ k = 1 /\ fromServer # <<>> /\ fromServer' = Tail(fromServer)

Askable == {r \in Requests : r.arg \in Args(r.kind)}

Acts(t, requests, k) ==
    /\ tasks' \in [Tasks -> TaskType]
    /\ \A s \in Tasks : Proper(tasks'[s])
    /\ \A s \in Tasks : s # t => tasks'[s] = tasks[s]
    /\ requests \in Seq(Askable)
    /\ toServer' = toServer \o requests
    /\ Takes(k)
    /\ UNCHANGED <<server, refused, Reloads>>

\* What a step of a selection may ask for, and where it may leave the command.
MinorKinds == {"scopes", "show", "activate"}
MinorPoints == {"done", "restore", "open", "resolve", "message", "reveal", "activate", "show"}
MinorRequests(t) ==
    {<<>>} \cup {<<Ask(kind, t, p)>> : kind \in MinorKinds, p \in PathOrNone}

Minor(t) ==
    /\ \E requests \in MinorRequests(t) : toServer' = toServer \o requests
    /\ \E next \in TaskType : /\ Proper(next) /\ next.at \in MinorPoints
                              /\ tasks' = [tasks EXCEPT ![t] = next]
    /\ interaction' \in Actors

LEMMA IdleType == /\ Idle \in TaskType /\ Done \in TaskType
                  /\ NoUnit \in Units /\ NoItem \in Items /\ NoSource \in Sources
                  /\ Done.at = "done" /\ Proper(Idle) /\ Proper(Done)
                  /\ Idle.tracks = FALSE /\ Idle.at = "free"
<1>1. NoSource \in Sources
  BY DEF Sources
<1>2. NoUnit \in Units /\ NoItem \in Items
  BY <1>1 DEF NoUnit, NoItem, Units, Items, PathOrNone
<1>3. Idle \in TaskType /\ Idle.tracks = FALSE /\ Idle.at = "free"
  BY <1>1, <1>2 DEF Idle, TaskType, Points, PathOrNone, Actors, Texts
<1>4. Done \in TaskType /\ Done.at = "done" /\ Done.tracks = FALSE
  BY <1>3 DEF Done, TaskType, Points
<1> QED
  BY <1>1, <1>2, <1>3, <1>4 DEF Proper

\* The designs' paths.
LEMMA DesignPaths ==
  ASSUME NEW d \in Sources
  PROVE  PathsOf(d) \subseteq Paths /\ RootsOf(d) \subseteq Paths
<1>1. d # NoSource => d.name \in Files \cup Tops \cup Commands
  BY DEF Sources, Source, NoSource
<1> QED
  BY <1>1, ProjectAssumption DEF PathsOf, RootsOf

\* A command that is left where a selection may leave it.
LEMMA TaskAt ==
  ASSUME NEW task \in TaskType, Proper(task), NEW at \in Points,
         at \in {"open", "resolve"} => task.path # None,
         at \notin {"generate", "restore"}
  PROVE  /\ [task EXCEPT !.at = at] \in TaskType
         /\ [task EXCEPT !.at = at].at = at
         /\ Proper([task EXCEPT !.at = at])
BY DEF TaskType, Proper

\* The steps of a selection.
LEMMA EndsMinor ==
  ASSUME Typed, NEW t \in Tasks, NEW task \in TaskType, NEW held \in Actors,
         Ends(t, task, held), UNCHANGED toServer
  PROVE  Minor(t)
<1>1. toServer' = toServer \o <<>> /\ <<>> \in MinorRequests(t)
  BY DEF Typed, MinorRequests
<1>2. tasks' = [tasks EXCEPT ![t] = Done] /\ interaction' \in Actors
  BY DEF Ends, Goes, Actors
<1>3. Done \in TaskType /\ Proper(Done) /\ Done.at \in MinorPoints
  BY IdleType DEF MinorPoints
<1> QED
  BY <1>1, <1>2, <1>3 DEF Minor

LEMMA ContinuesMinor ==
  ASSUME Typed, NEW t \in Tasks, NEW task \in TaskType, Proper(task), task.at \in MinorPoints,
         NEW requests \in MinorRequests(t), Continues(t, task, requests)
  PROVE  Minor(t)
<1>1. interaction' \in Actors
  BY DEF Continues, Held, Typed, TaskType
<1>2. tasks' = [tasks EXCEPT ![t] = task] /\ toServer' = toServer \o requests
  BY DEF Continues, Goes, Send
<1> QED
  BY <1>1, <1>2 DEF Minor

LEMMA ShowMinor ==
  ASSUME Typed, NEW t \in Tasks, NEW task \in TaskType, Proper(task), ShowStep(t, task)
  PROVE  Minor(t)
<1>1. ASSUME Continues(t, [task EXCEPT !.at = "show"], <<Ask("show", t, task.item.path)>>)
      PROVE  Minor(t)
  <2>1. task.item.path \in PathOrNone
    BY DEF TaskType, Items
  <2>2. <<Ask("show", t, task.item.path)>> \in MinorRequests(t)
    BY <2>1 DEF MinorRequests, MinorKinds
  <2>3. "show" \in MinorPoints /\ "show" \in Points
    BY DEF MinorPoints, Points
  <2> QED
    BY <1>1, <2>2, <2>3, TaskAt, ContinuesMinor
<1>2. ASSUME Ends(t, task, interaction), UNCHANGED toServer
      PROVE  Minor(t)
  BY <1>2, EndsMinor DEF Typed
<1> QED
  BY <1>1, <1>2 DEF ShowStep

LEMMA ActivateMinor ==
  ASSUME Typed, NEW t \in Tasks, NEW task \in TaskType, Proper(task), ActivateStep(t, task)
  PROVE  Minor(t)
<1>1. ASSUME Continues(t, [task EXCEPT !.at = "activate"],
                       <<Ask("activate", t, task.item.path)>>)
      PROVE  Minor(t)
  <2>1. task.item.path \in PathOrNone
    BY DEF TaskType, Items
  <2>2. <<Ask("activate", t, task.item.path)>> \in MinorRequests(t)
    BY <2>1 DEF MinorRequests, MinorKinds
  <2>3. "activate" \in MinorPoints /\ "activate" \in Points
    BY DEF MinorPoints, Points
  <2> QED
    BY <1>1, <2>2, <2>3, TaskAt, ContinuesMinor
<1> QED
  BY <1>1, ShowMinor DEF ActivateStep

\* The command waits without a request.
LEMMA WaitsMinor ==
  ASSUME Typed, NEW t \in Tasks, NEW task \in TaskType, Proper(task),
         NEW at \in {"reveal", "message"},
         Continues(t, [task EXCEPT !.at = at], <<>>)
  PROVE  Minor(t)
<1>1. at \in MinorPoints /\ at \in Points
  BY DEF MinorPoints, Points
<1>2. <<>> \in MinorRequests(t)
  BY DEF MinorRequests
<1> QED
  BY <1>1, <1>2, TaskAt, ContinuesMinor

LEMMA FocusMinor ==
  ASSUME Typed, NEW t \in Tasks, NEW task \in TaskType, Proper(task), FocusStep(t, task)
  PROVE  Minor(t) /\ focused' \in Items
<1>1. focused' \in Items
  BY DEF FocusStep, TaskType
<1> QED
  BY <1>1, ActivateMinor, WaitsMinor DEF FocusStep

LEMMA CachedPath ==
  ASSUME Typed, NEW p, Cached(p)
  PROVE  p \in Paths
BY DesignPaths DEF Cached, Typed, Units

LEMMA TaskItem ==
  ASSUME NEW task \in TaskType, Proper(task), NEW item \in Items
  PROVE  [task EXCEPT !.item = item] \in TaskType /\ Proper([task EXCEPT !.item = item])
BY DEF TaskType, Proper

LEMMA UnitItem ==
  ASSUME Typed, NEW p \in PathOrNone
  PROVE  Item(unit, p) \in Items
BY DEF Typed, Units, Items, Item

LEMMA ResolveMinor ==
  ASSUME Typed, NEW t \in Tasks, NEW task \in TaskType, Proper(task), task.path # None,
         ResolveStep(t, task)
  PROVE  Minor(t) /\ focused' \in Items
<1>0. task.path \in PathOrNone
  BY DEF TaskType
<1>1. ASSUME FocusStep(t, [task EXCEPT !.item = Item(unit, task.path)])
      PROVE  Minor(t) /\ focused' \in Items
  <2>1. Item(unit, task.path) \in Items
    BY <1>0, UnitItem
  <2> QED
    BY <1>1, <2>1, TaskItem, FocusMinor
<1>2. ASSUME Continues(t, [task EXCEPT !.at = "resolve"], <<Ask("scopes", t, task.path)>>),
             UNCHANGED focused
      PROVE  Minor(t) /\ focused' \in Items
  <2>1. <<Ask("scopes", t, task.path)>> \in MinorRequests(t)
    BY <1>0 DEF MinorRequests, MinorKinds
  <2>2. "resolve" \in MinorPoints /\ "resolve" \in Points
    BY DEF MinorPoints, Points
  <2>3. Minor(t)
    BY <1>2, <2>1, <2>2, TaskAt, ContinuesMinor
  <2> QED
    BY <1>2, <2>3 DEF Typed
<1> QED
  BY <1>1, <1>2 DEF ResolveStep

LEMMA PathMinor ==
  ASSUME Typed, NEW t \in Tasks, NEW task \in TaskType, Proper(task), task.path # None,
         PathStep(t, task)
  PROVE  Minor(t) /\ focused' \in Items
<1>0. task.path \in PathOrNone
  BY DEF TaskType
<1>1. ASSUME Continues(t, [task EXCEPT !.at = "message", !.item = NoItem], <<>>),
             UNCHANGED focused
      PROVE  Minor(t) /\ focused' \in Items
  <2> DEFINE rest == [task EXCEPT !.item = NoItem]
  <2>1. rest \in TaskType /\ Proper(rest)
    BY IdleType, TaskItem
  <2>2. [task EXCEPT !.at = "message", !.item = NoItem] = [rest EXCEPT !.at = "message"]
    BY DEF TaskType
  <2> HIDE DEF rest
  <2>3. Minor(t)
    BY <1>1, <2>1, <2>2, WaitsMinor
  <2> QED
    BY <1>1, <2>3 DEF Typed
<1>2. ASSUME Continues(t, [task EXCEPT !.at = "open"], <<Ask("show", t, task.path)>>),
             UNCHANGED focused
      PROVE  Minor(t) /\ focused' \in Items
  <2>1. <<Ask("show", t, task.path)>> \in MinorRequests(t)
    BY <1>0 DEF MinorRequests, MinorKinds
  <2>2. "open" \in MinorPoints /\ "open" \in Points
    BY DEF MinorPoints, Points
  <2>3. Minor(t)
    BY <1>2, <2>1, <2>2, TaskAt, ContinuesMinor
  <2> QED
    BY <1>2, <2>3 DEF Typed
<1> QED
  BY <1>1, <1>2, ResolveMinor DEF PathStep

Updated(task, ow, ac, av, op, od) ==
    [task EXCEPT !.owner = ow, !.acts = ac, !.activates = av, !.opens = op, !.opened = od]

LEMMA SelectionUpdates ==
  ASSUME NEW task \in TaskType, NEW ow \in BOOLEAN, NEW ac \in Actors, NEW av \in BOOLEAN,
         NEW op \in BOOLEAN, NEW od \in PathOrNone
  PROVE  /\ Updated(task, ow, ac, av, op, od) \in TaskType
         /\ Updated(task, ow, ac, av, op, od).tracks = task.tracks
         /\ Updated(task, ow, ac, av, op, od).at = task.at
<1> DEFINE new == [task EXCEPT !.owner = ow, !.acts = ac, !.activates = av,
                               !.opens = op, !.opened = od]
           x1 == [task EXCEPT !.owner = ow]
           x2 == [x1 EXCEPT !.acts = ac]
           x3 == [x2 EXCEPT !.activates = av]
           x4 == [x3 EXCEPT !.opens = op]
           x5 == [x4 EXCEPT !.opened = od]
<1>1. x1 \in TaskType /\ x1.tracks = task.tracks /\ x1.at = task.at
  BY DEF TaskType
<1>2. x2 \in TaskType /\ x2.tracks = x1.tracks /\ x2.at = x1.at
  <2> HIDE DEF x1
  <2> QED BY <1>1 DEF TaskType
<1>3. x3 \in TaskType /\ x3.tracks = x2.tracks /\ x3.at = x2.at
  <2> HIDE DEF x2
  <2> QED BY <1>2 DEF TaskType
<1>4. x4 \in TaskType /\ x4.tracks = x3.tracks /\ x4.at = x3.at
  <2> HIDE DEF x3
  <2> QED BY <1>3 DEF TaskType
<1>5. x5 \in TaskType /\ x5.tracks = x4.tracks /\ x5.at = x4.at
  <2> HIDE DEF x4
  <2> QED BY <1>4 DEF TaskType
<1>6. new = x5
  BY DEF TaskType
<1>7. Updated(task, ow, ac, av, op, od) = new
  BY DEF Updated
<1> HIDE DEF new, x1, x2, x3, x4, x5
<1> QED
  BY <1>7, <1>1, <1>2, <1>3, <1>4, <1>5, <1>6

LEMMA SelectionType ==
  ASSUME Typed, NEW src \in Actors, NEW already \in BOOLEAN
  PROVE  LET s == Selection(Idle, src, already) IN s \in TaskType /\ Proper(s)
<1> DEFINE owner == src # None /\ interaction = None
           acts == IF owner THEN src ELSE interaction
           activates == ~already
           opens == ~already /\ acts # "editor"
           new == Updated(Idle, owner, acts, activates, opens, None)
<1>1. owner \in BOOLEAN /\ acts \in Actors /\ activates \in BOOLEAN /\ opens \in BOOLEAN
  BY DEF Typed
<1>2. None \in PathOrNone
  BY DEF PathOrNone
<1>3. Selection(Idle, src, already) = new
  BY DEF Selection, Updated
<1>4. new \in TaskType /\ new.tracks = Idle.tracks /\ new.at = Idle.at
  <2> HIDE DEF owner, acts, activates, opens
  <2>1. PICK ow \in BOOLEAN, ac \in Actors, av \in BOOLEAN, op \in BOOLEAN :
          ow = owner /\ ac = acts /\ av = activates /\ op = opens
    BY <1>1
  <2>2. Idle \in TaskType
    BY IdleType
  <2>3. /\ Updated(Idle, ow, ac, av, op, None) \in TaskType
        /\ Updated(Idle, ow, ac, av, op, None).tracks = Idle.tracks
        /\ Updated(Idle, ow, ac, av, op, None).at = Idle.at
    BY <1>2, <2>2, SelectionUpdates
  <2> QED
    BY <2>1, <2>3
<1> QED
  BY <1>3, <1>4, IdleType DEF Proper
LEMMA RestoredMinor ==
  ASSUME Typed, NEW t \in Tasks, NEW task \in TaskType, NEW item \in Items,
         Restored(t, task, item)
  PROVE  Minor(t) /\ focused' \in Items
<1> DEFINE next == [Selection(Idle, None, FALSE) EXCEPT !.item = item]
<1>1. next \in TaskType /\ Proper(next)
  <2>1. None \in Actors /\ FALSE \in BOOLEAN
    BY DEF Actors
  <2> QED
    BY <2>1, SelectionType, TaskItem
<1>2. CASE FocusStep(t, next)
  BY <1>1, <1>2, FocusMinor
<1>3. CASE focused' = item /\ Ends(t, task, interaction) /\ UNCHANGED toServer
  BY <1>3, EndsMinor DEF Typed
<1> QED
  BY <1>2, <1>3 DEF Restored

LEMMA NotRestoredMinor ==
  ASSUME Typed, NEW t \in Tasks, NEW task \in TaskType, NotRestored(t, task)
  PROVE  Minor(t) /\ focused' \in Items
<1>1. CASE Ends(t, task, interaction) /\ UNCHANGED <<focused, toServer>>
  BY <1>1, EndsMinor DEF Typed
<1>2. ASSUME NEW p \in RootsOf(task.tree.design),
             FocusStep(t, [Selection(Idle, None, FALSE) EXCEPT !.item = Item(task.tree, p)])
      PROVE  Minor(t) /\ focused' \in Items
  <2>1. task.tree \in Units /\ task.tree.design \in Sources /\ p \in Paths
    BY DesignPaths DEF TaskType, Units
  <2>2. Item(task.tree, p) \in Items
    BY <2>1 DEF Units, Items, Item, PathOrNone
  <2>3. None \in Actors /\ FALSE \in BOOLEAN
    BY DEF Actors
  <2> QED
    BY <1>2, <2>2, <2>3, SelectionType, TaskItem, FocusMinor
<1> QED
  BY <1>1, <1>2 DEF NotRestored

LEMMA PathSelection ==
  ASSUME Typed, NEW src \in Actors, NEW already \in BOOLEAN, NEW p \in Paths
  PROVE  LET s == [Selection(Idle, src, already) EXCEPT !.path = p]
         IN  s \in TaskType /\ Proper(s) /\ s.path = p /\ p # None
<1>1. p \in PathOrNone /\ p # None
  BY ProjectAssumption DEF PathOrNone
<1>2. Selection(Idle, src, already) \in TaskType /\ Proper(Selection(Idle, src, already))
  BY SelectionType
<1> QED
  BY <1>1, <1>2 DEF TaskType, Proper

LEMMA ResolvedType ==
  ASSUME Typed, NEW p \in Paths, NEW scopes
  PROVE  Resolved(p, scopes) \in Items
BY IdleType, UnitItem, ProjectAssumption DEF Resolved, PathOrNone

\* What a step does to the wires keeps their types.
LEMMA TailTyped ==
  ASSUME NEW S, NEW s \in Seq(S), s # <<>>
  PROVE  /\ Tail(s) \in Seq(S) /\ Len(Tail(s)) = Len(s) - 1
         /\ \A i \in 1..Len(Tail(s)) : Tail(s)[i] = s[i + 1]
         /\ Head(s) = s[1] /\ Head(s) \in S /\ Len(s) > 0
OBVIOUS

LEMMA JoinTyped ==
  ASSUME NEW S, NEW s \in Seq(S), NEW r \in Seq(S)
  PROVE  /\ s \o r \in Seq(S) /\ Len(s \o r) = Len(s) + Len(r)
         /\ \A i \in 1..Len(s) : (s \o r)[i] = s[i]
         /\ \A i \in 1..Len(r) : (s \o r)[Len(s) + i] = r[i]
         /\ \A i \in 1..Len(s \o r) : i \in 1..Len(s) \/ i - Len(s) \in 1..Len(r)
         /\ Len(s) \in Nat /\ Len(r) \in Nat
OBVIOUS

LEMMA ActsTyped ==
  ASSUME Typed, NEW t, NEW requests, NEW k, Acts(t, requests, k)
  PROVE  /\ toServer' \in Seq(Requests)
         /\ fromServer' \in Seq(Replies)
         /\ \A i \in 1..Len(toServer') : toServer'[i].arg \in Args(toServer'[i].kind)
         /\ \A i \in 1..Len(fromServer') :
               fromServer'[i].request.arg \in Args(fromServer'[i].request.kind)
<1>1. /\ toServer \in Seq(Requests) /\ fromServer \in Seq(Replies)
      /\ \A i \in 1..Len(toServer) : toServer[i].arg \in Args(toServer[i].kind)
      /\ \A i \in 1..Len(fromServer) :
            fromServer[i].request.arg \in Args(fromServer[i].request.kind)
  BY DEF Typed
<1>2. /\ requests \in Seq(Requests)
      /\ \A i \in 1..Len(requests) : requests[i].arg \in Args(requests[i].kind)
      /\ toServer' = toServer \o requests
  BY DEF Acts, Askable
<1>3. /\ toServer' \in Seq(Requests)
      /\ \A i \in 1..Len(toServer') : toServer'[i].arg \in Args(toServer'[i].kind)
  <2>1. /\ toServer' \in Seq(Requests)
        /\ \A i \in 1..Len(toServer) : toServer'[i] = toServer[i]
        /\ \A i \in 1..Len(requests) : toServer'[Len(toServer) + i] = requests[i]
        /\ \A i \in 1..Len(toServer') :
              i \in 1..Len(toServer) \/ i - Len(toServer) \in 1..Len(requests)
        /\ Len(toServer) \in Nat
    BY <1>1, <1>2, JoinTyped
  <2>2. ASSUME NEW i \in 1..Len(toServer')
        PROVE  toServer'[i].arg \in Args(toServer'[i].kind)
    <3>1. CASE i \in 1..Len(toServer)
      BY <1>1, <2>1, <3>1
    <3>2. CASE i - Len(toServer) \in 1..Len(requests)
      <4>1. toServer'[Len(toServer) + (i - Len(toServer))] = requests[i - Len(toServer)]
        BY <2>1, <3>2
      <4>2. Len(toServer) + (i - Len(toServer)) = i
        BY <2>1
      <4> QED
        BY <1>2, <3>2, <4>1, <4>2
    <3> QED
      BY <2>1, <3>1, <3>2
  <2> QED
    BY <2>1, <2>2
<1>4. /\ fromServer' \in Seq(Replies)
      /\ \A i \in 1..Len(fromServer') :
            fromServer'[i].request.arg \in Args(fromServer'[i].request.kind)
  <2>1. CASE fromServer' = fromServer
    BY <1>1, <2>1
  <2>2. CASE fromServer # <<>> /\ fromServer' = Tail(fromServer)
    BY <1>1, <2>2, TailTyped
  <2> QED
    BY <2>1, <2>2 DEF Acts, Takes
<1> QED
  BY <1>3, <1>4

\* The types of what a step may change besides.
LEMMA StepTyped ==
  ASSUME Typed, NEW t, NEW requests, NEW k, Acts(t, requests, k),
         source' \in Sources, watcher' \in Commands \cup {None}, unit' \in Units,
         modules' \in Nat, focused' \in Items, interaction' \in Actors, typed' \in 0..MaxTyped
  PROVE  Typed'
<1>1. /\ tasks' \in [Tasks -> TaskType]
      /\ \A s \in Tasks : Proper(tasks'[s])
      /\ server' \in Servers /\ refused' \in BOOLEAN
      /\ saved' \in Sources /\ reloads' \in 0..MaxReloads
      /\ reload' \in {"none", "done", "failed"} /\ untold' \in BOOLEAN
  BY DEF Acts, Proper, Typed, Reloads
<1> QED
  BY <1>1, ActsTyped DEF Typed

LEMMA MinorActs ==
  ASSUME Typed, NEW t \in Tasks, Minor(t), NEW k, Takes(k), UNCHANGED <<server, refused, Reloads>>
  PROVE  /\ tasks'[t].at \in MinorPoints
         /\ \E requests \in MinorRequests(t) : Acts(t, requests, k)
<1>1. PICK requests \in MinorRequests(t) : toServer' = toServer \o requests
  BY DEF Minor
<1>2. PICK next \in TaskType : /\ Proper(next) /\ next.at \in MinorPoints
                               /\ tasks' = [tasks EXCEPT ![t] = next]
  BY DEF Minor
<1>3. /\ tasks' \in [Tasks -> TaskType] /\ tasks'[t] = next
      /\ \A s \in Tasks : s # t => tasks'[s] = tasks[s]
      /\ \A s \in Tasks : Proper(tasks'[s])
  BY <1>2 DEF Typed, Proper
<1>4. requests \in Seq(Askable)
  <2>1. CASE requests = <<>>
    BY <2>1
  <2>2. ASSUME NEW kind \in MinorKinds, NEW p \in PathOrNone, requests = <<Ask(kind, t, p)>>
        PROVE  requests \in Seq(Askable)
    <3>1. kind \in Kinds /\ kind # "set" /\ kind # "search"
      BY DEF MinorKinds, Kinds
    <3>2. Ask(kind, t, p) \in Requests /\ p \in Args(kind)
      BY <3>1, ProjectAssumption DEF Requests, Args, Ask, Tasks
    <3>3. Ask(kind, t, p) \in Askable
      BY <3>2 DEF Askable, Ask
    <3> QED
      BY <2>2, <3>3
  <2> QED
    BY <2>1, <2>2 DEF MinorRequests
<1> QED
  BY <1>1, <1>2, <1>3, <1>4 DEF Acts

\* A step of a selection: the choice, the designs of the tree and the modules
\* stay, and the command was not waiting for the server to make a design.
MinorStep(t, k) ==
    /\ tasks[t].at # "set"
    /\ tasks'[t].at \in MinorPoints
    /\ \E requests \in MinorRequests(t) : Acts(t, requests, k)
    /\ k = 1 => /\ Head(fromServer).request.kind \in MinorKinds
                /\ Head(fromServer).request.task = t
    /\ source' = source /\ modules' = modules
    /\ unit'.rev = unit.rev /\ unit'.design = unit.design
    /\ unit = NoUnit => unit' = NoUnit

LEMMA MinorTyped ==
  ASSUME Typed, NEW t \in Tasks, NEW k, MinorStep(t, k),
         UNCHANGED <<watcher, typed>>, unit' \in Units, focused' \in Items, interaction' \in Actors
  PROVE  Typed'
<1>1. PICK requests \in MinorRequests(t) : Acts(t, requests, k)
  BY DEF MinorStep
<1>2. /\ source' \in Sources /\ watcher' \in Commands \cup {None}
      /\ modules' \in Nat /\ typed' \in 0..MaxTyped
  BY DEF Typed, MinorStep
<1> QED
  BY <1>1, <1>2, StepTyped

\* The same for a step that leaves the tree as it is.
LEMMA SelectionStep ==
  ASSUME Typed, NEW t \in Tasks, Minor(t), focused' \in Items, tasks[t].at # "set",
         UNCHANGED <<source, watcher, unit, modules, typed, fromServer, server, refused, Reloads>>
  PROVE  Typed' /\ MinorStep(t, 0)
<1>1. Takes(0)
  BY DEF Takes
<1>2. MinorStep(t, 0)
  BY <1>1, MinorActs DEF MinorStep
<1>3. unit' \in Units /\ interaction' \in Actors
  BY DEF Typed, Minor
<1> QED
  BY <1>2, <1>3, MinorTyped

LEMMA AnsweredStep ==
  ASSUME Typed, NEW t \in Tasks, Minor(t), focused' \in Items, tasks[t].at # "set",
         NEW kind \in MinorKinds, NEW ok \in BOOLEAN, Answered(t, kind, ok),
         unit' = unit \/ (unit # NoUnit /\ \E p \in Paths : WithKnown(p)),
         UNCHANGED <<source, watcher, modules, typed, server, refused, Reloads>>
  PROVE  Typed' /\ MinorStep(t, 1)
<1>1. Takes(1) /\ Head(fromServer).request.kind \in MinorKinds
      /\ Head(fromServer).request.task = t
  BY DEF Takes, Answered
<1>2. unit' \in Units /\ unit'.rev = unit.rev /\ unit'.design = unit.design
  BY DEF Typed, WithKnown, Units
<1>3. MinorStep(t, 1)
  BY <1>1, <1>2, MinorActs DEF MinorStep
<1>4. interaction' \in Actors
  BY DEF Minor
<1> QED
  BY <1>2, <1>3, <1>4, MinorTyped
\* The actions that only step a selection, or end a command.
LEMMA SelectItemStep ==
  ASSUME Typed, NEW t \in Tasks, SelectItem(t)
  PROVE  Typed' /\ MinorStep(t, 0)
<1>1. PICK p \in RootsOf(unit.design) \cup unit.known :
        FocusStep(t, [Selection(Idle, "hierarchy", FALSE) EXCEPT !.item = Item(unit, p)])
  BY DEF SelectItem
<1>2. Item(unit, p) \in Items
  BY DesignPaths, UnitItem DEF Typed, Units, PathOrNone
<1>3. "hierarchy" \in Actors /\ FALSE \in BOOLEAN
  BY DEF Actors
<1>4. Minor(t) /\ focused' \in Items
  BY <1>1, <1>2, <1>3, SelectionType, TaskItem, FocusMinor
<1>5. tasks[t].at # "set"
  BY DEF SelectItem, Fresh
<1> QED
  BY <1>4, <1>5, SelectionStep DEF SelectItem, Choices

LEMMA SelectPathStep ==
  ASSUME Typed, NEW t \in Tasks, NEW src \in {"terminal", "editor"}, SelectPath(t, src)
  PROVE  Typed' /\ MinorStep(t, 0)
<1>1. PICK p \in PathsOf(server.design) :
        PathStep(t, [Selection(Idle, src, src = "editor") EXCEPT !.path = p])
  BY DEF SelectPath
<1>2. p \in Paths
  BY DesignPaths DEF Typed, Servers
<1>3. src \in Actors /\ (src = "editor") \in BOOLEAN
  BY DEF Actors
<1>4. PICK already \in BOOLEAN : already = (src = "editor")
  BY <1>3
<1>5. PathStep(t, [Selection(Idle, src, already) EXCEPT !.path = p])
  BY <1>1, <1>4
<1>6. Minor(t) /\ focused' \in Items
  BY <1>2, <1>3, <1>5, PathSelection, PathMinor
<1>7. tasks[t].at # "set"
  BY DEF SelectPath, Fresh
<1> QED
  BY <1>6, <1>7, SelectionStep DEF SelectPath, Choices

LEMMA AcceptStep ==
  ASSUME Typed, NEW t \in Tasks, Accept(t)
  PROVE  Typed' /\ MinorStep(t, 0)
<1>1. PICK p \in Paths : PathStep(t, [Selection(Idle, None, FALSE) EXCEPT !.path = p])
  BY DEF Accept
<1>2. None \in Actors /\ FALSE \in BOOLEAN
  BY DEF Actors
<1>3. Minor(t) /\ focused' \in Items
  BY <1>1, <1>2, PathSelection, PathMinor
<1> QED
  BY <1>3, SelectionStep DEF Accept, Choices

LEMMA DismissedStep ==
  ASSUME Typed, NEW t \in Tasks, MessageDismissed(t)
  PROVE  Typed' /\ MinorStep(t, 0)
<1>1. tasks[t] \in TaskType /\ Proper(tasks[t]) /\ interaction \in Actors /\ focused \in Items
  BY DEF Typed
<1>2. Minor(t) /\ focused' \in Items
  BY <1>1, FocusMinor, EndsMinor DEF MessageDismissed
<1> QED
  BY <1>2, SelectionStep DEF MessageDismissed, Choices

LEMMA RevealStep ==
  ASSUME Typed, NEW t \in Tasks, RevealDone(t)
  PROVE  Typed' /\ MinorStep(t, 0)
<1>1. tasks[t] \in TaskType /\ Proper(tasks[t]) /\ interaction \in Actors /\ focused \in Items
  BY DEF Typed
<1>2. Minor(t) /\ focused' \in Items
  BY <1>1, ActivateMinor, EndsMinor DEF RevealDone, Tree
<1> QED
  BY <1>2, SelectionStep DEF RevealDone, Choices, Tree

\* A command that ends without a selection.
LEMMA DoneStep ==
  ASSUME Typed, NEW t \in Tasks, tasks[t].at # "set", Goes(t, Done),
         UNCHANGED <<Choices, Tree, interaction, typed, Wires, server, refused, Reloads>>
  PROVE  Typed' /\ MinorStep(t, 0)
<1>1. toServer' = toServer \o <<>> /\ <<>> \in MinorRequests(t)
  BY DEF Typed, MinorRequests, Wires
<1>2. Done \in TaskType /\ Proper(Done) /\ Done.at \in MinorPoints
  BY IdleType DEF MinorPoints
<1>3. Minor(t) /\ focused' \in Items
  BY <1>1, <1>2 DEF Minor, Goes, Typed, Tree
<1> QED
  BY <1>3, SelectionStep DEF Choices, Tree, Wires

LEMMA HideStep ==
  ASSUME Typed, NEW t \in Tasks, Hide(t) \/ CommandFails(t)
  PROVE  Typed' /\ MinorStep(t, 0)
BY DoneStep DEF Hide, CommandFails, Choices

LEMMA OpenStep ==
  ASSUME Typed, NEW t \in Tasks, OpenAnswered(t)
  PROVE  Typed' /\ MinorStep(t, 1)
<1>1. /\ tasks[t] \in TaskType /\ Proper(tasks[t]) /\ interaction \in Actors /\ focused \in Items
      /\ tasks[t].at = "open" /\ tasks[t].path # None
  BY DEF Typed, OpenAnswered, Proper
<1>2. \E ok \in BOOLEAN : Answered(t, "show", ok)
  BY DEF OpenAnswered
<1>3. ASSUME ResolveStep(t, [tasks[t] EXCEPT !.opened = tasks[t].path])
      PROVE  Minor(t) /\ focused' \in Items
  <2> DEFINE task == [tasks[t] EXCEPT !.opened = tasks[t].path]
  <2>1. task \in TaskType /\ Proper(task) /\ task.path # None
    BY <1>1 DEF TaskType, Proper
  <2> HIDE DEF task
  <2> QED
    BY <1>3, <2>1, ResolveMinor DEF task
<1>4. ASSUME Continues(t, [tasks[t] EXCEPT !.at = "message", !.item = NoItem], <<>>),
             UNCHANGED focused
      PROVE  Minor(t) /\ focused' \in Items
  <2> DEFINE rest == [tasks[t] EXCEPT !.item = NoItem]
  <2>1. rest \in TaskType /\ Proper(rest)
    BY <1>1, IdleType, TaskItem
  <2>2. [tasks[t] EXCEPT !.at = "message", !.item = NoItem] = [rest EXCEPT !.at = "message"]
    BY <1>1 DEF TaskType
  <2> HIDE DEF rest
  <2> QED
    BY <1>1, <1>4, <2>1, <2>2, WaitsMinor
<1>5. ASSUME Ends(t, tasks[t], interaction), UNCHANGED <<focused, toServer>>
      PROVE  Minor(t) /\ focused' \in Items
  BY <1>1, <1>5, EndsMinor
<1>6. Minor(t) /\ focused' \in Items
  BY <1>3, <1>4, <1>5 DEF OpenAnswered
<1>7. "show" \in MinorKinds /\ tasks[t].at # "set"
  BY <1>1 DEF MinorKinds
<1> QED
  BY <1>2, <1>6, <1>7, AnsweredStep DEF OpenAnswered, Choices

LEMMA ActivateAnsweredStep ==
  ASSUME Typed, NEW t \in Tasks, ActivateAnswered(t)
  PROVE  Typed' /\ MinorStep(t, 1)
<1>1. tasks[t] \in TaskType /\ Proper(tasks[t]) /\ interaction \in Actors /\ focused \in Items
  BY DEF Typed
<1>2. /\ \E ok \in BOOLEAN : Answered(t, "activate", ok)
      /\ "activate" \in MinorKinds /\ tasks[t].at # "set"
  BY DEF ActivateAnswered, MinorKinds
<1>3. Minor(t) /\ focused' \in Items
  BY <1>1, ShowMinor, EndsMinor DEF ActivateAnswered, Tree
<1> QED
  BY <1>2, <1>3, AnsweredStep DEF ActivateAnswered, Choices, Tree

LEMMA ShowAnsweredStep ==
  ASSUME Typed, NEW t \in Tasks, ShowAnswered(t)
  PROVE  Typed' /\ MinorStep(t, 1)
<1>1. tasks[t] \in TaskType /\ Proper(tasks[t]) /\ interaction \in Actors /\ focused \in Items
  BY DEF Typed
<1>2. /\ \E ok \in BOOLEAN : Answered(t, "show", ok)
      /\ "show" \in MinorKinds /\ tasks[t].at # "set"
  BY DEF ShowAnswered, MinorKinds
<1>3. Minor(t) /\ focused' \in Items
  BY <1>1, EndsMinor DEF ShowAnswered, Tree
<1> QED
  BY <1>2, <1>3, AnsweredStep DEF ShowAnswered, Choices, Tree

LEMMA ResolveAnsweredStep ==
  ASSUME Typed, NEW t \in Tasks, ResolveAnswered(t)
  PROVE  Typed' /\ MinorStep(t, 1)
<1>1. /\ tasks[t] \in TaskType /\ Proper(tasks[t]) /\ interaction \in Actors /\ focused \in Items
      /\ tasks[t].at = "resolve" /\ tasks[t].path \in Paths
  BY DEF Typed, ResolveAnswered, Proper, TaskType, PathOrNone
<1>2. /\ \E ok \in BOOLEAN : Answered(t, "scopes", ok)
      /\ "scopes" \in MinorKinds /\ tasks[t].at # "set"
  BY <1>1 DEF ResolveAnswered, MinorKinds
<1> DEFINE item == Resolved(tasks[t].path, PathsOf(Head(fromServer).value.design))
           task == [tasks[t] EXCEPT !.item = item]
<1>3. task \in TaskType /\ Proper(task)
  BY <1>1, ResolvedType, TaskItem
<1> HIDE DEF task
<1>4. CASE unit # NoUnit /\ WithKnown(tasks[t].path) /\ FocusStep(t, task)
  <2>1. Minor(t) /\ focused' \in Items
    BY <1>3, <1>4, FocusMinor
  <2> QED
    BY <1>1, <1>2, <1>4, <2>1, AnsweredStep DEF ResolveAnswered, Choices
<1>5. CASE Continues(t, [task EXCEPT !.at = "message"], <<>>) /\ UNCHANGED <<unit, focused>>
  <2>1. Minor(t) /\ focused' \in Items
    BY <1>1, <1>3, <1>5, WaitsMinor
  <2> QED
    BY <1>2, <1>5, <2>1, AnsweredStep DEF ResolveAnswered, Choices
<1>6. CASE Ends(t, tasks[t], interaction) /\ UNCHANGED <<unit, focused, toServer>>
  <2>1. Minor(t) /\ focused' \in Items
    BY <1>1, <1>6, EndsMinor
  <2> QED
    BY <1>2, <1>6, <2>1, AnsweredStep DEF ResolveAnswered, Choices
<1> QED
  BY <1>4, <1>5, <1>6 DEF ResolveAnswered, task

LEMMA RestoreAnsweredStep ==
  ASSUME Typed, NEW t \in Tasks, RestoreAnswered(t)
  PROVE  Typed' /\ MinorStep(t, 1)
<1>1. /\ tasks[t] \in TaskType /\ Proper(tasks[t]) /\ interaction \in Actors /\ focused \in Items
      /\ tasks[t].at = "restore" /\ tasks[t].previous \in Paths
  BY DEF Typed, RestoreAnswered, Proper, TaskType, PathOrNone
<1>2. /\ \E ok \in BOOLEAN : Answered(t, "scopes", ok)
      /\ "scopes" \in MinorKinds /\ tasks[t].at # "set"
  BY <1>1 DEF RestoreAnswered, MinorKinds
<1> DEFINE item == Resolved(tasks[t].previous, PathsOf(Head(fromServer).value.design))
<1>3. item \in Items
  BY <1>1, ResolvedType
<1> HIDE DEF item
<1>4. CASE /\ unit # NoUnit
           /\ Restored(t, tasks[t], item) \/ NotRestored(t, tasks[t])
           /\ WithKnown(tasks[t].previous) \/ UNCHANGED unit
  <2>1. Minor(t) /\ focused' \in Items
    BY <1>1, <1>3, <1>4, RestoredMinor, NotRestoredMinor
  <2> QED
    BY <1>1, <1>2, <1>4, <2>1, AnsweredStep DEF RestoreAnswered, Choices
<1>5. CASE Ends(t, tasks[t], interaction) /\ UNCHANGED <<unit, focused, toServer>>
  <2>1. Minor(t) /\ focused' \in Items
    BY <1>1, <1>5, EndsMinor
  <2> QED
    BY <1>2, <1>5, <2>1, AnsweredStep DEF RestoreAnswered, Choices
<1> QED
  BY <1>4, <1>5 DEF RestoreAnswered, item
(***************************************************************************)
(* The other actions, by what they do.                                     *)
(***************************************************************************)
\* The modules of the tree have come.
ModulesStep(t) ==
    /\ tasks[t].at = "modules"
    /\ tasks'[t].at \in MinorPoints
    /\ \E requests \in MinorRequests(t) : Acts(t, requests, 1)
    /\ Head(fromServer).request.kind = "modules"
    /\ modules' = Head(fromServer).value.rev
    /\ source' = source /\ unit' = unit

\* A design is asked for, by a command that waits for it.
ChoiceStep(t) ==
    /\ tasks[t].at \in {"free", "generate"}
    /\ tasks'[t].at = "set"
    /\ source' # NoSource => tasks'[t].refreshes
    /\ Acts(t, <<Ask("set", t, source')>>, 0)

\* A build command is started.
GenerateStep(t) ==
    /\ tasks[t].at = "free"
    /\ tasks'[t].at = "generate"
    /\ Acts(t, <<>>, 0)
    /\ UNCHANGED <<source, unit, modules>>

\* The chosen design is asked for again, and then the tree of it.
SaveStep(t) ==
    /\ tasks[t].at = "free"
    /\ tasks'[t].at = "unit"
    /\ Acts(t, <<Ask("set", 0, source), Ask("unit", t, None)>>, 0)
    /\ UNCHANGED <<source, unit, modules>>

\* The tree is asked for, after a save or an answer.
RefreshStep(t, k) ==
    /\ tasks[t].at = IF k = 1 THEN "set" ELSE "free"
    /\ tasks'[t].at = "unit"
    /\ Acts(t, <<Ask("unit", t, None)>>, k)
    /\ k = 1 => /\ Head(fromServer).request.kind = "set"
                /\ Head(fromServer).request.task = t
    /\ UNCHANGED <<source, unit, modules>>

\* The server has made a design, or has not, and its tree is not fetched.
EndStep(t) ==
    /\ tasks[t].at = "set"
    /\ tasks'[t].at = "done"
    /\ Acts(t, <<>>, 1)
    /\ Head(fromServer).request.kind = "set"
    /\ Head(fromServer).request.task = t
    /\ Head(fromServer).ok => ~tasks[t].refreshes
    /\ UNCHANGED <<source, unit, modules>>

\* An answer is dropped.
DropStep ==
    /\ Acts(0, <<>>, 1)
    /\ tasks' = tasks
    /\ \/ Head(fromServer).request.kind = "set" /\ Head(fromServer).request.task = 0
       \/ /\ Head(fromServer).request.kind = "search"
          /\ \E t \in Tasks : tasks[t].at # "pick" /\ Head(fromServer).request.task = t
    /\ UNCHANGED <<source, unit, modules>>

\* The tree has come.
TreeStep(t) ==
    /\ tasks[t].at = "unit"
    /\ Head(fromServer).request.kind = "unit"
    /\ LET design == Head(fromServer).value.design IN
       \/ /\ PathsOf(design) = {}
          /\ unit' = NoUnit
          /\ tasks'[t].at = "done" /\ Acts(t, <<>>, 1)
       \/ /\ PathsOf(design) # {}
          /\ unit'.design = design /\ unit'.rev = Head(fromServer).value.rev
          /\ tasks'[t].at = "modules" /\ Acts(t, <<Ask("modules", t, None)>>, 1)
          /\ modules' = modules
    /\ source' = source

\* The picker is opened, is typed into, or gets results.
PickStep(t) ==
    /\ tasks'[t].at = "pick"
    /\ UNCHANGED <<source, unit, modules>>
    /\ \/ /\ tasks[t].at = "free"
          /\ tasks'[t].searching /\ tasks'[t].query = NoText /\ tasks'[t].pending = None
          /\ Acts(t, <<Ask("search", t, NoText)>>, 0)
       \/ /\ tasks[t].at = "pick" /\ tasks[t].searching
          /\ tasks'[t].searching /\ tasks'[t].pending = tasks'[t].query
          /\ Acts(t, <<>>, 0)
       \/ /\ tasks[t].at = "pick" /\ ~tasks[t].searching
          /\ tasks'[t].searching /\ tasks'[t].pending = tasks[t].pending
          /\ Acts(t, <<Ask("search", t, tasks'[t].query)>>, 0)
       \/ /\ tasks[t].at = "pick"
          /\ Head(fromServer).request.kind = "search" /\ Head(fromServer).request.task = t
          /\ tasks'[t].query = tasks[t].query
          /\ \/ /\ tasks[t].pending # None /\ tasks'[t].pending = None
                /\ tasks'[t].searching = tasks[t].searching
                /\ Acts(t, <<Ask("search", t, tasks[t].pending)>>, 1)
             \/ /\ tasks[t].pending = None /\ tasks'[t].pending = None
                /\ ~tasks'[t].searching
                /\ Head(fromServer).request.arg = tasks[t].query =>
                     tasks'[t].shown = tasks[t].query
                /\ Acts(t, <<>>, 1)

\* What one command does, with requests of any kinds.
LEMMA GoesActs ==
  ASSUME Typed, NEW t \in Tasks, NEW next \in TaskType, Proper(next), Goes(t, next),
         NEW requests \in Seq(Askable), toServer' = toServer \o requests, NEW k, Takes(k),
         UNCHANGED <<server, refused, Reloads>>
  PROVE  Acts(t, requests, k) /\ tasks'[t] = next
BY DEF Acts, Goes, Typed

LEMMA Asks ==
  ASSUME NEW t \in Nat, NEW kind \in Kinds, NEW arg \in Args(kind)
  PROVE  Ask(kind, t, arg) \in Askable /\ <<Ask(kind, t, arg)>> \in Seq(Askable)
<1>1. Ask(kind, t, arg) \in Requests
  BY DEF Requests, Args, Ask
<1> QED
  BY <1>1 DEF Askable, Ask

LEMMA NoRequests ==
  ASSUME Typed, UNCHANGED toServer
  PROVE  <<>> \in Seq(Askable) /\ toServer' = toServer \o <<>>
BY DEF Typed
LEMMA TaskNumber == ASSUME NEW t \in Tasks PROVE t \in Nat /\ t # 0
BY ProjectAssumption DEF Tasks

LEMMA WaitingType ==
  ASSUME NEW at \in {"set", "generate"}, NEW goal \in Sources
  PROVE  LET w == Waiting(at, goal) IN
         /\ w \in TaskType /\ Proper(w) /\ w.at = at /\ w.goal = goal /\ w.tracks = FALSE
         /\ w.refreshes = TRUE
<1>1. at \in Points /\ Idle \in TaskType /\ Idle.tracks = FALSE /\ Idle.refreshes = TRUE
  BY IdleType DEF Points, Idle
<1> QED
  BY <1>1 DEF Waiting, TaskType, Proper

LEMMA ChooseStep ==
  ASSUME Typed, NEW t \in Tasks, NEW goal \in Sources, goal.type # "none", Choose(t, goal)
  PROVE  Typed' /\ ChoiceStep(t)
<1> DEFINE w == Waiting("set", goal)
<1>1. w \in TaskType /\ Proper(w) /\ w.at = "set" /\ w.refreshes
  BY WaitingType
<1> HIDE DEF w
<1>2. "set" \in Kinds /\ goal \in Args("set")
  BY DEF Kinds, Args
<1>3. <<Ask("set", t, goal)>> \in Seq(Askable)
  BY <1>2, Asks, TaskNumber
<1>4. Acts(t, <<Ask("set", t, goal)>>, 0) /\ tasks'[t] = w
  BY <1>1, <1>3, GoesActs DEF Choose, Send, Takes, w
<1>5. Typed'
  BY <1>4, StepTyped DEF Choose, Tree, Typed
<1>6. ChoiceStep(t)
  BY <1>1, <1>4 DEF ChoiceStep, Choose, Fresh
<1> QED
  BY <1>5, <1>6

LEMMA RunStep ==
  ASSUME Typed, NEW t \in Tasks, NEW task \in TaskType, Proper(task), task.at = "generate",
         RunCommand(t, task)
  PROVE  Typed' /\ GenerateStep(t)
<1>1. Acts(t, <<>>, 0) /\ tasks'[t] = task
  BY NoRequests, GoesActs DEF RunCommand, Wires, Takes
<1>2. Typed'
  BY <1>1, StepTyped DEF RunCommand, Tree, Typed
<1> QED
  BY <1>1, <1>2 DEF GenerateStep, RunCommand, Fresh, Tree

LEMMA ChooseCommandStep ==
  ASSUME Typed, NEW t \in Tasks, NEW c \in Commands, ChooseCommand(t, c)
  PROVE  Typed' /\ GenerateStep(t)
<1> DEFINE goal == Source("commandBuild", c)
           w == Waiting("generate", goal)
           task == [w EXCEPT !.tracks = TRUE]
<1>1. goal \in Sources /\ goal.type = "commandBuild"
  BY DEF Sources, Source
<1>2. w \in TaskType /\ Proper(w) /\ w.at = "generate" /\ w.goal = goal
  BY <1>1, WaitingType
<1> HIDE DEF w, goal
<1>3. task \in TaskType /\ Proper(task) /\ task.at = "generate"
  BY <1>1, <1>2 DEF TaskType, Proper
<1>4. RunCommand(t, task)
  BY DEF ChooseCommand, w, goal
<1> QED
  BY <1>3, <1>4, RunStep

LEMMA RefreshCompilationStep ==
  ASSUME Typed, NEW t \in Tasks, RefreshCompilation(t)
  PROVE  Typed' /\ (GenerateStep(t) \/ ChoiceStep(t))
<1>0. source \in Sources
  BY DEF Typed
<1>1. CASE /\ source.type = "commandBuild"
           /\ RunCommand(t, [Waiting("generate", source) EXCEPT !.tracks = TRUE,
                                                                !.preserve = TRUE])
  <2> DEFINE w == Waiting("generate", source)
             task == [w EXCEPT !.tracks = TRUE, !.preserve = TRUE]
  <2>1. w \in TaskType /\ Proper(w) /\ w.at = "generate" /\ w.goal = source
    BY <1>0, WaitingType
  <2> HIDE DEF w
  <2>2. task \in TaskType /\ Proper(task) /\ task.at = "generate"
    BY <1>1, <2>1 DEF TaskType, Proper
  <2>3. RunCommand(t, task)
    BY <1>1 DEF w
  <2> HIDE DEF task
  <2> QED
    BY <2>2, <2>3, RunStep
<1>2. CASE /\ source.type \in {"filelist", "topfile"}
           /\ Fresh(t)
           /\ Send(<<Ask("set", t, source)>>)
           /\ Goes(t, [Waiting("set", source) EXCEPT !.preserve = TRUE])
           /\ UNCHANGED <<source, watcher, Tree, interaction, typed, fromServer, server, refused,
                          Reloads>>
  <2> DEFINE w == Waiting("set", source)
             task == [w EXCEPT !.preserve = TRUE]
  <2>1. w \in TaskType /\ Proper(w) /\ w.at = "set" /\ w.refreshes
    BY <1>0, WaitingType
  <2> HIDE DEF w
  <2>2. task \in TaskType /\ Proper(task) /\ task.at = "set" /\ task.refreshes
    BY <2>1 DEF TaskType, Proper
  <2> HIDE DEF task
  <2>3. <<Ask("set", t, source)>> \in Seq(Askable)
    BY <1>0, Asks, TaskNumber DEF Kinds, Args
  <2>4. Acts(t, <<Ask("set", t, source)>>, 0) /\ tasks'[t] = task
    BY <1>2, <2>2, <2>3, GoesActs DEF Send, Takes, task, w
  <2>5. Typed'
    BY <1>2, <2>4, StepTyped DEF Tree, Typed
  <2>6. ChoiceStep(t)
    BY <1>2, <2>2, <2>4 DEF ChoiceStep, Fresh
  <2> QED
    BY <2>5, <2>6
<1> QED
  BY <1>1, <1>2 DEF RefreshCompilation

LEMMA CommandSourceStep ==
  ASSUME Typed, NEW t \in Tasks, CommandSourceChanges(t)
  PROVE  Typed' /\ GenerateStep(t)
<1> DEFINE w == Waiting("generate", source)
           task == [w EXCEPT !.preserve = TRUE, !.reveals = FALSE]
<1>1. w \in TaskType /\ Proper(w) /\ w.at = "generate"
  BY WaitingType DEF Typed
<1> HIDE DEF w
<1>2. task \in TaskType /\ Proper(task) /\ task.at = "generate"
  BY <1>1 DEF TaskType, Proper
<1>3. RunCommand(t, task)
  BY DEF CommandSourceChanges, w
<1> HIDE DEF task
<1> QED
  BY <1>2, <1>3, RunStep

LEMMA CommandRunsStep ==
  ASSUME Typed, NEW t \in Tasks, CommandRuns(t)
  PROVE  Typed' /\ ChoiceStep(t)
<1> DEFINE task == [tasks[t] EXCEPT !.at = "set"]
           goal == tasks[t].goal
<1>1. tasks[t] \in TaskType /\ Proper(tasks[t])
  BY DEF Typed
<1>2. task \in TaskType /\ Proper(task) /\ task.at = "set" /\ task.refreshes
  <2>1. "set" \in Points /\ tasks[t].refreshes
    BY <1>1 DEF Points, CommandRuns, Proper
  <2>2. task \in TaskType /\ Proper(task) /\ task.at = "set"
    BY <1>1, <2>1, TaskAt
  <2>3. task.refreshes = tasks[t].refreshes
    BY <1>1 DEF TaskType
  <2> QED
    BY <2>1, <2>2, <2>3
<1>3. goal \in Sources
  BY <1>1 DEF TaskType
<1>4. <<Ask("set", t, goal)>> \in Seq(Askable)
  BY <1>3, Asks, TaskNumber DEF Kinds, Args
<1>5. Goes(t, task) /\ toServer' = toServer \o <<Ask("set", t, goal)>> /\ source' = goal
  BY DEF CommandRuns, Send
<1> HIDE DEF task, goal
<1>6. Acts(t, <<Ask("set", t, goal)>>, 0) /\ tasks'[t] = task
  BY <1>2, <1>4, <1>5, GoesActs DEF CommandRuns, Takes
<1>7. Typed'
  BY <1>3, <1>5, <1>6, StepTyped DEF CommandRuns, Tree, Typed
<1>8. ChoiceStep(t)
  BY <1>2, <1>5, <1>6 DEF ChoiceStep, CommandRuns, goal
<1> QED
  BY <1>7, <1>8

LEMMA ClearStep ==
  ASSUME Typed, NEW t \in Tasks, ClearTopLevel(t)
  PROVE  Typed' /\ ChoiceStep(t)
<1> DEFINE w == Waiting("set", NoSource)
           task == [w EXCEPT !.refreshes = FALSE]
<1>1. NoSource \in Sources /\ NoUnit \in Units /\ NoItem \in Items
  BY IdleType
<1>2. w \in TaskType /\ Proper(w) /\ w.at = "set"
  BY <1>1, WaitingType
<1> HIDE DEF w
<1>3. task \in TaskType /\ Proper(task) /\ task.at = "set"
  BY <1>2 DEF TaskType, Proper
<1> HIDE DEF task
<1>4. <<Ask("set", t, NoSource)>> \in Seq(Askable)
  BY <1>1, Asks, TaskNumber DEF Kinds, Args
<1>5. Acts(t, <<Ask("set", t, NoSource)>>, 0) /\ tasks'[t] = task
  BY <1>3, <1>4, GoesActs DEF ClearTopLevel, Send, Takes, task, w
<1>6. Typed'
  BY <1>1, <1>5, StepTyped DEF ClearTopLevel, Typed
<1>7. ChoiceStep(t)
  BY <1>3, <1>5 DEF ChoiceStep, ClearTopLevel, Fresh
<1> QED
  BY <1>6, <1>7

LEMMA RefreshingType ==
  ASSUME Typed, NEW task \in TaskType, Proper(task)
  PROVE  Refreshing(task) \in TaskType /\ Proper(Refreshing(task)) /\ Refreshing(task).at = "unit"
<1> DEFINE prev == IF task.preserve THEN focused.path ELSE None
<1>1. prev \in PathOrNone
  BY DEF Typed, Items, PathOrNone
<1> HIDE DEF prev
<1>2. Refreshing(task) = [[task EXCEPT !.at = "unit"] EXCEPT !.previous = prev]
  BY DEF Refreshing, prev, TaskType
<1> DEFINE mid == [task EXCEPT !.at = "unit"]
<1>3. mid \in TaskType /\ mid.at = "unit" /\ Proper(mid)
  BY TaskAt DEF Points
<1> HIDE DEF mid
<1>4. [mid EXCEPT !.previous = prev] \in TaskType
  BY <1>1, <1>3 DEF TaskType
<1>5. /\ [mid EXCEPT !.previous = prev].at = "unit"
      /\ [mid EXCEPT !.previous = prev].tracks = mid.tracks
      /\ [mid EXCEPT !.previous = prev].goal = mid.goal
  BY <1>3 DEF TaskType
<1> QED
  BY <1>2, <1>3, <1>4, <1>5 DEF Proper, mid

LEMMA SavedStep ==
  ASSUME Typed, NEW t \in Tasks, BuildFileSaved(t)
  PROVE  Typed' /\ SaveStep(t)
<1> DEFINE task == Refreshing([Idle EXCEPT !.preserve = TRUE, !.reveals = TRUE])
           r1 == Ask("set", 0, source)
           r2 == Ask("unit", t, None)
<1>1. [Idle EXCEPT !.preserve = TRUE, !.reveals = TRUE] \in TaskType
      /\ Proper([Idle EXCEPT !.preserve = TRUE, !.reveals = TRUE])
  BY IdleType DEF TaskType, Proper
<1>2. task \in TaskType /\ Proper(task) /\ task.at = "unit"
  BY <1>1, RefreshingType
<1>3. r1 \in Askable /\ r2 \in Askable
  BY Asks, TaskNumber DEF Kinds, Args, Typed, PathOrNone
<1> HIDE DEF task
<1>4. <<r1, r2>> \in Seq(Askable)
  BY <1>3
<1>5. Acts(t, <<r1, r2>>, 0) /\ tasks'[t] = task
  <2>1. Goes(t, task) /\ toServer' = toServer \o <<r1, r2>> /\ Takes(0)
        /\ UNCHANGED <<server, refused, Reloads>>
    BY DEF BuildFileSaved, Send, Takes, task
  <2> HIDE DEF r1, r2
  <2> QED
    BY <1>2, <1>4, <2>1, GoesActs
<1>6. Typed'
  <2> HIDE DEF r1, r2
  <2> QED
    BY <1>5, StepTyped DEF BuildFileSaved, Tree, Typed
<1>7. SaveStep(t)
  BY <1>2, <1>5 DEF SaveStep, BuildFileSaved, Fresh, Tree
<1> QED
  BY <1>6, <1>7

LEMMA HdlSavedStep ==
  ASSUME Typed, NEW t \in Tasks, HdlSaved(t)
  PROVE  Typed' /\ RefreshStep(t, 0)
<1> DEFINE task == Refreshing([Idle EXCEPT !.preserve = TRUE])
<1>1. [Idle EXCEPT !.preserve = TRUE] \in TaskType /\ Proper([Idle EXCEPT !.preserve = TRUE])
  BY IdleType DEF TaskType, Proper
<1>2. task \in TaskType /\ Proper(task) /\ task.at = "unit"
  BY <1>1, RefreshingType
<1> HIDE DEF task
<1>3. <<Ask("unit", t, None)>> \in Seq(Askable)
  BY Asks, TaskNumber DEF Kinds, Args, PathOrNone
<1>4. Acts(t, <<Ask("unit", t, None)>>, 0) /\ tasks'[t] = task
  BY <1>2, <1>3, GoesActs DEF HdlSaved, Send, Takes, task
<1>5. Typed'
  BY <1>4, StepTyped DEF HdlSaved, Tree, Typed
<1> QED
  BY <1>2, <1>4, <1>5 DEF RefreshStep, HdlSaved, Fresh, Tree
\* The server has made a design that a command waits for, or failed to.
LEMMA SetAnsweredStep ==
  ASSUME Typed, NEW t \in Tasks, SetAnswered(t)
  PROVE  Typed' /\ (RefreshStep(t, 1) \/ EndStep(t))
<1>0. tasks[t] \in TaskType /\ Proper(tasks[t]) /\ tasks[t].at = "set"
  BY DEF Typed, SetAnswered
<1>1. ASSUME Answered(t, "set", TRUE), tasks[t].refreshes,
             watcher' = IF tasks[t].tracks THEN tasks[t].goal.name ELSE watcher,
             Send(<<Ask("unit", t, None)>>), Goes(t, Refreshing(tasks[t])),
             UNCHANGED <<source, Tree, interaction, typed, server, refused, Reloads>>
      PROVE  Typed' /\ RefreshStep(t, 1)
  <2> DEFINE task == Refreshing(tasks[t])
  <2>1. task \in TaskType /\ Proper(task) /\ task.at = "unit"
    BY <1>0, RefreshingType
  <2> HIDE DEF task
  <2>2. <<Ask("unit", t, None)>> \in Seq(Askable)
    BY Asks, TaskNumber DEF Kinds, Args, PathOrNone
  <2>3. Takes(1) /\ Head(fromServer).request.kind = "set" /\ Head(fromServer).request.task = t
    BY <1>1 DEF Answered, Takes
  <2>4. Acts(t, <<Ask("unit", t, None)>>, 1) /\ tasks'[t] = task
    BY <1>1, <2>1, <2>2, <2>3, GoesActs DEF Send, task
  <2>5. watcher' \in Commands \cup {None}
    <3>1. tasks[t].tracks => tasks[t].goal.name \in Commands
      BY <1>0 DEF TaskType, Proper, Sources, Source, NoSource
    <3> QED
      BY <1>1, <3>1 DEF Typed
  <2>6. Typed'
    BY <1>1, <2>4, <2>5, StepTyped DEF Tree, Typed
  <2> QED
    BY <1>0, <1>1, <2>1, <2>3, <2>4, <2>6 DEF RefreshStep, Tree
<1>2. ASSUME (Answered(t, "set", TRUE) /\ ~tasks[t].refreshes) \/ Answered(t, "set", FALSE),
             Goes(t, Done), UNCHANGED <<watcher, toServer>>,
             UNCHANGED <<source, Tree, interaction, typed, server, refused, Reloads>>
      PROVE  Typed' /\ EndStep(t)
  <2>1. /\ Takes(1) /\ Head(fromServer).request.kind = "set" /\ Head(fromServer).request.task = t
        /\ Head(fromServer).ok => ~tasks[t].refreshes
    BY <1>2 DEF Answered, Takes
  <2>2. Acts(t, <<>>, 1) /\ tasks'[t] = Done
    BY <1>2, <2>1, IdleType, NoRequests, GoesActs
  <2>3. Typed'
    BY <1>2, <2>2, StepTyped DEF Tree, Typed
  <2> QED
    BY <1>0, <1>2, <2>1, <2>2, <2>3, IdleType DEF EndStep, Tree
<1> QED
  BY <1>1, <1>2 DEF SetAnswered

LEMMA DroppedStep ==
  ASSUME Typed, UnawaitedAnswered \/ \E t \in Tasks : LateSearchAnswered(t)
  PROVE  Typed' /\ DropStep
<1>1. /\ Takes(1) /\ tasks' = tasks /\ toServer' = toServer
      /\ UNCHANGED <<server, refused, Reloads>>
      /\ UNCHANGED <<source, watcher, Tree, interaction, typed>>
      /\ \/ Head(fromServer).request.kind = "set" /\ Head(fromServer).request.task = 0
         \/ /\ Head(fromServer).request.kind = "search"
            /\ \E t \in Tasks : tasks[t].at # "pick" /\ Head(fromServer).request.task = t
  BY DEF UnawaitedAnswered, LateSearchAnswered, Answered, Takes, Choices
<1>2. Acts(0, <<>>, 1)
  <2>1. toServer' = toServer \o <<>> /\ <<>> \in Seq(Askable)
    BY <1>1, NoRequests
  <2> QED
    BY <1>1, <2>1 DEF Acts, Typed
<1>3. Typed'
  BY <1>1, <1>2, StepTyped DEF Tree, Typed
<1> QED
  BY <1>1, <1>2, <1>3 DEF DropStep, Tree

LEMMA HeadReply ==
  ASSUME Typed, fromServer # <<>>
  PROVE  /\ Head(fromServer) \in Replies /\ Head(fromServer).value \in Servers
         /\ Head(fromServer).value.design \in Sources /\ Head(fromServer).value.rev \in Nat
<1>1. fromServer \in Seq(Replies)
  BY DEF Typed
<1>2. Head(fromServer) \in Replies
  BY <1>1, TailTyped
<1> QED
  BY <1>2 DEF Replies, Servers

LEMMA UnitAnsweredStep ==
  ASSUME Typed, NEW t \in Tasks, UnitAnswered(t)
  PROVE  Typed' /\ TreeStep(t)
<1>0. tasks[t] \in TaskType /\ Proper(tasks[t]) /\ tasks[t].at = "unit"
  BY DEF Typed, UnitAnswered
<1>1. Takes(1) /\ Head(fromServer).request.kind = "unit" /\ fromServer # <<>>
  BY DEF UnitAnswered, Answered, Takes
<1> DEFINE answer == Head(fromServer).value
<1>2. answer.design \in Sources /\ answer.rev \in Nat
  BY <1>1, HeadReply
<1>3. ASSUME PathsOf(answer.design) = {},
             unit' = NoUnit, modules' = 0, focused' = NoItem, Goes(t, Done), UNCHANGED toServer,
             UNCHANGED <<source, watcher, interaction, typed, server, refused, Reloads>>
      PROVE  Typed' /\ TreeStep(t)
  <2>1. Acts(t, <<>>, 1) /\ tasks'[t] = Done
    BY <1>1, <1>3, IdleType, NoRequests, GoesActs
  <2>2. Typed'
    BY <1>3, <2>1, IdleType, StepTyped DEF Typed
  <2> QED
    BY <1>0, <1>1, <1>3, <2>1, <2>2, IdleType DEF TreeStep
<1>4. ASSUME PathsOf(answer.design) # {},
             unit' = [design |-> answer.design, rev |-> answer.rev, known |-> {}],
             focused' = IF tasks[t].preserve THEN focused ELSE NoItem,
             Send(<<Ask("modules", t, None)>>),
             Goes(t, [tasks[t] EXCEPT !.at = "modules", !.tree = unit']), UNCHANGED modules,
             UNCHANGED <<source, watcher, interaction, typed, server, refused, Reloads>>
      PROVE  Typed' /\ TreeStep(t)
  <2>1. unit' \in Units /\ unit'.design = answer.design /\ unit'.rev = answer.rev
    BY <1>2, <1>4 DEF Units
  <2>2. PICK u \in Units : u = unit'
    BY <2>1
  <2> DEFINE mid == [tasks[t] EXCEPT !.at = "modules"]
             task == [mid EXCEPT !.tree = u]
  <2>3. mid \in TaskType /\ mid.at = "modules" /\ Proper(mid)
    BY <1>0, TaskAt DEF Points
  <2>4. Goes(t, task)
    BY <1>0, <1>4, <2>2 DEF TaskType
  <2> HIDE DEF mid
  <2>5. task \in TaskType /\ task.at = "modules" /\ Proper(task)
    BY <2>3 DEF TaskType, Proper
  <2> HIDE DEF task
  <2>6. <<Ask("modules", t, None)>> \in Seq(Askable)
    BY Asks, TaskNumber DEF Kinds, Args, PathOrNone
  <2>7. Acts(t, <<Ask("modules", t, None)>>, 1) /\ tasks'[t] = task
    BY <1>1, <1>4, <2>4, <2>5, <2>6, GoesActs DEF Send
  <2>8. focused' \in Items
    BY <1>4, IdleType DEF Typed
  <2>9. Typed'
    BY <1>4, <2>1, <2>7, <2>8, StepTyped DEF Typed
  <2> QED
    BY <1>0, <1>1, <1>4, <2>1, <2>5, <2>7, <2>9 DEF TreeStep
<1> QED
  BY <1>3, <1>4 DEF UnitAnswered

LEMMA ModulesAnsweredStep ==
  ASSUME Typed, NEW t \in Tasks, ModulesAnswered(t)
  PROVE  Typed' /\ ModulesStep(t)
<1>0. tasks[t] \in TaskType /\ Proper(tasks[t]) /\ tasks[t].at = "modules" /\ focused \in Items
  BY DEF Typed, ModulesAnswered
<1>1. Takes(1) /\ Head(fromServer).request.kind = "modules" /\ fromServer # <<>>
  BY DEF ModulesAnswered, Answered, Takes
<1>2. modules' = Head(fromServer).value.rev /\ modules' \in Nat
  BY <1>1, HeadReply DEF ModulesAnswered
<1> DEFINE p == tasks[t].previous
<1>3. p \in PathOrNone
  BY <1>0 DEF TaskType
<1>4. Minor(t) /\ focused' \in Items
  <2>1. CASE NotRestored(t, tasks[t])
    BY <1>0, <2>1, NotRestoredMinor
  <2>2. CASE Restored(t, tasks[t], Item(unit, p))
    BY <1>0, <1>3, <2>2, UnitItem, RestoredMinor
  <2>3. ASSUME p # None, Continues(t, [tasks[t] EXCEPT !.at = "restore"], <<Ask("scopes", t, p)>>),
               UNCHANGED focused
        PROVE  Minor(t) /\ focused' \in Items
    <3> DEFINE task == [tasks[t] EXCEPT !.at = "restore"]
    <3>1. task \in TaskType /\ task.at = "restore" /\ Proper(task)
      BY <1>0, <2>3 DEF TaskType, Proper, Points
    <3> HIDE DEF task
    <3>2. <<Ask("scopes", t, p)>> \in MinorRequests(t)
      BY <1>3 DEF MinorRequests, MinorKinds
    <3>3. Continues(t, task, <<Ask("scopes", t, p)>>)
      BY <2>3 DEF task
    <3>4. Minor(t)
      BY <3>1, <3>2, <3>3, ContinuesMinor DEF MinorPoints
    <3> QED
      BY <1>0, <2>3, <3>4
  <2> QED
    BY <2>1, <2>2, <2>3 DEF ModulesAnswered
<1>5. UNCHANGED <<Choices, unit, typed, server, refused, Reloads>>
  BY DEF ModulesAnswered
<1>6. /\ tasks'[t].at \in MinorPoints
      /\ \E requests \in MinorRequests(t) : Acts(t, requests, 1)
  BY <1>1, <1>4, <1>5, MinorActs
<1>7. ModulesStep(t)
  BY <1>0, <1>1, <1>2, <1>5, <1>6 DEF ModulesStep, Choices
<1>8. Typed'
  <2>1. interaction' \in Actors
    BY <1>4 DEF Minor
  <2> QED
    BY <1>2, <1>4, <1>5, <1>6, <2>1, StepTyped DEF Choices, Typed
<1> QED
  BY <1>7, <1>8
\* The picker.
LEMMA StartSearchStep ==
  ASSUME Typed, NEW t \in Tasks, StartSearch(t)
  PROVE  Typed' /\ PickStep(t)
<1> DEFINE mid == [Idle EXCEPT !.at = "pick"]
           task == [mid EXCEPT !.searching = TRUE]
<1>1. mid \in TaskType /\ mid.at = "pick" /\ Proper(mid)
  BY IdleType, TaskAt DEF Points
<1>2. mid.query = NoText /\ mid.pending = None
  BY DEF Idle
<1>3. Goes(t, task)
  BY DEF StartSearch, Idle
<1> HIDE DEF mid
<1>4. /\ task \in TaskType /\ task.at = "pick" /\ Proper(task)
      /\ task.searching /\ task.query = NoText /\ task.pending = None
  BY <1>1, <1>2 DEF TaskType, Proper
<1> HIDE DEF task
<1>5. <<Ask("search", t, NoText)>> \in Seq(Askable)
  BY Asks, TaskNumber DEF Kinds, Args, Texts
<1>6. Acts(t, <<Ask("search", t, NoText)>>, 0) /\ tasks'[t] = task
  BY <1>3, <1>4, <1>5, GoesActs DEF StartSearch, Send, Takes
<1>7. Typed'
  BY <1>6, StepTyped DEF StartSearch, Choices, Tree, Typed
<1> QED
  BY <1>4, <1>6, <1>7 DEF PickStep, StartSearch, Fresh, Choices, Tree

LEMMA TypeStep ==
  ASSUME Typed, NEW t \in Tasks, NEW q \in Queries, Type(t, q)
  PROVE  Typed' /\ PickStep(t)
<1>1. /\ tasks[t] \in TaskType /\ Proper(tasks[t]) /\ tasks[t].at = "pick" /\ q \in Texts
      /\ UNCHANGED <<Choices, Tree, interaction, fromServer, server, refused, Reloads>>
  BY DEF Typed, Type, Texts
<1>2. typed' \in 0..MaxTyped
  BY ProjectAssumption DEF Typed, Type
<1>3. CASE /\ tasks[t].searching
           /\ Goes(t, [tasks[t] EXCEPT !.query = q, !.pending = q])
           /\ UNCHANGED toServer
  <2> DEFINE task == [tasks[t] EXCEPT !.query = q, !.pending = q]
  <2>1. /\ task \in TaskType /\ task.at = "pick" /\ Proper(task)
        /\ task.searching = tasks[t].searching /\ task.query = q /\ task.pending = q
    BY <1>1 DEF TaskType, Proper
  <2> HIDE DEF task
  <2>2. Acts(t, <<>>, 0) /\ tasks'[t] = task
    BY <1>1, <1>3, <2>1, NoRequests, GoesActs DEF Takes, task
  <2>3. Typed'
    BY <1>1, <1>2, <2>2, StepTyped DEF Choices, Tree, Typed
  <2> QED
    BY <1>1, <1>3, <2>1, <2>2, <2>3 DEF PickStep, Choices, Tree
<1>4. CASE /\ ~tasks[t].searching
           /\ Goes(t, [tasks[t] EXCEPT !.query = q, !.searching = TRUE])
           /\ Send(<<Ask("search", t, q)>>)
  <2> DEFINE task == [tasks[t] EXCEPT !.query = q, !.searching = TRUE]
  <2>1. /\ task \in TaskType /\ task.at = "pick" /\ Proper(task)
        /\ task.searching /\ task.query = q /\ task.pending = tasks[t].pending
    BY <1>1 DEF TaskType, Proper
  <2> HIDE DEF task
  <2>2. <<Ask("search", t, q)>> \in Seq(Askable)
    BY <1>1, Asks, TaskNumber DEF Kinds, Args
  <2>3. Acts(t, <<Ask("search", t, q)>>, 0) /\ tasks'[t] = task
    BY <1>1, <1>4, <2>1, <2>2, GoesActs DEF Takes, Send, task
  <2>4. Typed'
    BY <1>1, <1>2, <2>3, StepTyped DEF Choices, Tree, Typed
  <2> QED
    BY <1>1, <1>4, <2>1, <2>3, <2>4 DEF PickStep, Choices, Tree
<1> QED
  BY <1>3, <1>4 DEF Type, ApplyFilter

LEMMA SearchAnsweredStep ==
  ASSUME Typed, NEW t \in Tasks, SearchAnswered(t)
  PROVE  Typed' /\ PickStep(t)
<1>1. /\ tasks[t] \in TaskType /\ Proper(tasks[t]) /\ tasks[t].at = "pick"
      /\ UNCHANGED <<Choices, Tree, interaction, typed, server, refused, Reloads>>
  BY DEF Typed, SearchAnswered
<1>2. /\ Takes(1) /\ fromServer # <<>> /\ Head(fromServer).request.kind = "search"
      /\ Head(fromServer).request.task = t
  BY DEF SearchAnswered, Answered, Takes
<1> DEFINE q == Head(fromServer).request.arg
<1>3. q \in Texts /\ Head(fromServer).ok \in BOOLEAN
  <2>1. fromServer \in Seq(Replies) /\ Head(fromServer) = fromServer[1] /\ 1 \in 1..Len(fromServer)
    BY <1>2, TailTyped DEF Typed
  <2>2. q \in Args("search") /\ Head(fromServer) \in Replies
    BY <1>2, <2>1 DEF Typed
  <2> QED
    BY <2>2 DEF Args, Replies
<1>4. PICK found \in BOOLEAN : found = Head(fromServer).ok
  BY <1>3
<1> HIDE DEF q
<1> DEFINE told == [tasks[t] EXCEPT !.shown = q, !.found = found]
<1>5. PICK task \in {tasks[t], told} :
        /\ task = IF q # tasks[t].query THEN tasks[t] ELSE told
        /\ IF task.pending # None
           THEN /\ Goes(t, [task EXCEPT !.pending = None])
                /\ Send(<<Ask("search", t, task.pending)>>)
           ELSE Goes(t, [task EXCEPT !.searching = FALSE]) /\ UNCHANGED toServer
  BY <1>4 DEF SearchAnswered, q
<1>6. /\ told \in TaskType /\ told.at = "pick" /\ Proper(told)
      /\ told.searching = tasks[t].searching /\ told.query = tasks[t].query
      /\ told.pending = tasks[t].pending /\ told.shown = q
  BY <1>1, <1>3 DEF TaskType, Proper
<1> HIDE DEF told
<1>7. /\ task \in TaskType /\ task.at = "pick" /\ Proper(task)
      /\ task.searching = tasks[t].searching /\ task.query = tasks[t].query
      /\ task.pending = tasks[t].pending /\ (q = tasks[t].query => task.shown = q)
  BY <1>1, <1>5, <1>6
<1>8. CASE task.pending # None
  <2> DEFINE next == [task EXCEPT !.pending = None]
  <2>1. /\ next \in TaskType /\ next.at = "pick" /\ Proper(next)
        /\ next.searching = task.searching /\ next.query = task.query /\ next.pending = None
    BY <1>7 DEF TaskType, Proper
  <2> HIDE DEF next
  <2>2. task.pending \in Texts
    BY <1>7, <1>8 DEF TaskType
  <2>3. <<Ask("search", t, task.pending)>> \in Seq(Askable)
    BY <2>2, Asks, TaskNumber DEF Kinds, Args
  <2>4. Acts(t, <<Ask("search", t, task.pending)>>, 1) /\ tasks'[t] = next
    BY <1>1, <1>2, <1>5, <1>8, <2>1, <2>3, GoesActs DEF Send, next
  <2>5. Typed'
    BY <1>1, <2>4, StepTyped DEF Choices, Tree, Typed
  <2> QED
    BY <1>1, <1>2, <1>7, <1>8, <2>1, <2>4, <2>5 DEF PickStep, Choices, Tree
<1>9. CASE task.pending = None
  <2> DEFINE next == [task EXCEPT !.searching = FALSE]
  <2>1. /\ next \in TaskType /\ next.at = "pick" /\ Proper(next)
        /\ ~next.searching /\ next.query = task.query /\ next.pending = None
        /\ next.shown = task.shown
    BY <1>7, <1>9 DEF TaskType, Proper
  <2> HIDE DEF next
  <2>2. Acts(t, <<>>, 1) /\ tasks'[t] = next
    BY <1>1, <1>2, <1>5, <1>9, <2>1, NoRequests, GoesActs DEF next
  <2>3. Typed'
    BY <1>1, <2>2, StepTyped DEF Choices, Tree, Typed
  <2>4. Head(fromServer).request.arg = tasks[t].query => tasks'[t].shown = tasks[t].query
    BY <1>7, <2>1, <2>2 DEF q
  <2> QED
    BY <1>1, <1>2, <1>7, <1>9, <2>1, <2>2, <2>3, <2>4 DEF PickStep, Choices, Tree
<1> QED
  BY <1>8, <1>9

(***************************************************************************)
(* What every step of a command, or of none, is.                           *)
(***************************************************************************)
Step(t) ==
    \/ \E k \in {0, 1} : MinorStep(t, k)
    \/ ModulesStep(t) \/ ChoiceStep(t) \/ GenerateStep(t) \/ SaveStep(t)
    \/ \E k \in {0, 1} : RefreshStep(t, k)
    \/ EndStep(t) \/ TreeStep(t) \/ PickStep(t)

LEMMA CommandedSteps ==
  ASSUME Typed, NEW t \in Tasks, Commanded(t)
  PROVE  Typed' /\ Step(t)
<1>1. ASSUME NEW f \in Files, Choose(t, Source("filelist", f))
      PROVE  Typed' /\ ChoiceStep(t)
  <2>1. Source("filelist", f) \in Sources /\ Source("filelist", f).type # "none"
    BY DEF Sources, Source
  <2> QED
    BY <1>1, <2>1, ChooseStep
<1>2. ASSUME NEW f \in Tops, Choose(t, Source("topfile", f))
      PROVE  Typed' /\ ChoiceStep(t)
  <2>1. Source("topfile", f) \in Sources /\ Source("topfile", f).type # "none"
    BY DEF Sources, Source
  <2> QED
    BY <1>2, <2>1, ChooseStep
<1> QED
  BY <1>1, <1>2, ChooseCommandStep, RefreshCompilationStep, CommandSourceStep, ClearStep,
     SavedStep, HdlSavedStep, SelectItemStep, SelectPathStep, StartSearchStep
  DEF Commanded, Step

LEMMA ContinuedSteps ==
  ASSUME Typed, NEW t \in Tasks, Continued(t)
  PROVE  Typed' /\ (Step(t) \/ DropStep)
BY CommandRunsStep, HideStep, SetAnsweredStep, UnitAnsweredStep, ModulesAnsweredStep,
   RestoreAnsweredStep, OpenStep, ResolveAnsweredStep, DismissedStep, RevealStep,
   ActivateAnsweredStep, ShowAnsweredStep, TypeStep, SearchAnsweredStep, DroppedStep, AcceptStep
DEF Continued, Step

\* The server answers the oldest request, and may have made the design it names.
ServerStep ==
    /\ toServer # <<>> /\ toServer' = Tail(toServer)
    /\ \E ok \in BOOLEAN :
         /\ fromServer' = Append(fromServer, Reply(Head(toServer), ok, server))
         /\ IF Head(toServer).kind = "set"
            THEN /\ refused' = ~ok
                 /\ ok => server' = [design |-> Head(toServer).arg, rev |-> server.rev + 1]
                 /\ ~ok => server' = server
                 /\ saved' = IF Head(toServer).arg.type = "topfile" THEN saved
                             ELSE Head(toServer).arg
                 /\ reload' = IF ok THEN "none" ELSE reload
                 /\ untold' = (untold /\ ~ok)
            ELSE /\ UNCHANGED <<server, refused, saved, reload>>
                 /\ untold' = (untold /\ Head(toServer).kind # "unit")
    /\ UNCHANGED <<source, watcher, Tree, interaction, tasks, typed, reloads>>

LEMMA ServerSteps ==
  ASSUME Typed, ServerMakes \/ ServerAnswers
  PROVE  Typed' /\ ServerStep
<1>1. ServerStep
  BY DEF ServerMakes, ServerAnswers, ServerStep
<1>2. /\ toServer \in Seq(Requests) /\ fromServer \in Seq(Replies) /\ server \in Servers
      /\ \A i \in 1..Len(toServer) : toServer[i].arg \in Args(toServer[i].kind)
      /\ \A i \in 1..Len(fromServer) :
            fromServer[i].request.arg \in Args(fromServer[i].request.kind)
  BY DEF Typed
<1>3. /\ Tail(toServer) \in Seq(Requests) /\ Len(Tail(toServer)) = Len(toServer) - 1
      /\ \A i \in 1..Len(Tail(toServer)) : Tail(toServer)[i] = toServer[i + 1]
      /\ Head(toServer) = toServer[1] /\ Head(toServer) \in Requests /\ Len(toServer) > 0
  BY <1>1, <1>2, TailTyped DEF ServerStep
<1>4. Head(toServer).arg \in Args(Head(toServer).kind)
  BY <1>2, <1>3
<1>5. PICK ok \in BOOLEAN :
         /\ fromServer' = Append(fromServer, Reply(Head(toServer), ok, server))
         /\ IF Head(toServer).kind = "set"
            THEN /\ refused' = ~ok
                 /\ ok => server' = [design |-> Head(toServer).arg, rev |-> server.rev + 1]
                 /\ ~ok => server' = server
                 /\ saved' = IF Head(toServer).arg.type = "topfile" THEN saved
                             ELSE Head(toServer).arg
                 /\ reload' = IF ok THEN "none" ELSE reload
                 /\ untold' = (untold /\ ~ok)
            ELSE /\ UNCHANGED <<server, refused, saved, reload>>
                 /\ untold' = (untold /\ Head(toServer).kind # "unit")
  BY <1>1 DEF ServerStep
<1>6. PICK r \in Replies : r = Reply(Head(toServer), ok, server) /\ r.request = Head(toServer)
  <2>1. PICK h \in Requests : h = Head(toServer)
    BY <1>3
  <2>2. Reply(h, ok, server) \in Replies
    BY <1>2 DEF Reply, Replies
  <2>3. Reply(h, ok, server).request = h
    BY DEF Reply
  <2> QED
    BY <2>1, <2>2, <2>3
<1>7. /\ fromServer' \in Seq(Replies) /\ Len(fromServer') = Len(fromServer) + 1
      /\ \A i \in 1..Len(fromServer) : fromServer'[i] = fromServer[i]
      /\ fromServer'[Len(fromServer) + 1] = r
  BY <1>2, <1>5, <1>6
<1>8. \A i \in 1..Len(fromServer') : fromServer'[i].request.arg \in Args(fromServer'[i].request.kind)
  <2> TAKE i \in 1..Len(fromServer')
  <2>1. i \in 1..Len(fromServer) \/ i = Len(fromServer) + 1
    BY <1>2, <1>7
  <2> QED
    BY <1>2, <1>4, <1>6, <1>7, <2>1
<1>9. /\ toServer' \in Seq(Requests)
      /\ \A i \in 1..Len(toServer') : toServer'[i].arg \in Args(toServer'[i].kind)
  <2>1. toServer' = Tail(toServer) /\ Len(toServer) \in Nat
    BY <1>1, <1>2 DEF ServerStep
  <2> QED
    BY <1>2, <1>3, <2>1
<1>10. /\ server' \in Servers /\ refused' \in BOOLEAN /\ saved' \in Sources
       /\ reload' \in {"none", "done", "failed"} /\ untold' \in BOOLEAN
  <2>1. CASE Head(toServer).kind = "set"
    <3>1. saved \in Sources /\ reload \in {"none", "done", "failed"} /\ untold \in BOOLEAN
      BY DEF Typed
    <3>2. server' \in Servers /\ refused' \in BOOLEAN
      BY <1>2, <1>4, <1>5, <2>1 DEF Args, Servers
    <3>3. saved' \in Sources /\ reload' \in {"none", "done", "failed"} /\ untold' \in BOOLEAN
      BY <1>4, <1>5, <2>1, <3>1 DEF Args
    <3> QED
      BY <3>2, <3>3
  <2>2. CASE Head(toServer).kind # "set"
    BY <1>5, <2>2 DEF Typed
  <2> QED
    BY <2>1, <2>2
<1> QED
  BY <1>1, <1>7, <1>8, <1>9, <1>10 DEF Typed, ServerStep, Tree
(***************************************************************************)
(* The requests under way.                                                 *)
(***************************************************************************)
LEMMA LineIs ==
  ASSUME NEW f \in Seq(Replies), NEW q \in Seq(Requests)
  PROVE  /\ LineOf(f, q) \in Seq(Requests)
         /\ Len(LineOf(f, q)) = Len(f) + Len(q)
         /\ \A i \in 1..Len(f) : LineOf(f, q)[i] = f[i].request
         /\ \A i \in 1..Len(q) : LineOf(f, q)[Len(f) + i] = q[i]
<1> DEFINE r == [i \in 1..Len(f) |-> f[i].request]
<1>1. r \in Seq(Requests) /\ Len(r) = Len(f) /\ \A i \in 1..Len(f) : r[i] = f[i].request
  <2>1. Len(f) \in Nat /\ \A i \in 1..Len(f) : f[i] \in Replies
    OBVIOUS
  <2>2. \A x \in Replies : x.request \in Requests
    BY DEF Replies
  <2>3. \A i \in 1..Len(f) : f[i].request \in Requests
    BY <2>1, <2>2
  <2>4. r \in Seq(Requests)
    BY <2>1, <2>3
  <2> QED
    BY <2>1, <2>4
<1> HIDE DEF r
<1>2. LineOf(f, q) = r \o q
  BY DEF LineOf, r
<1>3. /\ r \o q \in Seq(Requests) /\ Len(r \o q) = Len(r) + Len(q)
      /\ \A i \in 1..Len(r) : (r \o q)[i] = r[i]
      /\ \A i \in 1..Len(q) : (r \o q)[Len(r) + i] = q[i]
  <2>1. PICK z \in Seq(Requests) : z = r
    BY <1>1
  <2>2. /\ z \o q \in Seq(Requests) /\ Len(z \o q) = Len(z) + Len(q)
        /\ \A i \in 1..Len(z) : (z \o q)[i] = z[i]
        /\ \A i \in 1..Len(q) : (z \o q)[Len(z) + i] = q[i]
    BY JoinTyped
  <2> QED
    BY <2>1, <2>2
<1> QED
  BY <1>1, <1>2, <1>3

\* The requests under way after a step: k of them are answered, others come.
Moved(n, k, requests) ==
    /\ Len(Line) \in Nat /\ Len(requests) \in Nat /\ n = Len(Line) - k /\ n \in Nat
    /\ Len(Line') = n + Len(requests)
    /\ \A i \in 1..n : Line'[i] = Line[i + k]
    /\ \A i \in 1..Len(requests) : Line'[n + i] = requests[i]
    /\ k = 1 => Line[1] = Head(fromServer).request
    /\ k \in {0, 1} /\ (k = 1 => Len(Line) > 0)

LEMMA LineMoves ==
  ASSUME Typed, Typed', NEW t, NEW requests, NEW k, Acts(t, requests, k)
  PROVE  Moved(Len(Line) - k, k, requests)
<1>1. /\ fromServer \in Seq(Replies) /\ toServer \in Seq(Requests)
      /\ fromServer' \in Seq(Replies) /\ toServer' \in Seq(Requests)
  BY DEF Typed
<1>2. /\ Len(Line) = Len(fromServer) + Len(toServer)
      /\ \A i \in 1..Len(fromServer) : Line[i] = fromServer[i].request
      /\ \A i \in 1..Len(toServer) : Line[Len(fromServer) + i] = toServer[i]
  BY <1>1, LineIs DEF Line
<1>3. /\ Len(Line') = Len(fromServer') + Len(toServer')
      /\ \A i \in 1..Len(fromServer') : Line'[i] = fromServer'[i].request
      /\ \A i \in 1..Len(toServer') : Line'[Len(fromServer') + i] = toServer'[i]
  BY <1>1, LineIs DEF Line
<1>4. requests \in Seq(Requests) /\ toServer' = toServer \o requests
  BY DEF Acts, Askable
<1>5. /\ Len(toServer') = Len(toServer) + Len(requests)
      /\ \A i \in 1..Len(toServer) : toServer'[i] = toServer[i]
      /\ \A i \in 1..Len(requests) : toServer'[Len(toServer) + i] = requests[i]
      /\ Len(toServer) \in Nat /\ Len(requests) \in Nat /\ Len(fromServer) \in Nat
  BY <1>1, <1>4, JoinTyped
<1>6. /\ k \in {0, 1} /\ Len(fromServer') = Len(fromServer) - k
      /\ \A i \in 1..Len(fromServer') : fromServer'[i] = fromServer[i + k]
      /\ k = 1 => Len(fromServer) > 0 /\ Head(fromServer) = fromServer[1]
  <2>1. CASE k = 0 /\ fromServer' = fromServer
    BY <1>5, <2>1
  <2>2. CASE k = 1 /\ fromServer # <<>> /\ fromServer' = Tail(fromServer)
    BY <1>1, <2>2, TailTyped
  <2> QED
    BY <2>1, <2>2 DEF Acts, Takes
<1> DEFINE n == Len(Line) - k
<1>7. /\ n \in Nat /\ Len(Line) \in Nat /\ Len(Line') = n + Len(requests)
      /\ n = Len(fromServer') + Len(toServer)
  BY <1>2, <1>3, <1>5, <1>6
<1>8. ASSUME NEW i \in 1..n  PROVE Line'[i] = Line[i + k]
  <2>1. CASE i \in 1..Len(fromServer')
    <3>1. i + k \in 1..Len(fromServer)
      BY <1>5, <1>6, <2>1
    <3>2. Line'[i] = fromServer'[i].request /\ fromServer'[i] = fromServer[i + k]
      BY <1>3, <1>6, <2>1
    <3>3. Line[i + k] = fromServer[i + k].request
      BY <1>2, <3>1
    <3> QED
      BY <3>2, <3>3
  <2>2. CASE i \notin 1..Len(fromServer')
    <3> DEFINE j == i - Len(fromServer')
    <3>1. /\ j \in 1..Len(toServer) /\ Len(fromServer') + j = i /\ j \in 1..Len(toServer')
          /\ Len(fromServer) + j = i + k
      BY <1>5, <1>6, <1>7, <2>2
    <3> HIDE DEF j
    <3>2. Line'[i] = toServer[j]
      BY <1>3, <1>5, <3>1
    <3> QED
      BY <1>2, <3>1, <3>2
  <2> QED
    BY <2>1, <2>2
<1>9. ASSUME NEW i \in 1..Len(requests)  PROVE Line'[n + i] = requests[i]
  <2>1. /\ Len(toServer) + i \in 1..Len(toServer')
        /\ n + i = Len(fromServer') + (Len(toServer) + i)
    <3>1. Len(fromServer') \in Nat
      BY <1>5, <1>6
    <3> QED
      BY <1>5, <1>7, <3>1
  <2> QED
    BY <1>3, <1>5, <2>1
<1>10. k = 1 => Line[1] = Head(fromServer).request /\ Len(Line) > 0
  BY <1>2, <1>5, <1>6
<1> HIDE DEF n
<1> QED
  BY <1>5, <1>6, <1>7, <1>8, <1>9, <1>10 DEF Moved, n

\* The server's step moves none.
LEMMA LineStays ==
  ASSUME Typed, Typed', ServerStep
  PROVE  Line' = Line
<1>1. /\ fromServer \in Seq(Replies) /\ toServer \in Seq(Requests)
      /\ fromServer' \in Seq(Replies) /\ toServer' \in Seq(Requests)
  BY DEF Typed
<1>2. /\ Len(Line) = Len(fromServer) + Len(toServer) /\ Line \in Seq(Requests)
      /\ \A i \in 1..Len(fromServer) : Line[i] = fromServer[i].request
      /\ \A i \in 1..Len(toServer) : Line[Len(fromServer) + i] = toServer[i]
  BY <1>1, LineIs DEF Line
<1>3. /\ Len(Line') = Len(fromServer') + Len(toServer') /\ Line' \in Seq(Requests)
      /\ \A i \in 1..Len(fromServer') : Line'[i] = fromServer'[i].request
      /\ \A i \in 1..Len(toServer') : Line'[Len(fromServer') + i] = toServer'[i]
  BY <1>1, LineIs DEF Line
<1>4. /\ Len(toServer') = Len(toServer) - 1 /\ Len(toServer) > 0
      /\ \A i \in 1..Len(toServer') : toServer'[i] = toServer[i + 1]
      /\ Head(toServer) = toServer[1]
      /\ Len(toServer) \in Nat /\ Len(fromServer) \in Nat
  BY <1>1, TailTyped DEF ServerStep
<1>5. PICK r : fromServer' = Append(fromServer, r) /\ r.request = Head(toServer)
  BY DEF ServerStep, Reply
<1>6. /\ Len(fromServer') = Len(fromServer) + 1
      /\ \A i \in 1..Len(fromServer) : fromServer'[i] = fromServer[i]
      /\ fromServer'[Len(fromServer) + 1] = r
  BY <1>1, <1>5
<1>7. Len(Line') = Len(Line) /\ Len(Line) \in Nat
  BY <1>2, <1>3, <1>4, <1>6
<1>8. ASSUME NEW i \in 1..Len(Line)  PROVE Line'[i] = Line[i]
  <2>1. CASE i \in 1..Len(fromServer)
    <3>1. i \in 1..Len(fromServer')
      BY <1>4, <1>6, <2>1
    <3> QED
      BY <1>2, <1>3, <1>6, <2>1, <3>1
  <2>2. CASE i = Len(fromServer) + 1
    <3>1. Line'[i] = toServer[1]
      BY <1>3, <1>4, <1>5, <1>6, <2>2
    <3>2. 1 \in 1..Len(toServer)
      BY <1>4
    <3> QED
      BY <1>2, <2>2, <3>1, <3>2
  <2>3. CASE i > Len(fromServer) + 1
    <3> DEFINE j == i - (Len(fromServer) + 1)
    <3>1. /\ j \in 1..Len(toServer') /\ i = Len(fromServer') + j
          /\ j + 1 \in 1..Len(toServer) /\ i = Len(fromServer) + (j + 1)
      BY <1>2, <1>4, <1>6, <1>7, <2>3
    <3> HIDE DEF j
    <3>2. Line'[i] = toServer[j + 1]
      BY <1>3, <1>4, <3>1
    <3> QED
      BY <1>2, <3>1, <3>2
  <2>4. \/ i \in 1..Len(fromServer)
        \/ i = Len(fromServer) + 1
        \/ i > Len(fromServer) + 1
    BY <1>4, <1>7
  <2> QED
    BY <2>1, <2>2, <2>3, <2>4
<1> QED
  BY <1>2, <1>3, <1>7, <1>8
\* What a step may ask for without losing track of its requests.
Tracks(t, requests, k) ==
    /\ \A i \in 1..Len(requests) : requests[i].task \in {0, t}
    /\ t \in Tasks /\ tasks[t].at = "set" =>
         k = 1 /\ Head(fromServer).request.kind = "set" /\ Head(fromServer).request.task = t
    /\ t \in Tasks /\ tasks'[t].at \in {"free", "generate"} =>
         requests = <<>> /\ tasks[t].at \in {"free", "generate"}
    /\ \A i \in 1..Len(requests) : requests[i].kind = "set" =>
         \/ /\ requests[i].task = t /\ t \in Tasks /\ Len(requests) = 1
            /\ tasks[t].at \in {"free", "generate"} /\ tasks'[t].at = "set"
            /\ requests[i].arg # NoSource => tasks'[t].refreshes
         \/ /\ requests[i].task = 0
            /\ \E j \in (i + 1)..Len(requests) : requests[j].kind = "unit"

LEMMA WaitsKept ==
  ASSUME Typed, Typed', Waits, NEW t \in Nat, NEW requests, NEW k, Acts(t, requests, k),
         Tracks(t, requests, k)
  PROVE  Waits'
<1> DEFINE n == Len(Line) - k
<1>1. Moved(n, k, requests)
  BY LineMoves
<1> HIDE DEF n
<1>2. /\ Len(Line) \in Nat /\ Len(requests) \in Nat /\ n = Len(Line) - k /\ n \in Nat
      /\ Len(Line') = n + Len(requests)
      /\ \A i \in 1..n : Line'[i] = Line[i + k] /\ i + k \in 1..Len(Line)
      /\ \A i \in 1..Len(requests) : Line'[n + i] = requests[i]
      /\ k = 1 => Line[1] = Head(fromServer).request
      /\ k \in {0, 1} /\ (k = 1 => Len(Line) > 0)
  BY <1>1 DEF Moved
<1>3. \A s \in Tasks : s # t => tasks'[s] = tasks[s]
  BY DEF Acts
\* a request is an old one or a new one
<1>4. ASSUME NEW i \in 1..Len(Line')
      PROVE  \/ i \in 1..n /\ Line'[i] = Line[i + k] /\ i + k \in 1..Len(Line)
             \/ \E j \in 1..Len(requests) : i = n + j /\ Line'[i] = requests[j]
  <2>1. CASE i \in 1..n
    BY <1>2, <2>1
  <2>2. CASE i \notin 1..n
    <3> DEFINE j == i - n
    <3>1. j \in 1..Len(requests) /\ i = n + j
      BY <1>2, <2>2
    <3> HIDE DEF j
    <3> QED
      BY <1>2, <3>1
  <2> QED
    BY <2>1, <2>2
<1>5. NoneYet'
  <2>1. ASSUME NEW i \in 1..Len(Line'), NEW s \in Tasks, Line'[i].task = s,
               tasks'[s].at \in {"free", "generate"}
        PROVE  FALSE
    <3>0. s # 0
      BY TaskNumber
    <3>1. CASE i \in 1..n /\ Line'[i] = Line[i + k] /\ i + k \in 1..Len(Line)
      <4>1. tasks[s].at \notin {"free", "generate"}
        BY <2>1, <3>1 DEF Waits, NoneYet
      <4> QED
        BY <1>3, <2>1, <4>1 DEF Tracks
    <3>2. ASSUME NEW j \in 1..Len(requests), Line'[i] = requests[j]
          PROVE  FALSE
      <4>1. s = t /\ t \in Tasks
        BY <2>1, <3>0, <3>2 DEF Tracks
      <4>2. requests # <<>>
        BY <3>2
      <4> QED
        BY <2>1, <4>1, <4>2 DEF Tracks
    <3> QED
      BY <1>4, <3>1, <3>2
  <2> QED
    BY <2>1 DEF NoneYet
<1>6. SetsAwaited'
  <2>1. ASSUME NEW i \in 1..Len(Line'), NEW s \in Tasks,
               Line'[i].kind = "set", Line'[i].task = s
        PROVE  /\ tasks'[s].at = "set"
               /\ Line'[i].arg # NoSource => tasks'[s].refreshes
               /\ \A j \in 1..Len(Line') : Line'[j].kind = "set" /\ Line'[j].task = s => j = i
    <3>0. s # 0
      BY TaskNumber
    <3>1. CASE i \in 1..n /\ Line'[i] = Line[i + k] /\ i + k \in 1..Len(Line)
      <4>1. /\ tasks[s].at = "set"
            /\ Line[i + k].arg # NoSource => tasks[s].refreshes
            /\ \A j \in 1..Len(Line) : Line[j].kind = "set" /\ Line[j].task = s => j = i + k
        BY <2>1, <3>1 DEF Waits, SetsAwaited
      <4>2. s # t
        <5>1. SUFFICES ASSUME s = t PROVE FALSE
          OBVIOUS
        <5>2. k = 1 /\ Line[1].kind = "set" /\ Line[1].task = s /\ 1 \in 1..Len(Line)
          BY <1>2, <4>1, <5>1 DEF Tracks
        <5> QED
          BY <3>1, <4>1, <5>2
      <4>3. ASSUME NEW j \in 1..Len(Line'), Line'[j].kind = "set", Line'[j].task = s
            PROVE  j = i
        <5>1. CASE j \in 1..n /\ Line'[j] = Line[j + k] /\ j + k \in 1..Len(Line)
          <6>1. j + k = i + k
            BY <4>1, <4>3, <5>1
          <6> QED
            BY <1>2, <5>1, <6>1
        <5>2. ASSUME NEW m \in 1..Len(requests), Line'[j] = requests[m]
              PROVE  FALSE
          BY <3>0, <4>2, <4>3, <5>2 DEF Tracks
        <5> QED
          BY <1>4, <5>1, <5>2
      <4> QED
        BY <1>3, <3>1, <4>1, <4>2, <4>3
    <3>2. ASSUME NEW m \in 1..Len(requests), i = n + m, Line'[i] = requests[m]
          PROVE  /\ tasks'[s].at = "set"
                 /\ Line'[i].arg # NoSource => tasks'[s].refreshes
                 /\ \A j \in 1..Len(Line') : Line'[j].kind = "set" /\ Line'[j].task = s => j = i
      <4>1. /\ s = t /\ t \in Tasks /\ Len(requests) = 1
            /\ tasks[t].at \in {"free", "generate"} /\ tasks'[t].at = "set"
            /\ requests[m].arg # NoSource => tasks'[t].refreshes
        BY <2>1, <3>0, <3>2 DEF Tracks
      <4>2. ASSUME NEW j \in 1..Len(Line'), Line'[j].kind = "set", Line'[j].task = s
            PROVE  j = i
        <5>1. CASE j \in 1..n /\ Line'[j] = Line[j + k] /\ j + k \in 1..Len(Line)
          BY <4>1, <4>2, <5>1 DEF Waits, NoneYet
        <5>2. ASSUME NEW l \in 1..Len(requests), j = n + l
              PROVE  j = i
          BY <3>2, <4>1, <5>2
        <5> QED
          BY <1>4, <5>1, <5>2
      <4> QED
        BY <3>2, <4>1, <4>2
    <3> QED
      BY <1>4, <3>1, <3>2
  <2> QED
    BY <2>1 DEF SetsAwaited
<1>7. SavesFollowed'
  <2>1. ASSUME NEW i \in 1..Len(Line'), Line'[i].kind = "set", Line'[i].task \notin Tasks
        PROVE  \E j \in (i + 1)..Len(Line') : Line'[j].kind = "unit"
    <3>1. CASE i \in 1..n /\ Line'[i] = Line[i + k] /\ i + k \in 1..Len(Line)
      <4>1. PICK j \in (i + k + 1)..Len(Line) : Line[j].kind = "unit"
        BY <2>1, <3>1 DEF Waits, SavesFollowed
      <4> DEFINE l == j - k
      <4>2. l \in (i + 1)..Len(Line') /\ l \in 1..n /\ j = l + k
        BY <1>2, <3>1
      <4> HIDE DEF l
      <4>3. Line'[l] = Line[j]
        BY <1>2, <4>2
      <4> QED
        BY <4>1, <4>2, <4>3
    <3>2. ASSUME NEW m \in 1..Len(requests), i = n + m, Line'[i] = requests[m]
          PROVE  \E j \in (i + 1)..Len(Line') : Line'[j].kind = "unit"
      <4>1. PICK j \in (m + 1)..Len(requests) : requests[j].kind = "unit"
        <5>1. ~(requests[m].task = t /\ t \in Tasks)
          BY <2>1, <3>2
        <5> QED
          BY <2>1, <3>2, <5>1 DEF Tracks
      <4>2. j \in 1..Len(requests) /\ n + j \in (i + 1)..Len(Line')
        BY <1>2, <3>2
      <4>3. Line'[n + j] = requests[j]
        BY <1>2, <4>2
      <4> QED
        BY <4>1, <4>2, <4>3
    <3> QED
      BY <1>4, <3>1, <3>2
  <2> QED
    BY <2>1 DEF SavesFollowed
<1> QED
  BY <1>5, <1>6, <1>7 DEF Waits

\* A step that asks for no design and leaves the chosen one alone.
LEMMA FollowsKept ==
  ASSUME Typed, Follows, NEW t, NEW requests, NEW k, Acts(t, requests, k), source' = source,
         \A i \in 1..Len(requests) : requests[i].kind # "set"
  PROVE  Follows'
<1>1. /\ toServer \in Seq(Requests) /\ requests \in Seq(Requests)
      /\ toServer' = toServer \o requests
  BY DEF Typed, Acts, Askable
<1>2. /\ Len(toServer') = Len(toServer) + Len(requests)
      /\ \A i \in 1..Len(toServer) : toServer'[i] = toServer[i]
      /\ \A i \in 1..Len(requests) : toServer'[Len(toServer) + i] = requests[i]
      /\ Len(toServer) \in Nat /\ Len(requests) \in Nat
  BY <1>1, JoinTyped
<1>3. ASSUME NEW i \in 1..Len(toServer'), i \notin 1..Len(toServer)
      PROVE  toServer'[i].kind # "set"
  <2> DEFINE j == i - Len(toServer)
  <2>1. j \in 1..Len(requests) /\ i = Len(toServer) + j
    BY <1>2, <1>3
  <2> HIDE DEF j
  <2> QED
    BY <1>2, <2>1
<1>4. 1..Len(toServer) \subseteq 1..Len(toServer')
  BY <1>2
<1>5. LastSetIsSource'
  <2>1. ASSUME NEW i \in 1..Len(toServer'), toServer'[i].kind = "set",
               \A j \in (i + 1)..Len(toServer') : toServer'[j].kind # "set"
        PROVE  toServer'[i].arg = source'
    <3>1. i \in 1..Len(toServer) /\ toServer[i].kind = "set" /\ toServer'[i] = toServer[i]
      BY <1>2, <1>3, <2>1
    <3>2. ASSUME NEW j \in (i + 1)..Len(toServer)
          PROVE  toServer[j].kind # "set"
      <4>1. j \in 1..Len(toServer) /\ j \in (i + 1)..Len(toServer')
        BY <1>2, <3>1
      <4> QED
        BY <1>2, <2>1, <4>1
    <3> QED
      BY <3>1, <3>2 DEF Follows, LastSetIsSource
  <2> QED
    BY <2>1 DEF LastSetIsSource
<1>6. ServerFollowsSource' /\ SavedIsSource'
  <2>1. NoSet' => NoSet
    BY <1>2, <1>4 DEF NoSet
  <2>2. UNCHANGED <<server, refused, saved, reload>>
    BY DEF Acts, Reloads
  <2> QED
    BY <2>1, <2>2 DEF Follows, ServerFollowsSource, SavedIsSource, Stands, NoSet
<1> QED
  BY <1>5, <1>6 DEF Follows

\* A step that asks for the chosen design, and perhaps for its tree.
LEMMA FollowsChoice ==
  ASSUME Typed, NEW t, NEW requests, NEW k, Acts(t, requests, k),
         Len(requests) > 0, requests[1].kind = "set", requests[1].arg = source',
         \A i \in 2..Len(requests) : requests[i].kind # "set"
  PROVE  Follows' /\ ~NoSet'
<1>1. /\ toServer \in Seq(Requests) /\ requests \in Seq(Requests)
      /\ toServer' = toServer \o requests
  BY DEF Typed, Acts, Askable
<1>2. /\ Len(toServer') = Len(toServer) + Len(requests)
      /\ \A i \in 1..Len(requests) : toServer'[Len(toServer) + i] = requests[i]
      /\ Len(toServer) \in Nat /\ Len(requests) \in Nat
  BY <1>1, JoinTyped
<1> DEFINE n == Len(toServer) + 1
<1>3. /\ n \in 1..Len(toServer') /\ toServer'[n].kind = "set" /\ toServer'[n].arg = source'
  BY <1>2
<1>4. ASSUME NEW i \in (n + 1)..Len(toServer')
      PROVE  toServer'[i].kind # "set"
  <2> DEFINE j == i - Len(toServer)
  <2>1. j \in 2..Len(requests) /\ j \in 1..Len(requests) /\ i = Len(toServer) + j
    BY <1>2
  <2> HIDE DEF j
  <2> QED
    BY <1>2, <2>1
<1> HIDE DEF n
<1>5. ~NoSet'
  BY <1>3 DEF NoSet
<1>6. LastSetIsSource'
  <2>1. ASSUME NEW i \in 1..Len(toServer'), toServer'[i].kind = "set",
               \A j \in (i + 1)..Len(toServer') : toServer'[j].kind # "set"
        PROVE  toServer'[i].arg = source'
    <3>1. i = n
      <4>1. ~(i < n)
        <5>1. SUFFICES ASSUME i < n PROVE FALSE
          OBVIOUS
        <5>2. n \in (i + 1)..Len(toServer')
          BY <1>2, <1>3, <5>1
        <5> QED
          BY <1>3, <2>1, <5>2
      <4>2. ~(i > n)
        <5>1. SUFFICES ASSUME i > n PROVE FALSE
          OBVIOUS
        <5>2. i \in (n + 1)..Len(toServer')
          BY <1>2, <1>3, <5>1
        <5> QED
          BY <1>4, <2>1, <5>2
      <4> QED
        BY <1>2, <1>3, <4>1, <4>2
    <3> QED
      BY <1>3, <3>1
  <2> QED
    BY <2>1 DEF LastSetIsSource
<1>7. ServerFollowsSource' /\ SavedIsSource'
  BY <1>3 DEF ServerFollowsSource, SavedIsSource, NoSet
<1> QED
  BY <1>5, <1>6, <1>7 DEF Follows
(***************************************************************************)
(* The answers and the tree.                                               *)
(***************************************************************************)
\* The answers after a step: k are taken, and the rest stay.
Left(k) ==
    /\ k \in {0, 1} /\ Len(fromServer) \in Nat /\ Len(fromServer') = Len(fromServer) - k
    /\ \A i \in 1..Len(fromServer') :
         fromServer'[i] = fromServer[i + k] /\ i + k \in 1..Len(fromServer)
    /\ \A i \in 1..Len(fromServer) : (k = 1 => i # 1) =>
         i - k \in 1..Len(fromServer') /\ fromServer'[i - k] = fromServer[i]
    /\ k = 1 => fromServer[1] = Head(fromServer) /\ 1 \in 1..Len(fromServer)

LEMMA AnswersLeft ==
  ASSUME Typed, NEW k, Takes(k)
  PROVE  Left(k)
<1>1. fromServer \in Seq(Replies) /\ Len(fromServer) \in Nat
  BY DEF Typed
<1>2. CASE k = 0 /\ fromServer' = fromServer
  BY <1>1, <1>2 DEF Left
<1>3. CASE k = 1 /\ fromServer # <<>> /\ fromServer' = Tail(fromServer)
  <2>1. /\ Len(fromServer') = Len(fromServer) - 1
        /\ \A i \in 1..Len(fromServer') : fromServer'[i] = fromServer[i + 1]
        /\ Head(fromServer) = fromServer[1] /\ Len(fromServer) > 0
    BY <1>1, <1>3, TailTyped
  <2> QED
    BY <1>1, <1>3, <2>1 DEF Left
<1> QED
  BY <1>2, <1>3 DEF Takes

\* The requests on their way after a step: those before, and the new ones.
LEMMA RequestsAfter ==
  ASSUME Typed, NEW t, NEW requests, NEW k, Acts(t, requests, k)
  PROVE  /\ \A i \in 1..Len(toServer) : i \in 1..Len(toServer') /\ toServer'[i] = toServer[i]
         /\ \A i \in 1..Len(requests) : /\ Len(toServer) + i \in 1..Len(toServer')
                                        /\ toServer'[Len(toServer) + i] = requests[i]
<1>1. /\ toServer \in Seq(Requests) /\ requests \in Seq(Requests)
      /\ toServer' = toServer \o requests
  BY DEF Typed, Acts, Askable
<1> QED
  BY <1>1, JoinTyped

LEMMA InOrderKept ==
  ASSUME Typed, InOrder, NEW t, NEW requests, NEW k, Acts(t, requests, k)
  PROVE  InOrder'
<1>1. Left(k) /\ server' = server
  BY AnswersLeft DEF Acts
<1>2. ASSUME NEW i \in 1..Len(fromServer')
      PROVE  LET v == fromServer'[i].value IN
             /\ v.rev <= server'.rev
             /\ v.rev = server'.rev => v = server'
             /\ \A j \in i..Len(fromServer') : v.rev <= fromServer'[j].value.rev
  <2>1. fromServer'[i] = fromServer[i + k] /\ i + k \in 1..Len(fromServer)
    BY <1>1 DEF Left
  <2>2. ASSUME NEW j \in i..Len(fromServer')
        PROVE  fromServer'[j] = fromServer[j + k] /\ j + k \in (i + k)..Len(fromServer)
    <3>1. j \in 1..Len(fromServer')
      OBVIOUS
    <3>2. k \in {0, 1} /\ fromServer'[j] = fromServer[j + k] /\ j + k \in 1..Len(fromServer)
      BY <1>1, <3>1 DEF Left
    <3> QED
      BY <3>2
  <2> QED
    BY <1>1, <2>1, <2>2 DEF InOrder
<1> QED
  BY <1>2 DEF InOrder

\* When the oldest answer is of the server's design, all are.
LEMMA AllOfNow ==
  ASSUME Typed, InOrder, fromServer # <<>>, Head(fromServer).value = server
  PROVE  \A i \in 1..Len(fromServer) : fromServer[i].value = server
<1>1. fromServer \in Seq(Replies) /\ server \in Servers
  BY DEF Typed
<1>2. Head(fromServer) = fromServer[1] /\ Len(fromServer) > 0 /\ Len(fromServer) \in Nat
  BY <1>1, TailTyped
<1> TAKE i \in 1..Len(fromServer)
<1>3. fromServer[1].value.rev <= fromServer[i].value.rev /\ fromServer[i].value.rev <= server.rev
      /\ (fromServer[i].value.rev = server.rev => fromServer[i].value = server)
  BY <1>2 DEF InOrder
<1>4. fromServer[i] \in Replies
  BY <1>1
<1>5. fromServer[i].value.rev \in Nat /\ server.rev \in Nat
  BY <1>1, <1>4 DEF Replies, Servers
<1> QED
  BY <1>2, <1>3, <1>5

\* What waits stays, unless it is the answer that is taken.
LEMMA StillWaits ==
  ASSUME Typed, NEW t, NEW requests, NEW k, Acts(t, requests, k), source' = source
  PROVE  /\ NoSet' => NoSet
         /\ \A kind : Asked(kind) => Asked(kind)'
         /\ \A kind : Told(kind) /\ (k = 1 => Head(fromServer).request.kind # kind) => Told(kind)'
         /\ \A kind : OnlyTold(kind) => OnlyTold(kind)'
         /\ (MadeUntold /\ (k = 1 => \/ Head(fromServer).request.kind # "set"
                                     \/ Head(fromServer).request.task \notin Tasks
                                     \/ ~Head(fromServer).ok
                                     \/ Head(fromServer).request.arg # source)) => MadeUntold'
         /\ (\E i \in 1..Len(requests) : requests[i].kind = "unit") => Asked("unit")'
         /\ (\E i \in 1..Len(requests) : requests[i].kind = "modules") => Asked("modules")'
<1>1. Left(k) /\ server' = server
  BY AnswersLeft DEF Acts
<1>2. /\ \A i \in 1..Len(toServer) : i \in 1..Len(toServer') /\ toServer'[i] = toServer[i]
      /\ \A i \in 1..Len(requests) : /\ Len(toServer) + i \in 1..Len(toServer')
                                     /\ toServer'[Len(toServer) + i] = requests[i]
  BY RequestsAfter
<1>3. NoSet' => NoSet
  BY <1>2 DEF NoSet
<1>4. \A kind : Asked(kind) => Asked(kind)'
  BY <1>2 DEF Asked
<1>5. ASSUME NEW kind, Told(kind), k = 1 => Head(fromServer).request.kind # kind
      PROVE  Told(kind)'
  <2>1. PICK i \in 1..Len(fromServer) :
          fromServer[i].request.kind = kind /\ fromServer[i].value = server
    BY <1>5 DEF Told
  <2>2. k = 1 => i # 1
    BY <1>1, <1>5, <2>1 DEF Left
  <2>3. i - k \in 1..Len(fromServer') /\ fromServer'[i - k] = fromServer[i]
    BY <1>1, <2>2 DEF Left
  <2> QED
    BY <1>1, <2>1, <2>3 DEF Told
<1>6. ASSUME NEW kind, OnlyTold(kind) PROVE OnlyTold(kind)'
  BY <1>1, <1>6 DEF OnlyTold, Left
<1>7. ASSUME MadeUntold,
             k = 1 => \/ Head(fromServer).request.kind # "set"
                      \/ Head(fromServer).request.task \notin Tasks
                      \/ ~Head(fromServer).ok
                      \/ Head(fromServer).request.arg # source
      PROVE  MadeUntold'
  <2>1. PICK i \in 1..Len(fromServer) :
          /\ fromServer[i].request.kind = "set" /\ fromServer[i].request.task \in Tasks
          /\ fromServer[i].ok /\ fromServer[i].request.arg = source
    BY <1>7 DEF MadeUntold
  <2>2. k = 1 => i # 1
    BY <1>1, <1>7, <2>1 DEF Left
  <2>3. i - k \in 1..Len(fromServer') /\ fromServer'[i - k] = fromServer[i]
    BY <1>1, <2>2 DEF Left
  <2> QED
    BY <2>1, <2>3 DEF MadeUntold
<1>8. /\ (\E i \in 1..Len(requests) : requests[i].kind = "unit") => Asked("unit")'
      /\ (\E i \in 1..Len(requests) : requests[i].kind = "modules") => Asked("modules")'
  BY <1>2 DEF Asked
<1> QED
  BY <1>3, <1>4, <1>5, <1>6, <1>7, <1>8

\* A step that takes no answer about the tree.
LEMMA TreeKept ==
  ASSUME Typed, TreeFollows, NEW t, NEW requests, NEW k, Acts(t, requests, k), source' = source,
         k = 1 => /\ Head(fromServer).request.kind \notin {"unit", "modules"}
                  /\ \/ Head(fromServer).request.kind # "set"
                     \/ Head(fromServer).request.task \notin Tasks
                     \/ ~Head(fromServer).ok
                     \/ Head(fromServer).request.arg = NoSource
                     \/ \E i \in 1..Len(requests) : requests[i].kind = "unit",
         unit'.rev = unit.rev, unit'.design = unit.design, unit = NoUnit => unit' = NoUnit,
         modules' = modules
  PROVE  TreeFollows'
<1> SUFFICES ASSUME source # NoSource, ~refused, ~untold, NoSet'
             PROVE  MadeUntold' \/ Asked("unit")' \/ Told("unit")' \/ TreeShown'
  BY DEF TreeFollows, Acts, Reloads
<1>1. NoSet
  BY StillWaits
<1>2. CASE \E i \in 1..Len(requests) : requests[i].kind = "unit"
  BY <1>2, StillWaits
<1>3. CASE MadeUntold /\ ~\E i \in 1..Len(requests) : requests[i].kind = "unit"
  <2>1. k = 1 => \/ Head(fromServer).request.kind # "set"
                 \/ Head(fromServer).request.task \notin Tasks
                 \/ ~Head(fromServer).ok
                 \/ Head(fromServer).request.arg # source
    BY <1>3
  <2>2. MadeUntold'
    BY <1>3, <2>1, StillWaits
  <2> QED
    BY <2>2
<1>4. CASE Asked("unit")
  BY <1>4, StillWaits
<1>5. CASE Told("unit")
  <2>1. Told("unit")'
    BY <1>5, StillWaits
  <2> QED
    BY <2>1
<1>6. CASE TreeShown
  <2>1. OnlyTold("unit")' /\ server' = server
    BY <1>6, StillWaits DEF TreeShown, Acts
  <2>2. /\ Asked("modules") => Asked("modules")'
        /\ Told("modules") => Told("modules")'
        /\ OnlyTold("modules") => OnlyTold("modules")'
    BY StillWaits
  <2>3. TreeShown'
    BY <1>6, <2>1, <2>2 DEF TreeShown
  <2> QED
    BY <2>3
<1> QED
  BY <1>1, <1>2, <1>3, <1>4, <1>5, <1>6 DEF TreeFollows
\* The tree that has come is of the server's design, or a newer one will.
LEMMA TreeStepFollows ==
  ASSUME Typed, InOrder, TreeFollows, NEW t, TreeStep(t)
  PROVE  TreeFollows'
<1> DEFINE h == Head(fromServer)
<1>1. PICK requests : /\ Acts(t, requests, 1)
                      /\ PathsOf(h.value.design) # {} =>
                           \E i \in 1..Len(requests) : requests[i].kind = "modules"
  <2>1. CASE PathsOf(h.value.design) = {}
    BY <2>1 DEF TreeStep
  <2>2. CASE PathsOf(h.value.design) # {}
    <3>1. Acts(t, <<Ask("modules", t, None)>>, 1)
      BY <2>2 DEF TreeStep
    <3>2. 1 \in 1..Len(<<Ask("modules", t, None)>>)
          /\ <<Ask("modules", t, None)>>[1].kind = "modules"
      BY DEF Ask
    <3> QED
      BY <3>1, <3>2
  <2> QED
    BY <2>1, <2>2
<1>2. /\ h.request.kind = "unit" /\ source' = source
      /\ PathsOf(h.value.design) = {} => unit' = NoUnit
      /\ PathsOf(h.value.design) # {} =>
           unit'.design = h.value.design /\ unit'.rev = h.value.rev
  BY DEF TreeStep
<1>3. /\ Left(1) /\ server' = server /\ fromServer # <<>>
      /\ refused' = refused /\ untold' = untold
  BY <1>1, AnswersLeft DEF Acts, Takes, Reloads
<1> SUFFICES ASSUME source # NoSource, ~refused, ~untold, NoSet'
             PROVE  MadeUntold' \/ Asked("unit")' \/ Told("unit")' \/ TreeShown'
  BY <1>2, <1>3 DEF TreeFollows
<1>4. NoSet
  BY <1>1, <1>2, StillWaits
<1>5. ASSUME h.value = server
      PROVE  TreeShown'
  <2>1. \A i \in 1..Len(fromServer) : fromServer[i].value = server
    BY <1>3, <1>5, AllOfNow
  <2>2. OnlyTold("unit")'
    BY <1>3, <2>1 DEF OnlyTold, Left
  <2>3. PathsOf(h.value.design) # {} => Asked("modules")'
    BY <1>1, <1>2, StillWaits
  <2> QED
    BY <1>2, <1>3, <1>5, <2>2, <2>3 DEF TreeShown
<1>6. CASE MadeUntold
  BY <1>1, <1>2, <1>6, StillWaits
<1>7. CASE Asked("unit")
  BY <1>1, <1>2, <1>7, StillWaits
<1>8. CASE Told("unit")
  <2>1. PICK i \in 1..Len(fromServer) :
          fromServer[i].request.kind = "unit" /\ fromServer[i].value = server
    BY <1>8 DEF Told
  <2>2. CASE i = 1
    BY <1>3, <1>5, <2>1, <2>2 DEF Left
  <2>3. CASE i # 1
    <3>1. i - 1 \in 1..Len(fromServer') /\ fromServer'[i - 1] = fromServer[i]
      BY <1>3, <2>3 DEF Left
    <3> QED
      BY <1>3, <2>1, <3>1 DEF Told
  <2> QED
    BY <2>2, <2>3
<1>9. CASE TreeShown
  <2>1. h.value = server
    BY <1>2, <1>3, <1>9 DEF TreeShown, OnlyTold, Left
  <2> QED
    BY <1>5, <2>1
<1> QED
  BY <1>4, <1>6, <1>7, <1>8, <1>9 DEF TreeFollows

\* The modules that have come are of the server's design, or newer ones will.
LEMMA ModulesStepFollows ==
  ASSUME Typed, InOrder, TreeFollows, NEW t, ModulesStep(t)
  PROVE  TreeFollows'
<1> DEFINE h == Head(fromServer)
<1>1. PICK requests : Acts(t, requests, 1)
  BY DEF ModulesStep
<1>2. /\ h.request.kind = "modules" /\ source' = source /\ unit' = unit
      /\ modules' = h.value.rev
  BY DEF ModulesStep
<1>3. /\ Left(1) /\ server' = server /\ fromServer # <<>>
      /\ refused' = refused /\ untold' = untold
  BY <1>1, AnswersLeft DEF Acts, Takes, Reloads
<1> SUFFICES ASSUME source # NoSource, ~refused, ~untold, NoSet'
             PROVE  MadeUntold' \/ Asked("unit")' \/ Told("unit")' \/ TreeShown'
  BY <1>2, <1>3 DEF TreeFollows
<1>4. NoSet
  BY <1>1, <1>2, StillWaits
<1>5. ASSUME h.value = server
      PROVE  modules' = server'.rev /\ OnlyTold("modules")'
  <2>1. \A i \in 1..Len(fromServer) : fromServer[i].value = server
    BY <1>3, <1>5, AllOfNow
  <2>2. OnlyTold("modules")'
    BY <1>3, <2>1, SMTT(30) DEF OnlyTold, Left
  <2> QED
    BY <1>2, <1>3, <1>5, <2>2
<1>6. CASE MadeUntold
  BY <1>1, <1>2, <1>6, StillWaits
<1>7. CASE Asked("unit")
  BY <1>1, <1>2, <1>7, StillWaits
<1>8. CASE Told("unit")
  <2>1. Told("unit")'
    BY <1>1, <1>2, <1>8, StillWaits
  <2> QED
    BY <2>1
<1>9. CASE TreeShown
  <2>1. OnlyTold("unit")'
    BY <1>1, <1>2, <1>9, StillWaits DEF TreeShown
  <2>2. Asked("modules") => Asked("modules")'
    BY <1>1, <1>2, StillWaits
  <2>3. ASSUME Told("modules")
        PROVE  Told("modules")' \/ (modules' = server'.rev /\ OnlyTold("modules")')
    <3>1. PICK i \in 1..Len(fromServer) :
            fromServer[i].request.kind = "modules" /\ fromServer[i].value = server
      BY <2>3 DEF Told
    <3>2. CASE i = 1
      BY <1>3, <1>5, <3>1, <3>2 DEF Left
    <3>3. CASE i # 1
      <4>1. i - 1 \in 1..Len(fromServer') /\ fromServer'[i - 1] = fromServer[i]
        BY <1>3, <3>3 DEF Left
      <4> QED
        BY <1>3, <3>1, <4>1 DEF Told
    <3> QED
      BY <3>2, <3>3
  <2>4. ASSUME OnlyTold("modules")
        PROVE  modules' = server'.rev /\ OnlyTold("modules")'
    <3>1. h.value = server
      BY <1>2, <1>3, <2>4 DEF OnlyTold, Left
    <3> QED
      BY <1>5, <3>1
  <2> QED
    BY <1>2, <1>3, <1>9, <2>1, <2>2, <2>3, <2>4 DEF TreeShown
<1> QED
  BY <1>4, <1>6, <1>7, <1>8, <1>9 DEF TreeFollows
(***************************************************************************)
(* Every step of a command.                                                *)
(***************************************************************************)
Followed == Waits /\ Follows /\ InOrder /\ TreeFollows

\* A step that asks for no design.
LEMMA PlainKeeps ==
  ASSUME Typed, Typed', Followed, NEW t \in Nat, NEW requests, NEW k, Acts(t, requests, k),
         Tracks(t, requests, k), source' = source,
         \A i \in 1..Len(requests) : requests[i].kind # "set"
  PROVE  Waits' /\ Follows' /\ InOrder'
<1>1. Waits'
  BY WaitsKept DEF Followed
<1>2. Follows'
  BY FollowsKept DEF Followed
<1>3. InOrder'
  BY InOrderKept DEF Followed
<1> QED
  BY <1>1, <1>2, <1>3

LEMMA MinorAsks ==
  ASSUME NEW t, NEW requests \in MinorRequests(t)
  PROVE  \A i \in 1..Len(requests) : requests[i].kind \in MinorKinds /\ requests[i].task = t
<1>1. ASSUME NEW kind \in MinorKinds, NEW p, requests = <<Ask(kind, t, p)>>
      PROVE  \A i \in 1..Len(requests) : requests[i].kind \in MinorKinds /\ requests[i].task = t
  BY <1>1 DEF Ask
<1> QED
  BY <1>1 DEF MinorRequests

LEMMA MinorKeeps ==
  ASSUME Typed, Typed', Followed, NEW t \in Tasks, NEW k, MinorStep(t, k)
  PROVE  Followed'
<1>0. t \in Nat
  BY TaskNumber
<1>1. PICK requests \in MinorRequests(t) : Acts(t, requests, k)
  BY DEF MinorStep
<1>2. \A i \in 1..Len(requests) : requests[i].kind # "set" /\ requests[i].task = t
  BY MinorAsks DEF MinorKinds
<1>3. Tracks(t, requests, k) /\ source' = source
  BY <1>2 DEF Tracks, MinorStep, MinorPoints
<1>4. Waits' /\ Follows' /\ InOrder'
  BY <1>0, <1>1, <1>2, <1>3, PlainKeeps
<1>5. k = 1 => Head(fromServer).request.kind \notin {"set", "unit", "modules"}
  BY DEF MinorStep, MinorKinds
<1>6. /\ unit'.rev = unit.rev /\ unit'.design = unit.design
      /\ unit = NoUnit => unit' = NoUnit
      /\ modules' = modules
  BY DEF MinorStep
<1>7. TreeFollows'
  BY <1>1, <1>3, <1>5, <1>6, TreeKept DEF Followed
<1> QED
  BY <1>4, <1>7 DEF Followed

LEMMA ModulesKeeps ==
  ASSUME Typed, Typed', Followed, NEW t \in Tasks, ModulesStep(t)
  PROVE  Followed'
<1>0. t \in Nat
  BY TaskNumber
<1>1. PICK requests \in MinorRequests(t) : Acts(t, requests, 1)
  BY DEF ModulesStep
<1>2. \A i \in 1..Len(requests) : requests[i].kind # "set" /\ requests[i].task = t
  BY MinorAsks DEF MinorKinds
<1>3. Tracks(t, requests, 1) /\ source' = source
  BY <1>2 DEF Tracks, ModulesStep, MinorPoints
<1>4. Waits' /\ Follows' /\ InOrder'
  BY <1>0, <1>1, <1>2, <1>3, PlainKeeps
<1> QED
  BY <1>4, ModulesStepFollows DEF Followed

LEMMA TreeKeeps ==
  ASSUME Typed, Typed', Followed, NEW t \in Tasks, TreeStep(t)
  PROVE  Followed'
<1>0. t \in Nat
  BY TaskNumber
<1>1. PICK requests \in {<<>>, <<Ask("modules", t, None)>>} : Acts(t, requests, 1)
  BY DEF TreeStep
<1>2. \A i \in 1..Len(requests) : requests[i].kind # "set" /\ requests[i].task = t
  BY DEF Ask
<1>3. tasks[t].at # "set" /\ tasks'[t].at \notin {"free", "generate"} /\ source' = source
  BY DEF TreeStep
<1>4. Tracks(t, requests, 1)
  BY <1>2, <1>3 DEF Tracks
<1>5. Waits' /\ Follows' /\ InOrder'
  BY <1>0, <1>1, <1>2, <1>3, <1>4, PlainKeeps
<1> QED
  BY <1>5, TreeStepFollows DEF Followed

LEMMA ChoiceKeeps ==
  ASSUME Typed, Typed', Followed, NEW t \in Tasks, ChoiceStep(t)
  PROVE  Followed'
<1>0. t \in Nat
  BY TaskNumber
<1> DEFINE requests == <<Ask("set", t, source')>>
<1>1. /\ Acts(t, requests, 0) /\ Len(requests) = 1 /\ requests[1].kind = "set"
      /\ requests[1].task = t /\ requests[1].arg = source'
  BY DEF ChoiceStep, Ask
<1> HIDE DEF requests
<1>2. /\ tasks[t].at \in {"free", "generate"} /\ tasks'[t].at = "set"
      /\ source' # NoSource => tasks'[t].refreshes
  BY DEF ChoiceStep
<1>3. Tracks(t, requests, 0)
  <2>1. \A i \in 1..Len(requests) : i = 1
    BY <1>1
  <2> QED
    BY <1>1, <1>2, <2>1 DEF Tracks
<1>4. Waits' /\ InOrder'
  BY <1>0, <1>1, <1>3, WaitsKept, InOrderKept DEF Followed
<1>5. Follows' /\ ~NoSet'
  <2>1. Len(requests) > 0 /\ \A i \in 2..Len(requests) : FALSE
    BY <1>1
  <2>2. \A i \in 2..Len(requests) : requests[i].kind # "set"
    BY <2>1
  <2> QED
    BY <1>1, <2>1, <2>2, FollowsChoice
<1>6. TreeFollows'
  BY <1>5 DEF TreeFollows
<1> QED
  BY <1>4, <1>5, <1>6 DEF Followed

LEMMA SaveKeeps ==
  ASSUME Typed, Typed', Followed, NEW t \in Tasks, SaveStep(t)
  PROVE  Followed'
<1>0. t \in Nat
  BY TaskNumber
<1> DEFINE requests == <<Ask("set", 0, source), Ask("unit", t, None)>>
<1>1. /\ Acts(t, requests, 0) /\ Len(requests) = 2
      /\ requests[1].kind = "set" /\ requests[1].task = 0 /\ requests[1].arg = source'
      /\ requests[2].kind = "unit" /\ requests[2].task = t
  BY DEF SaveStep, Ask
<1> HIDE DEF requests
<1>2. tasks[t].at = "free" /\ tasks'[t].at = "unit"
  BY DEF SaveStep
<1>3. Tracks(t, requests, 0)
  <2>1. \A i \in 1..Len(requests) : i = 1 \/ i = 2
    BY <1>1
  <2>2. 2 \in (1 + 1)..Len(requests)
    BY <1>1
  <2> QED
    BY <1>1, <1>2, <2>1, <2>2 DEF Tracks
<1>4. Waits' /\ InOrder'
  BY <1>0, <1>1, <1>3, WaitsKept, InOrderKept DEF Followed
<1>5. Follows' /\ ~NoSet'
  <2>1. Len(requests) > 0 /\ \A i \in 2..Len(requests) : i = 2
    BY <1>1
  <2>2. \A i \in 2..Len(requests) : requests[i].kind # "set"
    BY <1>1, <2>1
  <2> QED
    BY <1>1, <2>1, <2>2, FollowsChoice
<1>6. TreeFollows'
  BY <1>5 DEF TreeFollows
<1> QED
  BY <1>4, <1>5, <1>6 DEF Followed

\* A step that leaves the tree alone.
LEMMA GenerateKeeps ==
  ASSUME Typed, Typed', Followed, NEW t \in Tasks, GenerateStep(t)
  PROVE  Followed'
<1>0. t \in Nat
  BY TaskNumber
<1> DEFINE requests == <<>>
<1>1. Acts(t, requests, 0) /\ \A i \in 1..Len(requests) : FALSE
  BY DEF GenerateStep
<1>2. /\ tasks[t].at = "free" /\ tasks'[t].at = "generate"
      /\ source' = source /\ unit' = unit /\ modules' = modules
  BY DEF GenerateStep
<1>3. Tracks(t, requests, 0)
  BY <1>1, <1>2 DEF Tracks
<1> HIDE DEF requests
<1>4. Waits' /\ Follows' /\ InOrder'
  BY <1>0, <1>1, <1>2, <1>3, PlainKeeps
<1>5. TreeFollows'
  BY <1>1, <1>2, TreeKept DEF Followed
<1> QED
  BY <1>4, <1>5 DEF Followed

LEMMA RefreshKeeps ==
  ASSUME Typed, Typed', Followed, NEW t \in Tasks, NEW k \in {0, 1}, RefreshStep(t, k)
  PROVE  Followed'
<1>0. t \in Nat
  BY TaskNumber
<1> DEFINE requests == <<Ask("unit", t, None)>>
<1>1. /\ Acts(t, requests, k) /\ Len(requests) = 1
      /\ requests[1].kind = "unit" /\ requests[1].task = t
  BY DEF RefreshStep, Ask
<1> HIDE DEF requests
<1>2. /\ source' = source /\ unit' = unit /\ modules' = modules
      /\ tasks'[t].at = "unit"
      /\ tasks[t].at = "set" => k = 1
      /\ k = 1 => Head(fromServer).request.kind = "set" /\ Head(fromServer).request.task = t
  BY DEF RefreshStep
<1>3. \A i \in 1..Len(requests) : requests[i].kind = "unit" /\ requests[i].task = t
  BY <1>1
<1>4. Tracks(t, requests, k)
  BY <1>2, <1>3 DEF Tracks
<1>5. Waits' /\ Follows' /\ InOrder'
  BY <1>0, <1>1, <1>2, <1>3, <1>4, PlainKeeps
<1>6. \E i \in 1..Len(requests) : requests[i].kind = "unit"
  BY <1>1
<1>7. k = 1 => Head(fromServer).request.kind \notin {"unit", "modules"}
  BY <1>2
<1>8. TreeFollows'
  BY <1>1, <1>2, <1>6, <1>7, TreeKept DEF Followed
<1> QED
  BY <1>5, <1>8 DEF Followed

\* The tree is not fetched: only the empty design asks for none.
LEMMA EndKeeps ==
  ASSUME Typed, Typed', Followed, NEW t \in Tasks, EndStep(t)
  PROVE  Followed'
<1>0. t \in Nat
  BY TaskNumber
<1> DEFINE requests == <<>>
           h == Head(fromServer)
<1>1. Acts(t, requests, 1) /\ \A i \in 1..Len(requests) : FALSE
  BY DEF EndStep
<1>2. /\ tasks[t].at = "set" /\ tasks'[t].at = "done"
      /\ source' = source /\ unit' = unit /\ modules' = modules
      /\ h.request.kind = "set" /\ h.request.task = t /\ (h.ok => ~tasks[t].refreshes)
  BY DEF EndStep
<1>3. Tracks(t, requests, 1)
  BY <1>1, <1>2 DEF Tracks
<1> HIDE DEF requests
<1>4. Waits' /\ Follows' /\ InOrder'
  BY <1>0, <1>1, <1>2, <1>3, PlainKeeps
<1>5. h.ok => h.request.arg = NoSource
  <2>1. 1 \in 1..Len(Line) /\ Line[1] = h.request
    BY <1>1, LineMoves DEF Moved
  <2> QED
    BY <1>2, <2>1 DEF Followed, Waits, SetsAwaited
<1>6. /\ h.request.kind \notin {"unit", "modules"}
      /\ ~h.ok \/ h.request.arg = NoSource
  BY <1>2, <1>5
<1>7. TreeFollows'
  <2>1. /\ unit'.rev = unit.rev /\ unit'.design = unit.design
        /\ unit = NoUnit => unit' = NoUnit
    BY <1>2
  <2> QED
    BY <1>1, <1>2, <1>6, <2>1, TreeKept DEF Followed
<1> QED
  BY <1>4, <1>7 DEF Followed

LEMMA DropKeeps ==
  ASSUME Typed, Typed', Followed, DropStep
  PROVE  Followed'
<1>0. 0 \in Nat /\ 0 \notin Tasks
  BY DEF Tasks
<1> DEFINE requests == <<>>
           h == Head(fromServer)
<1>1. Acts(0, requests, 1) /\ \A i \in 1..Len(requests) : FALSE
  BY DEF DropStep
<1>2. /\ source' = source /\ unit' = unit /\ modules' = modules
      /\ \/ h.request.kind = "set" /\ h.request.task \notin Tasks
         \/ h.request.kind = "search"
  BY <1>0 DEF DropStep
<1>3. Tracks(0, requests, 1)
  BY <1>0, <1>1 DEF Tracks
<1> HIDE DEF requests
<1>4. Waits' /\ Follows' /\ InOrder'
  BY <1>0, <1>1, <1>2, <1>3, PlainKeeps
<1>5. TreeFollows'
  <2>1. /\ unit'.rev = unit.rev /\ unit'.design = unit.design
        /\ unit = NoUnit => unit' = NoUnit
    BY <1>2
  <2>2. /\ h.request.kind \notin {"unit", "modules"}
        /\ h.request.kind # "set" \/ h.request.task \notin Tasks
    BY <1>2
  <2> QED
    BY <1>1, <1>2, <2>1, <2>2, TreeKept DEF Followed
<1> QED
  BY <1>4, <1>5 DEF Followed

LEMMA PickKeeps ==
  ASSUME Typed, Typed', Followed, NEW t \in Tasks, PickStep(t)
  PROVE  Followed'
<1>0. t \in Nat
  BY TaskNumber
<1>1. PICK k \in {0, 1}, requests \in Seq(Askable) :
        /\ Acts(t, requests, k)
        /\ requests = <<>> \/ \E arg : requests = <<Ask("search", t, arg)>>
        /\ k = 1 => Head(fromServer).request.kind = "search"
  <2> DEFINE Asking(requests, k) ==
               /\ Acts(t, requests, k)
               /\ requests = <<>> \/ \E arg : requests = <<Ask("search", t, arg)>>
               /\ k = 1 => Head(fromServer).request.kind = "search"
  <2>1. \/ \E arg : Acts(t, <<Ask("search", t, arg)>>, 0)
        \/ Acts(t, <<>>, 0)
        \/ /\ Head(fromServer).request.kind = "search"
           /\ Acts(t, <<>>, 1) \/ \E arg : Acts(t, <<Ask("search", t, arg)>>, 1)
    BY DEF PickStep
  <2>2. ASSUME NEW arg, NEW k \in {0, 1}, Acts(t, <<Ask("search", t, arg)>>, k),
               k = 1 => Head(fromServer).request.kind = "search"
        PROVE  Asking(<<Ask("search", t, arg)>>, k) /\ <<Ask("search", t, arg)>> \in Seq(Askable)
    BY <2>2 DEF Acts
  <2>3. ASSUME NEW k \in {0, 1}, Acts(t, <<>>, k),
               k = 1 => Head(fromServer).request.kind = "search"
        PROVE  Asking(<<>>, k) /\ <<>> \in Seq(Askable)
    BY <2>3 DEF Acts
  <2> SUFFICES \E k \in {0, 1}, requests \in Seq(Askable) : Asking(requests, k)
    OBVIOUS
  <2> HIDE DEF Asking
  <2>4. 0 \in {0, 1} /\ 1 \in {0, 1} /\ ~(0 = 1)
    OBVIOUS
  <2>5. CASE \E arg : Acts(t, <<Ask("search", t, arg)>>, 0)
    BY <2>2, <2>4, <2>5
  <2>6. CASE Acts(t, <<>>, 0)
    BY <2>3, <2>4, <2>6
  <2>7. CASE /\ Head(fromServer).request.kind = "search"
             /\ Acts(t, <<>>, 1) \/ \E arg : Acts(t, <<Ask("search", t, arg)>>, 1)
    BY <2>2, <2>3, <2>4, <2>7
  <2> QED
    BY <2>1, <2>5, <2>6, <2>7
<1>2. /\ source' = source /\ unit' = unit /\ modules' = modules
      /\ tasks[t].at # "set" /\ tasks'[t].at \notin {"free", "generate"}
  BY DEF PickStep
<1>3. \A i \in 1..Len(requests) : requests[i].kind # "set" /\ requests[i].task = t
  BY <1>1 DEF Ask
<1>4. Tracks(t, requests, k)
  BY <1>2, <1>3 DEF Tracks
<1>5. Waits' /\ Follows' /\ InOrder'
  BY <1>0, <1>1, <1>2, <1>3, <1>4, PlainKeeps
<1>6. TreeFollows'
  <2>1. /\ unit'.rev = unit.rev /\ unit'.design = unit.design
        /\ unit = NoUnit => unit' = NoUnit
    BY <1>2
  <2>2. k = 1 => Head(fromServer).request.kind \notin {"set", "unit", "modules"}
    BY <1>1
  <2> QED
    BY <1>1, <1>2, <2>1, <2>2, TreeKept DEF Followed
<1> QED
  BY <1>5, <1>6 DEF Followed

LEMMA StepKeeps ==
  ASSUME Typed, Typed', Followed, NEW t \in Tasks, Step(t) \/ DropStep
  PROVE  Followed'
BY MinorKeeps, ModulesKeeps, TreeKeeps, ChoiceKeeps, SaveKeeps, GenerateKeeps, RefreshKeeps,
   EndKeeps, DropKeeps, PickKeeps
DEF Step
(***************************************************************************)
(* The steps of the server.                                                *)
(***************************************************************************)
\* The oldest request goes, and its answer comes behind the others.
Served(ok) ==
    LET n == Len(fromServer)
        h == Head(toServer)
    IN
    /\ n \in Nat /\ Len(toServer) \in Nat /\ 1 \in 1..Len(toServer) /\ toServer[1] = h
    /\ Len(fromServer') = n + 1
    /\ fromServer'[n + 1] = Reply(h, ok, server)
    /\ \A i \in 1..n : i \in 1..Len(fromServer') /\ fromServer'[i] = fromServer[i]
    /\ \A i \in 1..Len(fromServer') : i \in 1..n \/ i = n + 1
    /\ \A i \in 1..Len(toServer') : i + 1 \in 2..Len(toServer) /\ toServer'[i] = toServer[i + 1]
    /\ \A i \in 2..Len(toServer) : i - 1 \in 1..Len(toServer') /\ toServer'[i - 1] = toServer[i]
    /\ \A i \in 1..Len(toServer) : i = 1 \/ i \in 2..Len(toServer)
    /\ IF h.kind = "set"
       THEN /\ refused' = ~ok
            /\ ok => server' = [design |-> h.arg, rev |-> server.rev + 1]
            /\ ~ok => server' = server
            /\ saved' = IF h.arg.type = "topfile" THEN saved ELSE h.arg
            /\ reload' = IF ok THEN "none" ELSE reload
            /\ untold' = (untold /\ ~ok)
       ELSE /\ UNCHANGED <<server, refused, saved, reload>>
            /\ untold' = (untold /\ h.kind # "unit")

LEMMA ServerServed ==
  ASSUME Typed, ServerStep
  PROVE  \E ok \in BOOLEAN : Served(ok)
<1>1. /\ toServer \in Seq(Requests) /\ fromServer \in Seq(Replies)
      /\ toServer # <<>> /\ toServer' = Tail(toServer)
  BY DEF Typed, ServerStep
<1>2. PICK ok \in BOOLEAN :
         /\ fromServer' = Append(fromServer, Reply(Head(toServer), ok, server))
         /\ IF Head(toServer).kind = "set"
            THEN /\ refused' = ~ok
                 /\ ok => server' = [design |-> Head(toServer).arg, rev |-> server.rev + 1]
                 /\ ~ok => server' = server
                 /\ saved' = IF Head(toServer).arg.type = "topfile" THEN saved
                             ELSE Head(toServer).arg
                 /\ reload' = IF ok THEN "none" ELSE reload
                 /\ untold' = (untold /\ ~ok)
            ELSE /\ UNCHANGED <<server, refused, saved, reload>>
                 /\ untold' = (untold /\ Head(toServer).kind # "unit")
  BY DEF ServerStep
<1> DEFINE r == Reply(Head(toServer), ok, server)
           n == Len(fromServer)
<1> HIDE DEF r
<1>3. /\ n \in Nat /\ Len(fromServer') = n + 1 /\ fromServer'[n + 1] = r
      /\ \A i \in 1..n : i \in 1..Len(fromServer') /\ fromServer'[i] = fromServer[i]
      /\ \A i \in 1..Len(fromServer') : i \in 1..n \/ i = n + 1
  <2>1. fromServer' = Append(fromServer, r)
    BY <1>2 DEF r
  <2> QED
    BY <1>1, <2>1
<1>4. /\ Len(toServer) \in Nat /\ 1 \in 1..Len(toServer) /\ toServer[1] = Head(toServer)
      /\ Len(toServer') = Len(toServer) - 1
      /\ \A i \in 1..Len(toServer') : toServer'[i] = toServer[i + 1]
  BY <1>1, TailTyped
<1>5. /\ \A i \in 1..Len(toServer') :
           i + 1 \in 2..Len(toServer) /\ toServer'[i] = toServer[i + 1]
      /\ \A i \in 2..Len(toServer) :
           i - 1 \in 1..Len(toServer') /\ toServer'[i - 1] = toServer[i]
      /\ \A i \in 1..Len(toServer) : i = 1 \/ i \in 2..Len(toServer)
  BY <1>4
<1>6. Served(ok)
  BY <1>2, <1>3, <1>4, <1>5 DEF Served, r
<1> QED
  BY <1>6

LEMMA ServerWaits ==
  ASSUME Typed, Typed', Waits, ServerStep
  PROVE  Waits'
<1>1. Line' = Line /\ tasks' = tasks
  BY LineStays DEF ServerStep
<1> QED
  BY <1>1 DEF Waits, NoneYet, SetsAwaited, SavesFollowed

\* The design that is made is the last one asked for, which is the one chosen.
LEMMA LastOnTheWay ==
  ASSUME Typed, Follows, NEW ok \in BOOLEAN, Served(ok), NoSet', Head(toServer).kind = "set"
  PROVE  Head(toServer).arg = source
<1>1. \A j \in 2..Len(toServer) : toServer[j].kind # "set"
  BY DEF Served, NoSet
<1>2. 1 \in 1..Len(toServer) /\ toServer[1] = Head(toServer)
  BY DEF Served
<1>3. \A j \in (1 + 1)..Len(toServer) : toServer[j].kind # "set"
  BY <1>1
<1> QED
  BY <1>2, <1>3 DEF Follows, LastSetIsSource

LEMMA ServerKeepsFollowing ==
  ASSUME Typed, Follows, ServerStep
  PROVE  Follows'
<1>1. PICK ok \in BOOLEAN : Served(ok)
  BY ServerServed
<1>2. source' = source
  BY DEF ServerStep
<1>3. LastSetIsSource'
  <2>1. ASSUME NEW i \in 1..Len(toServer'), toServer'[i].kind = "set",
               \A j \in (i + 1)..Len(toServer') : toServer'[j].kind # "set"
        PROVE  toServer'[i].arg = source'
    <3>1. i + 1 \in 1..Len(toServer) /\ toServer'[i] = toServer[i + 1]
      BY <1>1 DEF Served
    <3>2. ASSUME NEW j \in (i + 1 + 1)..Len(toServer)
          PROVE  toServer[j].kind # "set"
      <4>1. j \in 2..Len(toServer)
        BY <1>1 DEF Served
      <4>2. j - 1 \in 1..Len(toServer') /\ toServer'[j - 1] = toServer[j]
        BY <1>1, <4>1 DEF Served
      <4>3. j - 1 \in (i + 1)..Len(toServer')
        BY <4>2
      <4> QED
        BY <2>1, <4>2, <4>3
    <3> QED
      BY <1>2, <2>1, <3>1, <3>2 DEF Follows, LastSetIsSource
  <2> QED
    BY <2>1 DEF LastSetIsSource
<1>4. ASSUME source' # NoSource, ~refused', NoSet'
      PROVE  /\ Stands' => server'.design = source'
             /\ reload' # "failed" /\ source'.type # "topfile" => saved' = source'
  <2>1. CASE Head(toServer).kind = "set"
    <3>1. Head(toServer).arg = source
      BY <1>1, <1>4, <2>1, LastOnTheWay
    <3>2. /\ server' = [design |-> Head(toServer).arg, rev |-> server.rev + 1]
          /\ source.type # "topfile" => saved' = source
      BY <1>1, <1>4, <2>1, <3>1 DEF Served
    <3> QED
      BY <1>2, <3>1, <3>2
  <2>2. CASE Head(toServer).kind # "set"
    <3>1. UNCHANGED <<server, refused, saved, reload>>
      BY <1>1, <2>2 DEF Served
    <3>2. NoSet
      BY <1>1, <1>4, <2>2 DEF Served, NoSet
    <3> QED
      BY <1>2, <1>4, <3>1, <3>2
      DEF Follows, ServerFollowsSource, SavedIsSource, Stands, NoSet
  <2> QED
    BY <2>1, <2>2
<1>5. ServerFollowsSource' /\ SavedIsSource'
  BY <1>4 DEF ServerFollowsSource, SavedIsSource, NoSet
<1> QED
  BY <1>3, <1>5 DEF Follows

LEMMA ServerKeepsOrder ==
  ASSUME Typed, Typed', InOrder, ServerStep
  PROVE  InOrder'
<1>1. PICK ok \in BOOLEAN : Served(ok)
  BY ServerServed
<1> DEFINE n == Len(fromServer)
<1>2. /\ server.rev \in Nat /\ server'.rev \in Nat
      /\ server' = server \/ server'.rev = server.rev + 1
  BY <1>1 DEF Typed, Servers, Served
<1>3. /\ fromServer'[n + 1].value = server /\ n \in Nat
      /\ \A i \in 1..n : fromServer'[i] = fromServer[i]
      /\ \A i \in 1..Len(fromServer') : i \in 1..n \/ i = n + 1
  BY <1>1 DEF Served, Reply
<1>4. \A i \in 1..n : fromServer[i].value.rev \in Nat
  <2>1. fromServer \in Seq(Replies)
    BY DEF Typed
  <2>2. \A i \in 1..n : fromServer[i] \in Replies
    BY <2>1
  <2> QED
    BY <2>2 DEF Replies, Servers
<1>5. ASSUME NEW i \in 1..Len(fromServer')
      PROVE  LET v == fromServer'[i].value IN
             /\ v.rev <= server'.rev
             /\ v.rev = server'.rev => v = server'
             /\ \A j \in i..Len(fromServer') : v.rev <= fromServer'[j].value.rev
  <2>1. CASE i = n + 1
    <3>1. \A j \in i..Len(fromServer') : j = n + 1
      BY <1>3, <2>1
    <3> QED
      BY <1>2, <1>3, <2>1, <3>1
  <2>2. CASE i \in 1..n
    <3>1. /\ fromServer[i].value.rev <= server.rev
          /\ fromServer[i].value.rev = server.rev => fromServer[i].value = server
          /\ \A j \in i..n : fromServer[i].value.rev <= fromServer[j].value.rev
      BY <2>2 DEF InOrder
    <3>2. ASSUME NEW j \in i..Len(fromServer')
          PROVE  fromServer[i].value.rev <= fromServer'[j].value.rev
      <4>1. j \in 1..Len(fromServer')
        BY <2>2
      <4>2. CASE j \in 1..n
        BY <1>3, <3>1, <4>2
      <4>3. CASE j = n + 1
        BY <1>3, <3>1, <4>3
      <4> QED
        BY <1>3, <4>1, <4>2, <4>3
    <3>3. fromServer'[i] = fromServer[i]
      BY <1>3, <2>2
    <3>4. /\ fromServer[i].value.rev <= server'.rev
          /\ fromServer[i].value.rev = server'.rev => fromServer[i].value = server'
      BY <1>2, <1>4, <2>2, <3>1
    <3> QED
      BY <3>2, <3>3, <3>4
  <2> QED
    BY <1>3, <2>1, <2>2
<1> QED
  BY <1>5 DEF InOrder

\* A design that is made is told of, or asked for the tree of.
LEMMA MadeFollows ==
  ASSUME Typed, Waits, Follows, ServerStep, NEW ok \in BOOLEAN, Served(ok),
         ok, NoSet', Head(toServer).kind = "set"
  PROVE  MadeUntold' \/ Asked("unit")'
<1> DEFINE n == Len(fromServer)
           h == Head(toServer)
<1>1. h.arg = source /\ source' = source
  BY LastOnTheWay DEF ServerStep
<1>2. CASE h.task \in Tasks
  <2>1. n + 1 \in 1..Len(fromServer') /\ fromServer'[n + 1] = Reply(h, ok, server)
    BY DEF Served
  <2> QED
    BY <1>1, <1>2, <2>1 DEF MadeUntold, Reply
<1>3. CASE h.task \notin Tasks
  <2>1. /\ Len(Line) = n + Len(toServer)
        /\ \A i \in 1..Len(toServer) : Line[n + i] = toServer[i]
    BY LineIs DEF Line, Typed
  <2>2. n \in Nat /\ Len(toServer) \in Nat /\ 1 \in 1..Len(toServer) /\ toServer[1] = h
    BY DEF Served
  <2>3. n + 1 \in 1..Len(Line) /\ Line[n + 1] = h
    BY <2>1, <2>2
  <2>4. PICK j \in (n + 1 + 1)..Len(Line) : Line[j].kind = "unit"
    BY <1>3, <2>3 DEF Waits, SavesFollowed
  <2> DEFINE i == j - n
  <2>5. i \in 2..Len(toServer) /\ i \in 1..Len(toServer) /\ j = n + i
    BY <2>1, <2>2
  <2> HIDE DEF i
  <2>6. toServer[i].kind = "unit"
    BY <2>1, <2>4, <2>5
  <2>7. i - 1 \in 1..Len(toServer') /\ toServer'[i - 1] = toServer[i]
    BY <2>5 DEF Served
  <2> QED
    BY <2>6, <2>7 DEF Asked
<1> QED
  BY <1>2, <1>3

\* What is answered is told, of the design of then.
LEMMA AnsweredIsTold ==
  ASSUME NEW ok \in BOOLEAN, Served(ok), Head(toServer).kind # "set"
  PROVE  /\ \A kind : Asked(kind) => Asked(kind)' \/ Told(kind)'
         /\ \A kind : Told(kind) => Told(kind)'
         /\ \A kind : OnlyTold(kind) => OnlyTold(kind)'
<1> DEFINE n == Len(fromServer)
<1>1. /\ server' = server
      /\ n + 1 \in 1..Len(fromServer') /\ fromServer'[n + 1].value = server
      /\ fromServer'[n + 1].request = toServer[1]
      /\ \A i \in 1..n : i \in 1..Len(fromServer') /\ fromServer'[i] = fromServer[i]
      /\ \A i \in 1..Len(fromServer') : i \in 1..n \/ i = n + 1
      /\ \A i \in 2..Len(toServer) : i - 1 \in 1..Len(toServer') /\ toServer'[i - 1] = toServer[i]
      /\ \A i \in 1..Len(toServer) : i = 1 \/ i \in 2..Len(toServer)
  BY DEF Served, Reply
<1>2. ASSUME NEW kind, Asked(kind)
      PROVE  Asked(kind)' \/ Told(kind)'
  <2>1. PICK i \in 1..Len(toServer) : toServer[i].kind = kind
    BY <1>2 DEF Asked
  <2>2. CASE i = 1
    BY <1>1, <2>1, <2>2 DEF Told
  <2>3. CASE i \in 2..Len(toServer)
    BY <1>1, <2>1, <2>3 DEF Asked
  <2> QED
    BY <1>1, <2>2, <2>3
<1>3. ASSUME NEW kind, Told(kind) PROVE Told(kind)'
  BY <1>1, <1>3 DEF Told
<1>4. ASSUME NEW kind, OnlyTold(kind) PROVE OnlyTold(kind)'
  BY <1>1, <1>4 DEF OnlyTold
<1> QED
  BY <1>2, <1>3, <1>4

LEMMA ServerKeepsTree ==
  ASSUME Typed, Waits, Follows, TreeFollows, ServerStep
  PROVE  TreeFollows'
<1>1. PICK ok \in BOOLEAN : Served(ok)
  BY ServerServed
<1>2. source' = source /\ unit' = unit /\ modules' = modules
  BY DEF ServerStep, Tree
<1> SUFFICES ASSUME source # NoSource, ~refused', ~untold', NoSet'
             PROVE  MadeUntold' \/ Asked("unit")' \/ Told("unit")' \/ TreeShown'
  BY <1>2 DEF TreeFollows
<1>3. CASE Head(toServer).kind = "set"
  <2>1. ok
    BY <1>1, <1>3 DEF Served
  <2> QED
    BY <1>1, <1>3, <2>1, MadeFollows
<1>4. CASE Head(toServer).kind # "set"
  <2>1. server' = server /\ refused' = refused
    BY <1>1, <1>4 DEF Served
  <2>2. NoSet
    BY <1>1, <1>4, ZenonT(60) DEF Served, NoSet
  <2>3. /\ Asked("unit") => Asked("unit")' \/ Told("unit")'
        /\ Told("unit") => Told("unit")'
        /\ OnlyTold("unit") => OnlyTold("unit")'
        /\ Asked("modules") => Asked("modules")' \/ Told("modules")'
        /\ Told("modules") => Told("modules")'
        /\ OnlyTold("modules") => OnlyTold("modules")'
    BY <1>1, <1>4, AnsweredIsTold
  <2>4. MadeUntold => MadeUntold'
    BY <1>1, <1>2 DEF Served, MadeUntold
  <2>5. TreeShown => TreeShown'
    BY <1>2, <2>1, <2>3 DEF TreeShown
  <2>6. Head(toServer).kind = "unit" => Asked("unit")
    BY <1>1 DEF Served, Asked
  <2>7. Head(toServer).kind # "unit" => ~untold
    BY <1>1, <1>4 DEF Served
  <2> QED
    BY <2>1, <2>2, <2>3, <2>4, <2>5, <2>6, <2>7 DEF TreeFollows
<1> QED
  BY <1>3, <1>4

LEMMA ServerKeeps ==
  ASSUME Typed, Typed', Followed, ServerStep
  PROVE  Followed'
BY ServerWaits, ServerKeepsFollowing, ServerKeepsOrder, ServerKeepsTree DEF Followed
(***************************************************************************)
(* The reloads of the server.                                              *)
(***************************************************************************)
\* A design that is made anew is a newer one than all that were told.
LEMMA ReloadTyped ==
  ASSUME Typed, ServerReloads
  PROVE  /\ Typed' /\ Line' = Line
         /\ UNCHANGED <<source, tasks, toServer, fromServer, refused>>
<1>1. UNCHANGED <<source, watcher, unit, modules, focused, interaction, tasks, typed, toServer,
                  fromServer, refused>>
  BY DEF ServerReloads, Tree, Wires
<1>2. PICK configured \in {NoSource} \cup {Source("filelist", f) : f \in Files} :
           \/ /\ saved' = configured /\ reload' = "failed"
              /\ UNCHANGED <<server, untold>>
           \/ /\ saved = NoSource /\ saved' = configured
              /\ Remade(configured, TRUE)
           \/ /\ saved # NoSource /\ saved' = saved
              /\ Remade(saved, TRUE) \/ Remade(configured, FALSE)
  BY DEF ServerReloads
<1>3. configured \in Sources
  BY DEF Sources
<1>4. saved \in Sources /\ server \in Servers /\ untold \in BOOLEAN
  BY DEF Typed
<1>5. ASSUME NEW design \in Sources, NEW ok, Remade(design, ok)
      PROVE  /\ server' \in Servers /\ untold' \in BOOLEAN
             /\ reload' \in {"none", "done", "failed"}
  BY <1>4, <1>5 DEF Remade, Servers
<1>6. /\ server' \in Servers /\ untold' \in BOOLEAN /\ saved' \in Sources
      /\ reload' \in {"none", "done", "failed"}
  BY <1>2, <1>3, <1>4, <1>5
<1>7. reloads' \in 0..MaxReloads
  BY ProjectAssumption DEF ServerReloads, Typed
<1>8. Line' = Line
  BY <1>1 DEF Line, LineOf
<1> QED
  BY <1>1, <1>6, <1>7, <1>8 DEF Typed

LEMMA ReloadIs ==
  ASSUME Typed, ServerReloads
  PROVE  /\ \/ server' = server /\ untold' = untold
            \/ server'.rev = server.rev + 1 /\ untold' = TRUE
         /\ reload' # "failed" => /\ reload = "none" \/ reload = "done"
                                  /\ reload' = "done"
                                  /\ saved # NoSource => server'.design = saved /\ saved' = saved
<1>1. ASSUME NEW design, NEW ok, Remade(design, ok)
      PROVE  /\ server'.rev = server.rev + 1 /\ untold' = TRUE /\ server'.design = design
             /\ reload' # "failed" => ok /\ reload # "failed" /\ reload' = "done"
  BY <1>1 DEF Remade
<1>2. reload \in {"none", "done", "failed"}
  BY DEF Typed
<1> QED
  BY <1>1, <1>2 DEF ServerReloads

LEMMA ReloadKeeps ==
  ASSUME Typed, Typed', Followed, SearchFollows, ServerReloads
  PROVE  Followed' /\ SearchFollows'
<1>1. Line' = Line /\ UNCHANGED <<source, tasks, toServer, fromServer, refused>>
  BY ReloadTyped
<1>2. Waits'
  BY <1>1 DEF Followed, Waits, NoneYet, SetsAwaited, SavesFollowed
<1>3. SearchFollows'
  BY <1>1 DEF SearchFollows, PickerWaits, Searches
<1>4. Follows'
  <2>1. LastSetIsSource'
    BY <1>1 DEF Followed, Follows, LastSetIsSource
  <2>2. ASSUME source # NoSource, ~refused, NoSet, reload' # "failed", source.type # "topfile"
        PROVE  server'.design = source /\ saved' = source
    <3>1. reload # "failed" /\ (saved # NoSource => server'.design = saved /\ saved' = saved)
      BY <2>2, ReloadIs
    <3>2. saved = source
      BY <2>2, <3>1 DEF Followed, Follows, SavedIsSource
    <3> QED
      BY <2>2, <3>1, <3>2
  <2>3. reload' # "none"
    BY ReloadIs
  <2> QED
    BY <1>1, <2>1, <2>2, <2>3 DEF Follows, ServerFollowsSource, SavedIsSource, Stands, NoSet
<1>5. InOrder'
  <2>1. /\ server.rev \in Nat /\ fromServer \in Seq(Replies)
        /\ server' = server \/ server'.rev = server.rev + 1
    BY ReloadIs DEF Typed, Servers
  <2>2. \A i \in 1..Len(fromServer) : fromServer[i] \in Replies
    BY <2>1
  <2>3. \A i \in 1..Len(fromServer) : fromServer[i].value.rev \in Nat
    BY <2>2 DEF Replies, Servers
  <2> QED
    BY <1>1, <2>1, <2>3 DEF Followed, InOrder
<1>6. TreeFollows'
  <2>1. CASE server' = server /\ untold' = untold
    <3>1. UNCHANGED <<unit, modules>>
      BY DEF ServerReloads, Tree
    <3> QED
      BY <1>1, <2>1, <3>1
      DEF Followed, TreeFollows, NoSet, MadeUntold, Asked, Told, OnlyTold, TreeShown
  <2>2. CASE untold' = TRUE
    BY <2>2 DEF TreeFollows
  <2> QED
    BY <2>1, <2>2, ReloadIs
<1> QED
  BY <1>2, <1>3, <1>4, <1>5, <1>6 DEF Followed

(***************************************************************************)
(* The search.                                                             *)
(***************************************************************************)
\* Where the searches of a picker are after a step: the old ones one place further
\* at most, and the new ones behind.
LEMMA SearchesMove ==
  ASSUME Typed, Typed', NEW t, NEW requests, NEW k, Acts(t, requests, k), NEW s
  PROVE  \A i \in Searches(s)' :
           \/ /\ i \in Nat /\ i >= 1 /\ k \in {0, 1} /\ i + k \in Searches(s)
              /\ Line'[i] = Line[i + k]
           \/ \E j \in 1..Len(requests) :
                /\ i = Len(Line) - k + j /\ Line'[i] = requests[j]
                /\ requests[j].kind = "search" /\ requests[j].task = s
<1> DEFINE n == Len(Line) - k
<1>1. Moved(n, k, requests)
  BY LineMoves
<1> HIDE DEF n
<1>2. /\ Len(Line) \in Nat /\ Len(requests) \in Nat /\ n = Len(Line) - k /\ n \in Nat
      /\ Len(Line') = n + Len(requests) /\ k \in {0, 1}
      /\ \A i \in 1..n : Line'[i] = Line[i + k] /\ i + k \in 1..Len(Line)
      /\ \A i \in 1..Len(requests) : Line'[n + i] = requests[i]
  BY <1>1 DEF Moved
<1> TAKE i \in Searches(s)'
<1>3. i \in 1..Len(Line') /\ Line'[i].kind = "search" /\ Line'[i].task = s
  BY DEF Searches
<1>4. CASE i \in 1..n
  BY <1>2, <1>3, <1>4 DEF Searches
<1>5. CASE i \notin 1..n
  <2> DEFINE j == i - n
  <2>1. j \in 1..Len(requests) /\ i = n + j
    BY <1>2, <1>3, <1>5
  <2> HIDE DEF j
  <2> QED
    BY <1>2, <1>3, <2>1
<1> QED
  BY <1>4, <1>5

\* A step leaves the pickers of other commands alone.
LEMMA SearchKept ==
  ASSUME Typed, Typed', SearchFollows, NEW t, NEW requests, NEW k, Acts(t, requests, k),
         \A i \in 1..Len(requests) : requests[i].kind = "search" => requests[i].task = t,
         t \in Tasks => tasks'[t].at # "pick" \/ PickerWaits(t)'
  PROVE  SearchFollows'
<1> SUFFICES ASSUME NEW s \in Tasks, tasks'[s].at = "pick", s # t
             PROVE  PickerWaits(s)'
  BY DEF SearchFollows
<1>1. tasks'[s] = tasks[s] /\ PickerWaits(s)
  BY DEF Acts, SearchFollows
<1>2. \A i \in Searches(s)' : /\ i \in Nat /\ k \in {0, 1} /\ i + k \in Searches(s)
                              /\ Line'[i] = Line[i + k]
  BY SearchesMove
<1>3. Searches(s) = {} => Searches(s)' = {}
  BY <1>2
<1>4. ASSUME \A i, j \in Searches(s) : i = j
      PROVE  \A i, j \in Searches(s)' : i = j
  <2> TAKE i, j \in Searches(s)'
  <2>1. i \in Nat /\ j \in Nat /\ k \in {0, 1} /\ i + k = j + k
    BY <1>2, <1>4
  <2> QED
    BY <2>1
<1>5. (\A i \in Searches(s) : Line[i].arg = tasks[s].query)
      => \A i \in Searches(s)' : Line'[i].arg = tasks'[s].query
  BY <1>1, <1>2
<1> QED
  BY <1>1, <1>3, <1>4, <1>5 DEF PickerWaits

\* A picker searches for the text that was typed last.
LEMMA PickerKept ==
  ASSUME Typed, Typed', Waits, SearchFollows, NEW t \in Tasks, PickStep(t)
  PROVE  PickerWaits(t)'
<1>1. ASSUME NEW k, NEW arg, Acts(t, <<Ask("search", t, arg)>>, k), arg = tasks'[t].query,
             tasks'[t].searching, tasks'[t].pending = None,
             \A i \in Nat : i >= 1 => i + k \notin Searches(t)
      PROVE  PickerWaits(t)'
  <2> DEFINE requests == <<Ask("search", t, arg)>>
  <2>1. Len(requests) = 1 /\ requests[1].arg = arg
    BY DEF Ask
  <2>2. Acts(t, requests, k)
    BY <1>1
  <2> HIDE DEF requests
  <2>3. \A i \in Searches(t)' : i = Len(Line) - k + 1 /\ Line'[i] = requests[1]
    <3> TAKE i \in Searches(t)'
    <3>1. PICK j \in 1..Len(requests) : i = Len(Line) - k + j /\ Line'[i] = requests[j]
      BY <1>1, <2>2, SearchesMove
    <3>2. j = 1
      BY <2>1
    <3> QED
      BY <3>1, <3>2
  <2>4. \A i, j \in Searches(t)' : i = j
    BY <2>3
  <2>5. \A i \in Searches(t)' : Line'[i].arg = tasks'[t].query
    BY <1>1, <2>1, <2>3
  <2> QED
    BY <1>1, <2>4, <2>5 DEF PickerWaits
<1>2. CASE /\ tasks[t].at = "free"
           /\ tasks'[t].searching /\ tasks'[t].query = NoText /\ tasks'[t].pending = None
           /\ Acts(t, <<Ask("search", t, NoText)>>, 0)
  <2>1. Searches(t) = {}
    BY <1>2 DEF Searches, Waits, NoneYet
  <2> QED
    BY <1>1, <1>2, <2>1
<1>3. CASE /\ tasks[t].at = "pick" /\ tasks[t].searching
           /\ tasks'[t].searching /\ tasks'[t].pending = tasks'[t].query
           /\ Acts(t, <<>>, 0)
  <2>1. \A i, j \in Searches(t) : i = j
    BY <1>3 DEF SearchFollows, PickerWaits
  <2>2. \A i \in Searches(t)' : i \in Nat /\ i + 0 \in Searches(t)
    <3> DEFINE requests == <<>>
    <3>1. Acts(t, requests, 0) /\ \A i \in 1..Len(requests) : FALSE
      BY <1>3
    <3> HIDE DEF requests
    <3> QED
      BY <3>1, SearchesMove
  <2>3. \A i, j \in Searches(t)' : i = j
    BY <2>1, <2>2
  <2> QED
    BY <1>3, <2>3 DEF PickerWaits
<1>4. CASE /\ tasks[t].at = "pick" /\ ~tasks[t].searching
           /\ tasks'[t].searching /\ tasks'[t].pending = tasks[t].pending
           /\ Acts(t, <<Ask("search", t, tasks'[t].query)>>, 0)
  <2>1. Searches(t) = {} /\ tasks[t].pending = None
    BY <1>4 DEF SearchFollows, PickerWaits
  <2> QED
    BY <1>1, <1>4, <2>1
<1>5. ASSUME tasks[t].at = "pick", NEW requests, Acts(t, requests, 1),
             Head(fromServer).request.kind = "search", Head(fromServer).request.task = t
      PROVE  /\ 1 \in Searches(t) /\ Line[1] = Head(fromServer).request
             /\ \A i \in Nat : i >= 1 => i + 1 \notin Searches(t)
             /\ tasks[t].searching
             /\ \/ tasks[t].pending = tasks[t].query
                \/ tasks[t].pending = None /\ Line[1].arg = tasks[t].query
  <2>1. 1 \in 1..Len(Line) /\ Line[1] = Head(fromServer).request
    BY <1>5, LineMoves DEF Moved
  <2>2. 1 \in Searches(t)
    BY <1>5, <2>1 DEF Searches
  <2>3. PickerWaits(t)
    BY <1>5 DEF SearchFollows
  <2>4. tasks[t].searching
    BY <2>2, <2>3 DEF PickerWaits
  <2>5. ASSUME NEW i \in Nat, i >= 1, i + 1 \in Searches(t)
        PROVE  FALSE
    <3>1. i + 1 = 1
      BY <2>2, <2>3, <2>4, <2>5 DEF PickerWaits
    <3> QED
      BY <2>5, <3>1
  <2> QED
    BY <2>1, <2>2, <2>3, <2>4, <2>5 DEF PickerWaits
<1>6. CASE /\ tasks[t].at = "pick"
           /\ Head(fromServer).request.kind = "search" /\ Head(fromServer).request.task = t
           /\ tasks'[t].query = tasks[t].query
           /\ tasks[t].pending # None /\ tasks'[t].pending = None
           /\ tasks'[t].searching = tasks[t].searching
           /\ Acts(t, <<Ask("search", t, tasks[t].pending)>>, 1)
  <2>1. /\ \A i \in Nat : i >= 1 => i + 1 \notin Searches(t)
        /\ tasks[t].searching /\ tasks[t].pending = tasks[t].query
    BY <1>5, <1>6
  <2> QED
    BY <1>1, <1>6, <2>1
<1>7. CASE /\ tasks[t].at = "pick"
           /\ Head(fromServer).request.kind = "search" /\ Head(fromServer).request.task = t
           /\ tasks'[t].query = tasks[t].query
           /\ tasks[t].pending = None /\ tasks'[t].pending = None
           /\ ~tasks'[t].searching
           /\ Head(fromServer).request.arg = tasks[t].query => tasks'[t].shown = tasks[t].query
           /\ Acts(t, <<>>, 1)
  <2> DEFINE requests == <<>>
  <2>1. Acts(t, requests, 1) /\ \A i \in 1..Len(requests) : FALSE
    BY <1>7
  <2> HIDE DEF requests
  <2>2. /\ Line[1] = Head(fromServer).request
        /\ \A i \in Nat : i >= 1 => i + 1 \notin Searches(t)
        /\ \/ tasks[t].pending = tasks[t].query
           \/ tasks[t].pending = None /\ Line[1].arg = tasks[t].query
    BY <1>5, <1>7, <2>1
  <2>3. Searches(t)' = {}
    BY <2>1, <2>2, SearchesMove
  <2>4. tasks[t].query # None
    BY ProjectAssumption DEF Typed, TaskType, Texts
  <2> QED
    BY <1>7, <2>2, <2>3, <2>4 DEF PickerWaits
<1> QED
  BY <1>2, <1>3, <1>4, <1>6, <1>7 DEF PickStep
LEMMA PickSearch ==
  ASSUME Typed, Typed', Waits, SearchFollows, NEW t \in Tasks, PickStep(t)
  PROVE  SearchFollows'
<1>1. PickerWaits(t)'
  BY PickerKept
<1>2. ASSUME NEW k, NEW arg, Acts(t, <<Ask("search", t, arg)>>, k)
      PROVE  SearchFollows'
  <2>1. \A i \in 1..Len(<<Ask("search", t, arg)>>) : <<Ask("search", t, arg)>>[i].task = t
    BY DEF Ask
  <2> QED
    BY <1>1, <1>2, <2>1, SearchKept
<1>3. ASSUME NEW k, Acts(t, <<>>, k)
      PROVE  SearchFollows'
  <2> DEFINE requests == <<>>
  <2>1. Acts(t, requests, k) /\ \A i \in 1..Len(requests) : requests[i].task = t
    BY <1>3
  <2> HIDE DEF requests
  <2> QED
    BY <1>1, <2>1, SearchKept
<1>4. \/ \E k, arg : Acts(t, <<Ask("search", t, arg)>>, k)
      \/ \E k : Acts(t, <<>>, k)
  BY DEF PickStep
<1> QED
  BY <1>2, <1>3, <1>4

\* The other steps of a command have to do with no search.
LEMMA OtherSearch ==
  ASSUME Typed, Typed', SearchFollows, NEW t \in Tasks, Step(t), ~PickStep(t)
  PROVE  SearchFollows'
<1>1. tasks'[t].at # "pick"
  BY DEF Step, MinorStep, ModulesStep, ChoiceStep, GenerateStep, SaveStep, RefreshStep,
         EndStep, TreeStep, MinorPoints
<1>2. ASSUME NEW requests, NEW k, Acts(t, requests, k),
             \A i \in 1..Len(requests) : requests[i].kind # "search"
      PROVE  SearchFollows'
  BY <1>1, <1>2, SearchKept
<1>3. ASSUME NEW requests \in MinorRequests(t), NEW k, Acts(t, requests, k)
      PROVE  SearchFollows'
  <2>1. \A i \in 1..Len(requests) : requests[i].kind # "search"
    BY MinorAsks DEF MinorKinds
  <2> QED
    BY <1>2, <1>3, <2>1
<1>4. ASSUME NEW kind \in {"set", "unit", "modules"}, NEW arg, NEW k,
             Acts(t, <<Ask(kind, t, arg)>>, k)
      PROVE  SearchFollows'
  <2>1. \A i \in 1..Len(<<Ask(kind, t, arg)>>) : <<Ask(kind, t, arg)>>[i].kind # "search"
    BY DEF Ask
  <2> QED
    BY <1>2, <1>4, <2>1
<1>5. ASSUME NEW k, Acts(t, <<>>, k)
      PROVE  SearchFollows'
  BY <1>3, <1>5 DEF MinorRequests
<1>6. ASSUME SaveStep(t)
      PROVE  SearchFollows'
  <2> DEFINE requests == <<Ask("set", 0, source), Ask("unit", t, None)>>
  <2>1. Acts(t, requests, 0)
    BY <1>6 DEF SaveStep
  <2>2. \A i \in 1..Len(requests) : requests[i].kind # "search"
    BY DEF Ask
  <2> HIDE DEF requests
  <2> QED
    BY <1>2, <2>1, <2>2
<1>7. \/ \E requests \in MinorRequests(t), k \in {0, 1} : Acts(t, requests, k)
      \/ \E kind \in {"set", "unit", "modules"} :
           \E arg, k : Acts(t, <<Ask(kind, t, arg)>>, k)
      \/ \E k : Acts(t, <<>>, k)
      \/ SaveStep(t)
  BY DEF Step, MinorStep, ModulesStep, ChoiceStep, GenerateStep, RefreshStep, EndStep, TreeStep
<1> QED
  BY <1>3, <1>4, <1>5, <1>6, <1>7

LEMMA DropSearch ==
  ASSUME Typed, Typed', SearchFollows, DropStep
  PROVE  SearchFollows'
<1> DEFINE requests == <<>>
<1>1. Acts(0, requests, 1) /\ \A i \in 1..Len(requests) : FALSE
  BY DEF DropStep
<1> HIDE DEF requests
<1>2. 0 \notin Tasks
  BY DEF Tasks
<1> QED
  BY <1>1, <1>2, SearchKept

LEMMA ServerSearch ==
  ASSUME Typed, Typed', SearchFollows, ServerStep
  PROVE  SearchFollows'
<1>1. Line' = Line /\ tasks' = tasks
  BY LineStays DEF ServerStep
<1> QED
  BY <1>1 DEF SearchFollows, PickerWaits, Searches

(***************************************************************************)
(* The invariant.                                                          *)
(***************************************************************************)
LEMMA InvInit == Init => Inv
<1> SUFFICES ASSUME Init PROVE Inv
  OBVIOUS
<1> DEFINE first == [Idle EXCEPT !.at = "unit", !.preserve = TRUE]
           r == Ask("unit", 1, None)
<1>1. first \in TaskType /\ Proper(first) /\ first.at = "unit"
  <2>1. [Idle EXCEPT !.at = "unit"] \in TaskType
        /\ [Idle EXCEPT !.at = "unit"].at = "unit" /\ [Idle EXCEPT !.at = "unit"].tracks = FALSE
    BY IdleType DEF TaskType, Points
  <2>2. first = [[Idle EXCEPT !.at = "unit"] EXCEPT !.preserve = TRUE]
    BY DEF Idle
  <2>3. first \in TaskType /\ first.at = "unit" /\ first.tracks = FALSE
    BY <2>1, <2>2 DEF TaskType
  <2> QED
    BY <2>3 DEF Proper
<1> HIDE DEF first
<1>2. /\ tasks = [t \in Tasks |-> IF t = 1 THEN first ELSE Idle]
      /\ toServer = <<r>> /\ fromServer = <<>>
  BY DEF Init, first
<1>3. /\ r \in Requests /\ r.kind = "unit" /\ r.task = 1 /\ r.arg = None
      /\ r.arg \in Args(r.kind)
  BY DEF Ask, Requests, Args, Kinds, PathOrNone
<1> HIDE DEF r
<1>4. /\ toServer \in Seq(Requests) /\ Len(toServer) = 1 /\ toServer[1] = r
      /\ fromServer \in Seq(Replies) /\ Len(fromServer) = 0
  BY <1>2, <1>3
<1>5. Typed
  <2>1. server \in Servers
    BY DEF Init, Sources, Servers
  <2>2. \A t \in Tasks : tasks[t] \in TaskType /\ Proper(tasks[t])
    BY <1>1, <1>2, IdleType
  <2>3. tasks \in [Tasks -> TaskType]
    BY <1>2, <2>2
  <2>4. /\ source \in Sources /\ watcher \in Commands \cup {None} /\ unit \in Units
        /\ modules \in Nat /\ focused \in Items /\ interaction \in Actors
        /\ typed \in 0..MaxTyped /\ refused \in BOOLEAN
        /\ saved \in Sources /\ reloads \in 0..MaxReloads
        /\ reload \in {"none", "done", "failed"} /\ untold \in BOOLEAN
    <3>1. MaxTyped \in Nat /\ MaxReloads \in Nat
      BY ProjectAssumption
    <3>2. /\ source = NoSource /\ watcher = None /\ unit = NoUnit /\ modules = 0
          /\ focused = NoItem /\ interaction = None /\ typed = 0 /\ refused = FALSE
      BY DEF Init
    <3>3. refused \in BOOLEAN
      BY <3>2
    <3>4. typed \in 0..MaxTyped /\ modules \in Nat
      BY <3>1, <3>2
    <3>5. watcher \in Commands \cup {None} /\ interaction \in Actors
      BY <3>2 DEF Actors
    <3>6. source \in Sources /\ unit \in Units /\ focused \in Items
      BY <3>2, IdleType
    <3>7. /\ reload = "none" /\ untold = FALSE /\ reloads \in 0..MaxReloads
          /\ saved = server.design
      BY <3>1 DEF Init
    <3>8. reload \in {"none", "done", "failed"} /\ untold \in BOOLEAN /\ saved \in Sources
      BY <2>1, <3>7 DEF Servers
    <3> QED
      BY <3>3, <3>4, <3>5, <3>6, <3>7, <3>8
  <2>5. /\ \A i \in 1..Len(toServer) : toServer[i].arg \in Args(toServer[i].kind)
        /\ \A i \in 1..Len(fromServer) : FALSE
    BY <1>3, <1>4
  <2> QED
    BY <1>4, <2>1, <2>2, <2>3, <2>4, <2>5 DEF Typed
<1>6. /\ Len(Line) = 1 /\ \A i \in 1..Len(Line) : i = 1 /\ Line[i] = r
  <2>1. /\ Len(Line) = Len(fromServer) + Len(toServer)
        /\ \A i \in 1..Len(toServer) : Line[Len(fromServer) + i] = toServer[i]
    BY <1>4, LineIs DEF Line
  <2> QED
    BY <1>4, <2>1
<1>7. Waits
  <2>1. NoneYet
    <3>1. 1 \in Tasks => tasks[1].at = "unit"
      BY <1>1, <1>2
    <3> QED
      BY <1>3, <1>6, <3>1 DEF NoneYet
  <2> QED
    BY <1>3, <1>6, <2>1 DEF Waits, SetsAwaited, SavesFollowed
<1>8. Follows
  <2>1. source = NoSource /\ \A i \in 1..Len(toServer) : toServer[i].kind # "set"
    BY <1>3, <1>4 DEF Init
  <2> QED
    BY <2>1 DEF Follows, LastSetIsSource, ServerFollowsSource, SavedIsSource
<1>9. InOrder
  BY <1>4 DEF InOrder
<1>10. TreeFollows
  BY DEF TreeFollows, Init
<1>11. SearchFollows
  <2>1. \A t \in Tasks : tasks[t].at # "pick"
    BY <1>1, <1>2, IdleType
  <2> QED
    BY <2>1 DEF SearchFollows
<1> QED
  BY <1>5, <1>7, <1>8, <1>9, <1>10, <1>11 DEF Inv

LEMMA InvNext == Inv /\ [Next]_vars => Inv'
<1> SUFFICES ASSUME Inv, [Next]_vars PROVE Inv'
  OBVIOUS
<1>1. Typed /\ Followed /\ SearchFollows /\ Waits
  BY DEF Inv, Followed
<1>2. ASSUME Typed', Followed', SearchFollows'
      PROVE  Inv'
  BY <1>2 DEF Inv, Followed
<1>3. ASSUME NEW t \in Tasks, Step(t), Typed'
      PROVE  Inv'
  BY <1>1, <1>2, <1>3, StepKeeps, PickSearch, OtherSearch
<1>4. ASSUME DropStep, Typed'
      PROVE  Inv'
  BY <1>1, <1>2, <1>4, DropKeeps, DropSearch
<1>5. CASE \E t \in Tasks : Commanded(t) \/ Continued(t)
  BY <1>1, <1>3, <1>4, <1>5, CommandedSteps, ContinuedSteps
<1>6. CASE ServerMakes \/ ServerAnswers
  BY <1>1, <1>2, <1>6, ServerSteps, ServerKeeps, ServerSearch
<1>7. CASE UnawaitedAnswered
  BY <1>1, <1>4, <1>7, DroppedStep
<1>9. CASE ServerReloads
  BY <1>1, <1>2, <1>9, ReloadTyped, ReloadKeeps
<1>8. CASE UNCHANGED vars
  <2> USE <1>8 DEF vars
  <2>1. Typed'
    BY <1>1 DEF Typed
  <2>2. Line' = Line
    BY DEF Line, LineOf
  <2>3. Waits'
    BY <1>1, <2>2 DEF Waits, NoneYet, SetsAwaited, SavesFollowed
  <2>4. Follows'
    BY <1>1 DEF Followed, Follows, LastSetIsSource, ServerFollowsSource, SavedIsSource, Stands,
            NoSet
  <2>5. InOrder'
    BY <1>1 DEF Followed, InOrder
  <2>6. TreeFollows'
    BY <1>1 DEF Followed, TreeFollows, NoSet, MadeUntold, Asked, Told, OnlyTold, TreeShown
  <2>7. SearchFollows'
    BY <1>1, <2>2 DEF SearchFollows, PickerWaits, Searches
  <2> QED
    BY <2>1, <2>3, <2>4, <2>5, <2>6, <2>7 DEF Inv
<1> QED
  BY <1>5, <1>6, <1>7, <1>8, <1>9 DEF Next, Terminated

LEMMA InvAlways == Spec => []Inv
BY InvInit, InvNext, PTL DEF Spec

(***************************************************************************)
(* The theorems.                                                           *)
(***************************************************************************)
\* The variables keep their ranges: however the segments of the commands, the
\* server and the user take turns.
THEOREM TypeCorrect == Spec => []TypeOK
<1>1. Inv => TypeOK
  BY DEF Inv, Typed, TypeOK, Units, Items, Actors, Servers, PathOrNone
<1> QED
  BY <1>1, InvAlways, PTL

\* Once no choice is on its way, the server has the design of compilationSource,
\* unless it could not make it: for any number of overlapping selectBuildFile,
\* setTopLevel, refreshCompilation and build commands, in the order in which they
\* reach it.
THEOREM ServerFollowsTheorem == Spec => []ServerFollowsSource
<1>1. Inv => ServerFollowsSource
  BY DEF Inv, Follows
<1> QED
  BY <1>1, InvAlways, PTL

\* When refreshSlangCompilation has ended everywhere, the unit and the modules of
\* the view are those of the server's design: the last refresh to be answered was
\* asked for after the last design was made.
THEOREM QuietTreeTheorem == Spec => []QuietTreeShowsDesign
<1>1. Inv => QuietTreeShowsDesign
  <2> SUFFICES ASSUME Inv, Quiet, source # NoSource, ~refused, ~untold
               PROVE  IF PathsOf(server.design) = {} THEN unit = NoUnit
                      ELSE unit.rev = server.rev /\ modules = server.rev
    BY DEF QuietTreeShowsDesign
  <2>1. /\ \A i \in 1..Len(toServer) : FALSE
        /\ \A i \in 1..Len(fromServer) : FALSE
    BY DEF Quiet
  <2>2. TreeShown
    BY <2>1 DEF Inv, TreeFollows, NoSet, MadeUntold, Asked, Told
  <2> QED
    BY <2>1, <2>2 DEF TreeShown, Asked, Told
<1> QED
  BY <1>1, InvAlways, PTL

\* applyFilter ends with the results of the text in the picker, although the text
\* may change during every search.
THEOREM SearchSettlesTheorem == Spec => []SearchSettles
<1>1. Inv => SearchSettles
  BY DEF Inv, SearchFollows, PickerWaits, SearchSettles
<1> QED
  BY <1>1, InvAlways, PTL
=============================================================================
