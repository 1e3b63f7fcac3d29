------------------------ MODULE JsonRpcServerProofs ------------------------
(***************************************************************************)
(* Proofs about JsonRpcServer for every set of ids and documents and every *)
(* number of messages.                                                     *)
(***************************************************************************)
EXTENDS JsonRpcServer, SequenceTheorems, TLAPS

\* While the worker is between PopMessage and UnlockState it has a message.
BusyStates == WorkerStates \ {"absent", "idle", "asleep", "exited"}
WorkerHasMessage == worker \in BusyStates => current # 0

\* Between ReceiveMessage and NotifyWorker the reader has one.
ReaderHasMessage == reader \in {"push", "notify"} => incoming # 0

\* The worker answers only with what processMessage returned, and forgets it
\* with the message.
OutcomeFits ==
    /\ worker \in {"reply", "replyBody"} => outcome # "none"
    /\ worker \in {"absent", "idle", "asleep", "exited"} => outcome = "none"
    /\ reader = "init" => worker = "absent"

TypeInv == TypeOK /\ WorkerHasMessage /\ ReaderHasMessage /\ OutcomeFits

\* What a client message looks like: only a didChange names a document.
WellFormed(m) ==
    /\ m \in Message
    /\ m.uri # NoUri => m.method = "textDocument/didChange" /\ m.id = NoId

\* What a client may send is a message, and only a didChange names a document.
LEMMA ClientMessageType ==
    /\ \A m \in ClientMessages : WellFormed(m)
    /\ \A m \in ClientRequests : WellFormed(m)
    /\ \A id \in FreeIds : WellFormed(Request("initialize", id))
BY DEF ClientMessages, ClientRequests, FreeIds, Request, DidChange, Notification, Message,
       RequestMethods, WellFormed

\* A sequence over a set is one over any larger set.
LEMMA SeqMonotone ==
    ASSUME NEW S, NEW T, S \subseteq T, NEW s \in Seq(S) PROVE s \in Seq(T)
<1>1. s \in [1..Len(s) -> S] /\ Len(s) \in Nat OBVIOUS
<1>2. s \in [1..Len(s) -> T] BY <1>1
<1> QED BY <1>1, <1>2

ReceivedTypes(m) ==
    /\ received' \in Seq(Message)
    /\ NewContext \in Nat
    /\ Len(received') = NewContext
    /\ Len(received') <= MaxMessages
    /\ NewContext = Len(received) + 1
    /\ \A c \in 1..Len(received) : c \in 1..Len(received') /\ received'[c] = received[c]
    /\ received'[NewContext] = m
    /\ queue \in Seq(1..Len(received'))
    /\ replies \in Seq([ctx : 1..Len(received'), kind : ReplyKinds])

\* Receiving a message keeps the older ones and the types that range over them.
LEMMA ReceiveTypes ==
    ASSUME TypeInv, NEW m \in Message, Len(received) < MaxMessages,
           received' = Append(received, m)
    PROVE  ReceivedTypes(m)
<1> USE DEF TypeInv, TypeOK, NewContext, ReceivedTypes
<1>1. /\ received' \in Seq(Message)
      /\ Len(received') = NewContext
      /\ \A c \in 1..Len(received) : received'[c] = received[c]
      /\ received'[NewContext] = m
      /\ Len(received) \in Nat
  OBVIOUS
<1>2. 1..Len(received) \subseteq 1..Len(received') BY <1>1
<1>3. queue \in Seq(1..Len(received')) BY <1>2, SeqMonotone
<1>4. replies \in Seq([ctx : 1..Len(received'), kind : ReplyKinds])
  <2> DEFINE Old == [ctx : 1..Len(received), kind : ReplyKinds]
             New == [ctx : 1..Len(received'), kind : ReplyKinds]
  <2>1. replies \in Seq(Old) OBVIOUS
  <2>2. Old \subseteq New BY <1>2
  <2> HIDE DEF Old, New
  <2>3. replies \in Seq(New) BY <2>1, <2>2, SeqMonotone
  <2> QED BY <2>3 DEF New
<1> QED BY <1>1, <1>2, <1>3, <1>4, ConstantsAssumption

\* What ranges over the received messages before the step still does after it.
Widened ==
    /\ incoming \in 0..Len(received')
    /\ current \in 0..Len(received')
    /\ activeRequests \in [Ids -> 0..Len(received')]
    /\ pendingDocumentChanges \in [Uris -> 0..Len(received')]
    /\ cancelled \in SUBSET (1..Len(received'))
    /\ started \in SUBSET (1..Len(received'))
    /\ text \in [Uris -> 0..Len(received')]
    /\ analysed \in [Uris -> 0..Len(received')]
    /\ failed \in SUBSET (1..Len(received'))

\* The context of a message being received is the last of the received ones.
LEMMA NewContextInRange ==
    ASSUME NEW m, ReceivedTypes(m), TypeInv
    PROVE  NewContext \in 1..Len(received') /\ Len(received') \in Nat
BY DEF ReceivedTypes, TypeInv, TypeOK

\* What ranges over the received messages still does when there is one more.
LEMMA WiderTypes ==
    ASSUME TypeInv, NEW m \in Message, ReceivedTypes(m) PROVE Widened
<1>1. /\ Len(received) \in Nat
      /\ 0..Len(received) \subseteq 0..Len(received')
      /\ 1..Len(received) \subseteq 1..Len(received')
  BY DEF TypeInv, TypeOK, ReceivedTypes
<1> QED BY <1>1 DEF TypeInv, TypeOK, Widened

\* registerContext keeps its tables over the ids, documents and contexts.
LEMMA RegisterTypes ==
    ASSUME TypeInv, NEW m \in Message, ReceivedTypes(m), Register(NewContext, m)
    PROVE  /\ activeRequests' \in [Ids -> 0..Len(received')]
           /\ pendingDocumentChanges' \in [Uris -> 0..Len(received')]
           /\ cancelled' \in SUBSET (1..Len(received'))
<1>1. Widened BY WiderTypes
<1>2. NewContext \in 0..Len(received') BY DEF ReceivedTypes
<1>3. m.id \in Ids \cup {NoId} /\ m.uri \in Uris \cup {NoUri} BY DEF Message
<1>4. activeRequests' \in [Ids -> 0..Len(received')]
  BY <1>1, <1>2, <1>3 DEF Register, Widened
<1>5. pendingDocumentChanges' \in [Uris -> 0..Len(received')]
  BY <1>1, <1>2, <1>3 DEF Register, Widened
<1>6. cancelled' \in SUBSET (1..Len(received'))
  <2>1. CASE m.uri = NoUri BY <1>1, <2>1 DEF Register, Widened
  <2>2. CASE m.uri \in Uris /\ m.uri # NoUri
    <3>1. pendingDocumentChanges[m.uri] \in 0..Len(received') BY <1>1, <2>2 DEF Widened
    <3>2. cancelled' = cancelled \cup ({pendingDocumentChanges[m.uri]} \ {0})
      BY <2>2 DEF Register
    <3>3. cancelled \subseteq 1..Len(received') BY <1>1 DEF Widened
    <3>4. {pendingDocumentChanges[m.uri]} \ {0} \subseteq 1..Len(received')
      BY <3>1, <1>2, NewContextInRange
    <3> QED BY <3>2, <3>3, <3>4
  <2> QED BY <1>3, <2>1, <2>2
<1> QED BY <1>4, <1>5, <1>6

\* Answering keeps the sequence of answers typed.
LEMMA AppendReplyType ==
    ASSUME TypeInv, NEW m \in Message, ReceivedTypes(m), NEW kind \in ReplyKinds,
           replies' = Append(replies, [ctx |-> NewContext, kind |-> kind])
    PROVE  replies' \in Seq([ctx : 1..Len(received'), kind : ReplyKinds])
<1> DEFINE A == [ctx : 1..Len(received'), kind : ReplyKinds]
<1>1. replies \in Seq(A) BY DEF ReceivedTypes
<1>2. [ctx |-> NewContext, kind |-> kind] \in A BY DEF ReceivedTypes, TypeInv, TypeOK
<1> HIDE DEF A
<1>3. replies' \in Seq(A) BY <1>1, <1>2
<1> QED BY <1>3 DEF A

\* Initially every variable has its type.
LEMMA InitTypeInv == Init => TypeInv
<1> SUFFICES ASSUME Init PROVE TypeInv OBVIOUS
<1> USE DEF Init
<1>1. Len(received) = 0 OBVIOUS
<1>2. received \in Seq(Message) /\ queue \in Seq(1..Len(received))
      /\ replies \in Seq([ctx : 1..Len(received), kind : ReplyKinds])
  OBVIOUS
<1>3. reader \in ReaderStates /\ worker \in WorkerStates
      /\ WorkerHasMessage /\ ReaderHasMessage /\ OutcomeFits
  BY DEF ReaderStates, WorkerStates, WorkerHasMessage, ReaderHasMessage, OutcomeFits, BusyStates
<1>4. activeRequests \in [Ids -> 0..Len(received)]
      /\ pendingDocumentChanges \in [Uris -> 0..Len(received)]
      /\ text \in [Uris -> 0..Len(received)] /\ analysed \in [Uris -> 0..Len(received)]
  BY <1>1
<1>8. inputFinished \in BOOLEAN OBVIOUS
<1>5. outcome \in {"none", "result", "error", "cancelled"}
      /\ stateOwner \in {"none", "worker", "wcp"} /\ incoming \in 0..Len(received)
      /\ current \in 0..Len(received)
  BY <1>1
<1>6. cancelled \in SUBSET (1..Len(received)) /\ started \in SUBSET (1..Len(received))
      /\ failed \in SUBSET (1..Len(received))
      /\ writing \in SUBSET {"reader", "worker", "wcp"}
  OBVIOUS
<1>7. Len(received) <= MaxMessages /\ wcpLeft \in 0..MaxWcp
  BY <1>1, ConstantsAssumption
<1> QED BY <1>2, <1>3, <1>4, <1>5, <1>6, <1>7, <1>8 DEF TypeInv, TypeOK

\* The three steps that receive a message keep the types.
LEMMA ReceiveTypeInv == TypeInv /\ ReceiveMessage => TypeInv'
<1> SUFFICES ASSUME TypeInv, ReceiveMessage PROVE TypeInv' OBVIOUS
<1>1. PICK m \in ClientMessages : received' = Append(received, m) /\ Register(NewContext, m)
  BY DEF ReceiveMessage
<1>2. m \in Message /\ Len(received) < MaxMessages
  BY ClientMessageType DEF WellFormed, ReceiveMessage, MayReceive
<1>3. ReceivedTypes(m) BY <1>1, <1>2, ReceiveTypes
<1>4. /\ activeRequests' \in [Ids -> 0..Len(received')]
      /\ pendingDocumentChanges' \in [Uris -> 0..Len(received')]
      /\ cancelled' \in SUBSET (1..Len(received'))
  BY <1>1, <1>2, <1>3, RegisterTypes
<1>5. incoming' \in 0..Len(received') /\ incoming' # 0 /\ reader' = "push"
  BY <1>3 DEF ReceiveMessage, ReceivedTypes
<1>6. Widened BY <1>2, <1>3, WiderTypes
<1> QED
  BY <1>3, <1>4, <1>5, <1>6 DEF TypeInv, TypeOK, WorkerHasMessage, ReaderHasMessage, OutcomeFits, ReceiveMessage,
     ReceivedTypes, Widened, workerVars, docVars, ReaderStates

\* A refusal before initialize or after shutdown keeps the types.
LEMMA RefuseTypeInv ==
    ASSUME TypeInv, NEW kind \in ReplyKinds, Refuse(kind),
           UNCHANGED <<readerVars, queue, workerVars, stateOwner, cancelVars, started,
                       docVars, wcpLeft>>
    PROVE  TypeInv'
<1> USE DEF readerVars, workerVars, cancelVars, docVars
<1>1. CASE UNCHANGED <<received, replies>>
  BY <1>1 DEF Refuse, TypeInv, TypeOK, WorkerHasMessage, ReaderHasMessage, OutcomeFits
<1>2. CASE \E m \in ClientRequests :
               /\ received' = Append(received, m)
               /\ replies' = Append(replies, [ctx |-> NewContext, kind |-> kind])
  <2>1. PICK m \in ClientRequests :
               /\ received' = Append(received, m)
               /\ replies' = Append(replies, [ctx |-> NewContext, kind |-> kind])
    BY <1>2
  <2>2. m \in Message /\ Len(received) < MaxMessages
    BY ClientMessageType DEF WellFormed, Refuse, MayReceive
  <2>3. ReceivedTypes(m) BY <2>1, <2>2, ReceiveTypes
  <2>4. replies' \in Seq([ctx : 1..Len(received'), kind : ReplyKinds])
    BY <2>1, <2>2, <2>3, AppendReplyType
  <2>5. Widened BY <2>2, <2>3, WiderTypes
  <2> QED
    BY <2>3, <2>4, <2>5 DEF Refuse, ReceivedTypes, Widened, TypeInv, TypeOK, WorkerHasMessage, ReaderHasMessage, OutcomeFits
<1> QED BY <1>1, <1>2 DEF Refuse

\* Handling initialize on the reading thread keeps the types.
LEMMA InitializeTypeInv == TypeInv /\ HandleInitialize => TypeInv'
<1> SUFFICES ASSUME TypeInv, HandleInitialize PROVE TypeInv' OBVIOUS
<1>1. PICK id \in FreeIds : received' = Append(received, Request("initialize", id))
  BY DEF HandleInitialize
<1>2. PICK kind \in {"result", "error"} :
          replies' = Append(replies, [ctx |-> NewContext, kind |-> kind])
  BY DEF HandleInitialize
<1>3. kind \in ReplyKinds BY DEF ReplyKinds
<1>4. Request("initialize", id) \in Message /\ Len(received) < MaxMessages
  BY ClientMessageType DEF WellFormed, HandleInitialize, MayReceive
<1>5. ReceivedTypes(Request("initialize", id)) BY <1>1, <1>4, ReceiveTypes
<1>6. replies' \in Seq([ctx : 1..Len(received'), kind : ReplyKinds])
  BY <1>2, <1>3, <1>4, <1>5, AppendReplyType
<1>7. Widened BY <1>4, <1>5, WiderTypes
<1>8. started' \in SUBSET (1..Len(received'))
  <2>1. started \subseteq 1..Len(received') /\ NewContext \in 1..Len(received')
    BY <1>5, <1>7, NewContextInRange DEF Widened
  <2>2. started' = started \cup {NewContext} BY DEF HandleInitialize
  <2> QED BY <2>1, <2>2
<1> QED
  BY <1>5, <1>6, <1>7, <1>8 DEF TypeInv, TypeOK, WorkerHasMessage, ReaderHasMessage, OutcomeFits,
     HandleInitialize, ReceivedTypes, Widened, cancelVars, docVars, ReaderStates,
     WorkerStates, BusyStates

\* The threads that are inside a frame, after the worker has entered or left one.
LEMMA WritingType ==
  ASSUME TypeInv, PublishHeader \/ PublishBody
  PROVE  writing' \in SUBSET {"reader", "worker", "wcp"}
<1>1. writing \in SUBSET {"reader", "worker", "wcp"} BY DEF TypeInv, TypeOK
<1>2. CASE PublishHeader
  <2>1. writing' = writing \cup {"worker"} BY <1>2 DEF PublishHeader
  <2> QED BY <1>1, <2>1
<1>3. CASE PublishBody
  <2>1. writing' = writing \ {"worker"} BY <1>3 DEF PublishBody
  <2> QED BY <1>1, <2>1
<1> QED BY <1>2, <1>3

\* Every step keeps them.
LEMMA StepTypeInv == TypeInv /\ [Next]_vars => TypeInv'
<1> SUFFICES ASSUME TypeInv, [Next]_vars PROVE TypeInv'
  OBVIOUS
<1> USE DEF TypeInv, TypeOK, WorkerHasMessage, ReaderHasMessage, OutcomeFits, BusyStates,
            WorkerStates, ReaderStates,
            readerVars, workerVars, cancelVars, docVars
<1>1. CASE ReaderWriteBody BY <1>1 DEF ReaderWriteBody
<1>2. CASE PushMessage
  <2>1. queue' \in Seq(1..Len(received')) BY <1>2 DEF PushMessage
  <2> QED BY <1>2, <2>1 DEF PushMessage
<1>3. CASE NotifyWorker
  <2>1. /\ worker' = worker \/ (worker = "asleep" /\ worker' = "idle")
        /\ reader' \in {"shutdown", "read"} /\ incoming' = 0
    BY <1>3 DEF NotifyWorker, Wake
  <2> QED BY <1>3, <2>1 DEF NotifyWorker
<1>4. CASE \E id \in Ids : CancelRequest(id)
  <2>1. PICK id \in Ids : CancelRequest(id) BY <1>4
  <2>2. activeRequests[id] \in 1..Len(received) BY <2>1 DEF CancelRequest
  <2>3. cancelled' \in SUBSET (1..Len(received)) BY <2>1, <2>2 DEF CancelRequest
  <2> QED BY <2>1, <2>3 DEF CancelRequest
<1>5. CASE ReceiveMalformed BY <1>5 DEF ReceiveMalformed
<1>6. CASE EndOfInput BY <1>6 DEF EndOfInput
<1>7. CASE NotifyFinish BY <1>7 DEF NotifyFinish, Wake
<1>8. CASE JoinWorker BY <1>8 DEF JoinWorker
<1>9. CASE PopMessage
  <2>1. current' \in 1..Len(received) /\ current' \in 0..Len(received') /\ current' # 0
    BY <1>9 DEF PopMessage
  <2>2. queue' \in Seq(1..Len(received')) BY <1>9 DEF PopMessage
  <2> QED BY <1>9, <2>1, <2>2 DEF PopMessage, WorkerGoesTo
<1>10. CASE WorkerWait BY <1>10 DEF WorkerWait, WorkerGoesTo
<1>11. CASE LockState BY <1>11 DEF LockState, WorkerGoesTo
<1>12. CASE StartMessage
  <2>1. current \in 1..Len(received) BY <1>12 DEF StartMessage
  <2>2. /\ worker' \in {"apply", "handle", "unregister"}
        /\ outcome' \in {outcome, "cancelled"}
        /\ started' \in {started, started \cup {current}}
    BY <1>12, <2>1 DEF StartMessage, WorkerGoesTo
  <2>3. started' \in SUBSET (1..Len(received)) BY <2>1, <2>2
  <2> QED BY <1>12, <2>1, <2>2, <2>3 DEF StartMessage
<1>13. CASE RunHandler BY <1>13 DEF RunHandler, WorkerGoesTo
<1>14. CASE ApplyChange
  <2>1. current \in 1..Len(received) BY <1>14 DEF ApplyChange
  <2>2. /\ worker' \in {"analyse", "unregister"}
        /\ text' \in [Uris -> 0..Len(received)]
        /\ failed' \in SUBSET (1..Len(received))
    BY <1>14, <2>1 DEF ApplyChange, WorkerGoesTo
  <2> QED BY <1>14, <2>1, <2>2 DEF ApplyChange
<1>15. CASE Analyse
  <2>1. current \in 1..Len(received) BY <1>15 DEF Analyse
  <2>2. /\ worker' \in {"publish", "unregister"}
        /\ failed' \in SUBSET (1..Len(received))
    BY <1>15, <2>1 DEF Analyse, WorkerGoesTo
  <2> QED BY <1>15, <2>1, <2>2 DEF Analyse
<1>16. CASE PublishHeader
  <2>1. writing' \in SUBSET {"reader", "worker", "wcp"}
    <3> HIDE DEF TypeInv, TypeOK
    <3> QED BY <1>16, WritingType
  <2> QED BY <1>16, <2>1 DEF PublishHeader, WorkerGoesTo
<1>17. CASE PublishBody
  <2>1. writing' \in SUBSET {"reader", "worker", "wcp"}
    <3> HIDE DEF TypeInv, TypeOK
    <3> QED BY <1>17, WritingType
  <2>2. current \in 1..Len(received) BY <1>17 DEF PublishBody
  <2>3. analysed' \in [Uris -> 0..Len(received)] BY <1>17, <2>2 DEF PublishBody
  <2> QED BY <1>17, <2>1, <2>2, <2>3, SMTT(30) DEF PublishBody, WorkerGoesTo
<1>18. CASE Unregister BY <1>18, SMTT(30) DEF Unregister, WorkerGoesTo, EraseIf
<1>19. CASE ReplyHeader BY <1>19 DEF ReplyHeader, WorkerGoesTo
<1>20. CASE ReplyBody
  <2> DEFINE A == [ctx : 1..Len(received), kind : ReplyKinds]
  <2>1. [ctx |-> current, kind |-> outcome] \in A BY <1>20 DEF ReplyBody, ReplyKinds
  <2>2. replies \in Seq(A) OBVIOUS
  <2> HIDE DEF A
  <2>3. replies' \in Seq(A) BY <1>20, <2>1, <2>2 DEF ReplyBody
  <2>4. received' = received BY <1>20 DEF ReplyBody
  <2>5. replies' \in Seq([ctx : 1..Len(received'), kind : ReplyKinds]) BY <2>3, <2>4 DEF A
  <2> QED BY <1>20, <2>4, <2>5 DEF ReplyBody, WorkerGoesTo
<1>21. CASE UnlockState BY <1>21 DEF UnlockState, WorkerGoesTo
<1>22. CASE WcpHeader
  <2>1. wcpLeft' \in 0..MaxWcp BY <1>22, ConstantsAssumption DEF WcpHeader
  <2> QED BY <1>22, <2>1 DEF WcpHeader
<1>23. CASE WcpBody BY <1>23 DEF WcpBody
<1>24. CASE UNCHANGED vars BY <1>24 DEF vars
<1>25. CASE ReceiveMessage BY <1>25, ReceiveTypeInv
<1>26. ASSUME NEW kind \in ReplyKinds, Refuse(kind),
              UNCHANGED <<readerVars, queue, workerVars, stateOwner, cancelVars, started,
                          docVars, wcpLeft>>
       PROVE  TypeInv'
  BY <1>26, RefuseTypeInv
<1>27. CASE HandleInitialize BY <1>27, InitializeTypeInv
<1>28. QED
  BY <1>1, <1>2, <1>3, <1>4, <1>5, <1>6, <1>7, <1>8, <1>9, <1>10, <1>11, <1>12, <1>13,
     <1>14, <1>15, <1>16, <1>17, <1>18, <1>19, <1>20, <1>21, <1>22, <1>23, <1>24, <1>25, <1>26, <1>27
     DEF ReplyKinds, RefuseBeforeInitialize, RefuseAfterShutdown, Next, Reader, Worker, Terminated

\* Type correctness of the transport, for every number of ids, documents and
\* messages.
THEOREM TypeCorrect == Spec => []TypeOK
<1>1. TypeInv => TypeOK BY DEF TypeInv
<1> QED BY InitTypeInv, StepTypeInv, <1>1, PTL DEF Spec

(***************************************************************************)
(* Cancellation.  The two facts below hold for the same reason: the maps   *)
(* of contexts say what their entries are, and the cancelled flag is only  *)
(* ever set through them.                                                  *)
(***************************************************************************)
\* Only a didChange names a document, and it has no id.
EditsAreDidChanges ==
    \A c \in DOMAIN received : WellFormed(received[c])

\* An id maps to a request with that id, a document to a change of it.
MapsPointAtTheirKeys ==
    /\ \A id \in Ids : activeRequests[id] # 0 => received[activeRequests[id]].id = id
    /\ \A u \in Uris : pendingDocumentChanges[u] # 0
                         => received[pendingDocumentChanges[u]].uri = u

\* What was answered as cancelled is marked as cancelled.
CancelledAnswersAreMarked ==
    /\ outcome = "cancelled" => current \in cancelled
    /\ \A i \in DOMAIN replies : replies[i].kind = "cancelled" => replies[i].ctx \in cancelled

\* A started handler that takes no context is not marked.
StartedUncancellable == \A c \in started : ~Cancellable(c) => c \notin cancelled

CancelInv ==
    /\ TypeInv
    /\ EditsAreDidChanges
    /\ MapsPointAtTheirKeys
    /\ CancelledAnswersAreMarked
    /\ StartedUncancellable
    /\ SupersededByNewer

\* Before any message nothing is cancelled and nothing has started.
LEMMA InitCancelInv == Init => CancelInv
<1> SUFFICES ASSUME Init PROVE CancelInv OBVIOUS
<1>1. TypeInv BY InitTypeInv
<1> QED
  BY <1>1 DEF Init, CancelInv, EditsAreDidChanges, MapsPointAtTheirKeys,
     CancelledAnswersAreMarked, StartedUncancellable, SupersededByNewer

\* The parts of CancelInv that a step leaving these variables alone keeps.
LEMMA CancelFrame ==
    ASSUME CancelInv, TypeInv',
           UNCHANGED <<received, cancelled, started, activeRequests, pendingDocumentChanges>>,
           CancelledAnswersAreMarked'
    PROVE  CancelInv'
BY DEF CancelInv, EditsAreDidChanges, MapsPointAtTheirKeys, StartedUncancellable,
       SupersededByNewer, IsEdit, Cancellable

\* The facts about old messages survive the arrival of a new one.
LEMMA CancelReceive ==
    ASSUME CancelInv, NEW m, WellFormed(m), ReceivedTypes(m)
    PROVE  /\ EditsAreDidChanges'
           /\ \A id \in Ids : activeRequests[id] # 0 =>
                  received'[activeRequests[id]].id = id
           /\ \A u \in Uris : pendingDocumentChanges[u] # 0 =>
                  received'[pendingDocumentChanges[u]].uri = u
           /\ \A c \in started : received'[c] = received[c]
           /\ \A c \in cancelled : received'[c] = received[c]
           /\ NewContext \notin cancelled /\ NewContext \notin started
           /\ \A d \in DOMAIN received : d \in DOMAIN received' /\ received'[d] = received[d]
           /\ NewContext \in DOMAIN received' /\ received'[NewContext] = m
           /\ \A d \in DOMAIN received : d < NewContext
<1>1. received \in Seq(Message) /\ received' \in Seq(Message)
  BY DEF CancelInv, TypeInv, TypeOK, ReceivedTypes
<1>2. /\ DOMAIN received = 1..Len(received) /\ DOMAIN received' = 1..Len(received')
      /\ Len(received) \in Nat /\ Len(received') = Len(received) + 1
      /\ NewContext = Len(received')
  BY <1>1 DEF ReceivedTypes
<1>3. \A c \in 1..Len(received) : received'[c] = received[c] BY DEF ReceivedTypes
<1>4. EditsAreDidChanges'
  <2> SUFFICES ASSUME NEW c \in 1..Len(received') PROVE WellFormed(received'[c])
    BY <1>2 DEF EditsAreDidChanges
  <2>1. CASE c = NewContext BY <2>1 DEF ReceivedTypes
  <2>2. CASE c \in 1..Len(received)
    BY <2>2, <1>2, <1>3 DEF CancelInv, EditsAreDidChanges
  <2> QED BY <1>2, <2>1, <2>2
<1>5. \A id \in Ids : activeRequests[id] # 0 => activeRequests[id] \in 1..Len(received)
  BY <1>2 DEF CancelInv, TypeInv, TypeOK
<1>6. \A u \in Uris : pendingDocumentChanges[u] # 0
                        => pendingDocumentChanges[u] \in 1..Len(received)
  BY <1>2 DEF CancelInv, TypeInv, TypeOK
<1>7. started \subseteq 1..Len(received) /\ cancelled \subseteq 1..Len(received)
  BY DEF CancelInv, TypeInv, TypeOK
<1>8. NewContext \notin 1..Len(received) BY <1>2
<1> QED
  BY <1>2, <1>3, <1>4, <1>5, <1>6, <1>7, <1>8
     DEF CancelInv, MapsPointAtTheirKeys, ReceivedTypes

\* Refusing a message marks and starts nothing.
LEMMA RefuseCancelInv ==
    ASSUME CancelInv, NEW kind \in {"notInitialized", "invalidRequest"}, Refuse(kind),
           UNCHANGED <<readerVars, queue, workerVars, stateOwner, cancelVars, started,
                       docVars, wcpLeft>>
    PROVE  CancelInv'
<1> USE DEF cancelVars, workerVars
<1>1. TypeInv /\ TypeInv' BY RefuseTypeInv DEF CancelInv, ReplyKinds
<1>2. CASE UNCHANGED <<received, replies>>
  BY <1>1, <1>2, CancelFrame DEF CancelledAnswersAreMarked, CancelInv
<1>3. CASE \E m \in ClientRequests :
               /\ received' = Append(received, m)
               /\ replies' = Append(replies, [ctx |-> NewContext, kind |-> kind])
  <2>1. PICK m \in ClientRequests :
               /\ received' = Append(received, m)
               /\ replies' = Append(replies, [ctx |-> NewContext, kind |-> kind])
    BY <1>3
  <2>2. WellFormed(m) /\ m \in Message /\ Len(received) < MaxMessages
    BY ClientMessageType DEF WellFormed, Refuse, MayReceive
  <2>3. ReceivedTypes(m) BY <1>1, <2>1, <2>2, ReceiveTypes
  <2>4. CancelledAnswersAreMarked'
    BY <1>1, <2>1 DEF CancelInv, CancelledAnswersAreMarked, TypeInv, TypeOK
  <2>5. EditsAreDidChanges' /\ MapsPointAtTheirKeys'
    BY <2>2, <2>3, CancelReceive DEF MapsPointAtTheirKeys
  <2>6. StartedUncancellable'
    BY <2>2, <2>3, CancelReceive DEF CancelInv, StartedUncancellable, Cancellable
  <2>7. SupersededByNewer'
    BY <2>2, <2>3, CancelReceive DEF CancelInv, SupersededByNewer, IsEdit
  <2> QED BY <1>1, <2>4, <2>5, <2>6, <2>7 DEF CancelInv
<1> QED BY <1>2, <1>3 DEF Refuse

\* initialize is started by the step that receives it, unmarked.
LEMMA InitializeCancelInv == CancelInv /\ HandleInitialize => CancelInv'
<1> SUFFICES ASSUME CancelInv, HandleInitialize PROVE CancelInv' OBVIOUS
<1>1. TypeInv /\ TypeInv' BY InitializeTypeInv DEF CancelInv
<1>2. PICK id \in FreeIds : received' = Append(received, Request("initialize", id))
  BY DEF HandleInitialize
<1> DEFINE m == Request("initialize", id)
<1>3. WellFormed(m) /\ m \in Message /\ Len(received) < MaxMessages
  BY ClientMessageType DEF WellFormed, HandleInitialize, MayReceive
<1>4. ReceivedTypes(m) BY <1>1, <1>2, <1>3, ReceiveTypes
<1>5. UNCHANGED <<current, outcome, cancelVars>> BY DEF HandleInitialize
<1>6. started' = started \cup {NewContext} BY DEF HandleInitialize
<1>7. CancelledAnswersAreMarked'
  BY <1>1, <1>5 DEF CancelInv, CancelledAnswersAreMarked, TypeInv, TypeOK, HandleInitialize,
     cancelVars
<1> HIDE DEF m
<1>8. EditsAreDidChanges' /\ MapsPointAtTheirKeys'
  BY <1>3, <1>4, <1>5, CancelReceive DEF MapsPointAtTheirKeys, cancelVars
<1>9. StartedUncancellable'
  BY <1>3, <1>4, <1>5, <1>6, CancelReceive DEF CancelInv, StartedUncancellable, Cancellable,
     cancelVars
<1>10. SupersededByNewer'
  BY <1>3, <1>4, <1>5, CancelReceive DEF CancelInv, SupersededByNewer, IsEdit, cancelVars
<1> QED BY <1>1, <1>7, <1>8, <1>9, <1>10 DEF CancelInv

\* Registering a message marks only the older change of the same document.
LEMMA ReceiveCancelInv == CancelInv /\ ReceiveMessage => CancelInv'
<1> SUFFICES ASSUME CancelInv, ReceiveMessage PROVE CancelInv' OBVIOUS
<1>1. TypeInv /\ TypeInv' BY ReceiveTypeInv DEF CancelInv
<1>2. PICK m \in ClientMessages : received' = Append(received, m) /\ Register(NewContext, m)
  BY DEF ReceiveMessage
<1>3. WellFormed(m) /\ m \in Message /\ Len(received) < MaxMessages
  BY ClientMessageType DEF WellFormed, ReceiveMessage, MayReceive
<1>4. ReceivedTypes(m) BY <1>1, <1>2, <1>3, ReceiveTypes
<1>5. UNCHANGED <<current, outcome, started, replies>>
  BY DEF ReceiveMessage, workerVars
<1>6. cancelled \subseteq cancelled' BY <1>2 DEF Register
<1>7. CancelledAnswersAreMarked'
  BY <1>5, <1>6 DEF CancelInv, CancelledAnswersAreMarked
<1>8. EditsAreDidChanges' BY <1>3, <1>4, CancelReceive
<1>9. MapsPointAtTheirKeys'
  <2>1. /\ activeRequests \in [Ids -> 0..Len(received)]
        /\ pendingDocumentChanges \in [Uris -> 0..Len(received)]
    BY <1>1 DEF TypeInv, TypeOK
  <2>2. received'[NewContext] = m BY <1>3, <1>4, CancelReceive
  <2>3. \A id \in Ids : activeRequests'[id] = activeRequests[id]
                          \/ (activeRequests'[id] = NewContext /\ m.id = id)
    <3>1. CASE m.id = NoId
      <4>1. activeRequests' = activeRequests BY <3>1, <1>2 DEF Register
      <4> QED BY <4>1
    <3>2. CASE m.id # NoId
      <4>1. activeRequests' = [activeRequests EXCEPT ![m.id] = NewContext]
        BY <3>2, <1>2 DEF Register
      <4> QED BY <4>1, <2>1
    <3> QED BY <3>1, <3>2
  <2>4. \A u \in Uris : pendingDocumentChanges'[u] = pendingDocumentChanges[u]
                          \/ (pendingDocumentChanges'[u] = NewContext /\ m.uri = u)
    <3>1. CASE m.uri = NoUri
      <4>1. pendingDocumentChanges' = pendingDocumentChanges BY <3>1, <1>2 DEF Register
      <4> QED BY <4>1
    <3>2. CASE m.uri # NoUri
      <4>1. pendingDocumentChanges' = [pendingDocumentChanges EXCEPT ![m.uri] = NewContext]
        BY <3>2, <1>2 DEF Register
      <4> QED BY <4>1, <2>1
    <3> QED BY <3>1, <3>2
  <2> QED BY <2>2, <2>3, <2>4, <1>3, <1>4, CancelReceive DEF MapsPointAtTheirKeys
\* The context that Register marks, when there is one.
<1>10. \A c \in cancelled' : c \in cancelled \/
           (m.uri \in Uris /\ c = pendingDocumentChanges[m.uri] /\ c # 0)
  BY <1>2, <1>3 DEF Register, Message
<1>11. \A c : m.uri \in Uris /\ c = pendingDocumentChanges[m.uri] /\ c # 0 =>
           /\ received[c].uri = m.uri
           /\ received[c].method = "textDocument/didChange"
           /\ c \in DOMAIN received
  <2>1. m.uri \in Uris => m.uri # NoUri BY ConstantsAssumption
  <2>2. \A u \in Uris : pendingDocumentChanges[u] \in 0..Len(received)
    BY <1>1 DEF TypeInv, TypeOK
  <2>3. DOMAIN received = 1..Len(received) /\ Len(received) \in Nat
    BY <1>1 DEF TypeInv, TypeOK
  <2> QED
    BY <2>1, <2>2, <2>3 DEF CancelInv, MapsPointAtTheirKeys, EditsAreDidChanges, WellFormed
<1>12. StartedUncancellable'
  <2> SUFFICES ASSUME NEW c \in started, ~Cancellable(c)', c \in cancelled' PROVE FALSE
    BY <1>5 DEF StartedUncancellable
  <2>1. received'[c] = received[c] BY <1>3, <1>4, CancelReceive
  <2>2. ~Cancellable(c) BY <2>1 DEF Cancellable
  <2>3. c \notin cancelled BY <2>2 DEF CancelInv, StartedUncancellable
  <2>4. received[c].method = "textDocument/didChange" BY <2>3, <1>10, <1>11
  <2> QED BY <2>2, <2>4 DEF Cancellable, TakesContext, CancellableMethods
<1>13. SupersededByNewer'
  <2> SUFFICES ASSUME NEW c \in cancelled', IsEdit(c)'
               PROVE  \E d \in DOMAIN received' : c < d /\ received'[d].uri = received'[c].uri
    BY DEF SupersededByNewer
  <2>1. CASE c \in cancelled
    BY <2>1, <1>3, <1>4, CancelReceive DEF CancelInv, SupersededByNewer, IsEdit
  <2>2. CASE m.uri \in Uris /\ c = pendingDocumentChanges[m.uri] /\ c # 0
    <3>1. c \in DOMAIN received /\ received[c].uri = m.uri BY <2>2, <1>11
    <3> QED BY <3>1, <1>3, <1>4, CancelReceive
  <2> QED BY <2>1, <2>2, <1>10
<1> QED BY <1>1, <1>7, <1>8, <1>9, <1>12, <1>13 DEF CancelInv

\* $/cancelRequest marks a request that has not started or takes a context.
LEMMA CancelRequestCancelInv ==
    ASSUME CancelInv, TypeInv', NEW id \in Ids, CancelRequest(id) PROVE CancelInv'
<1> DEFINE target == activeRequests[id]
<1>1. /\ target # 0 /\ MayCancel(target) /\ cancelled' = cancelled \cup {target}
      /\ UNCHANGED <<received, started, activeRequests, pendingDocumentChanges, current,
                     outcome, replies>>
  BY DEF CancelRequest, workerVars
<1>2. target \in DOMAIN received /\ received[target].id = id
  <2>1. activeRequests \in [Ids -> 0..Len(received)] /\ received \in Seq(Message)
    BY DEF CancelInv, TypeInv, TypeOK
  <2> QED BY <1>1, <2>1 DEF CancelInv, MapsPointAtTheirKeys
<1>3. ~IsEdit(target)
  BY <1>2, ConstantsAssumption DEF CancelInv, EditsAreDidChanges, WellFormed, IsEdit
<1>4. CancelledAnswersAreMarked'
  BY <1>1 DEF CancelInv, CancelledAnswersAreMarked
<1>5. StartedUncancellable'
  BY <1>1 DEF CancelInv, StartedUncancellable, MayCancel, Cancellable
<1>6. SupersededByNewer'
  BY <1>1, <1>3 DEF CancelInv, SupersededByNewer, IsEdit
<1>7. EditsAreDidChanges' /\ MapsPointAtTheirKeys'
  BY <1>1 DEF CancelInv, EditsAreDidChanges, MapsPointAtTheirKeys
<1> QED BY <1>4, <1>5, <1>6, <1>7 DEF CancelInv

\* Every step keeps the invariant.
LEMMA StepCancelInv == CancelInv /\ [Next]_vars => CancelInv'
<1> SUFFICES ASSUME CancelInv, [Next]_vars PROVE CancelInv' OBVIOUS
<1>1. TypeInv /\ TypeInv' BY StepTypeInv DEF CancelInv
<1> USE DEF readerVars, workerVars, cancelVars, docVars
<1>2. ASSUME UNCHANGED <<received, cancelled, started, activeRequests,
                         pendingDocumentChanges, current, outcome, replies>>
      PROVE  CancelInv'
  BY <1>1, <1>2, CancelFrame DEF CancelInv, CancelledAnswersAreMarked
<1>3. CASE \E id \in Ids : CancelRequest(id) BY <1>1, <1>3, CancelRequestCancelInv
<1>4. CASE ReceiveMessage BY <1>4, ReceiveCancelInv
<1>5. CASE HandleInitialize BY <1>5, InitializeCancelInv
<1>6. CASE RefuseBeforeInitialize BY <1>6, RefuseCancelInv DEF RefuseBeforeInitialize
<1>7. CASE RefuseAfterShutdown BY <1>7, RefuseCancelInv DEF RefuseAfterShutdown
<1>8. CASE ReaderWriteBody BY <1>2, <1>8 DEF ReaderWriteBody
<1>9. CASE PushMessage BY <1>2, <1>9 DEF PushMessage
<1>10. CASE NotifyWorker BY <1>2, <1>10 DEF NotifyWorker
<1>11. CASE ReceiveMalformed BY <1>2, <1>11 DEF ReceiveMalformed
<1>12. CASE EndOfInput BY <1>2, <1>12 DEF EndOfInput
<1>13. CASE NotifyFinish BY <1>2, <1>13 DEF NotifyFinish
<1>14. CASE JoinWorker BY <1>2, <1>14 DEF JoinWorker
<1>15. CASE WorkerWait BY <1>2, <1>15 DEF WorkerWait
<1>16. CASE LockState BY <1>2, <1>16 DEF LockState
<1>17. CASE ApplyChange BY <1>2, <1>17 DEF ApplyChange
<1>18. CASE Analyse BY <1>2, <1>18 DEF Analyse
<1>19. CASE PublishHeader BY <1>2, <1>19 DEF PublishHeader
<1>20. CASE PublishBody BY <1>2, <1>20 DEF PublishBody
<1>21. CASE ReplyHeader BY <1>2, <1>21 DEF ReplyHeader
<1>22. CASE WcpHeader BY <1>2, <1>22 DEF WcpHeader
<1>23. CASE WcpBody BY <1>2, <1>23 DEF WcpBody
<1>24. CASE UNCHANGED vars BY <1>2, <1>24 DEF vars
<1>25. CASE UnlockState
  BY <1>1, <1>25, CancelFrame DEF UnlockState, CancelInv, CancelledAnswersAreMarked
<1>26. CASE PopMessage
  <2>1. outcome = "none" /\ UNCHANGED <<outcome, replies, cancelled>>
    BY <1>1, <1>26 DEF PopMessage, TypeInv, OutcomeFits
  <2>2. CancelledAnswersAreMarked' BY <2>1 DEF CancelInv, CancelledAnswersAreMarked
  <2> QED BY <1>1, <1>26, <2>2, CancelFrame DEF PopMessage
<1>27. CASE StartMessage
  <2>1. CancelledAnswersAreMarked'
    BY <1>27 DEF StartMessage, CancelInv, CancelledAnswersAreMarked
  <2>2. started' = started \/ (started' = started \cup {current} /\ current \notin cancelled)
    BY <1>27 DEF StartMessage
  <2>3. UNCHANGED <<received, cancelled, activeRequests, pendingDocumentChanges>>
    BY <1>27 DEF StartMessage
  <2>4. StartedUncancellable'
    BY <2>2, <2>3 DEF CancelInv, StartedUncancellable, Cancellable
  <2> QED
    BY <1>1, <2>1, <2>3, <2>4 DEF CancelInv, EditsAreDidChanges, MapsPointAtTheirKeys,
       SupersededByNewer, IsEdit
<1>28. CASE RunHandler
  <2>1. CancelledAnswersAreMarked'
    BY <1>28 DEF RunHandler, CancelInv, CancelledAnswersAreMarked
  <2> QED BY <1>1, <1>28, <2>1, CancelFrame DEF RunHandler
<1>29. CASE Unregister
  <2>1. UNCHANGED <<received, cancelled, started, current, outcome, replies>>
    BY <1>29 DEF Unregister
  <2>2. /\ activeRequests \in [Ids -> 0..Len(received)]
        /\ pendingDocumentChanges \in [Uris -> 0..Len(received)]
    BY <1>1 DEF TypeInv, TypeOK
  <2>3. /\ \A id \in Ids : activeRequests'[id] \in {0, activeRequests[id]}
        /\ \A u \in Uris : pendingDocumentChanges'[u] \in {0, pendingDocumentChanges[u]}
    BY <1>29, <2>2 DEF Unregister, EraseIf
  <2> QED
    BY <1>1, <2>1, <2>3 DEF CancelInv, EditsAreDidChanges, MapsPointAtTheirKeys,
       SupersededByNewer, IsEdit, StartedUncancellable, Cancellable, CancelledAnswersAreMarked
<1>30. CASE ReplyBody
  <2>1. replies' = Append(replies, [ctx |-> current, kind |-> outcome])
        /\ UNCHANGED <<outcome, current, cancelled>>
    BY <1>30 DEF ReplyBody
  <2>2. CancelledAnswersAreMarked'
    BY <1>1, <2>1 DEF CancelInv, CancelledAnswersAreMarked, TypeInv, TypeOK
  <2> QED BY <1>1, <1>30, <2>2, CancelFrame DEF ReplyBody
<1> QED
  BY <1>3, <1>4, <1>5, <1>6, <1>7, <1>8, <1>9, <1>10, <1>11, <1>12, <1>13, <1>14, <1>15,
     <1>16, <1>17, <1>18, <1>19, <1>20, <1>21, <1>22, <1>23, <1>24, <1>25, <1>26, <1>27,
     <1>28, <1>29, <1>30 DEF Next, Reader, Worker, Terminated

\* The strengthened invariant holds of every behaviour.
LEMMA CancelCorrect == Spec => []CancelInv
BY InitCancelInv, StepCancelInv, PTL DEF Spec

\* A request whose handler takes no context is never abandoned once it has
\* begun, whatever cancellations race with its start.
THEOREM UncancellableTheorem == Spec => []UncancellableRunsToCompletion
<1>1. CancelInv => UncancellableRunsToCompletion
  BY DEF CancelInv, UncancellableRunsToCompletion, StartedUncancellable,
     CancelledAnswersAreMarked
<1> QED BY CancelCorrect, <1>1, PTL

\* The newest change of a document is never superseded, so its analysis runs.
THEOREM SupersededTheorem == Spec => []SupersededByNewer
<1>1. CancelInv => SupersededByNewer BY DEF CancelInv
<1> QED BY CancelCorrect, <1>1, PTL
----------------------------------------------------------------------------
(***************************************************************************)
(* The way of a message: from its registration over the queue and the      *)
(* worker to its one answer                                                *)
(***************************************************************************)

Queued(c) == \E i \in DOMAIN queue : queue[i] = c
IdleStates == {"absent", "idle", "asleep", "exited"}

\* Messages are handled in the order of their contexts, one at a time.
InOrder ==
    /\ \A i, j \in DOMAIN queue : i < j => queue[i] < queue[j]
    /\ \A i \in DOMAIN queue : current < queue[i]
    /\ reader = "push" => current < incoming /\ \A i \in DOMAIN queue : queue[i] < incoming
    /\ worker \in IdleStates => current = 0

\* No buffer holds a change that is still to be handled.
TextsBehind ==
    \A u \in Uris :
        /\ \A i \in DOMAIN queue : text[u] < queue[i]
        /\ current # 0 => text[u] <= current
        /\ reader = "push" => text[u] < incoming

\* What is answered is not handled again, and only requests have an outcome.
AnsweredIsOver ==
    /\ \A k \in DOMAIN replies :
           /\ ~Queued(replies[k].ctx)
           /\ reader = "push" => replies[k].ctx # incoming
           /\ replies[k].ctx = current => worker = "unlock"
    /\ outcome # "none" => IsRequest(current)

\* A request with a registered method is on its way or answered, and gets an
\* outcome.
NotLost ==
    /\ \A c \in DOMAIN received : Registered(c) =>
           /\ IsRequest(c)
           /\ \/ Answered(c)
              \/ Queued(c)
              \/ c = incoming /\ reader = "push"
              \/ c = current /\ worker # "unlock"
    /\ worker \in {"apply", "analyse", "publish", "publishBody"} => ~Registered(current)
    /\ worker = "unregister" /\ Registered(current) => outcome # "none"

\* The worker leaves with nothing queued, and after it nothing is queued.
Leaving ==
    /\ inputFinished => reader \in {"finish", "join", "returned"}
    /\ reader = "init" => ~inputFinished
    /\ worker = "absent" => reader \in {"init", "returned"} /\ queue = <<>>
    /\ worker = "exited" => inputFinished /\ queue = <<>>
    /\ reader = "returned" => worker \in {"absent", "exited"}

FlowInv ==
    /\ TypeInv
    /\ InOrder /\ TextsBehind
    /\ AnsweredIsOver /\ AtMostOneReply
    /\ NotLost /\ Leaving
    /\ PendingRequestCanBeCancelled

\* A queue that grows at its end keeps what it held.
LEMMA AppendFacts ==
    ASSUME NEW S, NEW s \in Seq(S), NEW x, NEW t, t = Append(s, x)
    PROVE  /\ Len(s) + 1 \in DOMAIN t /\ t[Len(s) + 1] = x
           /\ \A i \in DOMAIN s : i \in DOMAIN t /\ t[i] = s[i] /\ i < Len(s) + 1
           /\ \A i \in DOMAIN t : i \in DOMAIN s \/ i = Len(s) + 1
OBVIOUS

\* One that loses its head shifts the rest.
LEMMA TailFacts ==
    ASSUME NEW S, NEW s \in Seq(S), s # <<>>, NEW t, t = Tail(s)
    PROVE  /\ 1 \in DOMAIN s /\ Head(s) = s[1]
           /\ \A i \in DOMAIN t : i + 1 \in DOMAIN s /\ t[i] = s[i + 1] /\ i \in Nat /\ 1 < i + 1
           /\ \A i \in DOMAIN s : i \in Nat /\ (i = 1 \/ (i - 1 \in DOMAIN t /\ t[i - 1] = s[i]))
           /\ \A i, j \in DOMAIN t : i < j => i + 1 < j + 1
OBVIOUS

\* The contexts that the variables hold are natural numbers below the next one.
LEMMA ContextRanges ==
    ASSUME TypeInv
    PROVE  /\ Len(received) \in Nat /\ DOMAIN received = 1..Len(received)
           /\ current \in Nat /\ current < NewContext
           /\ incoming \in Nat /\ incoming < NewContext
           /\ \A i \in DOMAIN queue : queue[i] \in Nat /\ queue[i] < NewContext
           /\ \A k \in DOMAIN replies : replies[k].ctx \in 1..Len(received)
                                        /\ replies[k].ctx < NewContext
           /\ \A u \in Uris : text[u] \in Nat /\ text[u] < NewContext
<1> USE DEF NewContext
<1>1. Len(received) \in Nat /\ DOMAIN received = 1..Len(received)
  BY DEF TypeInv, TypeOK
<1>2. current \in 0..Len(received) /\ incoming \in 0..Len(received)
      /\ text \in [Uris -> 0..Len(received)]
  BY DEF TypeInv, TypeOK
<1>3. \A i \in DOMAIN queue : queue[i] \in 1..Len(received)
  BY DEF TypeInv, TypeOK
<1>4. \A k \in DOMAIN replies : replies[k] \in [ctx : 1..Len(received), kind : ReplyKinds]
  <2> DEFINE A == [ctx : 1..Len(received), kind : ReplyKinds]
  <2>1. replies \in Seq(A) BY DEF TypeInv, TypeOK
  <2> HIDE DEF A
  <2>2. \A k \in DOMAIN replies : replies[k] \in A BY <2>1
  <2> QED BY <2>2 DEF A
<1>5. \A k \in DOMAIN replies : replies[k].ctx \in 1..Len(received) BY <1>4
<1>6. \A c \in 0..Len(received) : c \in Nat /\ c < Len(received) + 1 BY <1>1
<1>7. \A u \in Uris : text[u] \in 0..Len(received) BY <1>2
<1> QED BY <1>1, <1>2, <1>3, <1>5, <1>6, <1>7

\* At the start nothing is on its way.
LEMMA InitFlowInv == Init => FlowInv
<1> SUFFICES ASSUME Init PROVE FlowInv OBVIOUS
<1>1. TypeInv BY InitTypeInv
<1> USE DEF Init
<1>2. InOrder /\ TextsBehind BY DEF InOrder, TextsBehind
<1>3. AnsweredIsOver /\ AtMostOneReply BY DEF AnsweredIsOver, AtMostOneReply
<1>4. NotLost BY DEF NotLost
<1>5. Leaving BY DEF Leaving
<1>6. PendingRequestCanBeCancelled BY DEF PendingRequestCanBeCancelled
<1> QED BY <1>1, <1>2, <1>3, <1>4, <1>5, <1>6 DEF FlowInv

(***************************************************************************)
(* The worker's steps.                                                     *)
(***************************************************************************)
\* A step that only takes the worker from one point of its work to the next.
LEMMA WorkerMoves ==
    ASSUME FlowInv, TypeInv',
           UNCHANGED <<reader, received, incoming, queue, inputFinished, current,
                       activeRequests, replies>>,
           TextsBehind',
           worker \in BusyStates \ {"unlock"}, worker' \in BusyStates \ {"unlock"},
           worker \in {"reply", "replyBody"} => worker' \in {"reply", "replyBody"},
           outcome' # "none" => IsRequest(current),
           worker' \in {"apply", "analyse", "publish", "publishBody"} => ~Registered(current),
           worker' = "unregister" /\ Registered(current) => outcome' # "none"
    PROVE  FlowInv'
<1> USE DEF BusyStates, WorkerStates, IdleStates, Queued
<1>1. InOrder' BY DEF FlowInv, InOrder
<1>2. AnsweredIsOver' BY DEF FlowInv, AnsweredIsOver, IsRequest
<1>3. AtMostOneReply' BY DEF FlowInv, AtMostOneReply, IsRequest
<1>4. NotLost' BY DEF FlowInv, NotLost, Registered, IsRequest, Answered
<1>5. Leaving' BY DEF FlowInv, Leaving
<1>6. PendingRequestCanBeCancelled'
  BY DEF FlowInv, PendingRequestCanBeCancelled, IsRequest, Pending
<1> QED BY <1>1, <1>2, <1>3, <1>4, <1>5, <1>6 DEF FlowInv

\* The oldest message leaves the queue and becomes the current one.
LEMMA PopFlow == FlowInv /\ TypeInv' /\ PopMessage => FlowInv'
<1> SUFFICES ASSUME FlowInv, TypeInv', PopMessage PROVE FlowInv' OBVIOUS
<1>1. /\ worker = "idle" /\ worker' = "popped" /\ current = 0 /\ outcome = "none"
      /\ UNCHANGED <<reader, received, incoming, inputFinished, outcome, activeRequests,
                     text, replies>>
  BY DEF PopMessage, WorkerGoesTo, readerVars, cancelVars, docVars, FlowInv, TypeInv,
     OutcomeFits, InOrder, IdleStates
<1>0. /\ queue \in Seq(1..Len(received)) /\ queue # <<>>
      /\ queue' = Tail(queue) /\ current' = Head(queue)
  BY DEF PopMessage, FlowInv, TypeInv, TypeOK
<1>2. /\ 1 \in DOMAIN queue /\ current' = queue[1]
      /\ \A i \in DOMAIN queue' : i + 1 \in DOMAIN queue /\ queue'[i] = queue[i + 1]
                                  /\ i \in Nat /\ 1 < i + 1
      /\ \A i \in DOMAIN queue : i \in Nat
             /\ (i = 1 \/ (i - 1 \in DOMAIN queue' /\ queue'[i - 1] = queue[i]))
      /\ \A i, j \in DOMAIN queue' : i < j => i + 1 < j + 1
  BY <1>0, TailFacts
<1>3. InOrder' BY <1>1, <1>2 DEF FlowInv, InOrder, IdleStates
<1>4. TextsBehind'
  <2>1. \A u \in Uris : text[u] \in Nat /\ text[u] <= current'
    BY <1>2, ContextRanges DEF FlowInv, TextsBehind
  <2> QED BY <1>1, <1>2, <2>1 DEF FlowInv, TextsBehind
<1>5. \A c : Queued(c)' => Queued(c) BY <1>2 DEF Queued
<1>6. \A c : Queued(c) => Queued(c)' \/ c = current' BY <1>2 DEF Queued
<1>7. Queued(current') BY <1>2 DEF Queued
<1>8. AnsweredIsOver' BY <1>1, <1>5, <1>7 DEF FlowInv, AnsweredIsOver
<1>9. AtMostOneReply' BY <1>1 DEF FlowInv, AtMostOneReply, IsRequest
<1>10. NotLost' BY <1>1, <1>6, ContextRanges DEF FlowInv, NotLost, Registered, IsRequest, Answered
<1>11. Leaving' BY <1>1 DEF FlowInv, Leaving
<1>12. \A c : Pending(c)' => Pending(c) BY <1>1, <1>5, <1>7 DEF Pending, Queued
<1>13. PendingRequestCanBeCancelled'
  BY <1>1, <1>12 DEF FlowInv, PendingRequestCanBeCancelled, IsRequest
<1> QED BY <1>3, <1>4, <1>8, <1>9, <1>10, <1>11, <1>13 DEF FlowInv

\* With nothing queued the worker sleeps or leaves.
LEMMA WaitFlow == FlowInv /\ TypeInv' /\ WorkerWait => FlowInv'
<1> SUFFICES ASSUME FlowInv, TypeInv', WorkerWait PROVE FlowInv' OBVIOUS
<1>1. /\ worker = "idle" /\ worker' \in {"asleep", "exited"} /\ queue = <<>>
      /\ worker' = "exited" => inputFinished
      /\ UNCHANGED <<reader, received, incoming, queue, inputFinished, current, outcome,
                     activeRequests, text, replies>>
  BY DEF WorkerWait, WorkerGoesTo, readerVars, cancelVars, docVars
<1> USE DEF IdleStates, Queued
<1>2. current = 0 BY <1>1 DEF FlowInv, InOrder
<1>3. InOrder' /\ TextsBehind' BY <1>1 DEF FlowInv, InOrder, TextsBehind
<1>4. AnsweredIsOver'
  BY <1>1, <1>2, ContextRanges DEF FlowInv, AnsweredIsOver, IsRequest
<1>5. AtMostOneReply' BY <1>1 DEF FlowInv, AtMostOneReply, IsRequest
<1>6. NotLost'
  BY <1>1, <1>2, ContextRanges DEF FlowInv, NotLost, Registered, IsRequest, Answered
<1>7. Leaving' BY <1>1 DEF FlowInv, Leaving
<1>8. PendingRequestCanBeCancelled'
  BY <1>1 DEF FlowInv, PendingRequestCanBeCancelled, IsRequest, Pending
<1> QED BY <1>3, <1>4, <1>5, <1>6, <1>7, <1>8 DEF FlowInv

\* A change that is installed is the newest so far: all that wait are newer.
LEMMA ApplyFlow == FlowInv /\ TypeInv' /\ ApplyChange => FlowInv'
<1> SUFFICES ASSUME FlowInv, TypeInv', ApplyChange PROVE FlowInv' OBVIOUS
<1>1. /\ worker = "apply" /\ worker' \in {"analyse", "unregister"}
      /\ text' = text \/ text' = [text EXCEPT ![received[current].uri] = current]
      /\ UNCHANGED <<reader, received, incoming, queue, inputFinished, current, outcome,
                     activeRequests, replies>>
  BY DEF ApplyChange, WorkerGoesTo, readerVars, cancelVars
<1>2. text \in [Uris -> 0..Len(received)] BY DEF FlowInv, TypeInv, TypeOK
<1>3. \A u \in Uris : text'[u] = text[u] \/ text'[u] = current BY <1>1, <1>2
<1>4. current # 0 BY <1>1 DEF FlowInv, TypeInv, WorkerHasMessage, BusyStates, WorkerStates
<1>5. TextsBehind'
  BY <1>1, <1>3, <1>4, ContextRanges DEF FlowInv, TextsBehind, InOrder
<1> QED
  BY <1>1, <1>5, WorkerMoves DEF FlowInv, NotLost, AnsweredIsOver, BusyStates, WorkerStates

\* The handler has returned: the table of requests forgets its message alone.
LEMMA UnregisterFlow == FlowInv /\ TypeInv' /\ Unregister => FlowInv'
<1> SUFFICES ASSUME FlowInv, TypeInv', Unregister PROVE FlowInv' OBVIOUS
<1>1. /\ worker = "unregister" /\ worker' = IF outcome = "none" THEN "unlock" ELSE "reply"
      /\ activeRequests' = EraseIf(activeRequests, received[current].id, current)
      /\ UNCHANGED <<reader, received, incoming, queue, inputFinished, current, outcome,
                     text, replies>>
  BY DEF Unregister, WorkerGoesTo, readerVars, docVars
<1>2. current # 0 BY <1>1 DEF FlowInv, TypeInv, WorkerHasMessage, BusyStates, WorkerStates
<1> USE DEF IdleStates, Queued
<1>3. InOrder' /\ TextsBehind' BY <1>1 DEF FlowInv, InOrder, TextsBehind
<1>4. AnsweredIsOver' BY <1>1 DEF FlowInv, AnsweredIsOver, IsRequest
<1>5. AtMostOneReply' BY <1>1 DEF FlowInv, AtMostOneReply, IsRequest
<1>6. NotLost' BY <1>1 DEF FlowInv, NotLost, Registered, IsRequest, Answered
<1>7. Leaving' BY <1>1 DEF FlowInv, Leaving
<1>8. PendingRequestCanBeCancelled'
  <2> SUFFICES ASSUME NEW c \in DOMAIN received, IsRequest(c), Pending(c)'
               PROVE  activeRequests'[received[c].id] = c
    BY <1>1 DEF PendingRequestCanBeCancelled, IsRequest
  <2>1. Pending(c) /\ c # current
    BY <1>1, ContextRanges DEF FlowInv, InOrder, Pending
  <2>2. activeRequests[received[c].id] = c
    BY <2>1 DEF FlowInv, PendingRequestCanBeCancelled
  <2>3. \A id : activeRequests'[id] = activeRequests[id] \/ activeRequests[id] = current
    BY <1>1 DEF EraseIf
  <2> QED BY <2>1, <2>2, <2>3
<1> QED BY <1>3, <1>4, <1>5, <1>6, <1>7, <1>8 DEF FlowInv

\* The answer is sent once, and nobody handles its message again.
LEMMA ReplyFlow == FlowInv /\ TypeInv' /\ ReplyBody => FlowInv'
<1> SUFFICES ASSUME FlowInv, TypeInv', ReplyBody PROVE FlowInv' OBVIOUS
<1>1. /\ worker = "replyBody" /\ worker' = "unlock"
      /\ replies' = Append(replies, [ctx |-> current, kind |-> outcome])
      /\ UNCHANGED <<reader, received, incoming, queue, inputFinished, current, outcome,
                     activeRequests, text>>
  BY DEF ReplyBody, WorkerGoesTo, readerVars, docVars, cancelVars
<1>2. outcome # "none" /\ IsRequest(current)
  BY <1>1 DEF FlowInv, TypeInv, OutcomeFits, AnsweredIsOver
<1>3. \A k \in DOMAIN replies : replies[k].ctx # current
  BY <1>1 DEF FlowInv, AnsweredIsOver
<1>4. \E n : /\ n \in DOMAIN replies' /\ replies'[n].ctx = current
             /\ \A k \in DOMAIN replies : k \in DOMAIN replies' /\ replies'[k] = replies[k]
             /\ \A k \in DOMAIN replies' : k \in DOMAIN replies \/ k = n
  <2> DEFINE A == [ctx : 1..Len(received), kind : ReplyKinds]
             x == [ctx |-> current, kind |-> outcome]
  <2>1. replies \in Seq(A) BY DEF FlowInv, TypeInv, TypeOK
  <2> HIDE DEF A, x
  <2>2. /\ Len(replies) + 1 \in DOMAIN replies' /\ replies'[Len(replies) + 1] = x
        /\ \A i \in DOMAIN replies : i \in DOMAIN replies' /\ replies'[i] = replies[i]
        /\ \A i \in DOMAIN replies' : i \in DOMAIN replies \/ i = Len(replies) + 1
    BY <1>1, <2>1, AppendFacts DEF x
  <2>3. x.ctx = current BY DEF x
  <2> QED BY <2>2, <2>3
<1> USE DEF IdleStates, Queued
<1>5. InOrder' /\ TextsBehind' BY <1>1 DEF FlowInv, InOrder, TextsBehind
<1>6. AnsweredIsOver'
  <2>1. ~Queued(current) /\ (reader = "push" => current # incoming)
    BY ContextRanges DEF FlowInv, InOrder
  <2> QED BY <1>1, <1>2, <1>4, <2>1 DEF FlowInv, AnsweredIsOver, IsRequest
<1>7. AtMostOneReply' BY <1>1, <1>2, <1>3, <1>4 DEF FlowInv, AtMostOneReply, IsRequest
<1>8. NotLost' BY <1>1, <1>4 DEF FlowInv, NotLost, Registered, IsRequest, Answered
<1>9. Leaving' BY <1>1 DEF FlowInv, Leaving
<1>10. PendingRequestCanBeCancelled'
  BY <1>1 DEF FlowInv, PendingRequestCanBeCancelled, IsRequest, Pending
<1> QED BY <1>5, <1>6, <1>7, <1>8, <1>9, <1>10 DEF FlowInv

\* The worker lets go of its message, which is answered if it has an answer.
LEMMA UnlockFlow == FlowInv /\ TypeInv' /\ UnlockState => FlowInv'
<1> SUFFICES ASSUME FlowInv, TypeInv', UnlockState PROVE FlowInv' OBVIOUS
<1>1. /\ worker = "unlock" /\ worker' = "idle" /\ current' = 0 /\ outcome' = "none"
      /\ UNCHANGED <<reader, received, incoming, queue, inputFinished, activeRequests,
                     text, replies>>
  BY DEF UnlockState, WorkerGoesTo, readerVars, docVars, cancelVars
<1> USE DEF IdleStates, Queued
<1>2. InOrder'
  <2>1. \A i \in DOMAIN queue : 0 < queue[i] BY DEF FlowInv, TypeInv, TypeOK
  <2>2. reader = "push" => 0 < incoming
    BY ContextRanges DEF FlowInv, InOrder
  <2> QED BY <1>1, <2>1, <2>2 DEF FlowInv, InOrder
<1>3. TextsBehind' BY <1>1 DEF FlowInv, TextsBehind
<1>4. AnsweredIsOver' BY <1>1, ContextRanges DEF FlowInv, AnsweredIsOver
<1>5. AtMostOneReply' BY <1>1 DEF FlowInv, AtMostOneReply, IsRequest
<1>6. NotLost'
  BY <1>1, ContextRanges DEF FlowInv, NotLost, Registered, IsRequest, Answered
<1>7. Leaving' BY <1>1 DEF FlowInv, Leaving
<1>8. PendingRequestCanBeCancelled'
  BY <1>1, ContextRanges DEF FlowInv, PendingRequestCanBeCancelled, IsRequest, Pending
<1> QED BY <1>2, <1>3, <1>4, <1>5, <1>6, <1>7, <1>8 DEF FlowInv

(***************************************************************************)
(* The reading thread's steps.                                             *)
(***************************************************************************)
\* The message that was registered joins the queue.
LEMMA PushFlow == FlowInv /\ TypeInv' /\ PushMessage => FlowInv'
<1> SUFFICES ASSUME FlowInv, TypeInv', PushMessage PROVE FlowInv' OBVIOUS
<1>1. /\ reader = "push" /\ reader' = "notify"
      /\ queue' = Append(queue, incoming)
      /\ UNCHANGED <<received, incoming, inputFinished, worker, current, outcome,
                     activeRequests, text, replies>>
  BY DEF PushMessage, workerVars, docVars, cancelVars
<1>2. queue \in Seq(1..Len(received)) BY DEF FlowInv, TypeInv, TypeOK
<1>3. /\ Len(queue) + 1 \in DOMAIN queue' /\ queue'[Len(queue) + 1] = incoming
      /\ \A i \in DOMAIN queue : i \in DOMAIN queue' /\ queue'[i] = queue[i] /\ i < Len(queue) + 1
      /\ \A i \in DOMAIN queue' : i \in DOMAIN queue \/ i = Len(queue) + 1
  BY <1>1, <1>2, AppendFacts
<1>4. /\ Len(queue) \in Nat
      /\ \A i \in DOMAIN queue : i \in Nat /\ ~(Len(queue) + 1 < i)
  BY <1>2
<1>5. \A c : Queued(c)' <=> (Queued(c) \/ c = incoming) BY <1>3 DEF Queued
<1>6. InOrder' BY <1>1, <1>3, <1>4 DEF FlowInv, InOrder, IdleStates
<1>7. TextsBehind' BY <1>1, <1>3 DEF FlowInv, TextsBehind
<1>8. AnsweredIsOver' BY <1>1, <1>5 DEF FlowInv, AnsweredIsOver, IsRequest
<1>9. AtMostOneReply' BY <1>1 DEF FlowInv, AtMostOneReply, IsRequest
<1>10. NotLost' BY <1>1, <1>5 DEF FlowInv, NotLost, Registered, IsRequest, Answered
<1>11. Leaving' BY <1>1 DEF FlowInv, Leaving
<1>12. PendingRequestCanBeCancelled'
  <2>1. \A c : Pending(c)' => Pending(c) BY <1>1, <1>5 DEF Pending, Queued
  <2> QED BY <1>1, <2>1 DEF FlowInv, PendingRequestCanBeCancelled, IsRequest
<1> QED BY <1>6, <1>7, <1>8, <1>9, <1>10, <1>11, <1>12 DEF FlowInv

\* The reader waking the worker, seeing the end of the input or waiting for
\* the worker moves no message.
LEMMA ReaderMoves ==
    ASSUME FlowInv, TypeInv', NotifyWorker \/ EndOfInput \/ NotifyFinish \/ JoinWorker
    PROVE  FlowInv'
<1>1. /\ reader # "push" /\ reader' # "push"
      /\ UNCHANGED <<received, queue, current, outcome, activeRequests, text, replies>>
      /\ worker' = worker \/ (worker = "asleep" /\ worker' = "idle")
  BY DEF NotifyWorker, EndOfInput, NotifyFinish, JoinWorker, Wake, workerVars, cancelVars,
     docVars
<1> USE DEF IdleStates, Queued
<1>2. InOrder' /\ TextsBehind' BY <1>1 DEF FlowInv, InOrder, TextsBehind
<1>3. AnsweredIsOver' BY <1>1 DEF FlowInv, AnsweredIsOver, IsRequest
<1>4. AtMostOneReply' BY <1>1 DEF FlowInv, AtMostOneReply, IsRequest
<1>5. NotLost' BY <1>1 DEF FlowInv, NotLost, Registered, IsRequest, Answered
<1>6. Leaving'
  <2>1. CASE NotifyWorker
    BY <2>1 DEF NotifyWorker, Wake, FlowInv, Leaving
  <2>2. CASE EndOfInput
    BY <2>2 DEF EndOfInput, workerVars, FlowInv, Leaving, TypeInv, OutcomeFits
  <2>3. CASE NotifyFinish BY <2>3 DEF NotifyFinish, Wake, FlowInv, Leaving
  <2>4. CASE JoinWorker BY <2>4 DEF JoinWorker, workerVars, FlowInv, Leaving
  <2> QED BY <2>1, <2>2, <2>3, <2>4
<1>7. PendingRequestCanBeCancelled'
  BY <1>1 DEF FlowInv, PendingRequestCanBeCancelled, IsRequest, Pending
<1> QED BY <1>2, <1>3, <1>4, <1>5, <1>6, <1>7 DEF FlowInv

\* A message with a registered method that a client may send is a request, and
\* its id is not in use.
LEMMA RequestsHaveFreeIds ==
    /\ \A m \in ClientMessages : IsRegistered(m) => m.id # NoId
    /\ \A m \in ClientMessages : m.id # NoId => m.id \in FreeIds
    /\ \A m \in ClientRequests : m.id # NoId
    /\ \A id \in FreeIds : Request("initialize", id).id # NoId
BY ConstantsAssumption
   DEF ClientMessages, ClientRequests, FreeIds, Request, DidChange, Notification,
       IsRegistered, RequestMethods

\* What a new message leaves as it was.
LEMMA ArrivalFacts ==
    ASSUME FlowInv, NEW m, ReceivedTypes(m)
    PROVE  /\ NewContext \in DOMAIN received' /\ received'[NewContext] = m
           /\ \A c \in DOMAIN received : c \in DOMAIN received' /\ received'[c] = received[c]
           /\ \A c \in DOMAIN received' : c \in DOMAIN received \/ c = NewContext
           /\ NewContext \notin DOMAIN received
           /\ \A c \in DOMAIN replies : replies[c].ctx \in DOMAIN received
           /\ current # 0 => current \in DOMAIN received
           /\ outcome # "none" => received'[current].id # NoId
<1>1. received \in Seq(Message) /\ received' \in Seq(Message)
  BY DEF FlowInv, TypeInv, TypeOK, ReceivedTypes
<1>2. /\ DOMAIN received = 1..Len(received) /\ DOMAIN received' = 1..Len(received')
      /\ Len(received) \in Nat /\ Len(received') = Len(received) + 1
      /\ NewContext = Len(received) + 1
  BY <1>1 DEF ReceivedTypes
<1>3. \A c \in DOMAIN received : c \in DOMAIN received' /\ received'[c] = received[c]
  BY <1>2 DEF ReceivedTypes
<1>4. outcome # "none" => current # 0 /\ IsRequest(current)
  BY DEF FlowInv, AnsweredIsOver, TypeInv, TypeOK, OutcomeFits, WorkerHasMessage, BusyStates
<1>5. current # 0 => current \in DOMAIN received BY <1>2 DEF FlowInv, TypeInv, TypeOK
<1>6. \A k \in DOMAIN replies : replies[k].ctx \in DOMAIN received
  BY ContextRanges DEF FlowInv
<1>7. /\ NewContext \in DOMAIN received' /\ received'[NewContext] = m
      /\ \A c \in DOMAIN received' : c \in DOMAIN received \/ c = NewContext
      /\ NewContext \notin DOMAIN received
  BY <1>2 DEF ReceivedTypes
<1> QED BY <1>3, <1>4, <1>5, <1>6, <1>7 DEF IsRequest

\* A message is registered: a request is found under its id from now on.
LEMMA ReceiveFlow == FlowInv /\ TypeInv' /\ ReceiveMessage => FlowInv'
<1> SUFFICES ASSUME FlowInv, TypeInv', ReceiveMessage PROVE FlowInv' OBVIOUS
<1>1. PICK m \in ClientMessages : received' = Append(received, m) /\ Register(NewContext, m)
  BY DEF ReceiveMessage
<1>2. m \in Message /\ Len(received) < MaxMessages
  BY ClientMessageType DEF WellFormed, ReceiveMessage, MayReceive
<1>3. ReceivedTypes(m) BY <1>1, <1>2, ReceiveTypes DEF FlowInv
<1>4. /\ reader = "read" /\ reader' = "push" /\ incoming' = NewContext
      /\ UNCHANGED <<queue, inputFinished, worker, current, outcome, text, replies>>
  BY DEF ReceiveMessage, workerVars, docVars
<1>5. InOrder' BY <1>4, ContextRanges DEF FlowInv, InOrder
<1>6. TextsBehind' BY <1>4, ContextRanges DEF FlowInv, TextsBehind
<1>7. AnsweredIsOver'
  BY <1>3, <1>4, ArrivalFacts, ContextRanges DEF FlowInv, AnsweredIsOver, Queued, IsRequest
<1>8. AtMostOneReply' BY <1>3, <1>4, ArrivalFacts DEF FlowInv, AtMostOneReply, IsRequest
<1>9. NotLost'
  <2>1. \A c \in DOMAIN received' : Registered(c)' =>
           /\ IsRequest(c)'
           /\ \/ Answered(c)' \/ Queued(c)'
              \/ c = incoming' /\ reader' = "push"
              \/ c = current' /\ worker' # "unlock"
    <3> SUFFICES ASSUME NEW c \in DOMAIN received', Registered(c)'
                 PROVE  /\ IsRequest(c)'
                        /\ \/ Answered(c)' \/ Queued(c)'
                           \/ c = incoming' /\ reader' = "push"
                           \/ c = current' /\ worker' # "unlock"
      OBVIOUS
    <3>1. CASE c \in DOMAIN received
      BY <3>1, <1>3, <1>4, ArrivalFacts
         DEF FlowInv, NotLost, Answered, Queued, IsRequest, Registered
    <3>2. CASE c = NewContext
      <4>1. received'[c] = m BY <3>2, <1>3, ArrivalFacts
      <4>2. IsRequest(c)' BY <4>1, RequestsHaveFreeIds DEF Registered, IsRequest
      <4> QED BY <3>2, <4>2, <1>4
    <3> QED BY <3>1, <3>2, <1>3, ArrivalFacts
  <2>2. worker \notin IdleStates => current \in DOMAIN received
    BY <1>3, ArrivalFacts DEF FlowInv, TypeInv, TypeOK, WorkerHasMessage, BusyStates, IdleStates
  <2> QED BY <1>3, <1>4, <2>1, <2>2, ArrivalFacts DEF FlowInv, NotLost, IdleStates, Registered
<1>10. Leaving' BY <1>4 DEF FlowInv, Leaving
<1>11. PendingRequestCanBeCancelled'
  <2> SUFFICES ASSUME NEW c \in DOMAIN received', IsRequest(c)', Pending(c)'
               PROVE  activeRequests'[received'[c].id] = c
    BY DEF PendingRequestCanBeCancelled
  <2>1. /\ activeRequests \in [Ids -> 0..Len(received)]
        /\ activeRequests' = IF m.id = NoId THEN activeRequests
                             ELSE [activeRequests EXCEPT ![m.id] = NewContext]
        /\ m.id # NoId => m.id \in Ids /\ ~Outstanding(m.id)
    BY <1>1, RequestsHaveFreeIds DEF Register, FreeIds, FlowInv, TypeInv, TypeOK
  <2>2. CASE c = NewContext
    <3>1. received'[c] = m BY <2>2, <1>3, ArrivalFacts
    <3> QED BY <2>1, <2>2, <3>1 DEF IsRequest
  <2>3. CASE c \in DOMAIN received
    <3>1. received'[c] = received[c] /\ IsRequest(c) BY <2>3, <1>3, ArrivalFacts DEF IsRequest
    <3>2. c # NewContext BY <2>3, <1>3, ArrivalFacts
    <3>3. Pending(c) BY <3>2, <1>4 DEF Pending
    <3>4. activeRequests[received[c].id] = c
      BY <2>3, <3>1, <3>3 DEF FlowInv, PendingRequestCanBeCancelled
    <3>5. ~Answered(c)
      BY <2>3, <3>3, <1>4 DEF FlowInv, AnsweredIsOver, Answered, Pending, Queued
    <3>6. m.id = NoId \/ received[c].id # m.id BY <2>1, <2>3, <3>5 DEF Outstanding
    <3> QED BY <2>1, <3>1, <3>4, <3>6
  <2> QED BY <2>2, <2>3, <1>3, ArrivalFacts
<1> QED BY <1>5, <1>6, <1>7, <1>8, <1>9, <1>10, <1>11 DEF FlowInv

\* A request that is answered on arrival is over on arrival.
LEMMA AnswerAtOnceFlow ==
    ASSUME FlowInv, TypeInv', NEW m \in Message, m.id # NoId, ReceivedTypes(m), NEW kind,
           replies' = Append(replies, [ctx |-> NewContext, kind |-> kind]),
           UNCHANGED <<incoming, queue, inputFinished, current, outcome, activeRequests,
                       text>>,
           InOrder', Leaving', reader # "push", reader' # "push",
           worker' = worker \/ (worker = "absent" /\ worker' = "idle")
    PROVE  FlowInv'
<1>1. \E n : /\ n \in DOMAIN replies' /\ replies'[n].ctx = NewContext
             /\ \A k \in DOMAIN replies : k \in DOMAIN replies' /\ replies'[k] = replies[k]
             /\ \A k \in DOMAIN replies' : k \in DOMAIN replies \/ k = n
  <2> DEFINE A == [ctx : 1..Len(received), kind : ReplyKinds]
             x == [ctx |-> NewContext, kind |-> kind]
  <2>1. replies \in Seq(A) BY DEF FlowInv, TypeInv, TypeOK
  <2> HIDE DEF A, x
  <2>2. /\ Len(replies) + 1 \in DOMAIN replies' /\ replies'[Len(replies) + 1] = x
        /\ \A i \in DOMAIN replies : i \in DOMAIN replies' /\ replies'[i] = replies[i]
        /\ \A i \in DOMAIN replies' : i \in DOMAIN replies \/ i = Len(replies) + 1
    BY <2>1, AppendFacts DEF x
  <2>3. x.ctx = NewContext BY DEF x
  <2> QED BY <2>2, <2>3
<1>2. received'[NewContext] = m /\ received'[NewContext].id # NoId
  BY ArrivalFacts
<1>3. ~Queued(NewContext) /\ current # NewContext
  BY ContextRanges DEF FlowInv, Queued
<1>4. TextsBehind' BY DEF FlowInv, TextsBehind
<1>5. AnsweredIsOver'
  BY <1>1, <1>2, <1>3, ArrivalFacts, ContextRanges DEF FlowInv, AnsweredIsOver, Queued, IsRequest
<1>6. AtMostOneReply'
  <2>1. \A i \in DOMAIN replies : replies[i].ctx # NewContext BY ArrivalFacts
  <2>2. \A i, j \in DOMAIN replies' : replies'[i].ctx = replies'[j].ctx => i = j
    BY <1>1, <2>1 DEF FlowInv, AtMostOneReply
  <2>3. \A i \in DOMAIN replies' : received'[replies'[i].ctx].id # NoId
    BY <1>1, <1>2, ArrivalFacts DEF FlowInv, AtMostOneReply, IsRequest
  <2> QED BY <2>2, <2>3 DEF AtMostOneReply, IsRequest
<1>7. NotLost'
  <2>1. \A c \in DOMAIN received' : Registered(c)' =>
           /\ IsRequest(c)'
           /\ \/ Answered(c)' \/ Queued(c)'
              \/ c = current' /\ worker' # "unlock"
    BY <1>1, <1>2, ArrivalFacts DEF FlowInv, NotLost, Answered, Queued, IsRequest, Registered
  <2>2. worker \notin IdleStates => current \in DOMAIN received
    BY ArrivalFacts DEF FlowInv, TypeInv, TypeOK, WorkerHasMessage, BusyStates, IdleStates
  <2> QED BY <2>1, <2>2, ArrivalFacts DEF FlowInv, NotLost, IdleStates, Registered
<1>8. PendingRequestCanBeCancelled'
  <2> SUFFICES ASSUME NEW c \in DOMAIN received', IsRequest(c)', Pending(c)'
               PROVE  activeRequests'[received'[c].id] = c
    BY DEF PendingRequestCanBeCancelled
  <2>1. c # NewContext /\ Pending(c)
    <3>1. c # 0 BY ContextRanges DEF ReceivedTypes
    <3>2. worker = "absent" => current = 0 BY DEF FlowInv, InOrder, IdleStates
    <3> QED BY <1>3, <3>1, <3>2 DEF Pending, Queued
  <2>2. c \in DOMAIN received BY <2>1, ArrivalFacts
  <2> QED
    BY <2>1, <2>2, ArrivalFacts DEF FlowInv, PendingRequestCanBeCancelled, IsRequest
<1> QED BY <1>4, <1>5, <1>6, <1>7, <1>8 DEF FlowInv

\* initialize is answered before there is a worker.
LEMMA InitializeFlow == FlowInv /\ TypeInv' /\ HandleInitialize => FlowInv'
<1> SUFFICES ASSUME FlowInv, TypeInv', HandleInitialize PROVE FlowInv' OBVIOUS
<1>1. PICK id \in FreeIds : received' = Append(received, Request("initialize", id))
  BY DEF HandleInitialize
<1>2. PICK kind \in {"result", "error"} :
          replies' = Append(replies, [ctx |-> NewContext, kind |-> kind])
  BY DEF HandleInitialize
<1> DEFINE m == Request("initialize", id)
<1>3. m \in Message /\ m.id # NoId /\ Len(received) < MaxMessages
  BY ClientMessageType, RequestsHaveFreeIds DEF WellFormed, HandleInitialize, MayReceive
<1>4. ReceivedTypes(m) BY <1>1, <1>3, ReceiveTypes DEF FlowInv
<1>5. /\ reader = "init" /\ reader' = "read" /\ worker = "absent" /\ worker' = "idle"
      /\ UNCHANGED <<incoming, queue, inputFinished, current, outcome, activeRequests, text>>
  BY DEF HandleInitialize, cancelVars, docVars, FlowInv, TypeInv, OutcomeFits
<1>6. InOrder' BY <1>5 DEF FlowInv, InOrder, IdleStates
<1>7. Leaving' BY <1>5 DEF FlowInv, Leaving
<1> HIDE DEF m
<1> QED BY <1>2, <1>3, <1>4, <1>5, <1>6, <1>7, AnswerAtOnceFlow

\* A refused request is over; a refused notification was never received.
LEMMA RefuseFlow ==
    ASSUME FlowInv, TypeInv', RefuseBeforeInitialize \/ RefuseAfterShutdown PROVE FlowInv'
<1>1. PICK kind \in {"notInitialized", "invalidRequest"} : Refuse(kind)
  BY DEF RefuseBeforeInitialize, RefuseAfterShutdown
<1>2. /\ reader # "push"
      /\ UNCHANGED <<reader, incoming, queue, inputFinished, worker, current, outcome,
                     activeRequests, text>>
  BY DEF RefuseBeforeInitialize, RefuseAfterShutdown, readerVars, workerVars, cancelVars,
     docVars
<1>3. InOrder' BY <1>2 DEF FlowInv, InOrder
<1>4. Leaving' BY <1>2 DEF FlowInv, Leaving
<1>5. CASE UNCHANGED <<received, replies>>
  <2> USE <1>2, <1>5 DEF Queued
  <2>1. TextsBehind' /\ AnsweredIsOver' /\ AtMostOneReply'
    BY DEF FlowInv, TextsBehind, AnsweredIsOver, AtMostOneReply, IsRequest
  <2>2. NotLost' BY DEF FlowInv, NotLost, Registered, IsRequest, Answered
  <2>3. PendingRequestCanBeCancelled'
    BY DEF FlowInv, PendingRequestCanBeCancelled, IsRequest, Pending
  <2> QED BY <1>3, <1>4, <2>1, <2>2, <2>3 DEF FlowInv
<1>6. CASE \E m \in ClientRequests :
               /\ received' = Append(received, m)
               /\ replies' = Append(replies, [ctx |-> NewContext, kind |-> kind])
  <2>1. PICK m \in ClientRequests :
               /\ received' = Append(received, m)
               /\ replies' = Append(replies, [ctx |-> NewContext, kind |-> kind])
    BY <1>6
  <2>2. m \in Message /\ m.id # NoId /\ Len(received) < MaxMessages
    BY <1>1, ClientMessageType, RequestsHaveFreeIds DEF WellFormed, Refuse, MayReceive
  <2>3. ReceivedTypes(m) BY <2>1, <2>2, ReceiveTypes DEF FlowInv
  <2> QED BY <1>2, <1>3, <1>4, <2>1, <2>2, <2>3, AnswerAtOnceFlow
<1> QED BY <1>1, <1>5, <1>6 DEF Refuse

(***************************************************************************)
(* Every step, and what follows.                                           *)
(***************************************************************************)
\* processMessage decides what becomes of the message; the decision for a
\* request with a registered method is a handler or an outcome.
LEMMA StartFlow == FlowInv /\ TypeInv' /\ StartMessage => FlowInv'
<1> SUFFICES ASSUME FlowInv, TypeInv', StartMessage PROVE FlowInv' OBVIOUS
<1>1. /\ worker = "process" /\ worker' \in {"apply", "handle", "unregister"}
      /\ UNCHANGED <<reader, received, incoming, queue, inputFinished, current,
                     activeRequests, text, replies>>
  BY DEF StartMessage, WorkerGoesTo, readerVars, cancelVars, docVars
<1>2. current \in DOMAIN received
  BY <1>1 DEF FlowInv, TypeInv, TypeOK, WorkerHasMessage, BusyStates, WorkerStates
<1>3. Registered(current) => IsRequest(current) BY <1>2 DEF FlowInv, NotLost
<1>4. outcome' # "none" => IsRequest(current)
  BY <1>3 DEF StartMessage, FlowInv, AnsweredIsOver
<1>5. /\ worker' = "apply" => ~Registered(current)
      /\ worker' = "unregister" /\ Registered(current) => outcome' # "none"
  BY <1>3 DEF StartMessage, WorkerGoesTo
<1>6. TextsBehind' BY <1>1 DEF FlowInv, TextsBehind
<1> QED BY <1>1, <1>4, <1>5, <1>6, WorkerMoves DEF BusyStates, WorkerStates

\* A request's handler leaves an outcome.
LEMMA RunFlow == FlowInv /\ TypeInv' /\ RunHandler => FlowInv'
<1> SUFFICES ASSUME FlowInv, TypeInv', RunHandler PROVE FlowInv' OBVIOUS
<1>1. /\ worker = "handle" /\ worker' = "unregister"
      /\ UNCHANGED <<reader, received, incoming, queue, inputFinished, current,
                     activeRequests, text, replies>>
  BY DEF RunHandler, WorkerGoesTo, readerVars, cancelVars, docVars
<1>2. current \in DOMAIN received
  BY <1>1 DEF FlowInv, TypeInv, TypeOK, WorkerHasMessage, BusyStates, WorkerStates
<1>3. Registered(current) => IsRequest(current) BY <1>2 DEF FlowInv, NotLost
<1>4. outcome' # "none" <=> IsRequest(current)
  BY DEF RunHandler, FlowInv, AnsweredIsOver
<1>5. TextsBehind' BY <1>1 DEF FlowInv, TextsBehind
<1> QED BY <1>1, <1>3, <1>4, <1>5, WorkerMoves DEF BusyStates, WorkerStates

\* The steps of the worker that only move it.
LEMMA PlainWorkerFlow ==
    ASSUME FlowInv, TypeInv',
           LockState \/ Analyse \/ PublishHeader \/ PublishBody \/ ReplyHeader
    PROVE  FlowInv'
<1>1. UNCHANGED <<reader, received, incoming, queue, inputFinished, current, outcome,
                  activeRequests, text, replies>>
  BY DEF LockState, Analyse, PublishHeader, PublishBody, ReplyHeader, readerVars, cancelVars,
     docVars
<1>2. \/ worker = "popped" /\ worker' = "process"
      \/ worker = "analyse" /\ worker' \in {"unregister", "publish"}
      \/ worker = "publish" /\ worker' = "publishBody"
      \/ worker = "publishBody" /\ worker' = "unregister"
      \/ worker = "reply" /\ worker' = "replyBody"
  BY DEF LockState, Analyse, PublishHeader, PublishBody, ReplyHeader, WorkerGoesTo
<1>3. TextsBehind' BY <1>1 DEF FlowInv, TextsBehind
<1>4. outcome # "none" => IsRequest(current) BY DEF FlowInv, AnsweredIsOver
<1>5. worker \in {"apply", "analyse", "publish", "publishBody"} => ~Registered(current)
  BY DEF FlowInv, NotLost
<1> QED BY <1>1, <1>2, <1>3, <1>4, <1>5, WorkerMoves DEF BusyStates, WorkerStates

\* A step of which the invariant does not speak.
LEMMA QuietFlow ==
    ASSUME FlowInv, TypeInv',
           UNCHANGED <<reader, received, incoming, queue, inputFinished, worker, current,
                       outcome, activeRequests, text, replies>>
    PROVE  FlowInv'
<1>1. InOrder' /\ TextsBehind' /\ Leaving' BY DEF FlowInv, InOrder, TextsBehind, Leaving
<1>2. AnsweredIsOver' /\ AtMostOneReply'
  BY DEF FlowInv, AnsweredIsOver, AtMostOneReply, IsRequest, Queued
<1>3. NotLost' BY DEF FlowInv, NotLost, Registered, IsRequest, Answered, Queued
<1>4. PendingRequestCanBeCancelled'
  BY DEF FlowInv, PendingRequestCanBeCancelled, IsRequest, Pending
<1> QED BY <1>1, <1>2, <1>3, <1>4 DEF FlowInv

\* Every step keeps the invariant.
LEMMA StepFlowInv == FlowInv /\ [Next]_vars => FlowInv'
<1> SUFFICES ASSUME FlowInv, [Next]_vars PROVE FlowInv' OBVIOUS
<1>1. TypeInv' BY StepTypeInv DEF FlowInv
<1>2. CASE \/ ReaderWriteBody \/ (\E id \in Ids : CancelRequest(id)) \/ ReceiveMalformed
           \/ WcpHeader \/ WcpBody \/ UNCHANGED vars
  <2>1. UNCHANGED <<reader, received, incoming, queue, inputFinished, worker, current,
                    outcome, activeRequests, text, replies>>
    BY <1>2 DEF ReaderWriteBody, CancelRequest, ReceiveMalformed, WcpHeader, WcpBody, vars,
       readerVars, workerVars, cancelVars, docVars
  <2> QED BY <1>1, <2>1, QuietFlow
<1>3. CASE RefuseBeforeInitialize \/ RefuseAfterShutdown BY <1>1, <1>3, RefuseFlow
<1>4. CASE HandleInitialize BY <1>1, <1>4, InitializeFlow
<1>5. CASE ReceiveMessage BY <1>1, <1>5, ReceiveFlow
<1>6. CASE PushMessage BY <1>1, <1>6, PushFlow
<1>7. CASE NotifyWorker \/ EndOfInput \/ NotifyFinish \/ JoinWorker BY <1>1, <1>7, ReaderMoves
<1>8. CASE PopMessage BY <1>1, <1>8, PopFlow
<1>9. CASE WorkerWait BY <1>1, <1>9, WaitFlow
<1>10. CASE StartMessage BY <1>1, <1>10, StartFlow
<1>11. CASE RunHandler BY <1>1, <1>11, RunFlow
<1>12. CASE ApplyChange BY <1>1, <1>12, ApplyFlow
<1>13. CASE LockState \/ Analyse \/ PublishHeader \/ PublishBody \/ ReplyHeader
  BY <1>1, <1>13, PlainWorkerFlow
<1>14. CASE Unregister BY <1>1, <1>14, UnregisterFlow
<1>15. CASE ReplyBody BY <1>1, <1>15, ReplyFlow
<1>16. CASE UnlockState BY <1>1, <1>16, UnlockFlow
<1> QED
  BY <1>2, <1>3, <1>4, <1>5, <1>6, <1>7, <1>8, <1>9, <1>10, <1>11, <1>12, <1>13, <1>14,
     <1>15, <1>16 DEF Next, Reader, Worker, Terminated

\* It holds of every behaviour.
LEMMA FlowCorrect == Spec => []FlowInv
BY InitFlowInv, StepFlowInv, PTL DEF Spec

\* Each request is answered at most once, and nothing else is, however the
\* reader's refusals and the worker's answers interleave.
THEOREM AtMostOneReplyTheorem == Spec => []AtMostOneReply
<1>1. FlowInv => AtMostOneReply BY DEF FlowInv
<1> QED BY FlowCorrect, <1>1, PTL

\* A cancellation finds every request that waits or runs, though it may arrive
\* between the registration and the push and though ids are reused.
THEOREM PendingRequestTheorem == Spec => []PendingRequestCanBeCancelled
<1>1. FlowInv => PendingRequestCanBeCancelled BY DEF FlowInv
<1> QED BY FlowCorrect, <1>1, PTL

\* run() returns with an empty queue and every registered request answered: the
\* worker drains the queue before it heeds the end of the input.
THEOREM NothingDroppedTheorem == Spec => []NothingDroppedAtExit
<1>1. FlowInv => NothingDroppedAtExit
  <2> SUFFICES ASSUME FlowInv, reader = "returned" PROVE queue = <<>> /\ current = 0
                   /\ \A c \in DOMAIN received : Registered(c) => Answered(c)
    BY DEF NothingDroppedAtExit
  <2>1. queue = <<>> /\ worker \in {"absent", "exited"} BY DEF FlowInv, Leaving
  <2>2. current = 0 BY <2>1 DEF FlowInv, InOrder, IdleStates
  <2>3. \A c \in DOMAIN received : c # 0 BY ContextRanges DEF FlowInv
  <2> QED BY <2>1, <2>2, <2>3 DEF FlowInv, NotLost, Queued
<1> QED BY FlowCorrect, <1>1, PTL

\* The handler of didChange installs the changes of a document in the order
\* they arrived: no step takes a buffer back.
THEOREM EditsInOrderTheorem == Spec => EditsApplyInOrder
<1>1. FlowInv /\ [Next]_vars => [\A u \in Uris : text'[u] >= text[u]]_vars
  <2> SUFFICES ASSUME FlowInv, [Next]_vars, NEW u \in Uris PROVE text'[u] >= text[u]
    OBVIOUS
  <2>1. text[u] \in Nat BY ContextRanges DEF FlowInv
  <2>2. CASE ApplyChange
    <3>1. text \in [Uris -> 0..Len(received)] BY DEF FlowInv, TypeInv, TypeOK
    <3>2. text'[u] = text[u] \/ text'[u] = current BY <2>2, <3>1 DEF ApplyChange
    <3>3. current # 0
      BY <2>2 DEF ApplyChange, FlowInv, TypeInv, WorkerHasMessage, BusyStates, WorkerStates
    <3> QED BY <2>1, <3>2, <3>3, ContextRanges DEF FlowInv, TextsBehind
  <2>3. CASE ~ApplyChange
    <3>1. text' = text
      BY <2>3 DEF Next, Reader, Worker, Terminated, vars, docVars, ReaderWriteBody,
         RefuseBeforeInitialize, HandleInitialize, ReceiveMessage, PushMessage, NotifyWorker,
         CancelRequest, ReceiveMalformed, RefuseAfterShutdown, EndOfInput, NotifyFinish,
         JoinWorker, PopMessage, WorkerWait, LockState, StartMessage, RunHandler, Analyse,
         PublishHeader, PublishBody, Unregister, ReplyHeader, ReplyBody, UnlockState,
         WcpHeader, WcpBody
    <3> QED BY <2>1, <3>1
  <2> QED BY <2>2, <2>3
<1> QED BY FlowCorrect, <1>1, PTL DEF Spec, EditsApplyInOrder

(***************************************************************************)
(* Edits.  Once every change of a document is handled its buffer holds the *)
(* newest change whose handler did not throw, or a newer one, and its      *)
(* diagnostics are those of the buffer: an analysis is abandoned only for  *)
(* a newer change or by an exception.                                      *)
(***************************************************************************)
Arriving(c) ==
    \/ Queued(c)
    \/ c = incoming /\ reader = "push"
    \/ c = current /\ worker \in {"popped", "process", "apply"}

\* A change arrives until it fails or reaches the buffer.
EditsArrive ==
    \A u \in Uris : \A c \in Edits(u) :
        c \in failed \/ c <= text[u] \/ Arriving(c)

AnalysingStates == {"analyse", "publish", "publishBody"}

\* The handler of didChange is at the document that the change names.
HandlesItsEdit ==
    /\ worker \in {"apply"} \cup AnalysingStates => IsEdit(current)
    /\ worker \in AnalysingStates => text[received[current].uri] = current

\* The diagnostics are those of the buffer, or are being made, or there is a
\* newer change, or their making threw.
Unanalysed(u) == \E c \in Edits(u) : c > text[u] \/ (c \in failed /\ c = text[u])
AnalysedUnlessNewer ==
    \A u \in Uris :
        \/ analysed[u] = text[u]
        \/ worker \in AnalysingStates /\ received[current].uri = u
        \/ Unanalysed(u)

EditsInv == CancelInv /\ FlowInv /\ EditsArrive /\ HandlesItsEdit /\ AnalysedUnlessNewer

\* Before any message the buffers are as they were analysed.
LEMMA InitEditsInv == Init => EditsInv
<1> SUFFICES ASSUME Init PROVE EditsInv OBVIOUS
<1>1. CancelInv /\ FlowInv BY InitCancelInv, InitFlowInv
<1>2. EditsArrive /\ HandlesItsEdit /\ AnalysedUnlessNewer
  BY DEF Init, EditsArrive, HandlesItsEdit, AnalysedUnlessNewer, Unanalysed, Edits, AnalysingStates
<1> QED BY <1>1, <1>2 DEF EditsInv

\* A step that leaves the documents alone, no change behind and no analysis
\* unfinished.
LEMMA EditsFrame ==
    ASSUME EditsInv, CancelInv', FlowInv', HandlesItsEdit',
           UNCHANGED <<received, text, analysed, failed>>,
           \A c \in DOMAIN received : IsEdit(c) /\ Arriving(c) => Arriving(c)',
           worker \in AnalysingStates => worker' \in AnalysingStates /\ current' = current
    PROVE  EditsInv'
<1>1. \A u \in Uris : /\ Edits(u)' = Edits(u)
                      /\ \A c \in Edits(u) : c \in DOMAIN received /\ IsEdit(c)
  BY ConstantsAssumption DEF Edits, IsEdit
<1>2. EditsArrive'
  <2> SUFFICES ASSUME NEW u \in Uris, NEW c \in Edits(u)
               PROVE  c \in failed' \/ c <= text'[u] \/ Arriving(c)'
    BY <1>1 DEF EditsArrive
  <2> QED BY <1>1 DEF EditsInv, EditsArrive
<1>3. AnalysedUnlessNewer' BY <1>1 DEF EditsInv, AnalysedUnlessNewer, Unanalysed
<1> QED BY <1>2, <1>3 DEF EditsInv

\* A step that moves no change and handles none.
LEMMA EditsQuiet ==
    ASSUME EditsInv, CancelInv', FlowInv',
           UNCHANGED <<received, queue, text, analysed, failed>>,
           reader = "push" => reader' = "push" /\ incoming' = incoming,
           worker \in {"popped", "process"} =>
               worker' \in {"popped", "process"} /\ current' = current,
           worker = "apply" => worker' = "apply" /\ current' = current,
           worker \in AnalysingStates => worker' \in AnalysingStates /\ current' = current,
           worker' = "apply" => worker = "apply",
           worker' \in AnalysingStates => worker \in AnalysingStates
    PROVE  EditsInv'
<1>1. HandlesItsEdit'
  BY DEF EditsInv, HandlesItsEdit, IsEdit
<1>2. \A c : Arriving(c) => Arriving(c)' BY DEF Arriving, Queued
<1> QED BY <1>1, <1>2, EditsFrame

\* A message arrives: a change is on its way from its first step.
LEMMA EditsReceive ==
    ASSUME EditsInv, CancelInv', FlowInv', NEW m, WellFormed(m), ReceivedTypes(m),
           UNCHANGED <<queue, text, analysed, failed, current>>,
           worker' = worker \/ (worker = "absent" /\ worker' = "idle"),
           reader # "push",
           m.uri = NoUri \/ (reader' = "push" /\ incoming' = NewContext)
    PROVE  EditsInv'
<1>1. /\ NewContext \in DOMAIN received' /\ received'[NewContext] = m
      /\ \A c \in DOMAIN received : c \in DOMAIN received' /\ received'[c] = received[c]
      /\ \A c \in DOMAIN received' : c \in DOMAIN received \/ c = NewContext
  BY ArrivalFacts DEF EditsInv
<1>2. EditsArrive'
  <2> SUFFICES ASSUME NEW u \in Uris, NEW c \in DOMAIN received', received'[c].uri = u
               PROVE  c \in failed' \/ c <= text'[u] \/ Arriving(c)'
    BY DEF EditsArrive, Edits
  <2>1. CASE c \in DOMAIN received
    <3>1. c \in failed \/ c <= text[u] \/ Arriving(c)
      BY <2>1, <1>1 DEF EditsInv, EditsArrive, Edits
    <3>2. Arriving(c) => Arriving(c)' BY DEF Arriving, Queued
    <3> QED BY <3>1, <3>2
  <2>2. CASE c = NewContext
    <3>1. m.uri # NoUri BY <2>2, <1>1, ConstantsAssumption
    <3> QED BY <2>2, <3>1 DEF Arriving
  <2> QED BY <2>1, <2>2, <1>1
<1>3. worker \in {"apply"} \cup AnalysingStates => current \in DOMAIN received
  BY DEF EditsInv, FlowInv, TypeInv, TypeOK, WorkerHasMessage, BusyStates, WorkerStates,
     AnalysingStates
<1>4. HandlesItsEdit'
  BY <1>1, <1>3 DEF EditsInv, HandlesItsEdit, IsEdit, AnalysingStates
<1>5. AnalysedUnlessNewer'
  <2> SUFFICES ASSUME NEW u \in Uris
               PROVE  \/ analysed'[u] = text'[u]
                      \/ worker' \in AnalysingStates /\ received'[current'].uri = u
                      \/ Unanalysed(u)'
    BY DEF AnalysedUnlessNewer, Unanalysed
  <2>1. \A c \in Edits(u) : c \in Edits(u)' BY <1>1 DEF Edits
  <2>2. worker \in AnalysingStates => received'[current] = received[current]
    BY <1>1, <1>3
  <2> QED BY <2>1, <2>2 DEF EditsInv, AnalysedUnlessNewer, Unanalysed, AnalysingStates
<1> QED BY <1>2, <1>4, <1>5 DEF EditsInv

\* The steps of a change: it is applied or fails, its analysis is abandoned
\* only for a newer change, its diagnostics are published.
LEMMA EditsApply == EditsInv /\ CancelInv' /\ FlowInv' /\ ApplyChange => EditsInv'
<1> SUFFICES ASSUME EditsInv, CancelInv', FlowInv', ApplyChange PROVE EditsInv' OBVIOUS
<1> DEFINE doc == received[current].uri
<1>1. /\ worker = "apply"
      /\ UNCHANGED <<received, queue, incoming, reader, current, analysed>>
  BY DEF ApplyChange, readerVars
<1>2. IsEdit(current) /\ current \in DOMAIN received /\ doc \in Uris
  <2>1. IsEdit(current) BY <1>1 DEF EditsInv, HandlesItsEdit
  <2>2. current \in DOMAIN received /\ received \in Seq(Message)
    BY <1>1 DEF EditsInv, FlowInv, TypeInv, TypeOK, WorkerHasMessage, BusyStates, WorkerStates
  <2>3. received[current] \in Message BY <2>2
  <2> QED BY <2>1, <2>2, <2>3 DEF Message, IsEdit
<1>3. \A u \in Uris : Edits(u)' = Edits(u) BY <1>1 DEF Edits
<1>4. \A c : c # current /\ Arriving(c) => Arriving(c)' BY <1>1 DEF Arriving, Queued
<1>5. text \in [Uris -> 0..Len(received)] /\ Len(received) \in Nat
  BY ContextRanges DEF EditsInv, FlowInv, TypeInv, TypeOK
<1>6. CASE /\ text' = [text EXCEPT ![doc] = current] /\ worker' = "analyse"
           /\ UNCHANGED failed
  <2>1. /\ \A u \in Uris : u # doc => text'[u] = text[u]
        /\ text'[doc] = current
    BY <1>2, <1>5, <1>6
  <2>2. EditsArrive'
    <3> SUFFICES ASSUME NEW u \in Uris, NEW c \in Edits(u)
                 PROVE  c \in failed' \/ c <= text'[u] \/ Arriving(c)'
      BY <1>3 DEF EditsArrive
    <3>1. c \in failed \/ c <= text[u] \/ Arriving(c) BY DEF EditsInv, EditsArrive
    <3>2. text[u] \in Nat /\ text[u] <= current /\ c \in Nat /\ current \in Nat
      BY <1>2, ContextRanges DEF EditsInv, FlowInv, TextsBehind, Edits
    <3>3. CASE c = current
      <4>1. u = doc BY <3>3 DEF Edits
      <4> QED BY <3>3, <4>1, <2>1, <3>2
    <3>4. CASE c # current
      BY <3>1, <3>2, <3>4, <1>4, <1>6, <2>1
    <3> QED BY <3>3, <3>4
  <2>3. HandlesItsEdit'
    BY <1>1, <1>2, <1>6, <2>1 DEF HandlesItsEdit, IsEdit, AnalysingStates
  <2>4. AnalysedUnlessNewer'
    BY <1>1, <1>3, <1>6, <2>1 DEF EditsInv, AnalysedUnlessNewer, Unanalysed, AnalysingStates
  <2> QED BY <2>2, <2>3, <2>4 DEF EditsInv
<1>7. CASE /\ failed' = failed \cup {current} /\ worker' = "unregister"
           /\ UNCHANGED text
  <2>1. EditsArrive' BY <1>3, <1>4, <1>7 DEF EditsInv, EditsArrive
  <2>2. HandlesItsEdit' BY <1>7 DEF HandlesItsEdit, AnalysingStates
  <2>3. AnalysedUnlessNewer'
    BY <1>1, <1>3, <1>7 DEF EditsInv, AnalysedUnlessNewer, Unanalysed, AnalysingStates
  <2> QED BY <2>1, <2>2, <2>3 DEF EditsInv
<1> QED BY <1>6, <1>7 DEF ApplyChange, WorkerGoesTo

\* An analysis that is superseded stops, one that throws is recorded as failed,
\* any other goes on.
LEMMA EditsAnalyse == EditsInv /\ CancelInv' /\ FlowInv' /\ Analyse => EditsInv'
<1> SUFFICES ASSUME EditsInv, CancelInv', FlowInv', Analyse PROVE EditsInv' OBVIOUS
<1>1. /\ worker = "analyse"
      /\ \/ /\ worker' = IF current \in cancelled THEN "unregister" ELSE "publish"
            /\ failed' = failed
         \/ worker' = "unregister" /\ failed' = failed \cup {current}
      /\ UNCHANGED <<received, queue, incoming, reader, current, text, analysed>>
  BY DEF Analyse, WorkerGoesTo, readerVars
<1>2. (\A u \in Uris : Edits(u)' = Edits(u)) /\ failed \subseteq failed' BY <1>1 DEF Edits
<1>3. EditsArrive'
  <2>1. \A c : Arriving(c) => Arriving(c)' BY <1>1 DEF Arriving, Queued
  <2> QED BY <1>1, <1>2, <2>1 DEF EditsInv, EditsArrive
<1>4. HandlesItsEdit' BY <1>1 DEF EditsInv, HandlesItsEdit, IsEdit, AnalysingStates
<1>5. CASE current \notin cancelled /\ failed' = failed /\ worker' = "publish"
  <2>1. AnalysedUnlessNewer'
    BY <1>1, <1>2, <1>5 DEF EditsInv, AnalysedUnlessNewer, Unanalysed, AnalysingStates
  <2> QED BY <1>3, <1>4, <2>1 DEF EditsInv
<1>6. CASE current \in cancelled \/ failed' = failed \cup {current}
  <2>1. IsEdit(current) /\ current \in DOMAIN received
    BY <1>1 DEF EditsInv, HandlesItsEdit, AnalysingStates, FlowInv, TypeInv, TypeOK,
       WorkerHasMessage, BusyStates, WorkerStates
  <2>2. \/ current \in failed'
        \/ \E d \in DOMAIN received : current < d /\ received[d].uri = received[current].uri
    BY <1>6, <2>1 DEF EditsInv, CancelInv, SupersededByNewer
  <2>3. AnalysedUnlessNewer'
    <3> SUFFICES ASSUME NEW u \in Uris
                 PROVE  analysed'[u] = text'[u] \/ Unanalysed(u)'
      BY DEF AnalysedUnlessNewer
    <3>1. \/ analysed[u] = text[u]
          \/ received[current].uri = u
          \/ Unanalysed(u)
      BY DEF EditsInv, AnalysedUnlessNewer
    <3>2. CASE received[current].uri = u
      <4>1. text[u] = current BY <1>1, <3>2 DEF EditsInv, HandlesItsEdit, AnalysingStates
      <4>2. CASE current \in failed'
        BY <1>1, <1>2, <2>1, <3>2, <4>1, <4>2 DEF Unanalysed, Edits
      <4>3. CASE \E d \in DOMAIN received : current < d /\ received[d].uri = u
        <5>1. PICK d \in DOMAIN received : current < d /\ received[d].uri = u BY <4>3
        <5>2. d \in Edits(u) /\ d > text[u]
          BY <4>1, <5>1, ContextRanges DEF Edits, EditsInv, FlowInv
        <5> QED BY <1>1, <1>2, <5>2 DEF Unanalysed
      <4> QED BY <2>2, <3>2, <4>2, <4>3
    <3> QED BY <1>1, <1>2, <3>1, <3>2 DEF Unanalysed
  <2> QED BY <1>3, <1>4, <2>3 DEF EditsInv
<1> QED BY <1>1, <1>5, <1>6

\* Published diagnostics are those of the buffer: nothing was applied since.
LEMMA EditsPublish == EditsInv /\ CancelInv' /\ FlowInv' /\ PublishBody => EditsInv'
<1> SUFFICES ASSUME EditsInv, CancelInv', FlowInv', PublishBody PROVE EditsInv' OBVIOUS
<1>1. /\ worker = "publishBody" /\ worker' = "unregister"
      /\ analysed' = [analysed EXCEPT ![received[current].uri] = current]
      /\ UNCHANGED <<received, queue, incoming, reader, current, text, failed>>
  BY DEF PublishBody, WorkerGoesTo, readerVars
<1>2. \A u \in Uris : Edits(u)' = Edits(u) BY <1>1 DEF Edits
<1>3. EditsArrive'
  <2>1. \A c : Arriving(c) => Arriving(c)' BY <1>1 DEF Arriving, Queued
  <2> QED BY <1>1, <1>2, <2>1 DEF EditsInv, EditsArrive
<1>4. HandlesItsEdit' BY <1>1 DEF HandlesItsEdit, AnalysingStates
<1>5. AnalysedUnlessNewer'
  <2> SUFFICES ASSUME NEW u \in Uris
               PROVE  analysed'[u] = text'[u] \/ Unanalysed(u)'
    BY DEF AnalysedUnlessNewer, Unanalysed
  <2>1. analysed \in [Uris -> 0..Len(received)]
    BY DEF EditsInv, FlowInv, TypeInv, TypeOK
  <2>2. CASE received[current].uri = u
    <3>1. text[u] = current BY <1>1, <2>2 DEF EditsInv, HandlesItsEdit, AnalysingStates
    <3> QED BY <1>1, <2>1, <2>2, <3>1
  <2>3. CASE received[current].uri # u
    <3>1. analysed'[u] = analysed[u] BY <1>1, <2>1, <2>3
    <3> QED BY <1>1, <1>2, <2>3, <3>1 DEF EditsInv, AnalysedUnlessNewer, Unanalysed
  <2> QED BY <2>2, <2>3
<1> QED BY <1>3, <1>4, <1>5 DEF EditsInv

\* Every step keeps the invariant.
LEMMA StepEditsInv == EditsInv /\ [Next]_vars => EditsInv'
<1> SUFFICES ASSUME EditsInv, [Next]_vars PROVE EditsInv' OBVIOUS
<1>1. CancelInv' /\ FlowInv' BY StepCancelInv, StepFlowInv DEF EditsInv
<1>2. TypeInv BY DEF EditsInv, FlowInv
<1>3. CASE ReceiveMessage
  <2>1. PICK m \in ClientMessages : received' = Append(received, m)
    BY <1>3 DEF ReceiveMessage
  <2>2. WellFormed(m) /\ m \in Message /\ Len(received) < MaxMessages
    BY <1>3, ClientMessageType DEF WellFormed, ReceiveMessage, MayReceive
  <2>3. ReceivedTypes(m) BY <1>2, <2>1, <2>2, ReceiveTypes
  <2>4. /\ UNCHANGED <<queue, text, analysed, failed, current, worker>>
        /\ reader = "read" /\ reader' = "push" /\ incoming' = NewContext
    BY <1>3 DEF ReceiveMessage, workerVars, docVars
  <2> QED BY <1>1, <2>2, <2>3, <2>4, EditsReceive
<1>4. CASE HandleInitialize
  <2>1. PICK id \in FreeIds : received' = Append(received, Request("initialize", id))
    BY <1>4 DEF HandleInitialize
  <2> DEFINE m == Request("initialize", id)
  <2>2. WellFormed(m) /\ m \in Message /\ Len(received) < MaxMessages /\ m.uri = NoUri
    BY <1>4, ClientMessageType DEF WellFormed, HandleInitialize, MayReceive, Request
  <2>3. ReceivedTypes(m) BY <1>2, <2>1, <2>2, ReceiveTypes
  <2>4. /\ UNCHANGED <<queue, text, analysed, failed, current>>
        /\ worker = "absent" /\ worker' = "idle" /\ reader = "init"
    BY <1>4, <1>2 DEF HandleInitialize, docVars, TypeInv, OutcomeFits
  <2> HIDE DEF m
  <2> QED BY <1>1, <2>2, <2>3, <2>4, EditsReceive
<1>5. CASE RefuseBeforeInitialize \/ RefuseAfterShutdown
  <2>1. PICK kind \in {"notInitialized", "invalidRequest"} : Refuse(kind)
    BY <1>5 DEF RefuseBeforeInitialize, RefuseAfterShutdown
  <2>2. /\ UNCHANGED <<reader, incoming, queue, worker, text, analysed, failed, current>>
        /\ reader # "push"
    BY <1>5 DEF RefuseBeforeInitialize, RefuseAfterShutdown, readerVars, workerVars, docVars
  <2>3. CASE UNCHANGED received BY <1>1, <2>2, <2>3, EditsQuiet
  <2>4. CASE \E m \in ClientRequests : received' = Append(received, m)
    <3>1. PICK m \in ClientRequests : received' = Append(received, m) BY <2>4
    <3>2. WellFormed(m) /\ m \in Message /\ Len(received) < MaxMessages /\ m.uri = NoUri
      BY <2>1, ClientMessageType DEF WellFormed, Refuse, MayReceive, ClientRequests, Request
    <3>3. ReceivedTypes(m) BY <1>2, <3>1, <3>2, ReceiveTypes
    <3> QED BY <1>1, <2>2, <3>2, <3>3, EditsReceive
  <2> QED BY <2>1, <2>3, <2>4 DEF Refuse
<1>6. CASE PushMessage
  <2>1. /\ UNCHANGED <<received, text, analysed, failed, worker, current, incoming>>
        /\ queue' = Append(queue, incoming)
    BY <1>6 DEF PushMessage, workerVars, docVars
  <2>2. queue \in Seq(1..Len(received)) BY <1>2 DEF TypeInv, TypeOK
  <2>3. \A c : Queued(c) \/ c = incoming => Queued(c)'
    <3>1. /\ \E n : n \in DOMAIN queue' /\ queue'[n] = incoming
          /\ \A i \in DOMAIN queue : i \in DOMAIN queue' /\ queue'[i] = queue[i]
      BY <2>1, <2>2, AppendFacts
    <3> QED BY <3>1 DEF Queued
  <2>4. \A c : Arriving(c) => Arriving(c)' BY <2>1, <2>3 DEF Arriving
  <2>5. HandlesItsEdit' BY <2>1 DEF EditsInv, HandlesItsEdit, IsEdit
  <2> QED BY <1>1, <2>1, <2>4, <2>5, EditsFrame
<1>7. CASE PopMessage
  <2>1. /\ UNCHANGED <<received, text, analysed, failed, incoming, reader>>
        /\ worker = "idle" /\ worker' = "popped"
        /\ queue # <<>> /\ queue' = Tail(queue) /\ current' = Head(queue)
    BY <1>7 DEF PopMessage, WorkerGoesTo, readerVars, docVars
  <2>2. queue \in Seq(1..Len(received)) BY <1>2 DEF TypeInv, TypeOK
  <2>3. /\ current' = queue[1]
        /\ \A i \in DOMAIN queue : i = 1 \/ (i - 1 \in DOMAIN queue' /\ queue'[i - 1] = queue[i])
    BY <2>1, <2>2, TailFacts
  <2>4. \A c : Queued(c) => Queued(c)' \/ c = current' BY <2>3 DEF Queued
  <2>5. \A c : Arriving(c) => Arriving(c)' BY <2>1, <2>4 DEF Arriving
  <2>6. HandlesItsEdit' BY <2>1 DEF HandlesItsEdit, AnalysingStates
  <2> QED BY <1>1, <2>1, <2>5, <2>6, EditsFrame DEF AnalysingStates
<1>8. CASE StartMessage
  <2>1. /\ UNCHANGED <<received, queue, text, analysed, failed, incoming, reader, current>>
        /\ worker = "process" /\ worker' \in {"apply", "handle", "unregister"}
    BY <1>8 DEF StartMessage, WorkerGoesTo, readerVars, docVars
  <2>2. current \in DOMAIN received
    BY <1>2, <2>1 DEF TypeInv, TypeOK, WorkerHasMessage, BusyStates, WorkerStates
  <2>3. /\ IsEdit(current) => ~IsRequest(current)
        /\ Registered(current) => IsRequest(current)
    BY <2>2 DEF EditsInv, CancelInv, EditsAreDidChanges, WellFormed, IsEdit, IsRequest, FlowInv,
       NotLost
  <2>4. worker' = "apply" <=> IsEdit(current)
    BY <1>8, <2>3 DEF StartMessage, WorkerGoesTo
  <2>5. \A c : IsEdit(c) /\ Arriving(c) => Arriving(c)'
    BY <2>1, <2>4 DEF Arriving, Queued
  <2>6. HandlesItsEdit' BY <2>1, <2>4 DEF HandlesItsEdit, IsEdit, AnalysingStates
  <2> QED BY <1>1, <2>1, <2>5, <2>6, EditsFrame DEF AnalysingStates
<1>9. CASE ApplyChange BY <1>1, <1>9, EditsApply
<1>10. CASE Analyse BY <1>1, <1>10, EditsAnalyse
<1>11. CASE PublishBody BY <1>1, <1>11, EditsPublish
<1>12. CASE \/ ReaderWriteBody \/ (\E id \in Ids : CancelRequest(id)) \/ ReceiveMalformed
            \/ NotifyWorker \/ EndOfInput \/ NotifyFinish \/ JoinWorker
            \/ WcpHeader \/ WcpBody \/ UNCHANGED vars
  <2>1. /\ UNCHANGED <<received, queue, current, text, analysed, failed>>
        /\ reader = "push" => reader' = "push" /\ incoming' = incoming
        /\ worker' = worker \/ (worker = "asleep" /\ worker' = "idle")
    BY <1>12 DEF ReaderWriteBody, CancelRequest, ReceiveMalformed, NotifyWorker, EndOfInput,
       NotifyFinish, JoinWorker, WcpHeader, WcpBody, Wake, vars, readerVars, workerVars, docVars
  <2> QED BY <1>1, <2>1, EditsQuiet DEF AnalysingStates
<1>13. CASE \/ WorkerWait \/ LockState \/ RunHandler \/ PublishHeader \/ Unregister
            \/ ReplyHeader \/ ReplyBody \/ UnlockState
  <2>1. UNCHANGED <<received, queue, text, analysed, failed, reader, incoming>>
    BY <1>13 DEF WorkerWait, LockState, RunHandler, PublishHeader, Unregister, ReplyHeader,
       ReplyBody, UnlockState, readerVars, docVars
  <2>2. \/ /\ current' = current
           /\ \/ worker = "popped" /\ worker' = "process"
              \/ worker = "publish" /\ worker' = "publishBody"
        \/ /\ worker \in {"idle", "handle", "unregister", "reply", "replyBody", "unlock"}
           /\ worker' \in {"asleep", "exited", "unregister", "reply", "replyBody", "unlock",
                           "idle"}
    BY <1>13 DEF WorkerWait, LockState, RunHandler, PublishHeader, Unregister, ReplyHeader,
       ReplyBody, UnlockState, WorkerGoesTo
  <2> QED BY <1>1, <2>1, <2>2, EditsQuiet DEF AnalysingStates
<1> QED
  BY <1>3, <1>4, <1>5, <1>6, <1>7, <1>8, <1>9, <1>10, <1>11, <1>12, <1>13
     DEF Next, Reader, Worker, Terminated

\* Once every change of a document is handled, the editor and the server agree
\* on its text, and the diagnostics shown are those of that text, however many
\* changes were superseded on the way, unless a handler threw at that text or after.
THEOREM SettledTheorem == Spec => []SettledDocumentIsAnalysed
<1>1. EditsInv => SettledDocumentIsAnalysed
  <2> SUFFICES ASSUME EditsInv, NEW u \in Uris, \A c \in Edits(u) : ~Pending(c)
               PROVE  /\ \A c \in Edits(u) \ failed : c <= text[u]
                      /\ \/ analysed[u] = text[u]
                         \/ \E c \in Edits(u) \cap failed : c >= text[u]
    BY DEF SettledDocumentIsAnalysed
  <2>1. \A c \in Edits(u) : ~Arriving(c) BY DEF Arriving, Pending, Queued
  <2>2. \A c \in Edits(u) : c \in failed \/ c <= text[u]
    BY <2>1 DEF EditsInv, EditsArrive
  <2>3. ~(worker \in AnalysingStates /\ received[current].uri = u)
    <3> SUFFICES ASSUME worker \in AnalysingStates, received[current].uri = u PROVE FALSE
      OBVIOUS
    <3>1. current \in DOMAIN received
      BY DEF EditsInv, FlowInv, TypeInv, TypeOK, WorkerHasMessage, BusyStates, WorkerStates,
         AnalysingStates
    <3> QED BY <3>1 DEF Edits, Pending, AnalysingStates
  <2>4. text[u] \in Nat /\ \A c \in Edits(u) : c \in Nat
    BY ContextRanges DEF EditsInv, FlowInv, Edits
  <2> QED BY <2>2, <2>3, <2>4 DEF EditsInv, AnalysedUnlessNewer, Unanalysed
<1>2. Spec => []EditsInv BY InitEditsInv, StepEditsInv, PTL DEF Spec
<1> QED BY <1>1, <1>2, PTL

(***************************************************************************)
(* Refinement.  The transport implements RpcService: a message waits until *)
(* processMessage has looked at it and is done when its answer is on the   *)
(* wire.  What the steps of the threads need to know beyond the invariants *)
(* above is which messages have begun.                                     *)
(***************************************************************************)
\* A cancellation finds only messages that are not done.
ActiveArePending ==
    \A id \in Ids : activeRequests[id] # 0 => Pending(activeRequests[id])

\* A started flag means that the message was begun.
StartedAreBegun ==
    \A c \in started :
        /\ ~Queued(c)
        /\ reader = "push" => c # incoming
        /\ c = current => worker \notin {"popped", "process"}

\* Only a request with a registered method gets an outcome, and unless it was
\* cancelled before it began its started flag is set.
OutcomesAreOfHandlers ==
    /\ outcome # "none" => Registered(current)
    /\ worker \in {"popped", "process", "handle"} \cup {"apply"} \cup AnalysingStates
           => outcome = "none"
    /\ worker \notin IdleStates \cup {"popped", "process"} /\ Registered(current)
           => current \in started \/ outcome = "cancelled"
    /\ worker = "handle" /\ IsRequest(current) => Registered(current)

ServiceInv ==
    /\ CancelInv /\ FlowInv
    /\ ActiveArePending /\ StartedAreBegun /\ OutcomesAreOfHandlers

\* At the start nothing is registered or begun.
LEMMA InitServiceInv == Init => ServiceInv
<1> SUFFICES ASSUME Init PROVE ServiceInv OBVIOUS
<1>1. CancelInv /\ FlowInv BY InitCancelInv, InitFlowInv
<1>2. ActiveArePending /\ StartedAreBegun /\ OutcomesAreOfHandlers
  BY DEF Init, ActiveArePending, StartedAreBegun, OutcomesAreOfHandlers, AnalysingStates,
     IdleStates
<1> QED BY <1>1, <1>2 DEF ServiceInv

\* A step between messages, or of the reader between messages.
LEMMA ServiceQuiet ==
    ASSUME ServiceInv, CancelInv', FlowInv',
           UNCHANGED <<received, activeRequests, started, queue, current, outcome>>,
           reader' = "push" <=> reader = "push",
           reader = "push" => incoming' = incoming,
           worker' = worker \/ (worker \in IdleStates /\ worker' \in IdleStates)
    PROVE  ServiceInv'
<1> USE DEF IdleStates, AnalysingStates
<1>1. ActiveArePending' BY DEF ServiceInv, ActiveArePending, Pending
<1>2. StartedAreBegun' BY DEF ServiceInv, StartedAreBegun, Queued
<1>3. OutcomesAreOfHandlers'
  BY DEF ServiceInv, OutcomesAreOfHandlers, Registered, IsRequest
<1> QED BY <1>1, <1>2, <1>3 DEF ServiceInv

\* A message arrives.
LEMMA ServiceArrival ==
    ASSUME ServiceInv, CancelInv', FlowInv', NEW m, ReceivedTypes(m),
           UNCHANGED <<queue, current, outcome>>,
           worker' = worker \/ (worker = "absent" /\ worker' = "idle"),
           reader # "push",
           \/ UNCHANGED activeRequests /\ reader' # "push"
                  /\ started' \in {started, started \cup {NewContext}}
           \/ /\ reader' = "push" /\ incoming' = NewContext /\ UNCHANGED started
              /\ \A id \in Ids : activeRequests'[id] \in {activeRequests[id], NewContext}
    PROVE  ServiceInv'
<1> USE DEF IdleStates, AnalysingStates
<1>1. ActiveArePending' BY DEF ServiceInv, ActiveArePending, Pending
<1>2. StartedAreBegun'
  <2>1. \A c \in started : c # NewContext
    <3>1. started \subseteq DOMAIN received
      BY DEF ServiceInv, FlowInv, TypeInv, TypeOK
    <3>2. NewContext \notin DOMAIN received BY ArrivalFacts DEF ServiceInv
    <3> QED BY <3>1, <3>2
  <2>2. ~Queued(NewContext) /\ current # NewContext
    BY ContextRanges DEF ServiceInv, FlowInv, Queued
  <2> QED BY <2>1, <2>2 DEF ServiceInv, StartedAreBegun, Queued
<1>3. OutcomesAreOfHandlers'
  <2>1. worker \notin IdleStates => received'[current] = received[current]
    BY ArrivalFacts
       DEF ServiceInv, FlowInv, TypeInv, TypeOK, WorkerHasMessage, BusyStates
  <2>2. worker \in IdleStates => outcome = "none" /\ worker' \in IdleStates
    BY DEF ServiceInv, FlowInv, TypeInv, OutcomeFits
  <2>3. CASE worker \in IdleStates BY <2>2, <2>3 DEF OutcomesAreOfHandlers
  <2>4. CASE worker \notin IdleStates
    BY <2>1, <2>4 DEF ServiceInv, OutcomesAreOfHandlers, Registered, IsRequest
  <2> QED BY <2>3, <2>4
<1> QED BY <1>1, <1>2, <1>3 DEF ServiceInv

\* The worker goes on with its message.
LEMMA ServiceWork ==
    ASSUME ServiceInv, CancelInv', FlowInv', OutcomesAreOfHandlers',
           UNCHANGED <<received, activeRequests, queue, current, reader, incoming>>,
           started' = started \/ (started' = started \cup {current}
                                  /\ worker' \notin {"popped", "process"}),
           worker \notin IdleStates,
           worker' = "process" => worker = "popped",
           worker' # "popped",
           worker' \in {"reply", "replyBody", "unlock"}
               => worker \in {"reply", "replyBody", "unlock"}
    PROVE  ServiceInv'
<1>1. ActiveArePending' BY DEF ServiceInv, ActiveArePending, Pending
<1>2. StartedAreBegun'
  <2>1. ~Queued(current) /\ (reader = "push" => current # incoming)
    BY ContextRanges DEF ServiceInv, FlowInv, InOrder, Queued
  <2> QED BY <2>1 DEF ServiceInv, StartedAreBegun, Queued
<1> QED BY <1>1, <1>2 DEF ServiceInv

\* A message joins the queue.
LEMMA ServicePush == ServiceInv /\ CancelInv' /\ FlowInv' /\ PushMessage => ServiceInv'
<1> SUFFICES ASSUME ServiceInv, CancelInv', FlowInv', PushMessage PROVE ServiceInv' OBVIOUS
<1>1. /\ reader = "push" /\ reader' = "notify" /\ queue' = Append(queue, incoming)
      /\ UNCHANGED <<received, incoming, worker, current, outcome, started, activeRequests>>
  BY DEF PushMessage, workerVars, cancelVars
<1>2. queue \in Seq(1..Len(received)) BY DEF ServiceInv, FlowInv, TypeInv, TypeOK
<1>3. \A c : Queued(c)' <=> (Queued(c) \/ c = incoming)
  <2>1. \E n : /\ n \in DOMAIN queue' /\ queue'[n] = incoming
               /\ \A i \in DOMAIN queue : i \in DOMAIN queue' /\ queue'[i] = queue[i]
               /\ \A i \in DOMAIN queue' : i \in DOMAIN queue \/ i = n
    BY <1>1, <1>2, AppendFacts
  <2> QED BY <2>1 DEF Queued
<1>4. ActiveArePending'
  <2>1. \A c : Pending(c) => Pending(c)' BY <1>1, <1>3 DEF Pending, Queued
  <2> QED BY <1>1, <2>1 DEF ServiceInv, ActiveArePending
<1>5. StartedAreBegun' BY <1>1, <1>3 DEF ServiceInv, StartedAreBegun
<1>6. OutcomesAreOfHandlers'
  BY <1>1 DEF ServiceInv, OutcomesAreOfHandlers, Registered, IsRequest
<1> QED BY <1>4, <1>5, <1>6 DEF ServiceInv

\* The worker takes the oldest one.
LEMMA ServicePop == ServiceInv /\ CancelInv' /\ FlowInv' /\ PopMessage => ServiceInv'
<1> SUFFICES ASSUME ServiceInv, CancelInv', FlowInv', PopMessage PROVE ServiceInv' OBVIOUS
<1>1. /\ worker = "idle" /\ worker' = "popped" /\ outcome' = "none" /\ current = 0
      /\ queue # <<>> /\ queue' = Tail(queue) /\ current' = Head(queue)
      /\ UNCHANGED <<received, incoming, reader, started, activeRequests>>
  BY DEF PopMessage, WorkerGoesTo, readerVars, cancelVars, ServiceInv, FlowInv, TypeInv,
     OutcomeFits, InOrder, IdleStates
<1>2. queue \in Seq(1..Len(received)) BY DEF ServiceInv, FlowInv, TypeInv, TypeOK
<1>3. /\ 1 \in DOMAIN queue /\ current' = queue[1]
      /\ \A i \in DOMAIN queue : i = 1 \/ (i - 1 \in DOMAIN queue' /\ queue'[i - 1] = queue[i])
      /\ \A i \in DOMAIN queue' : i + 1 \in DOMAIN queue /\ queue'[i] = queue[i + 1]
  BY <1>1, <1>2, TailFacts
<1>4. /\ \A c : Queued(c) => Queued(c)' \/ c = current'
      /\ \A c : Queued(c)' => Queued(c)
      /\ Queued(current')
  BY <1>3 DEF Queued
<1>5. ActiveArePending'
  <2>1. \A c : c # 0 /\ Pending(c) => Pending(c)' BY <1>1, <1>4 DEF Pending, Queued
  <2> QED BY <1>1, <2>1 DEF ServiceInv, ActiveArePending
<1>6. StartedAreBegun' BY <1>1, <1>4 DEF ServiceInv, StartedAreBegun
<1>7. OutcomesAreOfHandlers' BY <1>1 DEF OutcomesAreOfHandlers, IdleStates, AnalysingStates
<1> QED BY <1>5, <1>6, <1>7 DEF ServiceInv

\* The tables forget the one that is handled.
LEMMA ServiceUnregister == ServiceInv /\ CancelInv' /\ FlowInv' /\ Unregister => ServiceInv'
<1> SUFFICES ASSUME ServiceInv, CancelInv', FlowInv', Unregister PROVE ServiceInv' OBVIOUS
<1>1. /\ worker = "unregister" /\ worker' \in {"unlock", "reply"}
      /\ activeRequests' = EraseIf(activeRequests, received[current].id, current)
      /\ UNCHANGED <<received, incoming, reader, queue, current, outcome, started>>
  BY DEF Unregister, WorkerGoesTo, readerVars
<1>2. \A id \in Ids : /\ activeRequests'[id] \in {0, activeRequests[id]}
                      /\ activeRequests[id] = current => activeRequests'[id] = 0
  <2>1. activeRequests \in [Ids -> 0..Len(received)]
    BY DEF ServiceInv, FlowInv, TypeInv, TypeOK
  <2>2. current # 0
    BY <1>1 DEF ServiceInv, FlowInv, TypeInv, WorkerHasMessage, BusyStates, WorkerStates
  <2>3. \A id \in Ids : activeRequests[id] = current => received[current].id = id
    BY <2>2 DEF ServiceInv, CancelInv, MapsPointAtTheirKeys
  <2> QED BY <1>1, <2>1, <2>3 DEF EraseIf
<1>3. ActiveArePending'
  <2>1. \A c : c # current /\ Pending(c) => Pending(c)' BY <1>1 DEF Pending
  <2> QED BY <1>2, <2>1 DEF ServiceInv, ActiveArePending
<1>4. StartedAreBegun' BY <1>1 DEF ServiceInv, StartedAreBegun, Queued
<1>5. OutcomesAreOfHandlers'
  BY <1>1 DEF ServiceInv, OutcomesAreOfHandlers, Registered, IsRequest, IdleStates,
     AnalysingStates
<1> QED BY <1>3, <1>4, <1>5 DEF ServiceInv

\* The worker is done with it.
LEMMA ServiceUnlock == ServiceInv /\ CancelInv' /\ FlowInv' /\ UnlockState => ServiceInv'
<1> SUFFICES ASSUME ServiceInv, CancelInv', FlowInv', UnlockState PROVE ServiceInv' OBVIOUS
<1>1. /\ worker = "unlock" /\ worker' = "idle" /\ outcome' = "none"
      /\ UNCHANGED <<received, incoming, reader, queue, started, activeRequests>>
  BY DEF UnlockState, WorkerGoesTo, readerVars, cancelVars
<1>2. ActiveArePending' BY <1>1 DEF ServiceInv, ActiveArePending, Pending
<1>3. StartedAreBegun' BY <1>1 DEF ServiceInv, StartedAreBegun, Queued
<1>4. OutcomesAreOfHandlers' BY <1>1 DEF OutcomesAreOfHandlers, IdleStates, AnalysingStates
<1> QED BY <1>2, <1>3, <1>4 DEF ServiceInv

\* Every step keeps it.
LEMMA StepServiceInv == ServiceInv /\ [Next]_vars => ServiceInv'
<1> SUFFICES ASSUME ServiceInv, [Next]_vars PROVE ServiceInv' OBVIOUS
<1>1. CancelInv' /\ FlowInv' BY StepCancelInv, StepFlowInv DEF ServiceInv
<1>2. TypeInv BY DEF ServiceInv, FlowInv
<1>3. CASE ReceiveMessage
  <2>1. PICK m \in ClientMessages : received' = Append(received, m) /\ Register(NewContext, m)
    BY <1>3 DEF ReceiveMessage
  <2>2. m \in Message /\ Len(received) < MaxMessages
    BY <1>3, ClientMessageType DEF WellFormed, ReceiveMessage, MayReceive
  <2>3. ReceivedTypes(m) BY <1>2, <2>1, <2>2, ReceiveTypes
  <2>4. /\ UNCHANGED <<queue, current, outcome, worker, started>>
        /\ reader = "read" /\ reader' = "push" /\ incoming' = NewContext
    BY <1>3 DEF ReceiveMessage, workerVars
  <2>5. \A id \in Ids : activeRequests'[id] \in {activeRequests[id], NewContext}
    BY <1>2, <2>1 DEF Register, TypeInv, TypeOK
  <2> QED BY <1>1, <2>3, <2>4, <2>5, ServiceArrival
<1>4. CASE HandleInitialize
  <2>1. PICK id \in FreeIds : received' = Append(received, Request("initialize", id))
    BY <1>4 DEF HandleInitialize
  <2> DEFINE m == Request("initialize", id)
  <2>2. m \in Message /\ Len(received) < MaxMessages
    BY <1>4, ClientMessageType DEF WellFormed, HandleInitialize, MayReceive
  <2>3. ReceivedTypes(m) BY <1>2, <2>1, <2>2, ReceiveTypes
  <2>4. /\ UNCHANGED <<queue, current, outcome, activeRequests>>
        /\ worker = "absent" /\ worker' = "idle" /\ reader = "init" /\ reader' = "read"
        /\ started' = started \cup {NewContext}
    BY <1>4, <1>2 DEF HandleInitialize, cancelVars, TypeInv, OutcomeFits
  <2> HIDE DEF m
  <2> QED BY <1>1, <2>3, <2>4, ServiceArrival
<1>5. CASE RefuseBeforeInitialize \/ RefuseAfterShutdown
  <2>1. PICK kind \in {"notInitialized", "invalidRequest"} : Refuse(kind)
    BY <1>5 DEF RefuseBeforeInitialize, RefuseAfterShutdown
  <2>2. /\ UNCHANGED <<reader, incoming, queue, worker, current, outcome, started,
                       activeRequests>>
        /\ reader # "push"
    BY <1>5 DEF RefuseBeforeInitialize, RefuseAfterShutdown, readerVars, workerVars, cancelVars
  <2>3. CASE UNCHANGED received BY <1>1, <2>2, <2>3, ServiceQuiet
  <2>4. CASE \E m \in ClientRequests : received' = Append(received, m)
    <3>1. PICK m \in ClientRequests : received' = Append(received, m) BY <2>4
    <3>2. m \in Message /\ Len(received) < MaxMessages
      BY <2>1, ClientMessageType DEF WellFormed, Refuse, MayReceive
    <3>3. ReceivedTypes(m) BY <1>2, <3>1, <3>2, ReceiveTypes
    <3> QED BY <1>1, <2>2, <3>3, ServiceArrival
  <2> QED BY <2>1, <2>3, <2>4 DEF Refuse
<1>6. CASE PushMessage BY <1>1, <1>6, ServicePush
<1>7. CASE PopMessage BY <1>1, <1>7, ServicePop
<1>8. CASE StartMessage
  <2>1. /\ UNCHANGED <<received, activeRequests, queue, current, reader, incoming>>
        /\ worker = "process"
    BY <1>8 DEF StartMessage, readerVars, cancelVars
  <2>2. current \in DOMAIN received
    BY <1>2, <2>1 DEF TypeInv, TypeOK, WorkerHasMessage, BusyStates, WorkerStates
  <2>3. outcome = "none" /\ (Registered(current) => IsRequest(current))
    BY <2>1, <2>2 DEF ServiceInv, OutcomesAreOfHandlers, FlowInv, NotLost
  <2>4. \/ /\ ~Registered(current) /\ UNCHANGED <<outcome, started>>
           /\ worker' \in {"apply", "handle", "unregister"}
           /\ worker' \in {"apply", "handle"} => ~IsRequest(current)
        \/ /\ Registered(current) /\ worker' = "unregister" /\ outcome' = "cancelled"
           /\ UNCHANGED started
        \/ /\ Registered(current) /\ worker' = "handle" /\ UNCHANGED outcome
           /\ started' = started \cup {current}
    BY <1>8, <2>3 DEF StartMessage, WorkerGoesTo
  <2>5. OutcomesAreOfHandlers'
    BY <2>1, <2>3, <2>4 DEF OutcomesAreOfHandlers, Registered, IsRequest, IdleStates,
       AnalysingStates
  <2> QED BY <1>1, <2>1, <2>4, <2>5, ServiceWork DEF IdleStates
<1>9. CASE RunHandler
  <2>1. /\ UNCHANGED <<received, activeRequests, queue, current, reader, incoming, started>>
        /\ worker = "handle" /\ worker' = "unregister"
        /\ outcome' # "none" => outcome # "none" \/ IsRequest(current)
    BY <1>9 DEF RunHandler, WorkerGoesTo, readerVars, cancelVars
  <2>2. OutcomesAreOfHandlers'
    BY <2>1 DEF ServiceInv, OutcomesAreOfHandlers, Registered, IsRequest, IdleStates,
       AnalysingStates
  <2> QED BY <1>1, <2>1, <2>2, ServiceWork DEF IdleStates
<1>10. CASE LockState \/ ApplyChange \/ Analyse \/ PublishHeader \/ PublishBody \/ ReplyHeader
            \/ ReplyBody
  <2>1. UNCHANGED <<received, activeRequests, queue, current, reader, incoming, started, outcome>>
    BY <1>10 DEF LockState, ApplyChange, Analyse, PublishHeader, PublishBody, ReplyHeader,
       ReplyBody, readerVars, cancelVars
  <2>2. \/ worker = "popped" /\ worker' = "process"
        \/ worker = "apply" /\ worker' \in {"analyse", "unregister"}
        \/ worker = "analyse" /\ worker' \in {"unregister", "publish"}
        \/ worker = "publish" /\ worker' = "publishBody"
        \/ worker = "publishBody" /\ worker' = "unregister"
        \/ worker = "reply" /\ worker' = "replyBody"
        \/ worker = "replyBody" /\ worker' = "unlock"
    BY <1>10 DEF LockState, ApplyChange, Analyse, PublishHeader, PublishBody, ReplyHeader,
       ReplyBody, WorkerGoesTo
  <2>3. OutcomesAreOfHandlers'
    BY <2>1, <2>2 DEF ServiceInv, OutcomesAreOfHandlers, Registered, IsRequest, IdleStates,
       AnalysingStates
  <2> QED BY <1>1, <2>1, <2>2, <2>3, ServiceWork DEF IdleStates
<1>11. CASE Unregister BY <1>1, <1>11, ServiceUnregister
<1>12. CASE UnlockState BY <1>1, <1>12, ServiceUnlock
<1>13. CASE \/ ReaderWriteBody \/ (\E id \in Ids : CancelRequest(id)) \/ ReceiveMalformed
            \/ NotifyWorker \/ EndOfInput \/ NotifyFinish \/ JoinWorker \/ WorkerWait
            \/ WcpHeader \/ WcpBody \/ UNCHANGED vars
  <2>1. /\ UNCHANGED <<received, activeRequests, started, queue, current, outcome>>
        /\ reader' = "push" <=> reader = "push"
        /\ reader = "push" => incoming' = incoming
        /\ worker' = worker \/ (worker \in IdleStates /\ worker' \in IdleStates)
    BY <1>13 DEF ReaderWriteBody, CancelRequest, ReceiveMalformed, NotifyWorker, EndOfInput,
       NotifyFinish, JoinWorker, WorkerWait, WorkerGoesTo, WcpHeader, WcpBody, Wake, vars,
       readerVars, workerVars, cancelVars, IdleStates
  <2> QED BY <1>1, <2>1, ServiceQuiet
<1> QED
  BY <1>3, <1>4, <1>5, <1>6, <1>7, <1>8, <1>9, <1>10, <1>11, <1>12, <1>13
     DEF Next, Reader, Worker, Terminated

(***************************************************************************)
(* The phases of the messages, and the steps of RpcService.                *)
(***************************************************************************)
Unbegun == {"popped", "process"}

\* PhaseOf, case by case.
LEMMA PhaseCases ==
    ASSUME NEW c
    PROVE  /\ c # current /\ Pending(c) => PhaseOf(c) = "waiting"
           /\ c # current /\ ~Pending(c) => PhaseOf(c) = "done"
           /\ c = current /\ worker \in Unbegun => PhaseOf(c) = "waiting"
           /\ c = current /\ worker = "unlock" => PhaseOf(c) = "done"
           /\ c = current /\ worker \notin Unbegun \cup {"unlock"} =>
                  PhaseOf(c) = IF outcome = "cancelled" /\ c \notin started
                               THEN "dropped" ELSE "running"
BY DEF PhaseOf, Unbegun

\* The same after a step.
LEMMA PhaseCasesNext ==
    ASSUME NEW c
    PROVE  /\ c # current' /\ Pending(c)' => PhaseOf(c)' = "waiting"
           /\ c # current' /\ ~Pending(c)' => PhaseOf(c)' = "done"
           /\ c = current' /\ worker' \in Unbegun => PhaseOf(c)' = "waiting"
           /\ c = current' /\ worker' = "unlock" => PhaseOf(c)' = "done"
           /\ c = current' /\ worker' \notin Unbegun \cup {"unlock"} =>
                  PhaseOf(c)' = IF outcome' = "cancelled" /\ c \notin started'
                                THEN "dropped" ELSE "running"
BY DEF PhaseOf, Unbegun

\* While no message is handled, none is current.
LEMMA CurrentFacts ==
    ASSUME ServiceInv
    PROVE  /\ DOMAIN received = 1..Len(received) /\ Len(received) \in Nat
           /\ worker \in IdleStates => current = 0
           /\ worker \notin IdleStates => current \in DOMAIN received
           /\ ~Queued(current) /\ (reader = "push" => current # incoming)
<1>1. TypeInv BY DEF ServiceInv, FlowInv
<1>2. DOMAIN received = 1..Len(received) /\ Len(received) \in Nat
      /\ current \in 0..Len(received)
  BY <1>1 DEF TypeInv, TypeOK
<1>3. ~Queued(current) /\ (reader = "push" => current # incoming)
  BY <1>1, ContextRanges DEF ServiceInv, FlowInv, InOrder, Queued
<1>4. worker \notin IdleStates => current # 0
  BY <1>1 DEF TypeInv, TypeOK, WorkerHasMessage, BusyStates, IdleStates
<1> QED BY <1>2, <1>3, <1>4 DEF ServiceInv, FlowInv, InOrder

\* A step that changes no phase and says nothing to the client is a stutter.
LEMMA Stutters ==
    ASSUME UNCHANGED <<received, cancelled, replies>>,
           \A c \in DOMAIN received : PhaseOf(c)' = PhaseOf(c)
    PROVE  UNCHANGED Service!vars
BY DEF Service!vars

\* So is one that leaves the message, the queue and the outcome alone.
LEMMA QuietStutters ==
    ASSUME ServiceInv,
           UNCHANGED <<received, cancelled, replies, started, queue, current, outcome>>,
           reader' = "push" <=> reader = "push",
           reader = "push" => incoming' = incoming,
           \/ worker' = worker
           \/ worker \in IdleStates /\ worker' \in IdleStates
           \/ worker \in Unbegun /\ worker' \in Unbegun
    PROVE  UNCHANGED Service!vars
<1> SUFFICES ASSUME NEW c \in DOMAIN received PROVE PhaseOf(c)' = PhaseOf(c)
  BY Stutters
<1>1. CASE worker' = worker
  BY <1>1 DEF PhaseOf, Pending
<1>2. CASE worker \in IdleStates /\ worker' \in IdleStates
  <2>1. c # current /\ c # current' BY <1>2, CurrentFacts
  <2>2. Pending(c)' <=> Pending(c) BY <2>1 DEF Pending
  <2> QED BY <2>1, <2>2, PhaseCases, PhaseCasesNext
<1>3. CASE worker \in Unbegun /\ worker' \in Unbegun
  <2>1. c # current => (Pending(c)' <=> Pending(c)) BY DEF Pending
  <2> QED BY <1>3, <2>1, PhaseCases, PhaseCasesNext
<1> QED BY <1>1, <1>2, <1>3

\* And one inside a handler, unless it decides to drop the message.
LEMMA HandlerStutters ==
    ASSUME ServiceInv,
           UNCHANGED <<received, cancelled, replies, started, queue, current, reader, incoming>>,
           worker \notin Unbegun \cup {"unlock"} \cup IdleStates,
           worker' \notin Unbegun \cup {"unlock"},
           outcome' = outcome \/ (outcome = "none" /\ current \in started)
               \/ (outcome = "none" /\ outcome' # "cancelled")
    PROVE  UNCHANGED Service!vars
<1> SUFFICES ASSUME NEW c \in DOMAIN received PROVE PhaseOf(c)' = PhaseOf(c)
  BY Stutters
<1>1. CASE c = current BY <1>1, PhaseCases, PhaseCasesNext
<1>2. CASE c # current
  <2>1. Pending(c)' <=> Pending(c) BY <1>2 DEF Pending
  <2> QED BY <1>2, <2>1, PhaseCases, PhaseCasesNext
<1> QED BY <1>1, <1>2

\* A message that joins the queue waits as before.
LEMMA PushStutters == ServiceInv /\ PushMessage => UNCHANGED Service!vars
<1> SUFFICES ASSUME ServiceInv, PushMessage, NEW c \in DOMAIN received
             PROVE  PhaseOf(c)' = PhaseOf(c)
  BY Stutters DEF PushMessage, cancelVars
<1>1. /\ reader = "push" /\ reader' = "notify" /\ queue' = Append(queue, incoming)
      /\ UNCHANGED <<incoming, worker, current, outcome, started>>
  BY DEF PushMessage, workerVars
<1>2. queue \in Seq(1..Len(received)) BY DEF ServiceInv, FlowInv, TypeInv, TypeOK
<1>3. Queued(c)' <=> (Queued(c) \/ c = incoming)
  BY <1>1, <1>2, AppendFacts DEF Queued
<1>4. Pending(c)' <=> Pending(c) BY <1>1, <1>3 DEF Pending, Queued
<1> QED BY <1>1, <1>4 DEF PhaseOf

\* So does the one the worker takes from it.
LEMMA PopStutters == ServiceInv /\ PopMessage => UNCHANGED Service!vars
<1> SUFFICES ASSUME ServiceInv, PopMessage, NEW c \in DOMAIN received
             PROVE  PhaseOf(c)' = PhaseOf(c)
  BY Stutters DEF PopMessage, cancelVars
<1>1. /\ worker = "idle" /\ worker' = "popped" /\ current = 0 /\ c # current
      /\ queue # <<>> /\ queue' = Tail(queue) /\ current' = Head(queue)
      /\ UNCHANGED <<incoming, reader>>
  BY CurrentFacts DEF PopMessage, WorkerGoesTo, readerVars, IdleStates
<1>2. queue \in Seq(1..Len(received)) BY DEF ServiceInv, FlowInv, TypeInv, TypeOK
<1>3. /\ 1 \in DOMAIN queue /\ current' = queue[1]
      /\ \A i \in DOMAIN queue : i = 1 \/ (i - 1 \in DOMAIN queue' /\ queue'[i - 1] = queue[i])
      /\ \A i \in DOMAIN queue' : i + 1 \in DOMAIN queue /\ queue'[i] = queue[i + 1]
  BY <1>1, <1>2, TailFacts
<1>4. /\ Queued(c) => Queued(c)' \/ c = current'
      /\ Queued(c)' => Queued(c)
      /\ Queued(current')
  BY <1>3 DEF Queued
<1>5. CASE c = current'
  BY <1>1, <1>4, <1>5, PhaseCases, PhaseCasesNext DEF Pending, Queued, Unbegun
<1>6. CASE c # current'
  <2>1. Pending(c)' <=> Pending(c) BY <1>1, <1>4, <1>6 DEF Pending, Queued
  <2> QED BY <1>1, <1>6, <2>1, PhaseCases, PhaseCasesNext
<1> QED BY <1>5, <1>6

\* One that is done stays done when the worker lets go of it.
LEMMA UnlockStutters == ServiceInv /\ UnlockState => UNCHANGED Service!vars
<1> SUFFICES ASSUME ServiceInv, UnlockState, NEW c \in DOMAIN received
             PROVE  PhaseOf(c)' = PhaseOf(c)
  BY Stutters DEF UnlockState, cancelVars
<1>1. /\ worker = "unlock" /\ worker' = "idle" /\ current' = 0 /\ c # current'
      /\ UNCHANGED <<incoming, reader, queue>>
  BY CurrentFacts DEF UnlockState, WorkerGoesTo, readerVars, IdleStates
<1>2. CASE c = current
  <2>1. ~Pending(c)' BY <1>1, <1>2, CurrentFacts DEF Pending, Queued
  <2> QED BY <1>1, <1>2, <2>1, PhaseCases, PhaseCasesNext
<1>3. CASE c # current
  <2>1. Pending(c)' <=> Pending(c) BY <1>1, <1>3 DEF Pending
  <2> QED BY <1>1, <1>3, <2>1, PhaseCases, PhaseCasesNext
<1> QED BY <1>2, <1>3

\* A function on 1..n+1 is the sequence that appends its last value to the rest.
LEMMA FunctionAppend ==
    ASSUME NEW n \in Nat, NEW S, NEW f \in [1..n -> S], NEW g \in [1..(n + 1) -> S],
           \A c \in 1..n : g[c] = f[c]
    PROVE  g = Append(f, g[n + 1])
<1>1. f \in Seq(S) /\ Len(f) = n OBVIOUS
<1>2. g \in Seq(S) /\ Len(g) = n + 1 OBVIOUS
<1>3. g[n + 1] \in S OBVIOUS
<1>4. Append(f, g[n + 1]) \in Seq(S) /\ Len(Append(f, g[n + 1])) = n + 1
  BY <1>1, <1>3, AppendProperties
<1>5. \A c \in 1..(n + 1) : Append(f, g[n + 1])[c] = g[c] BY <1>1, <1>3, AppendProperties
<1> QED BY <1>2, <1>4, <1>5, SeqEqual

\* When a message arrives the phases of the others stay.
LEMMA ArrivalPhases ==
    ASSUME ServiceInv, ServiceInv', NEW m, ReceivedTypes(m),
           UNCHANGED <<queue, current, outcome>>, reader # "push",
           reader' = "push" => incoming' = NewContext,
           worker' = worker \/ (worker \in IdleStates /\ worker' \in IdleStates),
           started' \in {started, started \cup {NewContext}}
    PROVE  [c \in DOMAIN received' |-> PhaseOf(c)']
               = Append([c \in DOMAIN received |-> PhaseOf(c)],
                        IF reader' = "push" THEN "waiting" ELSE "done")
<1> DEFINE f == [c \in DOMAIN received |-> PhaseOf(c)]
           g == [c \in DOMAIN received' |-> PhaseOf(c)']
           x == IF reader' = "push" THEN "waiting" ELSE "done"
<1>1. /\ DOMAIN received = 1..Len(received) /\ Len(received) \in Nat
      /\ DOMAIN received' = 1..(Len(received) + 1)
      /\ NewContext = Len(received) + 1
      /\ NewContext \notin DOMAIN received
  BY CurrentFacts, ArrivalFacts DEF ReceivedTypes, ServiceInv
<1> PICK n : n = NewContext OBVIOUS
<1>2. ~Queued(n) /\ current # n /\ current' # n
  BY ContextRanges DEF ServiceInv, FlowInv, Queued
<1>3. PhaseOf(n)' = x
  <2>1. Pending(n)' <=> reader' = "push"
    BY <1>2 DEF Pending, Queued
  <2> QED BY <1>2, <2>1, PhaseCasesNext
<1>4. ASSUME NEW c \in DOMAIN received PROVE PhaseOf(c)' = PhaseOf(c)
  <2>1. c # NewContext BY <1>1
  <2>2. CASE worker' = worker BY <1>4, <2>1, <2>2 DEF PhaseOf, Pending
  <2>3. CASE worker \in IdleStates /\ worker' \in IdleStates
    <3>1. c # current /\ c # current' BY <1>4, <2>3, CurrentFacts
    <3>2. Pending(c)' <=> Pending(c) BY <2>1, <3>1 DEF Pending
    <3> QED BY <3>1, <3>2, PhaseCases, PhaseCasesNext
  <2> QED BY <2>2, <2>3
<1>5. \A c \in 1..Len(received) : f[c] = PhaseOf(c) BY <1>1
<1>6. \A c \in 1..(Len(received) + 1) : g[c] = PhaseOf(c)' BY <1>1
<1>7. \A c \in 1..Len(received) : g[c] = f[c]
  BY <1>1, <1>4, <1>5, <1>6
<1>8. g[Len(received) + 1] = x
  <2>1. n = Len(received) + 1 /\ n \in DOMAIN received' BY <1>1
  <2> QED BY <1>3, <2>1
<1> DEFINE S == {f[c] : c \in DOMAIN received} \cup {g[c] : c \in DOMAIN received'}
<1>9. f \in [1..Len(received) -> S] /\ g \in [1..(Len(received) + 1) -> S] BY <1>1, Zenon
<1> HIDE DEF f, g, x, S
<1>10. g = Append(f, x) BY <1>1, <1>7, <1>8, <1>9, FunctionAppend
<1> QED BY <1>10 DEF f, g, x

\* A message that is registered arrives; the older change it supersedes, if
\* there is one, can be interrupted.
LEMMA ReceiveArrives ==
    ServiceInv /\ ServiceInv' /\ ReceiveMessage => Service!Arrive
<1> SUFFICES ASSUME ServiceInv, ServiceInv', ReceiveMessage PROVE Service!Arrive OBVIOUS
<1>1. TypeInv BY DEF ServiceInv, FlowInv
<1>2. PICK m \in ClientMessages : received' = Append(received, m) /\ Register(NewContext, m)
  BY DEF ReceiveMessage
<1>3. m \in Message /\ WellFormed(m) /\ Len(received) < MaxMessages
  BY ClientMessageType DEF WellFormed, ReceiveMessage, MayReceive
<1>4. ReceivedTypes(m) BY <1>1, <1>2, <1>3, ReceiveTypes
<1>5. /\ UNCHANGED <<queue, current, outcome, worker, started, replies>>
      /\ reader = "read" /\ reader' = "push" /\ incoming' = NewContext
  BY DEF ReceiveMessage, workerVars
<1>6. [c \in DOMAIN received' |-> PhaseOf(c)']
          = Append([c \in DOMAIN received |-> PhaseOf(c)], "waiting")
  BY <1>4, <1>5, ArrivalPhases
<1>7. \E older \in SUBSET (DOMAIN received) :
          /\ \A c \in older : TakesContext(received[c])
          /\ cancelled' = cancelled \cup older
  <2>1. CASE m.uri = NoUri
    <3>1. cancelled' = cancelled \cup {} BY <1>2, <2>1 DEF Register
    <3> QED BY <3>1
  <2>2. CASE m.uri # NoUri
    <3> DEFINE older == {pendingDocumentChanges[m.uri]} \ {0}
    <3>1. cancelled' = cancelled \cup older BY <1>2, <2>2 DEF Register
    <3>2. m.uri \in Uris BY <1>3, <2>2 DEF Message
    <3>3. older \subseteq DOMAIN received BY <1>1, <3>2, CurrentFacts DEF TypeInv, TypeOK
    <3>4. \A c \in older : received[c].uri # NoUri
      BY <2>2, <3>2 DEF ServiceInv, CancelInv, MapsPointAtTheirKeys
    <3>5. \A c \in older : TakesContext(received[c])
      BY <3>3, <3>4
         DEF ServiceInv, CancelInv, EditsAreDidChanges, WellFormed, TakesContext,
             CancellableMethods
    <3> QED BY <3>1, <3>3, <3>5
  <2> QED BY <2>1, <2>2
<1> QED BY <1>2, <1>3, <1>5, <1>6, <1>7 DEF Service!Arrive

\* A message that is answered on arrival, by the handler of initialize or by a
\* refusal.
LEMMA AnsweredAtOnce ==
    ASSUME ServiceInv, ServiceInv', NEW m \in Message, Len(received) < MaxMessages,
           received' = Append(received, m),
           NEW kind \in ReplyKinds \ {"cancelled"},
           replies' = Append(replies, [ctx |-> NewContext, kind |-> kind]),
           UNCHANGED <<queue, current, outcome, cancelled>>,
           reader # "push", reader' # "push",
           worker' = worker \/ (worker \in IdleStates /\ worker' \in IdleStates),
           started' \in {started, started \cup {NewContext}}
    PROVE  Service!AnswerAtOnce
<1>1. ReceivedTypes(m) BY ReceiveTypes DEF ServiceInv, FlowInv
<1>2. [c \in DOMAIN received' |-> PhaseOf(c)']
          = Append([c \in DOMAIN received |-> PhaseOf(c)], "done")
  BY <1>1, ArrivalPhases
<1> QED BY <1>2 DEF Service!AnswerAtOnce, Service!Answer, NewContext

\* A cancellation finds a message that is not done, and one that runs only if
\* its handler can be interrupted.
LEMMA CancelCancels ==
    ASSUME ServiceInv, NEW id \in Ids, CancelRequest(id)
    PROVE  \E c \in DOMAIN received : Service!Cancel(c)
<1> PICK c : c = activeRequests[id] OBVIOUS
<1>1. /\ c \in DOMAIN received /\ Pending(c)
      /\ c \in started => TakesContext(received[c])
      /\ cancelled' = cancelled \cup {c}
      /\ UNCHANGED <<reader, incoming, received, queue, worker, current, outcome, started,
                     replies>>
  BY CurrentFacts
     DEF CancelRequest, MayCancel, Cancellable, ServiceInv, ActiveArePending, FlowInv, TypeInv,
         TypeOK, readerVars, workerVars
<1>2. PhaseOf(c) # "done"
  <2>1. CASE c # current BY <1>1, <2>1, PhaseCases
  <2>2. CASE c = current
    <3>1. worker # "unlock"
      BY <1>1, <2>2, CurrentFacts DEF Pending, Queued
    <3> QED BY <2>2, <3>1, PhaseCases
  <2> QED BY <2>1, <2>2
<1>3. PhaseOf(c) = "running" /\ IsRegistered(received[c]) => TakesContext(received[c])
  <2> SUFFICES ASSUME PhaseOf(c) = "running", IsRegistered(received[c]) PROVE c \in started
    BY <1>1
  <2>1. c = current /\ worker \notin Unbegun \cup {"unlock"}
    BY <1>1, PhaseCases DEF Pending
  <2>2. ~(outcome = "cancelled" /\ c \notin started)
    BY <2>1, PhaseCases
  <2>3. worker \notin IdleStates BY <1>1, <2>1, CurrentFacts
  <2> QED BY <2>1, <2>2, <2>3 DEF ServiceInv, OutcomesAreOfHandlers, Registered, Unbegun
<1>4. UNCHANGED [d \in DOMAIN received |-> PhaseOf(d)]
  BY <1>1 DEF PhaseOf, Pending
<1>5. [d \in DOMAIN received |-> PhaseOf(d)][c] = PhaseOf(c) BY <1>1
<1> QED BY <1>1, <1>2, <1>3, <1>4, <1>5 DEF Service!Cancel

\* The phases of all messages but the current one stay while it is handled.
LEMMA OthersKeepPhase ==
    ASSUME ServiceInv, UNCHANGED <<received, queue, current, reader, incoming>>
    PROVE  [c \in DOMAIN received' |-> PhaseOf(c)']
               = [[c \in DOMAIN received |-> PhaseOf(c)] EXCEPT ![current] = PhaseOf(current)']
<1> PICK d : d = current OBVIOUS
<1>1. PhaseOf(current)' = PhaseOf(d)' BY DEF PhaseOf, Pending
<1>2. ASSUME NEW c \in DOMAIN received, c # d PROVE PhaseOf(c)' = PhaseOf(c)
  <2>1. Pending(c)' <=> Pending(c) BY <1>2 DEF Pending
  <2> QED BY <1>2, <2>1, PhaseCases, PhaseCasesNext
<1> QED BY <1>1, <1>2

\* processMessage looks at the message: nothing else runs, and everything that
\* arrived before it is done.
LEMMA StartBegins ==
    ServiceInv /\ ServiceInv' /\ StartMessage => Service!Begin(current)
<1> SUFFICES ASSUME ServiceInv, ServiceInv', StartMessage PROVE Service!Begin(current) OBVIOUS
<1> DEFINE f == [c \in DOMAIN received |-> PhaseOf(c)]
<1>1. /\ UNCHANGED <<received, queue, current, reader, incoming, cancelled, replies>>
      /\ worker = "process"
  BY DEF StartMessage, readerVars, cancelVars
<1>2. current \in DOMAIN received /\ current \notin started /\ outcome = "none"
  BY <1>1, CurrentFacts DEF ServiceInv, StartedAreBegun, OutcomesAreOfHandlers, IdleStates
<1>3. \A c \in DOMAIN received : PhaseOf(c) \in {"waiting", "done"}
  BY <1>1, PhaseCases DEF Unbegun
<1>4. PhaseOf(current) = "waiting" BY <1>1, PhaseCases DEF Unbegun
<1>5. \A d \in 1..(current - 1) : d \in DOMAIN received /\ PhaseOf(d) = "done"
  <2> SUFFICES ASSUME NEW d \in 1..(current - 1)
               PROVE  d \in DOMAIN received /\ PhaseOf(d) = "done"
    OBVIOUS
  <2>1. d \in DOMAIN received /\ d # current /\ d < current /\ d \in Nat /\ current \in Nat
    BY <1>2, CurrentFacts
  <2>2. ~Pending(d)
    BY <2>1, ContextRanges DEF Pending, ServiceInv, FlowInv, InOrder
  <2> QED BY <2>1, <2>2, PhaseCases
<1>6. PICK e : e = current OBVIOUS
<1>7. PhaseOf(e)' = IF IsRegistered(received[e]) /\ e \in cancelled
                    THEN "dropped" ELSE "running"
  <2>1. Registered(e) => IsRequest(e) BY <1>2, <1>6 DEF ServiceInv, FlowInv, NotLost
  <2>2. \/ /\ ~Registered(e) /\ outcome' = "none"
           /\ worker' \in {"apply", "handle", "unregister"}
        \/ /\ Registered(e) /\ e \in cancelled /\ worker' = "unregister"
           /\ outcome' = "cancelled" /\ UNCHANGED started
        \/ /\ Registered(e) /\ e \notin cancelled /\ worker' = "handle" /\ outcome' = "none"
    BY <1>2, <1>6, <2>1 DEF StartMessage, WorkerGoesTo
  <2> QED BY <1>1, <1>2, <1>6, <2>2, PhaseCasesNext DEF Unbegun, Registered
<1>8. [c \in DOMAIN received' |-> PhaseOf(c)'] = [f EXCEPT ![e] = PhaseOf(e)']
  <2>1. PhaseOf(current)' = PhaseOf(e)' BY <1>1, <1>6 DEF PhaseOf, Pending
  <2> QED BY <1>1, <1>6, <2>1, OthersKeepPhase
<1>9. f[e] = "waiting" /\ (\A d \in 1..(e - 1) : f[d] = "done")
      /\ ~\E c \in DOMAIN f : f[c] \in {"running", "dropped"}
  BY <1>2, <1>3, <1>4, <1>5, <1>6
<1> HIDE DEF f
<1>10. Service!Begin(e)
  BY <1>1, <1>7, <1>8, <1>9 DEF Service!Begin, Service!Busy, f
<1> QED BY <1>6, <1>10

\* A message that gets no answer ends when it is forgotten by the tables.
LEMMA UnregisterFinishes ==
    ASSUME ServiceInv, Unregister, outcome = "none" PROVE Service!Finish(current)
<1> DEFINE f == [c \in DOMAIN received |-> PhaseOf(c)]
<1> PICK e : e = current OBVIOUS
<1>1. /\ UNCHANGED <<received, queue, current, reader, incoming, cancelled, replies, outcome>>
      /\ worker = "unregister" /\ worker' = "unlock"
  BY DEF Unregister, WorkerGoesTo, readerVars
<1>2. e \in DOMAIN received /\ ~IsRegistered(received[e])
  BY <1>1, CurrentFacts DEF ServiceInv, FlowInv, NotLost, Registered, IdleStates
<1>3. f[e] = "running" BY <1>1, <1>2, PhaseCases DEF Unbegun
<1>4. [c \in DOMAIN received' |-> PhaseOf(c)'] = [f EXCEPT ![e] = "done"]
  <2>1. PhaseOf(e)' = "done" BY <1>1, PhaseCasesNext
  <2>2. PhaseOf(current)' = PhaseOf(e)' BY <1>1 DEF PhaseOf, Pending
  <2> QED BY <1>1, <2>1, <2>2, OthersKeepPhase
<1> HIDE DEF f
<1>5. Service!Finish(e) BY <1>1, <1>2, <1>3, <1>4 DEF Service!Finish, f
<1> QED BY <1>5

\* Every other one ends with its answer.
LEMMA ReplyFinishes ==
    ASSUME ServiceInv, ReplyBody PROVE Service!Finish(current)
<1> DEFINE f == [c \in DOMAIN received |-> PhaseOf(c)]
<1> PICK e : e = current OBVIOUS
<1>1. /\ UNCHANGED <<received, queue, current, reader, incoming, cancelled, outcome>>
      /\ worker = "replyBody" /\ worker' = "unlock"
      /\ replies' = Append(replies, [ctx |-> e, kind |-> outcome])
  BY DEF ReplyBody, WorkerGoesTo, readerVars, cancelVars
<1>2. /\ e \in DOMAIN received /\ outcome \in {"result", "error", "cancelled"}
      /\ IsRegistered(received[e])
  BY <1>1, CurrentFacts
     DEF ServiceInv, FlowInv, TypeInv, TypeOK, OutcomeFits, OutcomesAreOfHandlers, Registered,
         IdleStates
<1>3. f[e] = IF outcome = "cancelled" /\ e \notin started THEN "dropped" ELSE "running"
  BY <1>1, <1>2, PhaseCases DEF Unbegun
<1>4. outcome = "cancelled" => e \in cancelled
                               /\ (e \notin started \/ TakesContext(received[e]))
  BY <1>2 DEF ServiceInv, CancelInv, CancelledAnswersAreMarked, StartedUncancellable,
     Cancellable
<1>5. [c \in DOMAIN received' |-> PhaseOf(c)'] = [f EXCEPT ![e] = "done"]
  <2>1. PhaseOf(e)' = "done" BY <1>1, PhaseCasesNext
  <2>2. PhaseOf(current)' = PhaseOf(e)' BY <1>1 DEF PhaseOf, Pending
  <2> QED BY <1>1, <2>1, <2>2, OthersKeepPhase
<1> HIDE DEF f
<1>6. Service!Finish(e)
  BY <1>1, <1>2, <1>3, <1>4, <1>5 DEF Service!Finish, Service!Answer, ReplyKinds, f
<1> QED BY <1>6

\* At the start no message has arrived.
LEMMA InitService == Init => Service!Init
BY DEF Init, Service!Init

\* Every step of the threads is a step of RpcService or none.
LEMMA StepService ==
    ServiceInv /\ ServiceInv' /\ [Next]_vars => [Service!Next]_(Service!vars)
<1> SUFFICES ASSUME ServiceInv, ServiceInv', [Next]_vars
             PROVE  Service!Next \/ UNCHANGED Service!vars
  OBVIOUS
<1>1. CASE ReceiveMessage BY <1>1, ReceiveArrives DEF Service!Next
<1>2. CASE HandleInitialize
  <2>1. PICK id \in FreeIds : received' = Append(received, Request("initialize", id))
    BY <1>2 DEF HandleInitialize
  <2>2. PICK kind \in {"result", "error"} :
            replies' = Append(replies, [ctx |-> NewContext, kind |-> kind])
    BY <1>2 DEF HandleInitialize
  <2> DEFINE m == Request("initialize", id)
  <2>3. m \in Message /\ Len(received) < MaxMessages /\ kind \in ReplyKinds \ {"cancelled"}
    BY <1>2, ClientMessageType DEF WellFormed, HandleInitialize, MayReceive, ReplyKinds
  <2>4. /\ UNCHANGED <<queue, current, outcome, cancelled>>
        /\ worker = "absent" /\ worker' = "idle" /\ reader = "init" /\ reader' = "read"
        /\ started' = started \cup {NewContext}
    BY <1>2 DEF HandleInitialize, cancelVars, ServiceInv, FlowInv, TypeInv, OutcomeFits
  <2> HIDE DEF m
  <2>5. received' = Append(received, m) BY <2>1 DEF m
  <2> QED BY <2>2, <2>3, <2>4, <2>5, AnsweredAtOnce DEF Service!Next, IdleStates
<1>3. CASE RefuseBeforeInitialize \/ RefuseAfterShutdown
  <2>1. PICK kind \in {"notInitialized", "invalidRequest"} : Refuse(kind)
    BY <1>3 DEF RefuseBeforeInitialize, RefuseAfterShutdown
  <2>2. /\ UNCHANGED <<reader, incoming, queue, worker, current, outcome, started, cancelled>>
        /\ reader # "push"
    BY <1>3 DEF RefuseBeforeInitialize, RefuseAfterShutdown, readerVars, workerVars, cancelVars
  <2>3. CASE UNCHANGED <<received, replies>> BY <2>2, <2>3, QuietStutters
  <2>4. CASE \E m \in ClientRequests :
                /\ received' = Append(received, m)
                /\ replies' = Append(replies, [ctx |-> NewContext, kind |-> kind])
    <3>1. PICK m \in ClientRequests :
                /\ received' = Append(received, m)
                /\ replies' = Append(replies, [ctx |-> NewContext, kind |-> kind])
      BY <2>4
    <3>2. m \in Message /\ Len(received) < MaxMessages /\ kind \in ReplyKinds \ {"cancelled"}
      BY <2>1, ClientMessageType DEF WellFormed, Refuse, MayReceive, ReplyKinds
    <3> QED BY <2>2, <3>1, <3>2, AnsweredAtOnce DEF Service!Next
  <2> QED BY <2>1, <2>3, <2>4 DEF Refuse
<1>4. CASE \E id \in Ids : CancelRequest(id) BY <1>4, CancelCancels DEF Service!Next
<1>5. CASE StartMessage
  <2>1. current \in DOMAIN received
    BY <1>5, CurrentFacts DEF StartMessage, IdleStates
  <2> QED BY <1>5, <2>1, StartBegins DEF Service!Next
<1>6. CASE Unregister
  <2>1. current \in DOMAIN received
    BY <1>6, CurrentFacts DEF Unregister, IdleStates
  <2>2. CASE outcome = "none" BY <1>6, <2>1, <2>2, UnregisterFinishes DEF Service!Next
  <2>3. CASE outcome # "none"
    <3>1. /\ UNCHANGED <<received, cancelled, replies, started, queue, current, reader,
                         incoming, outcome>>
          /\ worker = "unregister" /\ worker' = "reply"
      BY <1>6, <2>3 DEF Unregister, WorkerGoesTo, readerVars
    <3> QED BY <3>1, HandlerStutters DEF Unbegun, IdleStates
  <2> QED BY <2>2, <2>3
<1>7. CASE ReplyBody
  <2>1. current \in DOMAIN received BY <1>7, CurrentFacts DEF ReplyBody, IdleStates
  <2> QED BY <1>7, <2>1, ReplyFinishes DEF Service!Next
<1>8. CASE PushMessage BY <1>8, PushStutters
<1>9. CASE PopMessage BY <1>9, PopStutters
<1>10. CASE UnlockState BY <1>10, UnlockStutters
<1>11. CASE RunHandler
  <2>1. /\ UNCHANGED <<received, cancelled, replies, started, queue, current, reader, incoming>>
        /\ worker = "handle" /\ worker' = "unregister"
        /\ outcome' = outcome \/ IsRequest(current)
    BY <1>11 DEF RunHandler, WorkerGoesTo, readerVars, cancelVars
  <2>2. IsRequest(current) => outcome = "none" /\ current \in started
    BY <2>1 DEF ServiceInv, OutcomesAreOfHandlers, IdleStates
  <2> QED BY <2>1, <2>2, HandlerStutters DEF Unbegun, IdleStates
<1>12. CASE ApplyChange \/ Analyse \/ PublishHeader \/ PublishBody \/ ReplyHeader
  <2>1. /\ UNCHANGED <<received, cancelled, replies, started, queue, current, reader,
                       incoming, outcome>>
        /\ worker \in {"apply", "analyse", "publish", "publishBody", "reply"}
        /\ worker' \in {"analyse", "unregister", "publish", "publishBody", "replyBody"}
    BY <1>12 DEF ApplyChange, Analyse, PublishHeader, PublishBody, ReplyHeader, WorkerGoesTo,
       readerVars, cancelVars
  <2> QED BY <2>1, HandlerStutters DEF Unbegun, IdleStates
<1>13. CASE \/ ReaderWriteBody \/ ReceiveMalformed \/ NotifyWorker \/ EndOfInput
            \/ NotifyFinish \/ JoinWorker \/ WorkerWait \/ LockState \/ WcpHeader \/ WcpBody
            \/ UNCHANGED vars
  <2>1. /\ UNCHANGED <<received, cancelled, replies, started, queue, current, outcome>>
        /\ reader' = "push" <=> reader = "push"
        /\ reader = "push" => incoming' = incoming
        /\ \/ worker' = worker
           \/ worker \in IdleStates /\ worker' \in IdleStates
           \/ worker \in Unbegun /\ worker' \in Unbegun
    BY <1>13 DEF ReaderWriteBody, ReceiveMalformed, NotifyWorker, EndOfInput, NotifyFinish,
       JoinWorker, WorkerWait, LockState, WorkerGoesTo, WcpHeader, WcpBody, Wake, vars,
       readerVars, workerVars, cancelVars, IdleStates, Unbegun
  <2> QED BY <2>1, QuietStutters
<1> QED
  BY <1>1, <1>2, <1>3, <1>4, <1>5, <1>6, <1>7, <1>8, <1>9, <1>10, <1>11, <1>12, <1>13
     DEF Next, Reader, Worker, Terminated

\* Whatever the threads do, the client sees messages handled one at a time in
\* order of arrival, each finished once, and cancellations that only drop what
\* has not begun or can be interrupted: for every number of messages, ids and
\* documents.
THEOREM ServiceRefinementTheorem == Spec => ImplementsRpcService
<1>1. Spec => []ServiceInv BY InitServiceInv, StepServiceInv, PTL DEF Spec
<1> QED BY <1>1, InitService, StepService, PTL
     DEF Spec, ImplementsRpcService, Service!Spec
==============================================================================
