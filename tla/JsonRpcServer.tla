---------------------------- MODULE JsonRpcServer ----------------------------
(***************************************************************************)
(* The JSON-RPC transport of the language server                           *)
(* (include/lsp/JsonRpcServer.h, RequestContext.h and JsonRpc.h).          *)
(*                                                                         *)
(* Three threads share it:                                                 *)
(*   - the reader (the thread that calls run()) takes messages from stdin, *)
(*     registers a cancellation context for each and queues it; it handles *)
(*     $/cancelRequest itself, ahead of everything that is queued;         *)
(*   - the worker pops the queue in order and runs the handlers while it   *)
(*     holds serverStateMutex;                                             *)
(*   - the thread of the waveform viewer's socket (WCP) takes the same     *)
(*     mutex around its own handlers.                                      *)
(*                                                                         *)
(* A message is its arrival number (the id of its RequestContext); what it *)
(* asks is received[c].  The handler of textDocument/didChange is modelled *)
(* in its steps (apply the text, analyse, publish), every other handler by *)
(* its outcome.  Logging is left out.                                      *)
(***************************************************************************)
EXTENDS Naturals, Sequences, FiniteSets

CONSTANTS
    Ids,            \* JSON-RPC ids the client uses
    Uris,           \* documents the client edits
    NoId, NoUri,    \* absent id / absent uri
    MaxMessages,    \* bound: messages, other than cancellations, the client sends
    MaxWcp          \* bound: messages the waveform viewer sends

ASSUME ConstantsAssumption ==
    /\ NoId \notin Ids
    /\ NoUri \notin Uris
    /\ MaxMessages \in Nat
    /\ MaxWcp \in Nat

VARIABLES
    reader,         \* where run() is on the reading thread
    received,       \* the messages received so far: c is received[c]
    incoming,       \* the message registered and not yet pushed, or 0
    queue,          \* the messages waiting for the worker
    inputFinished,  \* set when the reading thread stops reading
    worker,         \* where the worker is
    current,        \* the message the worker handles, or 0
    outcome,        \* what processMessage returned for it
    stateOwner,     \* holder of serverStateMutex
    activeRequests, \* id |-> context, 0 when absent
    pendingDocumentChanges, \* uri |-> context of the latest didChange, 0 when absent
    cancelled,      \* contexts whose cancelled flag is set
    started,        \* contexts whose started flag is set
    text,           \* uri |-> the didChange its buffer holds
    analysed,       \* uri |-> the didChange whose diagnostics were published
    failed,         \* didChanges whose handler threw: not applied, or not analysed
    writing,        \* threads between the header and the body of a frame
    replies,        \* answers sent, in order
    wcpLeft         \* messages the viewer may still send

readerVars == <<reader, incoming, inputFinished>>
workerVars == <<worker, current, outcome>>
cancelVars == <<activeRequests, pendingDocumentChanges, cancelled>>
docVars    == <<text, analysed, failed>>
vars == <<reader, received, incoming, queue, inputFinished, worker, current,
          outcome, stateOwner, activeRequests, pendingDocumentChanges,
          cancelled, started, text, analysed, failed, writing, replies,
          wcpLeft>>

(***************************************************************************)
(* Messages.                                                               *)
(***************************************************************************)
\* Methods whose handler takes a RequestContext (cancellableMethods).
CancellableMethods == {"withContext", "textDocument/didChange"}

\* Request methods registered in the requests map.  "plain" stands for every
\* one without a context, "withContext" for the ones with it.
RequestMethods == {"initialize", "plain", "withContext", "shutdown"}

Request(method, id) == [method |-> method, id |-> id, uri |-> NoUri]
DidChange(uri) == [method |-> "textDocument/didChange", id |-> NoId, uri |-> uri]
Notification == [method |-> "notification", id |-> NoId, uri |-> NoUri]

Message == [method : RequestMethods \cup {"unknown", "notification",
                                          "textDocument/didChange"},
            id : Ids \cup {NoId}, uri : Uris \cup {NoUri}]

Contexts == 1..MaxMessages
IsRequest(c) == received[c].id # NoId
IsEdit(c) == received[c].uri # NoUri
TakesContext(m) == m.method \in CancellableMethods
IsRegistered(m) == m.method \in RequestMethods
Cancellable(c) == TakesContext(received[c])
Registered(c) == IsRegistered(received[c])
Answered(c) == \E i \in DOMAIN replies : replies[i].ctx = c

\* The client does not reuse an id while a request with it is unanswered.
Outstanding(id) == \E c \in DOMAIN received : received[c].id = id /\ ~Answered(c)
FreeIds == {id \in Ids : ~Outstanding(id)}

\* What the client may send once the server is initialised.
ClientRequests ==
    {Request(m, id) : m \in {"plain", "withContext", "unknown", "shutdown"}, id \in FreeIds}
ClientMessages == ClientRequests \cup {DidChange(u) : u \in Uris} \cup {Notification}

NewContext == Len(received) + 1
MayReceive == Len(received) < MaxMessages /\ "reader" \notin writing

Init ==
    /\ reader = "init"
    /\ received = <<>>
    /\ incoming = 0
    /\ queue = <<>>
    /\ inputFinished = FALSE
    /\ worker = "absent"
    /\ current = 0
    /\ outcome = "none"
    /\ stateOwner = "none"
    /\ activeRequests = [id \in Ids |-> 0]
    /\ pendingDocumentChanges = [u \in Uris |-> 0]
    /\ cancelled = {}
    /\ started = {}
    /\ text = [u \in Uris |-> 0]
    /\ analysed = [u \in Uris |-> 0]
    /\ failed = {}
    /\ writing = {}
    /\ replies = <<>>
    /\ wcpLeft = MaxWcp

(***************************************************************************)
(* The reading thread.                                                     *)
(***************************************************************************)
\* sendMessage of an error on the reading thread: the header now, the body in
\* ReaderWriteBody.  Nothing orders it with the frames of the other threads.
\* A notification is refused too, with an error that has no id.
Refuse(kind) ==
    /\ MayReceive
    /\ \/ \E m \in ClientRequests :
              /\ received' = Append(received, m)
              /\ replies' = Append(replies, [ctx |-> NewContext, kind |-> kind])
       \/ UNCHANGED <<received, replies>>
    /\ writing' = writing \cup {"reader"}

ReaderWriteBody ==
    /\ "reader" \in writing
    /\ writing' = writing \ {"reader"}
    /\ UNCHANGED <<readerVars, received, queue, workerVars, stateOwner, cancelVars,
                   started, docVars, replies, wcpLeft>>

\* Init loop: everything before "initialize" is refused.
RefuseBeforeInitialize ==
    /\ reader = "init"
    /\ Refuse("notInitialized")
    /\ UNCHANGED <<readerVars, queue, workerVars, stateOwner, cancelVars, started,
                   docVars, wcpLeft>>

\* "initialize" is handled on the reading thread, before the worker exists;
\* the loop ends whether its handler succeeds or throws.
HandleInitialize ==
    /\ reader = "init"
    /\ MayReceive
    /\ \E id \in FreeIds : received' = Append(received, Request("initialize", id))
    /\ started' = started \cup {NewContext}
    /\ \E kind \in {"result", "error"} :
           replies' = Append(replies, [ctx |-> NewContext, kind |-> kind])
    /\ reader' = "read"
    /\ worker' = "idle"
    /\ UNCHANGED <<incoming, inputFinished, queue, current, outcome, stateOwner,
                   cancelVars, docVars, writing, wcpLeft>>

\* Wrong variant of Register: contexts without cancellation support return early.
RegisterCancellableOnly(c, m) ==
    /\ activeRequests' = IF m.method \in CancellableMethods /\ m.id # NoId
                         THEN [activeRequests EXCEPT ![m.id] = c] ELSE activeRequests
    /\ UNCHANGED <<pendingDocumentChanges, cancelled>>

\* registerContext, under cancellationMutex.
Register(c, m) ==
    /\ activeRequests' = IF m.id = NoId THEN activeRequests
                         ELSE [activeRequests EXCEPT ![m.id] = c]
    /\ IF m.uri = NoUri
       THEN UNCHANGED <<pendingDocumentChanges, cancelled>>
       ELSE /\ cancelled' = cancelled \cup ({pendingDocumentChanges[m.uri]} \ {0})
            /\ pendingDocumentChanges' = [pendingDocumentChanges EXCEPT ![m.uri] = c]

\* The first half of enqueue: the context exists and can be cancelled before
\* its message is in the queue.
ReceiveMessage ==
    /\ reader = "read"
    /\ MayReceive
    /\ \E m \in ClientMessages :
           /\ received' = Append(received, m)
           /\ Register(NewContext, m)
    /\ incoming' = NewContext
    /\ reader' = "push"
    /\ UNCHANGED <<inputFinished, queue, workerVars, stateOwner, started, docVars,
                   writing, replies, wcpLeft>>

\* Wrong variant of PushMessage: the context was moved from, so its id is 0.
PushMovedFrom ==
    /\ reader = "push"
    /\ queue' = Append(queue, 0)
    /\ reader' = "notify"
    /\ UNCHANGED <<received, incoming, inputFinished, workerVars, stateOwner,
                   cancelVars, started, docVars, writing, replies, wcpLeft>>

PushMessage ==
    /\ reader = "push"
    /\ queue' = Append(queue, incoming)
    /\ reader' = "notify"
    /\ UNCHANGED <<received, incoming, inputFinished, workerVars, stateOwner,
                   cancelVars, started, docVars, writing, replies, wcpLeft>>

\* Wrong variant of Wake: nobody is notified.
NoWake == worker' = worker

\* notify_one wakes the worker if it waits; "shutdown" ends the main loop.
Wake == worker' = IF worker = "asleep" THEN "idle" ELSE worker

NotifyWorker ==
    /\ reader = "notify"
    /\ Wake
    /\ reader' = IF received[incoming].method = "shutdown" THEN "shutdown" ELSE "read"
    /\ incoming' = 0
    /\ UNCHANGED <<received, inputFinished, queue, current, outcome, stateOwner,
                   cancelVars, started, docVars, writing, replies, wcpLeft>>

\* Wrong variant of MayCancel: whether the handler has started is not asked.
CancelAnything(c) == TRUE

\* cancelRequest, under cancellationMutex, on the reading thread.
MayCancel(c) == c \notin started \/ Cancellable(c)

CancelRequest(id) ==
    /\ reader \in {"read", "shutdown"}
    /\ "reader" \notin writing
    /\ activeRequests[id] # 0
    /\ MayCancel(activeRequests[id])
    /\ cancelled' = cancelled \cup {activeRequests[id]}
    /\ UNCHANGED <<readerVars, received, queue, workerVars, stateOwner, activeRequests,
                   pendingDocumentChanges, started, docVars, writing, replies, wcpLeft>>

\* Content that is not a JSON-RPC message is answered with an error of id 0,
\* by readJson, in every loop.
ReceiveMalformed ==
    /\ reader \in {"init", "read", "shutdown"}
    /\ "reader" \notin writing
    /\ writing' = writing \cup {"reader"}
    /\ UNCHANGED <<readerVars, received, queue, workerVars, stateOwner, cancelVars,
                   started, docVars, replies, wcpLeft>>

\* After shutdown, every message but "exit" and cancellations is refused.
RefuseAfterShutdown ==
    /\ reader = "shutdown"
    /\ Refuse("invalidRequest")
    /\ UNCHANGED <<readerVars, queue, workerVars, stateOwner, cancelVars, started,
                   docVars, wcpLeft>>

\* End of input in any loop, or "exit" after shutdown.  In the init loop
\* run() returns at once: there is no worker to join.
EndOfInput ==
    /\ reader \in {"init", "read", "shutdown"}
    /\ "reader" \notin writing
    /\ IF reader = "init"
       THEN reader' = "returned" /\ UNCHANGED inputFinished
       ELSE reader' = "finish" /\ inputFinished' = TRUE
    /\ UNCHANGED <<received, incoming, queue, workerVars, stateOwner, cancelVars,
                   started, docVars, writing, replies, wcpLeft>>

\* Wrong variant of NotifyFinish: the worker is not woken to see inputFinished.
FinishSilently ==
    /\ reader = "finish"
    /\ reader' = "join"
    /\ UNCHANGED <<received, incoming, inputFinished, queue, workerVars,
                   stateOwner, cancelVars, started, docVars, writing, replies, wcpLeft>>

NotifyFinish ==
    /\ reader = "finish"
    /\ Wake
    /\ reader' = "join"
    /\ UNCHANGED <<received, incoming, inputFinished, queue, current, outcome,
                   stateOwner, cancelVars, started, docVars, writing, replies, wcpLeft>>

JoinWorker ==
    /\ reader = "join"
    /\ worker = "exited"
    /\ reader' = "returned"
    /\ UNCHANGED <<received, incoming, inputFinished, queue, workerVars, stateOwner,
                   cancelVars, started, docVars, writing, replies, wcpLeft>>

Reader ==
    \/ ReaderWriteBody
    \/ RefuseBeforeInitialize
    \/ HandleInitialize
    \/ ReceiveMessage
    \/ PushMessage
    \/ NotifyWorker
    \/ \E id \in Ids : CancelRequest(id)
    \/ ReceiveMalformed
    \/ RefuseAfterShutdown
    \/ EndOfInput
    \/ NotifyFinish
    \/ JoinWorker

(***************************************************************************)
(* The worker.                                                             *)
(***************************************************************************)
WorkerGoesTo(pc) == worker' = pc

\* Wrong variants of PopMessage: the newest message first; the message stays queued.
PopNewest ==
    /\ worker = "idle"
    /\ queue # <<>>
    /\ current' = queue[Len(queue)]
    /\ queue' = SubSeq(queue, 1, Len(queue) - 1)
    /\ WorkerGoesTo("popped")
    /\ UNCHANGED <<readerVars, received, outcome, stateOwner, cancelVars, started,
                   docVars, writing, replies, wcpLeft>>

PeekMessage ==
    /\ worker = "idle"
    /\ queue # <<>>
    /\ current' = Head(queue)
    /\ WorkerGoesTo("popped")
    /\ UNCHANGED <<readerVars, received, queue, outcome, stateOwner, cancelVars, started,
                   docVars, writing, replies, wcpLeft>>

PopMessage ==
    /\ worker = "idle"
    /\ queue # <<>>
    /\ current' = Head(queue)
    /\ queue' = Tail(queue)
    /\ WorkerGoesTo("popped")
    /\ UNCHANGED <<readerVars, received, outcome, stateOwner, cancelVars, started,
                   docVars, writing, replies, wcpLeft>>

\* Wrong variants of WorkerWait: end of input outranks the queue; the queue is not
\* tested before waiting.
WaitDropsQueue ==
    /\ worker = "idle"
    /\ queue = <<>> \/ inputFinished
    /\ WorkerGoesTo(IF inputFinished THEN "exited" ELSE "asleep")
    /\ UNCHANGED <<readerVars, received, queue, current, outcome, stateOwner,
                   cancelVars, started, docVars, writing, replies, wcpLeft>>

WaitIgnoresQueue ==
    /\ worker = "idle"
    /\ WorkerGoesTo(IF inputFinished THEN "exited" ELSE "asleep")
    /\ UNCHANGED <<readerVars, received, queue, current, outcome, stateOwner,
                   cancelVars, started, docVars, writing, replies, wcpLeft>>

\* The predicate of queueCondition.wait, evaluated under queueMutex: with
\* nothing to do the worker sleeps, after the end of input it returns.
WorkerWait ==
    /\ worker = "idle"
    /\ queue = <<>>
    /\ WorkerGoesTo(IF inputFinished THEN "exited" ELSE "asleep")
    /\ UNCHANGED <<readerVars, received, queue, current, outcome, stateOwner,
                   cancelVars, started, docVars, writing, replies, wcpLeft>>

\* Wrong variant of LockState: handlers do not take the mutex the WCP thread takes.
ProcessUnlocked ==
    /\ worker = "popped"
    /\ WorkerGoesTo("process")
    /\ UNCHANGED <<readerVars, received, queue, current, outcome, stateOwner, cancelVars,
                   started, docVars, writing, replies, wcpLeft>>

\* handleMessage locks serverStateMutex.
LockState ==
    /\ worker = "popped"
    /\ stateOwner = "none"
    /\ stateOwner' = "worker"
    /\ WorkerGoesTo("process")
    /\ UNCHANGED <<readerVars, received, queue, current, outcome, cancelVars, started,
                   docVars, writing, replies, wcpLeft>>

\* processMessage up to the handler.  A request method that is not registered
\* produces no answer; a registered one goes through startRequest, which
\* tests the cancelled flag and sets started under cancellationMutex.
StartMessage ==
    /\ worker = "process"
    /\ CASE ~IsRequest(current) ->
              /\ WorkerGoesTo(IF IsEdit(current) THEN "apply" ELSE "handle")
              /\ UNCHANGED <<outcome, started>>
         [] IsRequest(current) /\ ~Registered(current) ->
              /\ WorkerGoesTo("unregister")
              /\ UNCHANGED <<outcome, started>>
         [] Registered(current) /\ current \in cancelled ->
              /\ WorkerGoesTo("unregister")
              /\ outcome' = "cancelled"
              /\ UNCHANGED started
         [] Registered(current) /\ current \notin cancelled ->
              /\ WorkerGoesTo("handle")
              /\ started' = started \cup {current}
              /\ UNCHANGED outcome
    /\ UNCHANGED <<readerVars, received, queue, current, stateOwner, cancelVars,
                   docVars, writing, replies, wcpLeft>>

\* A request handler returns or throws; what it returns is dropped if the
\* cancelled flag is set by then ("before response").  A notification has no
\* outcome.
RunHandler ==
    /\ worker = "handle"
    /\ \/ ~IsRequest(current) /\ UNCHANGED outcome
       \/ IsRequest(current) /\ outcome' = "error"
       \/ IsRequest(current)
              /\ outcome' = IF current \in cancelled THEN "cancelled" ELSE "result"
    /\ WorkerGoesTo("unregister")
    /\ UNCHANGED <<readerVars, received, queue, current, stateOwner, cancelVars,
                   started, docVars, writing, replies, wcpLeft>>

\* Wrong variant of ApplyChange: a superseded change is dropped before it is applied.
ApplyUnlessSuperseded ==
    /\ worker = "apply"
    /\ \/ /\ current \notin cancelled
          /\ text' = [text EXCEPT ![received[current].uri] = current]
          /\ WorkerGoesTo("analyse")
          /\ UNCHANGED failed
       \/ /\ failed' = IF current \in cancelled THEN failed
                            ELSE failed \cup {current}
          /\ WorkerGoesTo("unregister")
          /\ UNCHANGED text
    /\ UNCHANGED <<readerVars, received, queue, current, outcome, stateOwner, cancelVars,
                   started, analysed, writing, replies, wcpLeft>>

\* onDocDidChange: the new text is installed even if the change is already
\* superseded; the document may be unknown or the range out of bounds, and
\* then nothing changes.
ApplyChange ==
    /\ worker = "apply"
    /\ \/ /\ text' = [text EXCEPT ![received[current].uri] = current]
          /\ WorkerGoesTo("analyse")
          /\ UNCHANGED failed
       \/ /\ failed' = failed \cup {current}
          /\ WorkerGoesTo("unregister")
          /\ UNCHANGED text
    /\ UNCHANGED <<readerVars, received, queue, current, outcome, stateOwner, cancelVars,
                   started, analysed, writing, replies, wcpLeft>>

\* analyzeDocument up to its publication: a superseded change leaves at a
\* checkpoint, and an unreadable dependency throws out of the handler after the
\* text is installed.
Analyse ==
    /\ worker = "analyse"
    /\ \/ /\ WorkerGoesTo(IF current \in cancelled THEN "unregister" ELSE "publish")
          /\ UNCHANGED failed
       \/ /\ failed' = failed \cup {current}
          /\ WorkerGoesTo("unregister")
    /\ UNCHANGED <<readerVars, received, queue, current, outcome, stateOwner, cancelVars,
                   started, text, analysed, writing, replies, wcpLeft>>

\* pushDiags: a publishDiagnostics notification, header then body.
PublishHeader ==
    /\ worker = "publish"
    /\ writing' = writing \cup {"worker"}
    /\ WorkerGoesTo("publishBody")
    /\ UNCHANGED <<readerVars, received, queue, current, outcome, stateOwner, cancelVars,
                   started, docVars, replies, wcpLeft>>

PublishBody ==
    /\ worker = "publishBody"
    /\ writing' = writing \ {"worker"}
    /\ analysed' = [analysed EXCEPT ![received[current].uri] = current]
    /\ WorkerGoesTo("unregister")
    /\ UNCHANGED <<readerVars, received, queue, current, outcome, stateOwner, cancelVars,
                   started, text, failed, replies, wcpLeft>>

\* unregisterContext, under cancellationMutex: only the entry that is still
\* this context is erased.
EraseIf(f, k, c) == IF k \in DOMAIN f /\ f[k] = c THEN [f EXCEPT ![k] = 0] ELSE f

Unregister ==
    /\ worker = "unregister"
    /\ activeRequests' = EraseIf(activeRequests, received[current].id, current)
    /\ pendingDocumentChanges' =
           EraseIf(pendingDocumentChanges, received[current].uri, current)
    /\ WorkerGoesTo(IF outcome = "none" THEN "unlock" ELSE "reply")
    /\ UNCHANGED <<readerVars, received, queue, current, outcome, stateOwner, cancelled,
                   started, docVars, writing, replies, wcpLeft>>

ReplyHeader ==
    /\ worker = "reply"
    /\ writing' = writing \cup {"worker"}
    /\ WorkerGoesTo("replyBody")
    /\ UNCHANGED <<readerVars, received, queue, current, outcome, stateOwner, cancelVars,
                   started, docVars, replies, wcpLeft>>

ReplyBody ==
    /\ worker = "replyBody"
    /\ writing' = writing \ {"worker"}
    /\ replies' = Append(replies, [ctx |-> current, kind |-> outcome])
    /\ WorkerGoesTo("unlock")
    /\ UNCHANGED <<readerVars, received, queue, current, outcome, stateOwner, cancelVars,
                   started, docVars, wcpLeft>>

\* handleMessage returns and releases serverStateMutex.
UnlockState ==
    /\ worker = "unlock"
    /\ stateOwner' = "none"
    /\ current' = 0
    /\ outcome' = "none"
    /\ WorkerGoesTo("idle")
    /\ UNCHANGED <<readerVars, received, queue, cancelVars, started, docVars, writing,
                   replies, wcpLeft>>

Worker ==
    \/ PopMessage \/ WorkerWait \/ LockState \/ StartMessage \/ RunHandler
    \/ ApplyChange \/ Analyse \/ PublishHeader \/ PublishBody
    \/ Unregister \/ ReplyHeader \/ ReplyBody \/ UnlockState

(***************************************************************************)
(* The WCP thread: a handler that sends the client a request (showDocument)*)
(* while it holds serverStateMutex.  The thread exists once a waveform was *)
(* opened, so never before initialize.                                     *)
(***************************************************************************)
WcpHeader ==
    /\ wcpLeft > 0
    /\ worker # "absent"
    /\ stateOwner = "none"
    /\ stateOwner' = "wcp"
    /\ writing' = writing \cup {"wcp"}
    /\ wcpLeft' = wcpLeft - 1
    /\ UNCHANGED <<readerVars, received, queue, workerVars, cancelVars, started,
                   docVars, replies>>

WcpBody ==
    /\ stateOwner = "wcp"
    /\ stateOwner' = "none"
    /\ writing' = writing \ {"wcp"}
    /\ UNCHANGED <<readerVars, received, queue, workerVars, cancelVars, started,
                   docVars, replies, wcpLeft>>

\* run() has returned and every thread is done.
Terminated ==
    /\ reader = "returned"
    /\ worker \in {"absent", "exited"}
    /\ stateOwner = "none"
    /\ UNCHANGED vars

Next == Reader \/ Worker \/ WcpHeader \/ WcpBody \/ Terminated

Spec == Init /\ [][Next]_vars

(***************************************************************************)
(* Fairness.  A thread that can run runs.  The client owes nothing: that   *)
(* it sends a message, or closes the input, is not assumed, so only the    *)
(* steps a thread takes without new input are fair.  The mutex needs no    *)
(* strong fairness: the viewer sends finitely many messages.               *)
(***************************************************************************)
ReaderOwnSteps == ReaderWriteBody \/ PushMessage \/ NotifyWorker \/ NotifyFinish \/ JoinWorker

FairSpec ==
    /\ Spec
    /\ WF_vars(Worker)
    /\ WF_vars(ReaderOwnSteps)
    /\ WF_vars(WcpBody)

(***************************************************************************)
(* Properties.                                                             *)
(***************************************************************************)
WorkerStates == {"absent", "idle", "asleep", "exited", "popped", "process", "handle",
                 "apply", "analyse", "publish", "publishBody", "unregister", "reply",
                 "replyBody", "unlock"}
ReaderStates == {"init", "read", "push", "notify", "shutdown", "finish", "join", "returned"}
ReplyKinds == {"result", "error", "cancelled", "notInitialized", "invalidRequest"}

\* The values the variables take.
TypeOK ==
    /\ reader \in ReaderStates
    /\ received \in Seq(Message)
    /\ Len(received) <= MaxMessages
    /\ incoming \in 0..Len(received)
    /\ queue \in Seq(1..Len(received))
    /\ inputFinished \in BOOLEAN
    /\ worker \in WorkerStates
    /\ current \in 0..Len(received)
    /\ outcome \in {"none", "result", "error", "cancelled"}
    /\ stateOwner \in {"none", "worker", "wcp"}
    /\ activeRequests \in [Ids -> 0..Len(received)]
    /\ pendingDocumentChanges \in [Uris -> 0..Len(received)]
    /\ cancelled \in SUBSET (1..Len(received))
    /\ started \in SUBSET (1..Len(received))
    /\ text \in [Uris -> 0..Len(received)]
    /\ analysed \in [Uris -> 0..Len(received)]
    /\ failed \in SUBSET (1..Len(received))
    /\ writing \in SUBSET {"reader", "worker", "wcp"}
    /\ replies \in Seq([ctx : 1..Len(received), kind : ReplyKinds])
    /\ wcpLeft \in 0..MaxWcp

\* A request whose handler takes no context is never abandoned once its
\* handler has begun: cancelRequest and startRequest decide under one mutex,
\* so "cancelled" is answered only for a handler that never ran.
UncancellableRunsToCompletion ==
    \A c \in started : ~Cancellable(c) =>
        /\ c \notin cancelled
        /\ \A i \in DOMAIN replies : replies[i].ctx = c => replies[i].kind # "cancelled"

\* Each request is answered at most once, and nothing but a request is.
AtMostOneReply ==
    /\ \A i, j \in DOMAIN replies : replies[i].ctx = replies[j].ctx => i = j
    /\ \A i \in DOMAIN replies : IsRequest(replies[i].ctx)

\* A message is pending from its registration until its handler has finished.
Pending(c) ==
    \/ c = incoming /\ reader = "push"
    \/ \E i \in DOMAIN queue : queue[i] = c
    \/ c = current /\ worker \notin {"reply", "replyBody", "unlock"}

Edits(u) == {c \in DOMAIN received : received[c].uri = u}

\* A cancellation always finds a request that waits or runs: its id maps to
\* its own context from before it is queued until its handler has returned,
\* though ids are reused.
PendingRequestCanBeCancelled ==
    \A c \in DOMAIN received :
        IsRequest(c) /\ Pending(c) => activeRequests[received[c].id] = c

\* Only a newer change of the same document supersedes a change.
SupersededByNewer ==
    \A c \in cancelled : IsEdit(c) =>
        \E d \in DOMAIN received : c < d /\ received[d].uri = received[c].uri

\* Once every change of a document is handled, the buffer holds the newest one
\* whose handler did not throw or a newer one, and the published diagnostics are
\* those of the buffer, unless the analysis of that very change threw, or a newer
\* change superseded it and then threw itself.
SettledDocumentIsAnalysed ==
    \A u \in Uris : (\A c \in Edits(u) : ~Pending(c)) =>
        /\ \A c \in Edits(u) \ failed : c <= text[u]
        /\ \/ analysed[u] = text[u]
           \/ \E c \in Edits(u) \cap failed : c >= text[u]

\* No edit is applied out of order.
EditsApplyInOrder == [][\A u \in Uris : text'[u] >= text[u]]_vars

\* The worker and the WCP thread write whole frames: both hold
\* serverStateMutex.  Two writers meet only when one is the reading thread
\* that refuses a message.
FramesOfHandlersDoNotMix == ~({"worker", "wcp"} \subseteq writing)

\* run() returns only after everything queued was handled: requests with a
\* registered method are all answered.
NothingDroppedAtExit ==
    reader = "returned" =>
        /\ queue = <<>> /\ current = 0
        /\ \A c \in DOMAIN received : Registered(c) => Answered(c)

\* Once the input ends, run() returns: the worker is woken, drains the queue
\* and is joined.
InputEndTerminates == (reader = "finish") ~> (reader = "returned")

(***************************************************************************)
(* The server implements RpcService: a message waits until processMessage  *)
(* has looked at it, and is done when its answer is on the wire.           *)
(***************************************************************************)
PhaseOf(c) ==
    CASE c = current /\ worker \notin {"popped", "process"} ->
             IF worker = "unlock" THEN "done"
             ELSE IF outcome = "cancelled" /\ c \notin started THEN "dropped"
             ELSE "running"
      [] c # current /\ ~Pending(c) -> "done"
      [] OTHER -> "waiting"

Service == INSTANCE RpcService WITH
    Messages <- Message,
    AnswerKinds <- ReplyKinds \ {"cancelled"},
    Cancellable <- TakesContext,
    Answerable <- IsRegistered,
    phase <- [c \in DOMAIN received |-> PhaseOf(c)]

\* Whatever the threads do, the client sees messages handled one at a time in
\* order of arrival, and cancellations that only drop what has not begun or
\* can be interrupted.
ImplementsRpcService == Service!Spec

\* The same, and each of them is eventually begun and finished, so that every
\* request with a registered method is answered: it is this property, the
\* stronger one, that the run checks.
ImplementsFairRpcService == Service!FairSpec
==============================================================================
