----------------------------- MODULE WcpClient -----------------------------
(* The session with a waveform viewer (src/ast/WcpClient.cpp,                *)
(* include/ast/WcpClient.h, and openWaveform and addToWaveform of            *)
(* src/SlangServer.cpp).  The worker of the server opens the session and     *)
(* sends commands; a thread of the session receives the viewer's messages.   *)
(* Both handle what they have under the server's state mutex, which the      *)
(* worker holds from the start of a command to its end.  The viewer is       *)
(* another process, connected by a stream of bytes: a message is a fragment  *)
(* <<i, FALSE>> with its text and a fragment <<i, TRUE>> with its final null *)
(* byte, message 0 being the greeting, and a read may end anywhere.          *)
EXTENDS Naturals, Sequences, SequencesExt

CONSTANTS MaxMessages, MaxOpens    \* bounds: messages of the viewer, commands

ASSUME WcpAssumption == MaxMessages \in Nat /\ MaxOpens \in Nat

None == MaxMessages + 1            \* no message

VARIABLES
  viewer,    \* "none", "launched", "connected", "gone", or "failed" to connect
  sent,      \* messages the viewer has sent
  stream,    \* fragments on their way to the server
  buffer,    \* m_recvBuffer
  present,   \* m_wcpClient.has_value()
  running,   \* m_running
  worker,    \* "idle", or where the worker is in openWaveform
  thread,    \* m_clientThread: "none", "reading", "handling", "ended"
  message,   \* what getMessage returned to the thread
  handled,   \* history: the messages that were handled, in order
  opens,     \* commands so far
  process    \* "up", "aborted" (std::terminate or SIGPIPE), "exited"

viewerVars == <<viewer, sent>>
sessionVars == <<stream, buffer, running, thread, message, handled>>
wcpVars == <<viewerVars, sessionVars, present, worker, opens, process>>

WcpInit ==
  /\ viewer = "none" /\ sent = 0 /\ stream = <<>>
  /\ buffer = <<>> /\ present = FALSE /\ running = FALSE
  /\ worker = "idle" /\ thread = "none" /\ message = None /\ handled = <<>>
  /\ opens = 0 /\ process = "up"

----------------------------------------------------------------------------
(* Receiving and sending                                                     *)

Ends(bytes) == {i \in DOMAIN bytes : bytes[i][2]}
FirstEnd(bytes) == CHOOSE i \in Ends(bytes) : \A j \in Ends(bytes) : i <= j

\* (wrong: the rest of the buffer goes with the message)
TakeAndClear(bytes) == IF Ends(bytes) = {} THEN bytes ELSE <<>>

\* getMessage returns the first complete message and keeps the rest.
Take(bytes) == IF Ends(bytes) = {} THEN bytes ELSE SubSeq(bytes, FirstEnd(bytes) + 1, Len(bytes))
Taken(bytes) == IF Ends(bytes) = {} THEN None ELSE bytes[FirstEnd(bytes)][1]

\* recv() with data, some of what has arrived.  It is only called once
\* select() has found data: what the buffer already holds waits with it.
Receive(got) ==
  /\ running /\ stream # <<>>
  /\ \E n \in 1..Len(stream) : LET bytes == buffer \o SubSeq(stream, 1, n) IN
       /\ stream' = SubSeq(stream, n + 1, Len(stream))
       /\ buffer' = Take(bytes)
       /\ got = Taken(bytes)

\* (wrong: a closed connection is taken for silence)
DisconnectIgnored == running /\ stream = <<>> /\ viewer = "gone" /\ UNCHANGED running

\* recv() of a closed connection
Disconnect == running /\ stream = <<>> /\ viewer = "gone" /\ running' = FALSE

\* A message to a viewer that has closed the connection raises SIGPIPE with
\* its second write if not with its first, unless the viewer's reset is late.
Send == IF running /\ viewer = "gone" THEN process' \in {process, "aborted"} ELSE UNCHANGED process

----------------------------------------------------------------------------
(* The worker                                                                *)

\* openWaveform in a running session
ReuseSession ==
  /\ process = "up" /\ worker = "idle" /\ thread # "handling" /\ opens < MaxOpens
  /\ present /\ running
  /\ opens' = opens + 1
  /\ Send
  /\ UNCHANGED <<viewerVars, sessionVars, present, worker>>

\* openWaveform without one: the new client replaces the old, whose thread was
\* never joined or detached, and destroying such a thread ends the process.
OpenSession ==
  /\ process = "up" /\ worker = "idle" /\ thread # "handling" /\ opens < MaxOpens
  /\ ~running
  /\ opens' = opens + 1
  /\ IF thread # "none"
     THEN process' = "aborted" /\ UNCHANGED <<viewer, running, worker>>
     ELSE /\ viewer' = "launched"
          /\ worker' = "accept" /\ running' = TRUE
          /\ UNCHANGED process
  /\ UNCHANGED <<sent, stream, buffer, thread, message, handled, present>>

\* a system call of initClient or greet that fails
SocketFails ==
  /\ process = "up" /\ worker = "accept"
  /\ running' = FALSE /\ worker' = "load"
  /\ thread' = "reading" /\ present' = TRUE
  /\ UNCHANGED <<viewerVars, stream, buffer, message, handled, opens, process>>

\* accept() has no timeout
Accept ==
  /\ process = "up" /\ worker = "accept" /\ viewer \in {"connected", "gone"}
  /\ worker' = "greet"
  /\ Send
  /\ UNCHANGED <<viewerVars, sessionVars, present, opens>>

\* the end of greet and of the constructor, and the start of the thread
GreetWith(ok) ==
  /\ running' = (running /\ ok)
  /\ worker' = "load" /\ thread' = "reading" /\ present' = TRUE

\* (wrong: takes whatever it reads first for the greeting)
GreetFirstRead ==
  /\ process = "up" /\ worker = "greet"
  /\ \E got \in 0..None :
       /\ Receive(got)
       /\ \E ok \in BOOLEAN : GreetWith(ok)
       /\ handled' = Append(handled, got)
  /\ UNCHANGED <<viewerVars, message, opens, process>>

GreetReceive ==
  /\ process = "up" /\ worker = "greet"
  /\ \E got \in 0..None :
       /\ Receive(got)
       /\ IF got = None THEN UNCHANGED <<running, worker, thread, present, handled>>
          ELSE /\ \E ok \in BOOLEAN : GreetWith(ok)
               /\ handled' = Append(handled, got)
  /\ UNCHANGED <<viewerVars, message, opens, process>>

\* stop() is called, and the loop goes on
GreetDisconnect ==
  /\ process = "up" /\ worker = "greet" /\ Disconnect
  /\ UNCHANGED <<viewerVars, stream, buffer, present, worker, thread, message, handled, opens,
                 process>>

\* (wrong: only a silent viewer times out, not one that has gone)
GreetTimeoutIfRunning ==
  /\ process = "up" /\ worker = "greet" /\ running /\ GreetWith(FALSE)
  /\ UNCHANGED <<viewerVars, stream, buffer, message, handled, opens, process>>

\* two seconds without the greeting
GreetTimeout ==
  /\ process = "up" /\ worker = "greet" /\ GreetWith(FALSE)
  /\ UNCHANGED <<viewerVars, stream, buffer, message, handled, opens, process>>

\* loadWaveform
Load ==
  /\ process = "up" /\ worker = "load" /\ worker' = "idle"
  /\ Send
  /\ UNCHANGED <<viewerVars, sessionVars, present, opens>>

\* addToWaveform; without a session it does nothing
AddToWaveform ==
  /\ process = "up" /\ worker = "idle" /\ thread # "handling" /\ opens < MaxOpens
  /\ present /\ running
  /\ opens' = opens + 1
  /\ Send
  /\ UNCHANGED <<viewerVars, sessionVars, present, worker>>

\* The server object is destroyed at the end of main, and its client with it.
Exit ==
  /\ process = "up" /\ worker = "idle" /\ thread # "handling"
  /\ process' = IF present THEN "aborted" ELSE "exited"
  /\ UNCHANGED <<viewerVars, sessionVars, present, worker, opens>>

----------------------------------------------------------------------------
(* The thread (runClient)                                                    *)

ThreadReceive ==
  /\ process = "up" /\ thread = "reading" /\ message = None
  /\ Receive(message')
  /\ UNCHANGED <<viewerVars, running, present, worker, thread, handled, opens, process>>

ThreadDisconnect ==
  /\ process = "up" /\ thread = "reading" /\ message = None /\ Disconnect
  /\ UNCHANGED <<viewerVars, stream, buffer, present, worker, thread, message, handled, opens,
                 process>>

\* the state mutex is free
ThreadLocks ==
  /\ process = "up" /\ thread = "reading" /\ message # None /\ worker = "idle"
  /\ thread' = "handling"
  /\ UNCHANGED <<viewerVars, stream, buffer, running, message, handled, present, worker, opens,
                 process>>

\* (wrong: a message that cannot be decoded ends the thread)
ThreadHandlesOrReturns ==
  /\ process = "up" /\ thread = "handling"
  /\ thread' \in {"reading", "ended"} /\ message' = None /\ handled' = Append(handled, message)
  /\ Send
  /\ UNCHANGED <<viewerVars, stream, buffer, running, present, worker, opens>>

\* An event, a response or something that cannot be decoded; drivers and loads
\* are answered.
ThreadHandles ==
  /\ process = "up" /\ thread = "handling"
  /\ thread' = "reading" /\ message' = None /\ handled' = Append(handled, message)
  /\ \/ Send
     \/ UNCHANGED process
  /\ UNCHANGED <<viewerVars, stream, buffer, running, present, worker, opens>>

ThreadEnds ==
  /\ process = "up" /\ thread = "reading" /\ message = None /\ ~running
  /\ thread' = "ended"
  /\ UNCHANGED <<viewerVars, stream, buffer, running, present, worker, message, handled, opens,
                 process>>

----------------------------------------------------------------------------
(* The viewer                                                                *)

ViewerConnects ==
  /\ viewer = "launched" /\ worker = "accept" /\ viewer' = "connected"
  /\ UNCHANGED <<sent, sessionVars, present, worker, opens, process>>

\* the greeting first, then any other message
ViewerSends ==
  /\ viewer = "connected" /\ sent <= MaxMessages
  /\ sent' = sent + 1
  /\ stream' = stream \o <<<<sent, FALSE>>, <<sent, TRUE>>>>
  /\ UNCHANGED <<viewer, buffer, running, thread, message, handled, present, worker, opens, process>>

\* It is closed, or it could not be started, or connects before listen().
ViewerQuits ==
  /\ \/ viewer = "launched" /\ viewer' = "failed"
     \/ viewer = "connected" /\ viewer' = "gone"
  /\ UNCHANGED <<sent, sessionVars, present, worker, opens, process>>

Worker == \/ ReuseSession \/ OpenSession \/ SocketFails \/ Accept \/ GreetReceive
          \/ GreetDisconnect \/ GreetTimeout \/ Load \/ AddToWaveform \/ Exit
Thread == ThreadReceive \/ ThreadDisconnect \/ ThreadLocks \/ ThreadHandles \/ ThreadEnds
Viewer == ViewerConnects \/ ViewerSends \/ ViewerQuits

WcpNext == Worker \/ Thread \/ Viewer

WcpSpec == WcpInit /\ [][WcpNext]_wcpVars

\* The thread and the worker go on while they can; nobody has to start a
\* command, and the viewer does what it likes.
FairSpec == /\ WcpSpec
            /\ WF_wcpVars(Thread)
            /\ WF_wcpVars(Accept \/ GreetReceive \/ GreetDisconnect \/ GreetTimeout \/ Load)

----------------------------------------------------------------------------
(* Properties                                                                *)

WcpTypeOK ==
  /\ viewer \in {"none", "launched", "connected", "gone", "failed"}
  /\ sent \in 0..None
  /\ stream \in Seq((0..MaxMessages) \X BOOLEAN) /\ buffer \in Seq((0..MaxMessages) \X BOOLEAN)
  /\ present \in BOOLEAN /\ running \in BOOLEAN
  /\ worker \in {"idle", "accept", "greet", "load"}
  /\ thread \in {"none", "reading", "handling", "ended"}
  /\ message \in 0..None /\ handled \in Seq(0..MaxMessages)
  /\ opens \in 0..MaxOpens
  /\ process \in {"up", "aborted", "exited"}

(* However the bytes are cut into reads, and whether the worker or the       *)
(* thread reads them, messages are handled in the order in which they were   *)
(* sent, each once, and the rest is still there, byte by byte.               *)
NothingLostOrReordered ==
  LET done == handled \o IF message = None THEN <<>> ELSE <<message>>
      k == Len(done)
  IN /\ done = [i \in 1..k |-> i - 1]
     /\ buffer \o stream = [i \in 1..(2 * (sent - k)) |-> <<k + (i - 1) \div 2, i % 2 = 0>>]

(* A session that openWaveform and addToWaveform would use has a thread that *)
(* hears the viewer: no message, no failed greeting and no lost connection   *)
(* leaves a running session without one.                                     *)
SessionIsServed == present /\ running => thread \in {"reading", "handling"}

(* Once a viewer has connected the command that opened it comes to an end,   *)
(* and with it the worker's hold of the state mutex, even if the viewer says *)
(* nothing or goes away.                                                     *)
GreetReturns == worker = "greet" ~> worker = "idle" \/ process # "up"

(* A session whose viewer has gone is found out, so that later commands do   *)
(* not go to it.                                                             *)
DisconnectIsNoticed ==
  thread = "reading" /\ viewer = "gone" ~> ~running \/ process # "up"

(* docs/features/hdl/neovim.md:92, "If there is no currently active WCP      *)
(* session a new waveform viewer will be launched".                          *)
OpenLaunchesViewer == [][OpenSession => viewer' = "launched"]_wcpVars

----------------------------------------------------------------------------
(* What comments and tests of the repository say and the code does not keep. *)
(* No standing run checks these: README.md, "Known deviations".              *)

(* WcpClient.cpp:207, "Handle events and responses": a message that arrives  *)
(* in a running session is handled unless the session ends.                  *)
EveryMessageHandled ==
  \A i \in 1..MaxMessages :
    thread = "reading" /\ i < sent ~> i \in ToSet(handled) \/ ~running \/ process # "up"
=============================================================================
