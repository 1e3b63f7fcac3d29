------------------------------ MODULE RpcService ------------------------------
(***************************************************************************)
(* What JsonRpcServer promises its client, without threads, mutexes or a   *)
(* queue: messages are handled one at a time in the order they arrived, a  *)
(* cancellation drops a request that has not begun, interrupts a begun one *)
(* only if its handler supports it, and each message is finished once.     *)
(***************************************************************************)
EXTENDS Naturals, Sequences

CONSTANTS Messages,         \* what a message may be
          AnswerKinds,      \* the answers other than "cancelled"
          Cancellable(_),   \* handlers that can be interrupted
          Answerable(_)     \* messages that get an answer at all

VARIABLES received,         \* the messages, in order of arrival
          phase,            \* phase[c]: how far message c is
          cancelled,        \* messages marked as cancelled
          replies           \* the answers, in order

vars == <<received, phase, cancelled, replies>>

Init ==
    /\ received = <<>>
    /\ phase = <<>>
    /\ cancelled = {}
    /\ replies = <<>>

Busy == \E c \in DOMAIN phase : phase[c] \in {"running", "dropped"}
Answer(c, kind) == replies' = Append(replies, [ctx |-> c, kind |-> kind])

\* A message arrives; its arrival may mark older ones as superseded.
Arrive ==
    /\ \E m \in Messages : received' = Append(received, m)
    /\ phase' = Append(phase, "waiting")
    /\ \E older \in SUBSET (DOMAIN received) :
           /\ \A c \in older : Cancellable(received[c])
           /\ cancelled' = cancelled \cup older
    /\ UNCHANGED replies

\* A message is answered on arrival: initialize, or one that is refused.
AnswerAtOnce ==
    /\ \E m \in Messages : received' = Append(received, m)
    /\ phase' = Append(phase, "done")
    /\ \E kind \in AnswerKinds : Answer(Len(received) + 1, kind)
    /\ UNCHANGED cancelled

Cancel(c) ==
    /\ phase[c] # "done"
    /\ phase[c] = "running" /\ Answerable(received[c]) => Cancellable(received[c])
    /\ cancelled' = cancelled \cup {c}
    /\ UNCHANGED <<received, phase, replies>>

\* The oldest waiting message begins once nothing else runs.  A request
\* cancelled by then is dropped: its handler never runs.
Begin(c) ==
    /\ ~Busy
    /\ phase[c] = "waiting"
    /\ \A d \in 1..(c - 1) : phase[d] = "done"
    /\ phase' = [phase EXCEPT ![c] = IF Answerable(received[c]) /\ c \in cancelled
                                     THEN "dropped" ELSE "running"]
    /\ UNCHANGED <<received, cancelled, replies>>

\* It ends: a dropped request with "cancelled", a running one with its own
\* answer, or with "cancelled" if that was asked and its handler supports it.
Finish(c) ==
    /\ phase[c] \in {"running", "dropped"}
    /\ phase' = [phase EXCEPT ![c] = "done"]
    /\ \/ ~Answerable(received[c]) /\ UNCHANGED replies
       \/ Answerable(received[c]) /\ phase[c] = "running"
              /\ \E kind \in AnswerKinds : Answer(c, kind)
       \/ Answerable(received[c]) /\ c \in cancelled
              /\ (phase[c] = "dropped" \/ Cancellable(received[c]))
              /\ Answer(c, "cancelled")
    /\ UNCHANGED <<received, cancelled>>

Next ==
    \/ Arrive
    \/ AnswerAtOnce
    \/ \E c \in DOMAIN received : Cancel(c) \/ Begin(c) \/ Finish(c)

Spec == Init /\ [][Next]_vars

\* Everything received is eventually begun and finished.
Fairness == WF_vars(\E c \in DOMAIN received : Begin(c) \/ Finish(c))
FairSpec == Spec /\ Fairness
==============================================================================
