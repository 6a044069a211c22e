----------------------------- MODULE Mailboxes -----------------------------
(* What the mailboxes of AgentOS promise: bounded FIFO queues, numbered     *)
(* messages, nothing lost while the receiver goes on.                       *)
EXTENDS Integers, Sequences

CONSTANTS
    Agents,
    Room            \* messages a mailbox holds

VARIABLES
    queue,          \* accepted and not yet received, oldest first
    next,           \* the number of the next message
    got,            \* the message received last
    closed          \* agents whose loop is over, or that are gone

Init ==
    /\ queue = [t \in Agents |-> <<>>]
    /\ next = [t \in Agents |-> 1]
    /\ got \in [Agents -> {<<0, 0>>}]
    /\ closed = {}

Accept(s, t) ==
    /\ Len(queue[t]) < Room
    /\ queue' = [queue EXCEPT ![t] = Append(@, <<s, next[t]>>)]
    /\ next' = [next EXCEPT ![t] = @ + 1]
    /\ UNCHANGED got

Receive(t) ==
    /\ queue[t] # <<>>
    /\ got' = [got EXCEPT ![t] = Head(queue[t])]
    /\ queue' = [queue EXCEPT ![t] = Tail(@)]
    /\ UNCHANGED next

\* Messages are thrown away only with the end of the receiver's loop.
Discard(t) ==
    /\ t \in closed'
    /\ queue' = [queue EXCEPT ![t] = <<>>]
    /\ next' = [next EXCEPT ![t] = 1]
    /\ UNCHANGED got

\* Loops end and start again.
Change == UNCHANGED <<queue, next, got>>

Next ==
    /\ \/ \E s, t \in Agents : Accept(s, t)
       \/ \E t \in Agents : Receive(t) \/ Discard(t)
       \/ Change
    /\ closed' \subseteq Agents

Spec == Init /\ [][Next]_<<queue, next, got, closed>>
=============================================================================
