------------------------------ MODULE QueueDisc ------------------------------
(***************************************************************************)
(* What a queue disc promises to the device it feeds, whatever its drop    *)
(* policy: each packet it receives is dropped or queued, once; packets     *)
(* leave in the order of their arrival; and while the device asks, what is *)
(* queued leaves.  Packets are numbered as they arrive.                    *)
(***************************************************************************)
EXTENDS Naturals, Sequences

VARIABLES
    received,   \* number of packets handed to Enqueue
    dropped,    \* the packets that were dropped
    backlog,    \* the packets that wait, oldest first
    sent        \* the packets that Dequeue has returned

discVars == <<received, dropped, backlog, sent>>

Init ==
    /\ received = 0
    /\ dropped = {}
    /\ backlog = <<>>
    /\ sent = {}

Accept ==
    /\ received' = received + 1
    /\ backlog' = Append(backlog, received + 1)
    /\ UNCHANGED <<dropped, sent>>

Drop ==
    /\ received' = received + 1
    /\ dropped' = dropped \cup {received + 1}
    /\ UNCHANGED <<backlog, sent>>

Send ==
    /\ backlog # <<>>
    /\ sent' = sent \cup {Head(backlog)}
    /\ backlog' = Tail(backlog)
    /\ UNCHANGED <<received, dropped>>

Next == Accept \/ Drop \/ Send

SafeSpec == Init /\ [][Next]_discVars
Spec == SafeSpec /\ WF_discVars(Send)

Waiting == {backlog[i] : i \in 1 .. Len(backlog)}

\* Every packet has exactly one fate.
OneFate ==
    /\ dropped \cup Waiting \cup sent = 1 .. received
    /\ dropped \cap Waiting = {} /\ dropped \cap sent = {} /\ Waiting \cap sent = {}

\* Who waits came in the order of the queue, after everyone who was sent.
InOrder ==
    /\ \A i, j \in 1 .. Len(backlog) : i < j => backlog[i] < backlog[j]
    /\ \A p \in sent, q \in Waiting : p < q
=============================================================================
