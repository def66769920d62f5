-------------------------------- MODULE Sred --------------------------------
(***************************************************************************)
(* StabilizedRedQueueDisc, the SRED queue discipline of the ns-3 project.  *)
(*                                                                         *)
(* The class keeps a list of zombies, the flows of packets seen lately,    *)
(* and compares each packet with one zombie drawn at random.  Hits raise   *)
(* the hit frequency, which with the length of the queue gives the         *)
(* probability of dropping the packet.                                     *)
(*                                                                         *)
(* A draw of the random variable is a choice among the outcomes that have  *)
(* a positive probability.  The hit frequency P, a double in [0, 1], is a  *)
(* level: 0 for P = 0, and k for P in ((k-1)/16, k/16].  The only          *)
(* comparison the code makes is 256 P P > 1, that is level > 1.            *)
(***************************************************************************)
EXTENDS Integers, Sequences, FiniteSets, Functions

CONSTANTS
    Flows,      \* what Hash or a packet filter returns, apart from -1
    Sizes,      \* packet sizes
    Configs,    \* what the attributes may be set to
    MAX_ZOMBIE_LIST_SIZE,
    MaxPackets  \* bound: number of packets that arrive

NoFlow == -1    \* also PacketFilter::PF_NO_MATCH

\* Percentages for the two probabilities; the queues, classes and filters are
\* those that were added before the disc is initialized.
Attributes == [unit : {"packets", "bytes"}, max : Nat, mode : Int,
               pMax : 0 .. 100, pOverwrite : 0 .. 100,
               filters : Nat, classes : Nat, queues : Nat]

ASSUME SredAssumption ==
    /\ NoFlow \notin Flows
    /\ Sizes \subseteq Nat \ {0}
    /\ Configs \subseteq Attributes
    /\ MAX_ZOMBIE_LIST_SIZE \in Nat \ {0}
    /\ MaxPackets \in Nat

Levels == 0 .. 16

VARIABLES
    config,     \* the attributes
    phase,      \* "new", then "ready" or "refused" by CheckConfig
    zombies,    \* the zombie list
    level,      \* p_hitFreq
    queue,      \* the internal queue: numbers of packets, oldest first
    sizes,      \* the sizes of the packets in the queue
    nBytes,     \* their sum, as the internal queue counts it
    received,   \* nTotalReceivedPackets
    notices,    \* nTotalDroppedPackets: the calls of DropBeforeEnqueue
    dropped,    \* history: the packets that were not queued
    sent,       \* history: the packets that were dequeued
    seen,       \* history: seen[f], packets of flow f that reached the list
    invalid,    \* history: packets of flow -1
    hit,        \* history: there was a hit
    fate        \* history: what became of the last packet

list == <<zombies, level, seen, hit>>
buffer == <<queue, sizes, nBytes, sent>>
counters == <<received, notices, dropped, fate>>
vars == <<config, phase, list, buffer, counters, invalid>>

Zombie == [flow : Flows \cup {NoFlow}, count : Nat]

-----------------------------------------------------------------------------
(* The internal queue, a DropTailQueue with the limit of the disc.         *)

capacity == config.max
nQueued == IF config.unit = "packets" THEN Len(queue) ELSE nBytes

\* The queue's own test: is there room for one more packet of this size?
HasRoom(size) ==
    nQueued + (IF config.unit = "packets" THEN 1 ELSE size) <= capacity

\* Mutant: it has not.
NoNotice(f) == 0

\* A packet of flow -1 has been reported as dropped before it is judged.
Notices(f) == IF f = NoFlow THEN 1 ELSE 0

Reject(f, reason) ==
    /\ received' = received + 1
    /\ notices' = notices + Notices(f) + 1
    /\ dropped' = dropped \cup {received + 1}
    /\ fate' = reason
    /\ UNCHANGED buffer

InternalEnqueue(f, size) ==
    \/ /\ HasRoom(size)
       /\ received' = received + 1
       /\ notices' = notices + Notices(f)
       /\ queue' = Append(queue, received + 1)
       /\ sizes' = Append(sizes, size)
       /\ nBytes' = nBytes + size
       /\ fate' = "queued"
       /\ UNCHANGED <<dropped, sent>>
    \/ ~HasRoom(size) /\ Reject(f, "INTERNAL_QUEUE_DROP")

-----------------------------------------------------------------------------
(* The probabilities.                                                      *)

\* Mutant: the lower threshold is a third, too.
ProbabilityWithoutQuarter(q) ==
    IF capacity <= 3 * q /\ q <= capacity THEN 4 * config.pMax ELSE config.pMax

\* p_sred in units of 1/400: p_max, a quarter of it, or nothing.  The number
\* of bytes is compared with the capacity, whatever the unit of that is.
StabilizedProbability(q) ==
    IF capacity <= 3 * q /\ q <= capacity THEN 4 * config.pMax
    ELSE IF capacity <= 6 * q /\ 3 * q < capacity THEN config.pMax
    ELSE 0

\* p_zap of the simple mode is p_sred times min(1, 1 / 256 P P), which is
\* below 1 unless p_sred is 1 and P at most 1/16.
MayPassSimple(p, k) == p < 400 \/ k > 1

\* In the full mode it is that times 1 + 1/P: the caller always passes a hit.
\* Without any hit so far this is infinite, or not a number when p_sred is 0.
MayPassFull(p, k) == p = 0 \/ (k > 0 /\ p * (k + 16) < 400 * k * k * k)

MayZap == config.mode \in {1, 2} /\ StabilizedProbability(nBytes) > 0
MayPass(k) ==
    CASE config.mode = 1 -> MayPassSimple(StabilizedProbability(nBytes), k)
      [] config.mode = 2 -> MayPassFull(StabilizedProbability(nBytes), k)
      [] OTHER -> TRUE

\* Mutant: the hit frequency falls to zero again.
LevelsAfterMissToZero == {0, level}

\* p_hitFreq := (1 - alpha) p_hitFreq + alpha hit, with alpha at most 1/1000.
LevelsAfterHit ==
    IF config.pOverwrite = 0 THEN {level}
    ELSE IF level = 0 THEN {1}
    ELSE {level, level + 1} \cap Levels
LevelsAfterMiss ==
    IF config.pOverwrite = 0 \/ level <= 1 THEN {level} ELSE {level, level - 1}

-----------------------------------------------------------------------------
(* DoEnqueue.                                                              *)

Arrival == phase = "ready" /\ received < MaxPackets

\* A hash may be -1, too; a class that a filter returns is not.
FlowIDs == IF config.filters = 0 THEN Flows \cup {NoFlow} ELSE Flows

CountFlow(f) ==
    IF f = NoFlow
    THEN invalid' = invalid + 1 /\ UNCHANGED seen
    ELSE seen' = [seen EXCEPT ![f] = @ + 1] /\ UNCHANGED invalid

\* There are packet filters and none of them knows the packet.
NoMatch ==
    /\ Arrival
    /\ config.filters > 0
    /\ received' = received + 1
    /\ notices' = notices + 1
    /\ dropped' = dropped \cup {received + 1}
    /\ fate' = "NoMatch"
    /\ UNCHANGED <<config, phase, list, buffer, invalid>>

\* Mutant: one zombie more than the list has room for.
RememberOneMore(f, size) ==
    /\ Arrival
    /\ Len(zombies) <= MAX_ZOMBIE_LIST_SIZE
    /\ zombies' = Append(zombies, [flow |-> f, count |-> 0])
    /\ CountFlow(f)
    /\ \/ nQueued + size <= capacity /\ InternalEnqueue(f, size)
       \/ nQueued + size > capacity /\ Reject(f, "QUEUE_OVERFLOW")
    /\ UNCHANGED <<config, phase, level, hit>>

\* As long as the list is not full the flow is added, and the packet queued
\* unless its size exceeds what is left.  The unit of the limit is ignored.
Remember(f, size) ==
    /\ Arrival
    /\ Len(zombies) < MAX_ZOMBIE_LIST_SIZE
    /\ zombies' = Append(zombies, [flow |-> f, count |-> 0])
    /\ CountFlow(f)
    /\ \/ nQueued + size <= capacity /\ InternalEnqueue(f, size)
       \/ nQueued + size > capacity /\ Reject(f, "QUEUE_OVERFLOW")
    /\ UNCHANGED <<config, phase, level, hit>>

\* The verdict on a packet after the list and the hit frequency were updated.
Judge(f, size) ==
    \/ MayZap /\ Reject(f, "Zap")
    \/ MayPass(level') /\ nQueued < capacity /\ InternalEnqueue(f, size)
    \/ MayPass(level') /\ nQueued >= capacity /\ Reject(f, "Overflow")

ListFull(f) ==
    /\ Arrival
    /\ Len(zombies) = MAX_ZOMBIE_LIST_SIZE
    /\ CountFlow(f)
    /\ UNCHANGED <<config, phase>>

Hit(f, size) ==
    /\ ListFull(f)
    /\ \E i \in DOMAIN zombies :
          /\ zombies[i].flow = f
          /\ zombies' = [zombies EXCEPT ![i].count = @ + 1]
    /\ hit' = TRUE
    /\ level' \in LevelsAfterHit
    /\ Judge(f, size)

\* Mutant: the count of the forgotten flow stays.
OverwriteKeepsCount(i, f) == zombies' = [zombies EXCEPT ![i].flow = f]

Overwrite(i, f) == zombies' = [zombies EXCEPT ![i] = [flow |-> f, count |-> 0]]

Miss(f, size) ==
    /\ ListFull(f)
    /\ \E i \in DOMAIN zombies :
          /\ zombies[i].flow # f
          /\ \/ config.pOverwrite > 0 /\ Overwrite(i, f)
             \/ config.pOverwrite < 100 /\ UNCHANGED zombies
    /\ level' \in LevelsAfterMiss
    /\ hit' = hit
    /\ Judge(f, size)

-----------------------------------------------------------------------------
(* The other operations.                                                   *)

DoPeek == Head(queue)

\* Mutant: the youngest packet is taken.
DequeueYoungest ==
    /\ phase = "ready"
    /\ queue # <<>>
    /\ sent' = sent \cup {queue[Len(queue)]}
    /\ queue' = SubSeq(queue, 1, Len(queue) - 1)
    /\ sizes' = SubSeq(sizes, 1, Len(queue) - 1)
    /\ nBytes' = nBytes - sizes[Len(queue)]
    /\ UNCHANGED <<config, phase, list, counters, invalid>>

DoDequeue ==
    /\ phase = "ready"
    /\ queue # <<>>
    /\ sent' = sent \cup {DoPeek}
    /\ queue' = Tail(queue)
    /\ sizes' = Tail(sizes)
    /\ nBytes' = nBytes - Head(sizes)
    /\ UNCHANGED <<config, phase, list, counters, invalid>>

\* Without an internal queue one is made; then there has to be exactly one.
CheckConfig == config.classes = 0 /\ config.queues \in {0, 1}

\* QueueDisc::Initialize: CheckConfig, then InitializeParams.
Initialize ==
    /\ phase = "new"
    /\ phase' = IF CheckConfig THEN "ready" ELSE "refused"
    /\ zombies' = <<>> /\ level' = 0
    /\ UNCHANGED <<config, seen, hit, buffer, counters, invalid>>

Init ==
    /\ config \in Configs
    /\ phase = "new"
    /\ zombies = <<>> /\ level = 0
    /\ queue = <<>> /\ sizes = <<>> /\ nBytes = 0
    /\ received = 0 /\ notices = 0 /\ dropped = {} /\ sent = {}
    /\ seen = [f \in Flows |-> 0] /\ invalid = 0 /\ hit = FALSE
    /\ fate = "none"

Enqueue ==
    \/ NoMatch
    \/ \E f \in FlowIDs, size \in Sizes :
          Remember(f, size) \/ Hit(f, size) \/ Miss(f, size)

Next == Initialize \/ Enqueue \/ DoDequeue

Spec == Init /\ [][Next]_vars

\* The device asks for the next packet whenever it has sent one.
FairSpec == Spec /\ WF_vars(DoDequeue)

-----------------------------------------------------------------------------
(* Properties.                                                             *)

ListTypes ==
    /\ zombies \in Seq(Zombie) /\ Len(zombies) <= MAX_ZOMBIE_LIST_SIZE
    /\ level \in Levels
    /\ seen \in [Flows -> Nat] /\ hit \in BOOLEAN

QueueTypes ==
    /\ queue \in Seq(Nat) /\ sizes \in Seq(Sizes) /\ nBytes \in Int
    /\ received \in 0 .. MaxPackets /\ notices \in Nat
    /\ dropped \in SUBSET Nat /\ sent \in SUBSET Nat
    /\ fate \in {"none", "NoMatch", "QUEUE_OVERFLOW", "Zap", "Overflow",
                 "INTERNAL_QUEUE_DROP", "queued"}

TypeOK ==
    /\ config \in Configs
    /\ phase \in {"new", "ready", "refused"}
    /\ invalid \in Nat
    /\ ListTypes /\ QueueTypes

Disc == INSTANCE QueueDisc WITH backlog <- queue

\* Whatever the list, the probabilities and the drop reasons do, the class is
\* a queue disc: one fate for each packet, first in first out, and what is
\* queued leaves while the device asks.
ImplementsDisc == Disc!Spec

\* What follows from it (PacketsOrderly in SredProofs): no packet is both
\* dropped and queued, and packets leave in the order in which they came.
Orderly == Disc!OneFate /\ Disc!InOrder

\* The statistics add up, except that a packet of flow -1 is reported as
\* dropped once too often: before the verdict, and again when it is dropped.
Accounted == received + invalid = notices + Len(queue) + Cardinality(sent)

\* What the internal queue's own test guarantees, for the proofs.
WithinLimit == nQueued <= capacity /\ Len(sizes) = Len(queue)

\* The list never claims more packets of a flow than there were: a zombie
\* that is overwritten takes its count with it.
CountOf(f, z) == IF z.flow = f THEN z.count + 1 ELSE 0
Evidence == \A f \in Flows :
    SumFunction([i \in DOMAIN zombies |-> CountOf(f, zombies[i])]) <= seen[f]

\* The hit frequency, by whose square the code divides, is zero exactly until
\* the first hit (for ever, when nothing is overwritten), and there is no hit
\* before the list is full.
HitLevel ==
    /\ level > 0 <=> hit /\ config.pOverwrite > 0
    /\ hit => Len(zombies) = MAX_ZOMBIE_LIST_SIZE

\* A disc whose queue is empty does not turn a packet away by chance or for
\* lack of room, although 0/0 and 1/0 may occur in the probability.
IdleAccepts ==
    [][queue = <<>> /\ capacity > 0 /\ Len(zombies) = MAX_ZOMBIE_LIST_SIZE
       /\ received' # received => fate' \notin {"Zap", "Overflow"}]_vars

\* A packet is dropped as QUEUE_OVERFLOW only when the queue has no room for
\* every packet.
OverflowOnlyWhenFull ==
    [][fate' = "QUEUE_OVERFLOW" /\ received' # received
           => \E size \in Sizes : ~HasRoom(size)]_vars

-----------------------------------------------------------------------------
(* The inductive invariant behind the theorems of SredProofs.              *)

\* Nothing has happened before the disc is initialized.
Fresh == phase = "new" => ~hit

Inv == TypeOK /\ WithinLimit /\ HitLevel /\ Fresh
=============================================================================
