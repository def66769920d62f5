----------------------------- MODULE SredProofs -----------------------------
(***************************************************************************)
(* The safety of the SRED queue disc for any flows, packet sizes, length   *)
(* of the zombie list and attributes: it is a queue disc, it stays within  *)
(* its limit, its statistics add up, and its hit frequency is zero exactly *)
(* as long as there was no hit.                                            *)
(***************************************************************************)
EXTENDS Sred, SequenceTheorems, FiniteSetTheorems, SumTheorems, TLAPS

Facts == INSTANCE QueueDiscProofs WITH backlog <- queue

Fates == {"none", "NoMatch", "QUEUE_OVERFLOW", "Zap", "Overflow",
          "INTERNAL_QUEUE_DROP", "queued"}

-----------------------------------------------------------------------------
(* The internal queue.                                                     *)

Bounded == QueueTypes /\ WithinLimit

LEMMA ConfigTypes ==
    ASSUME config \in Configs
    PROVE  capacity \in Nat /\ config.unit \in {"packets", "bytes"}
           /\ config.pOverwrite \in 0 .. 100
BY SredAssumption DEF Attributes, capacity

LEMMA Numbers ==
    ASSUME TypeOK
    PROVE  /\ received \in Nat /\ MaxPackets \in Nat
           /\ received < MaxPackets => received + 1 \in 0 .. MaxPackets
           /\ \A size \in Sizes : size \in Nat /\ size > 0
BY SredAssumption DEF TypeOK, QueueTypes

LEMMA DropTypes ==
    ASSUME QueueTypes, received < MaxPackets, NEW n \in Nat, NEW reason \in Fates,
           received' = received + 1, notices' = notices + n,
           dropped' = dropped \cup {received + 1}, fate' = reason,
           UNCHANGED buffer
    PROVE  QueueTypes'
<1>1. received \in Nat /\ received + 1 \in 0 .. MaxPackets
  BY SredAssumption DEF QueueTypes
<1>2. notices' \in Nat
  BY DEF QueueTypes
<1>3. dropped' \in SUBSET Nat
  BY <1>1 DEF QueueTypes
<1> QED
  BY <1>1, <1>2, <1>3 DEF QueueTypes, buffer, Fates

LEMMA RejectBounded ==
    ASSUME TypeOK, WithinLimit, received < MaxPackets, config' = config,
           NEW f, NEW reason \in Fates, Reject(f, reason)
    PROVE  Bounded'
<1>1. queue' = queue /\ sizes' = sizes /\ nBytes' = nBytes /\ sent' = sent
  BY DEF Reject, buffer
<1>2. QueueTypes'
  <2>1. Notices(f) + 1 \in Nat
    BY DEF Notices
  <2>2. notices' = notices + (Notices(f) + 1)
    BY DEF Reject, Notices, TypeOK, QueueTypes
  <2> QED
    BY <2>1, <2>2, DropTypes DEF TypeOK, Reject
<1>3. WithinLimit'
  BY <1>1 DEF WithinLimit, nQueued, capacity
<1> QED
  BY <1>2, <1>3 DEF Bounded

LEMMA EnqueueBounded ==
    ASSUME TypeOK, WithinLimit, received < MaxPackets, config' = config,
           NEW f, NEW size \in Sizes, InternalEnqueue(f, size)
    PROVE  Bounded'
<1>1. CASE Reject(f, "INTERNAL_QUEUE_DROP")
  BY <1>1, RejectBounded DEF Fates
<1>2. CASE /\ HasRoom(size)
           /\ received' = received + 1
           /\ notices' = notices + Notices(f)
           /\ queue' = Append(queue, received + 1)
           /\ sizes' = Append(sizes, size)
           /\ nBytes' = nBytes + size
           /\ fate' = "queued"
           /\ UNCHANGED <<dropped, sent>>
  <2>1. received + 1 \in 0 .. MaxPackets /\ received + 1 \in Nat /\ size \in Nat
    BY Numbers
  <2>2. queue' \in Seq(Nat) /\ Len(queue') = Len(queue) + 1
    BY <1>2, <2>1, AppendProperties DEF TypeOK, QueueTypes
  <2>3. sizes' \in Seq(Sizes) /\ Len(sizes') = Len(sizes) + 1
    BY <1>2, AppendProperties DEF TypeOK, QueueTypes
  <2>4. notices' \in Nat /\ nBytes' \in Int
    BY <1>2, <2>1 DEF TypeOK, QueueTypes, Notices
  <2>5. QueueTypes'
    BY <1>2, <2>1, <2>2, <2>3, <2>4 DEF TypeOK, QueueTypes
  <2>6. nQueued' <= capacity'
    BY <1>2, <2>2 DEF HasRoom, nQueued, capacity
  <2>7. Len(sizes') = Len(queue')
    BY <2>2, <2>3 DEF WithinLimit
  <2> QED
    BY <2>5, <2>6, <2>7 DEF Bounded, WithinLimit
<1> QED
  BY <1>1, <1>2 DEF InternalEnqueue

LEMMA DequeueBounded ==
    ASSUME TypeOK, WithinLimit, DoDequeue
    PROVE  Bounded'
<1>1. /\ queue # <<>> /\ queue \in Seq(Nat) /\ sizes \in Seq(Sizes)
      /\ Len(sizes) = Len(queue)
  BY DEF DoDequeue, TypeOK, QueueTypes, WithinLimit
<1>2. /\ Tail(queue) \in Seq(Nat) /\ Head(queue) \in Nat
      /\ Len(Tail(queue)) = Len(queue) - 1 /\ Len(queue) \in Nat \ {0}
  BY <1>1, HeadTailProperties, EmptySeq, LenProperties
<1>3. sizes # <<>>
  BY <1>1, <1>2
<1>4. /\ Tail(sizes) \in Seq(Sizes) /\ Head(sizes) \in Sizes
      /\ Len(Tail(sizes)) = Len(sizes) - 1
  BY <1>1, <1>3, HeadTailProperties
<1>5. Head(sizes) \in Nat
  BY <1>4, Numbers
<1>6. /\ sent' = sent \cup {Head(queue)} /\ queue' = Tail(queue)
      /\ sizes' = Tail(sizes) /\ nBytes' = nBytes - Head(sizes)
      /\ UNCHANGED <<config, received, notices, dropped, fate>>
  BY DEF DoDequeue, DoPeek, counters
<1>7. QueueTypes'
  <2>1. sent' \in SUBSET Nat
    BY <1>2, <1>6 DEF TypeOK, QueueTypes
  <2>2. nBytes' \in Int
    BY <1>5, <1>6 DEF TypeOK, QueueTypes
  <2> QED
    BY <1>2, <1>4, <1>6, <2>1, <2>2 DEF TypeOK, QueueTypes
<1>8. capacity \in Nat
  BY ConfigTypes DEF TypeOK
<1>9. nQueued' <= capacity'
  <2>1. CASE config.unit = "packets"
    BY <1>2, <1>6, <1>8, <2>1 DEF WithinLimit, nQueued, capacity
  <2>2. CASE config.unit # "packets"
    <3>1. nBytes \in Int /\ nBytes <= config.max
      BY <2>2 DEF WithinLimit, nQueued, capacity, TypeOK, QueueTypes
    <3>2. nBytes - Head(sizes) <= config.max
      BY <1>5, <1>8, <3>1 DEF capacity
    <3> QED
      BY <1>6, <2>2, <3>2 DEF nQueued, capacity
  <2> QED
    BY <2>1, <2>2
<1> QED
  BY <1>1, <1>2, <1>4, <1>6, <1>7, <1>9 DEF Bounded, WithinLimit

\* The verdict of the second half of DoEnqueue.
LEMMA JudgeBounded ==
    ASSUME TypeOK, WithinLimit, received < MaxPackets, config' = config,
           NEW f, NEW size \in Sizes, Judge(f, size)
    PROVE  Bounded'
BY RejectBounded, EnqueueBounded DEF Judge, Fates

-----------------------------------------------------------------------------
(* The list and the hit frequency.                                         *)

Recorded == ListTypes /\ HitLevel /\ invalid \in Nat

LEMMA FlowCounted ==
    ASSUME TypeOK, NEW f \in FlowIDs, CountFlow(f)
    PROVE  /\ seen' \in [Flows -> Nat]
           /\ invalid' = invalid + Notices(f) /\ invalid' \in Nat
           /\ f \in Flows \cup {NoFlow}
<1>1. f \in Flows \cup {NoFlow}
  BY DEF FlowIDs
<1>2. CASE f = NoFlow
  BY <1>1, <1>2 DEF CountFlow, Notices, TypeOK, ListTypes
<1>3. CASE f # NoFlow
  BY <1>1, <1>3 DEF CountFlow, Notices, TypeOK, ListTypes
<1> QED
  BY <1>2, <1>3

LEMMA RememberRecorded ==
    ASSUME Inv, NEW f \in FlowIDs, NEW size \in Sizes, Remember(f, size)
    PROVE  Recorded'
<1> DEFINE z == [flow |-> f, count |-> 0]
<1>1. /\ zombies \in Seq(Zombie) /\ zombies' = Append(zombies, z)
      /\ Len(zombies) < MAX_ZOMBIE_LIST_SIZE
      /\ UNCHANGED <<config, phase, level, hit>>
  BY DEF Remember, Inv, TypeOK, ListTypes
<1>2. /\ seen' \in [Flows -> Nat] /\ invalid' \in Nat
      /\ z \in Zombie
  BY FlowCounted DEF Remember, Inv, Zombie
<1>3. zombies' \in Seq(Zombie) /\ Len(zombies') = Len(zombies) + 1
      /\ Len(zombies) \in Nat
  BY <1>1, <1>2, AppendProperties, LenProperties
<1>4. ~hit
  BY <1>1, <1>3, SredAssumption DEF Inv, HitLevel
<1> QED
  BY <1>1, <1>2, <1>3, <1>4, SredAssumption
     DEF Recorded, Inv, TypeOK, ListTypes, HitLevel

LEMMA ZombieReplaced ==
    ASSUME TypeOK, NEW i \in DOMAIN zombies, NEW z \in Zombie,
           zombies' = [zombies EXCEPT ![i] = z]
    PROVE  zombies' \in Seq(Zombie) /\ Len(zombies') = Len(zombies)
<1>1. zombies \in Seq(Zombie) /\ i \in 1 .. Len(zombies)
  BY LenProperties DEF TypeOK, ListTypes
<1> QED
  BY <1>1, ExceptSeq

LEMMA HitRecorded ==
    ASSUME Inv, NEW f \in FlowIDs, NEW size \in Sizes, Hit(f, size)
    PROVE  Recorded'
<1>1. /\ ListFull(f) /\ hit' = TRUE /\ level' \in LevelsAfterHit
      /\ Len(zombies) = MAX_ZOMBIE_LIST_SIZE /\ config' = config
  BY DEF Hit, ListFull
<1>2. /\ seen' \in [Flows -> Nat] /\ invalid' \in Nat
  BY <1>1, FlowCounted DEF ListFull, Inv
<1>3. PICK i \in DOMAIN zombies :
         zombies' = [zombies EXCEPT ![i].count = @ + 1]
  BY DEF Hit
<1>4. zombies[i] \in Zombie
  BY LenProperties, ElementOfSeq DEF Inv, TypeOK, ListTypes
<1> DEFINE z == [zombies[i] EXCEPT !.count = @ + 1]
<1>5. z \in Zombie /\ zombies' = [zombies EXCEPT ![i] = z]
  BY <1>3, <1>4 DEF Zombie
<1>6. zombies' \in Seq(Zombie) /\ Len(zombies') = Len(zombies)
  BY <1>5, ZombieReplaced DEF Inv
<1>7. config.pOverwrite \in 0 .. 100
  BY ConfigTypes DEF Inv, TypeOK
<1>8. level \in 0 .. 16 /\ (config.pOverwrite = 0 => ~(level > 0))
  BY <1>7 DEF Levels, Inv, TypeOK, ListTypes, HitLevel
<1>9. level' \in Levels /\ (level' > 0 <=> config.pOverwrite > 0)
  <2>1. CASE config.pOverwrite = 0
    BY <1>1, <1>7, <1>8, <2>1 DEF LevelsAfterHit, Levels
  <2>2. CASE config.pOverwrite # 0 /\ level = 0
    <3>1. level' = 1
      BY <1>1, <2>2 DEF LevelsAfterHit
    <3>2. config.pOverwrite > 0
      BY <1>7, <2>2
    <3> QED
      BY <3>1, <3>2 DEF Levels
  <2>3. CASE config.pOverwrite # 0 /\ level # 0
    BY <1>1, <1>7, <1>8, <2>3 DEF LevelsAfterHit, Levels
  <2> QED
    BY <2>1, <2>2, <2>3
<1> QED
  BY <1>1, <1>2, <1>6, <1>9 DEF Recorded, ListTypes, HitLevel, Inv, TypeOK

LEMMA MissRecorded ==
    ASSUME Inv, NEW f \in FlowIDs, NEW size \in Sizes, Miss(f, size)
    PROVE  Recorded'
<1>1. /\ ListFull(f) /\ hit' = hit /\ level' \in LevelsAfterMiss
      /\ Len(zombies) = MAX_ZOMBIE_LIST_SIZE /\ config' = config
  BY DEF Miss, ListFull
<1>2. /\ seen' \in [Flows -> Nat] /\ invalid' \in Nat
      /\ [flow |-> f, count |-> 0] \in Zombie
  BY <1>1, FlowCounted DEF ListFull, Inv, Zombie
<1>3. zombies' \in Seq(Zombie) /\ Len(zombies') = Len(zombies)
  <2>1. CASE UNCHANGED zombies
    BY <2>1 DEF Inv, TypeOK, ListTypes
  <2>2. ASSUME NEW i \in DOMAIN zombies, Overwrite(i, f)
        PROVE  zombies' \in Seq(Zombie) /\ Len(zombies') = Len(zombies)
    BY <1>2, <2>2, ZombieReplaced DEF Overwrite, Inv
  <2> QED
    BY <2>1, <2>2 DEF Miss
<1>4. config.pOverwrite \in 0 .. 100
  BY ConfigTypes DEF Inv, TypeOK
<1>5. level' \in Levels /\ (level' > 0 <=> level > 0)
  BY <1>1, <1>4 DEF LevelsAfterMiss, Levels, Inv, TypeOK, ListTypes
<1> QED
  BY <1>1, <1>2, <1>3, <1>5 DEF Recorded, ListTypes, HitLevel, Inv, TypeOK

-----------------------------------------------------------------------------
(* The invariant.                                                          *)

LEMMA InitInv == Init => Inv
<1> SUFFICES ASSUME Init PROVE Inv
  OBVIOUS
<1>1. capacity \in Nat
  BY ConfigTypes DEF Init
<1>2. TypeOK
  <2>1. ListTypes
    <3>1. zombies \in Seq(Zombie) /\ Len(zombies) <= MAX_ZOMBIE_LIST_SIZE
      BY SredAssumption, EmptySeq DEF Init
    <3>2. seen \in [Flows -> Nat]
      BY DEF Init
    <3>3. level \in Levels
      BY DEF Init, Levels
    <3>4. hit \in BOOLEAN
      BY DEF Init
    <3> QED
      BY <3>1, <3>2, <3>3, <3>4 DEF ListTypes
  <2>2. QueueTypes
    BY SredAssumption, EmptySeq DEF Init, QueueTypes
  <2> QED
    BY <2>1, <2>2 DEF Init, TypeOK
<1>3. WithinLimit
  BY <1>1, EmptySeq DEF Init, WithinLimit, nQueued
<1> QED
  BY <1>2, <1>3 DEF Init, Inv, HitLevel, Fresh

LEMMA NextInv ==
    ASSUME Inv, [Next]_vars
    PROVE  Inv'
<1> SUFFICES ASSUME TRUE
             PROVE  /\ config' \in Configs
                    /\ phase' \in {"new", "ready", "refused"}
                    /\ Recorded' /\ Bounded' /\ Fresh'
  BY DEF Inv, TypeOK, Recorded, Bounded
<1>1. CASE UNCHANGED vars
  BY <1>1 DEF vars, list, buffer, counters, Inv, TypeOK, ListTypes, QueueTypes,
              WithinLimit, HitLevel, Fresh, Recorded, Bounded, nQueued, capacity
<1>2. CASE Initialize
  <2>1. UNCHANGED <<config, seen, hit, buffer, counters, invalid>>
        /\ zombies' = <<>> /\ level' = 0 /\ phase' \in {"ready", "refused"}
        /\ ~hit
    BY <1>2 DEF Initialize, Inv, Fresh
  <2>2. Recorded'
    BY <2>1, SredAssumption, EmptySeq
       DEF Recorded, Inv, TypeOK, ListTypes, Levels, HitLevel
  <2> QED
    BY <2>1, <2>2 DEF Bounded, Inv, TypeOK, QueueTypes, WithinLimit, nQueued, capacity,
                      buffer, counters, Fresh
<1>3. CASE NoMatch
  <2>1. /\ UNCHANGED <<config, phase, list, buffer, invalid>>
        /\ received < MaxPackets /\ phase = "ready"
    BY <1>3 DEF NoMatch, Arrival
  <2>2. Recorded'
    BY <2>1 DEF Recorded, Inv, TypeOK, ListTypes, HitLevel, list
  <2>3. QueueTypes'
    BY <1>3, <2>1, DropTypes DEF NoMatch, Inv, TypeOK, Fates
  <2> QED
    BY <2>1, <2>2, <2>3
       DEF Bounded, Inv, TypeOK, WithinLimit, nQueued, capacity, buffer, Fresh
<1>4. ASSUME NEW f \in FlowIDs, NEW size \in Sizes, Remember(f, size)
      PROVE  /\ config' \in Configs /\ phase' \in {"new", "ready", "refused"}
             /\ Recorded' /\ Bounded' /\ Fresh'
  <2>1. UNCHANGED <<config, phase>> /\ phase = "ready" /\ received < MaxPackets
    BY <1>4 DEF Remember, Arrival
  <2>2. Bounded'
    BY <1>4, <2>1, RejectBounded, EnqueueBounded DEF Remember, Inv, Fates
  <2> QED
    BY <1>4, <2>1, <2>2, RememberRecorded DEF Fresh, Inv, TypeOK
<1>5. ASSUME NEW f \in FlowIDs, NEW size \in Sizes, Hit(f, size)
      PROVE  /\ config' \in Configs /\ phase' \in {"new", "ready", "refused"}
             /\ Recorded' /\ Bounded' /\ Fresh'
  <2>1. UNCHANGED <<config, phase>> /\ phase = "ready" /\ received < MaxPackets
        /\ Judge(f, size)
    BY <1>5 DEF Hit, ListFull, Arrival
  <2> QED
    BY <1>5, <2>1, JudgeBounded, HitRecorded DEF Fresh, Inv, TypeOK
<1>6. ASSUME NEW f \in FlowIDs, NEW size \in Sizes, Miss(f, size)
      PROVE  /\ config' \in Configs /\ phase' \in {"new", "ready", "refused"}
             /\ Recorded' /\ Bounded' /\ Fresh'
  <2>1. UNCHANGED <<config, phase>> /\ phase = "ready" /\ received < MaxPackets
        /\ Judge(f, size)
    BY <1>6 DEF Miss, ListFull, Arrival
  <2> QED
    BY <1>6, <2>1, JudgeBounded, MissRecorded DEF Fresh, Inv, TypeOK
<1>7. CASE DoDequeue
  <2>1. UNCHANGED <<config, phase, list, invalid>>
    BY <1>7 DEF DoDequeue
  <2>2. Recorded' /\ Fresh'
    BY <2>1 DEF Recorded, Inv, TypeOK, ListTypes, HitLevel, Fresh, list
  <2> QED
    BY <1>7, <2>1, <2>2, DequeueBounded DEF Inv, TypeOK
<1> QED
  BY <1>1, <1>2, <1>3, <1>4, <1>5, <1>6, <1>7 DEF Next, Enqueue

\* The inductive invariant of the queue disc.
THEOREM SredInvariant == Spec => []Inv
<1> QED
  BY InitInv, NextInv, PTL DEF Spec

\* Type correctness: the list never grows beyond MAX_ZOMBIE_LIST_SIZE.
THEOREM TypeCorrect == Spec => []TypeOK
<1>1. Inv => TypeOK
  BY DEF Inv
<1> QED
  BY <1>1, SredInvariant, PTL

\* The divisor of the drop probability is zero exactly until the first hit.
THEOREM HitFrequencySound == Spec => []HitLevel
<1>1. Inv => HitLevel
  BY DEF Inv
<1> QED
  BY <1>1, SredInvariant, PTL

-----------------------------------------------------------------------------
(* The refinement of QueueDisc.                                            *)

LEMMA RejectDrops ==
    ASSUME NEW f, NEW reason, Reject(f, reason)
    PROVE  Disc!Drop
BY DEF Reject, Disc!Drop, buffer

LEMMA EnqueueImplements ==
    ASSUME NEW f, NEW size, InternalEnqueue(f, size)
    PROVE  Disc!Next
BY RejectDrops DEF InternalEnqueue, Disc!Next, Disc!Accept

LEMMA StepImplements ==
    ASSUME [Next]_vars
    PROVE  [Disc!Next]_(Disc!discVars)
<1>1. CASE UNCHANGED vars \/ Initialize
  BY <1>1 DEF vars, Initialize, buffer, counters, Disc!discVars
<1>2. CASE NoMatch
  BY <1>2 DEF NoMatch, buffer, Disc!Next, Disc!Drop
<1>3. CASE \E f \in FlowIDs, size \in Sizes :
              Remember(f, size) \/ Hit(f, size) \/ Miss(f, size)
  BY <1>3, RejectDrops, EnqueueImplements
     DEF Remember, Hit, Miss, Judge, Disc!Next
<1>4. CASE DoDequeue
  BY <1>4 DEF DoDequeue, DoPeek, counters, Disc!Next, Disc!Send
<1> QED
  BY <1>1, <1>2, <1>3, <1>4 DEF Next, Enqueue

\* SRED implements the safety part of the abstract queue disc: every step is a
\* step of it or leaves it alone.
THEOREM SredIsQueueDisc == Spec => Disc!SafeSpec
<1>1. Init => Disc!Init
  BY DEF Init, Disc!Init
<1> QED
  BY <1>1, StepImplements, PTL DEF Spec, Disc!SafeSpec

\* So every packet has one fate and packets leave in the order they came.
THEOREM PacketsOrderly == Spec => []Orderly
<1>1. Spec => Facts!SafeSpec
  <2>1. Disc!Init => Facts!Init
    BY DEF Disc!Init, Facts!Init
  <2>2. [Disc!Next]_(Disc!discVars) => [Facts!Next]_(Facts!discVars)
    BY DEF Disc!Next, Facts!Next, Disc!Accept, Facts!Accept, Disc!Drop, Facts!Drop,
           Disc!Send, Facts!Send, Disc!discVars, Facts!discVars
  <2> QED
    BY <2>1, <2>2, SredIsQueueDisc, PTL DEF Disc!SafeSpec, Facts!SafeSpec
<1>2. Facts!OneFate /\ Facts!InOrder => Orderly
  BY DEF Orderly, Disc!OneFate, Facts!OneFate, Disc!InOrder, Facts!InOrder,
         Disc!Waiting, Facts!Waiting
<1> QED
  BY <1>1, <1>2, Facts!DiscOrderly, PTL
-----------------------------------------------------------------------------
(* The statistics.                                                         *)

Balanced == IsFiniteSet(sent) /\ Accounted

\* Both sides grow alike, when a packet is dropped and when it is queued.
LEMMA Sums ==
    ASSUME NEW r \in Nat, NEW i \in Nat, NEW n \in Nat, NEW q \in Nat, NEW c \in Nat,
           NEW k \in Nat, r + i = n + q + c
    PROVE  /\ (r + 1) + (i + k) = (n + k + 1) + q + c
           /\ (r + 1) + (i + k) = (n + k) + (q + 1) + c
OBVIOUS

LEMMA RejectBalanced ==
    ASSUME Inv, Balanced, NEW f, NEW reason, Reject(f, reason),
           invalid' = invalid + Notices(f)
    PROVE  Balanced'
<1>1. Notices(f) \in Nat /\ received \in Nat /\ notices \in Nat /\ invalid \in Nat
  BY Numbers DEF Inv, TypeOK, QueueTypes, Notices
<1>2. Len(queue) \in Nat /\ Cardinality(sent) \in Nat
  BY LenProperties, FS_CardinalityType DEF Inv, TypeOK, QueueTypes, Balanced
<1>3. /\ queue' = queue /\ sent' = sent
      /\ received' = received + 1 /\ notices' = notices + Notices(f) + 1
  BY DEF Reject, buffer
<1>4. received + invalid = notices + Len(queue) + Cardinality(sent)
  BY DEF Balanced, Accounted
<1>5. IsFiniteSet(sent') /\ Cardinality(sent') = Cardinality(sent)
  BY <1>3 DEF Balanced
<1>6. received' + invalid' = notices' + Len(queue') + Cardinality(sent')
  <2>1. (received + 1) + (invalid + Notices(f))
            = (notices + Notices(f) + 1) + Len(queue) + Cardinality(sent)
    <3> DEFINE k == Notices(f)
               c == Cardinality(sent)
               q == Len(queue)
    <3>1. k \in Nat /\ c \in Nat /\ q \in Nat /\ received + invalid = notices + q + c
      BY <1>1, <1>2, <1>4
    <3> HIDE DEF k, c, q
    <3>2. (received + 1) + (invalid + k) = (notices + k + 1) + q + c
      BY <1>1, <3>1, Sums
    <3> QED
      BY <3>2 DEF k, c, q
  <2>2. Len(queue') = Len(queue)
    BY <1>3
  <2> QED
    BY <1>3, <1>5, <2>1, <2>2
<1> QED
  BY <1>5, <1>6 DEF Balanced, Accounted

LEMMA EnqueueBalanced ==
    ASSUME Inv, Balanced, NEW f, NEW size \in Sizes, InternalEnqueue(f, size),
           invalid' = invalid + Notices(f)
    PROVE  Balanced'
<1>1. Notices(f) \in Nat /\ received \in Nat /\ notices \in Nat /\ invalid \in Nat
  BY Numbers DEF Inv, TypeOK, QueueTypes, Notices
<1>2. Len(queue) \in Nat /\ Cardinality(sent) \in Nat
  BY LenProperties, FS_CardinalityType DEF Inv, TypeOK, QueueTypes, Balanced
<1>3. CASE Reject(f, "INTERNAL_QUEUE_DROP")
  BY <1>3, RejectBalanced
<1>4. CASE /\ received' = received + 1 /\ notices' = notices + Notices(f)
           /\ queue' = Append(queue, received + 1) /\ sent' = sent
  <2>1. Len(queue') = Len(queue) + 1
    BY <1>1, <1>4, AppendProperties DEF Inv, TypeOK, QueueTypes
  <2>2. received + invalid = notices + Len(queue) + Cardinality(sent)
    BY DEF Balanced, Accounted
  <2>3. IsFiniteSet(sent') /\ Cardinality(sent') = Cardinality(sent)
    BY <1>4 DEF Balanced
  <2>4. received' + invalid' = notices' + Len(queue') + Cardinality(sent')
    <3>1. (received + 1) + (invalid + Notices(f))
              = (notices + Notices(f)) + (Len(queue) + 1) + Cardinality(sent)
      BY <1>1, <1>2, <2>2, Sums, SMTT(60)
    <3> QED
      BY <1>4, <2>1, <2>3, <3>1
  <2> QED
    BY <2>3, <2>4 DEF Balanced, Accounted
<1> QED
  BY <1>3, <1>4 DEF InternalEnqueue

LEMMA DequeueBalanced ==
    ASSUME Inv, Orderly, Balanced, DoDequeue
    PROVE  Balanced'
<1>1. /\ queue \in Seq(Nat) /\ queue # <<>> /\ queue' = Tail(queue)
      /\ sent' = sent \cup {Head(queue)}
      /\ UNCHANGED <<received, notices, invalid>>
  BY DEF DoDequeue, DoPeek, counters, Inv, TypeOK, QueueTypes
<1>2. Len(queue') = Len(queue) - 1 /\ Len(queue) \in Nat \ {0}
  BY <1>1, HeadTailProperties, EmptySeq, LenProperties
<1>3. Head(queue) = queue[1] /\ 1 \in 1 .. Len(queue)
  BY <1>1, <1>2, HeadTailProperties
<1>4. Head(queue) \notin sent
  BY <1>3 DEF Orderly, Disc!OneFate, Disc!Waiting
<1>5. IsFiniteSet(sent') /\ Cardinality(sent') = Cardinality(sent) + 1
  BY <1>1, <1>4, FS_AddElement DEF Balanced
<1>6. Cardinality(sent) \in Nat /\ received \in Nat /\ notices \in Nat /\ invalid \in Nat
  BY Numbers, FS_CardinalityType DEF Balanced, Inv, TypeOK, QueueTypes
<1> QED
  BY <1>1, <1>2, <1>5, <1>6 DEF Balanced, Accounted

LEMMA NextBalanced ==
    ASSUME Inv, Orderly, Balanced, [Next]_vars
    PROVE  Balanced'
<1>1. CASE UNCHANGED vars \/ Initialize
  BY <1>1 DEF vars, Initialize, buffer, counters, Balanced, Accounted
<1>2. CASE NoMatch
  <2>1. /\ received' = received + 1 /\ notices' = notices + 1
        /\ UNCHANGED <<queue, sent, invalid>>
    BY <1>2 DEF NoMatch, buffer
  <2>2. /\ received \in Nat /\ notices \in Nat /\ invalid \in Nat
        /\ Len(queue) \in Nat /\ Cardinality(sent) \in Nat
    BY Numbers, LenProperties, FS_CardinalityType
       DEF Balanced, Inv, TypeOK, QueueTypes
  <2> QED
    BY <2>1, <2>2 DEF Balanced, Accounted
<1>3. ASSUME NEW f \in FlowIDs, NEW size \in Sizes,
             Remember(f, size) \/ Hit(f, size) \/ Miss(f, size)
      PROVE  Balanced'
  <2>1. invalid' = invalid + Notices(f)
    BY <1>3, FlowCounted DEF Remember, Hit, Miss, ListFull, Inv, Arrival
  <2>2. InternalEnqueue(f, size) \/ \E reason : Reject(f, reason)
    BY <1>3 DEF Remember, Hit, Miss, Judge
  <2> QED
    BY <2>1, <2>2, RejectBalanced, EnqueueBalanced
<1>4. CASE DoDequeue
  BY <1>4, DequeueBalanced
<1> QED
  BY <1>1, <1>2, <1>3, <1>4 DEF Next, Enqueue

\* The statistics add up to the packets that came, but for those of flow -1,
\* which are counted as dropped once too often.
THEOREM StatisticsAddUp == Spec => []Accounted
<1>1. Init => Balanced
  BY FS_EmptySet, EmptySeq DEF Init, Balanced, Accounted
<1>2. Balanced => Accounted
  BY DEF Balanced
<1> QED
  BY <1>1, <1>2, NextBalanced, SredInvariant, PacketsOrderly, PTL DEF Spec
-----------------------------------------------------------------------------
(* The counts of the zombie list.                                          *)

\* The packets of flow f that the list claims to have seen.
Claims(f, zs) == [i \in DOMAIN zs |-> CountOf(f, zs[i])]
Total(f, zs) == SumFunction(Claims(f, zs))

\* What one packet of flow f adds to the packets seen of flow g.
One(f, g) == IF f = g THEN 1 ELSE 0

LEMMA ClaimTypes ==
    ASSUME NEW zs \in Seq(Zombie), NEW f
    PROVE  /\ DOMAIN zs = 1 .. Len(zs) /\ Len(zs) \in Nat /\ IsFiniteSet(DOMAIN zs)
           /\ \A i \in DOMAIN zs : zs[i] \in Zombie /\ Claims(f, zs)[i] \in Nat
           /\ Total(f, zs) = SumFunctionOnSet(Claims(f, zs), DOMAIN zs)
           /\ Total(f, zs) \in Int
<1>1. DOMAIN zs = 1 .. Len(zs) /\ Len(zs) \in Nat
  BY LenProperties
<1>2. IsFiniteSet(DOMAIN zs)
  BY <1>1, FS_Interval
<1>3. ASSUME NEW i \in DOMAIN zs PROVE zs[i] \in Zombie /\ Claims(f, zs)[i] \in Nat
  <2>1. zs[i] \in Zombie
    BY <1>1, ElementOfSeq
  <2> QED
    BY <2>1 DEF Zombie, Claims, CountOf
<1>4. SumFunctionOnSet(Claims(f, zs), DOMAIN zs) \in Int
  BY <1>2, <1>3, SumInt
<1>5. DOMAIN Claims(f, zs) = DOMAIN zs
  BY DEF Claims
<1>6. Total(f, zs) = SumFunctionOnSet(Claims(f, zs), DOMAIN zs)
  BY <1>5, SumOfAll DEF Total
<1> QED
  BY <1>1, <1>2, <1>3, <1>4, <1>6

\* Changing one zombie changes the sum by the difference of its claims.
LEMMA ClaimsChanged ==
    ASSUME NEW zs \in Seq(Zombie), NEW i \in DOMAIN zs, NEW z \in Zombie, NEW g
    PROVE  Total(g, [zs EXCEPT ![i] = z]) = Total(g, zs) - CountOf(g, zs[i]) + CountOf(g, z)
<1> DEFINE c == Claims(g, zs)
           d == Claims(g, [zs EXCEPT ![i] = z])
<1>1. /\ IsFiniteSet(DOMAIN zs) /\ \A j \in DOMAIN zs : c[j] \in Nat
      /\ Total(g, zs) = SumFunctionOnSet(c, DOMAIN zs)
  BY ClaimTypes
<1>2. c[i] = CountOf(g, zs[i]) /\ d[i] = CountOf(g, z)
  BY DEF Claims
<1>3. d[i] \in Int
  BY <1>2 DEF CountOf, Zombie
<1>4. \A j \in DOMAIN zs \ {i} : d[j] = c[j]
  BY DEF Claims
<1>0. Total(g, [zs EXCEPT ![i] = z]) = SumFunctionOnSet(d, DOMAIN zs)
  <2>1. DOMAIN d = DOMAIN zs
    BY DEF Claims
  <2> QED
    BY <2>1, SumOfAll DEF Total
<1> HIDE DEF c, d
<1>5. SumFunctionOnSet(d, DOMAIN zs) = SumFunctionOnSet(c, DOMAIN zs) - c[i] + d[i]
  BY <1>1, <1>3, <1>4, SumChange
<1> QED
  BY <1>0, <1>1, <1>2, <1>5

\* A zombie more adds its claims.
LEMMA ClaimsAppended ==
    ASSUME NEW zs \in Seq(Zombie), NEW z \in Zombie, NEW g
    PROVE  Total(g, Append(zs, z)) = Total(g, zs) + CountOf(g, z)
<1> DEFINE ys == Append(zs, z)
           n == Len(zs)
           D == DOMAIN ys
           c == Claims(g, zs)
           d == Claims(g, ys)
<1>1. /\ ys \in Seq(Zombie) /\ Len(ys) = n + 1
      /\ ys[n + 1] = z /\ \A i \in 1 .. n : ys[i] = zs[i]
  BY AppendProperties
<1>2. DOMAIN zs = 1 .. n /\ n \in Nat /\ D = 1 .. n + 1
  BY <1>1, ClaimTypes, Zenon
<1>3. /\ IsFiniteSet(D) /\ \A i \in D : d[i] \in Nat
      /\ Total(g, ys) = SumFunctionOnSet(d, D)
  BY <1>1, ClaimTypes, Zenon
<1>4. Total(g, zs) = SumFunctionOnSet(c, 1 .. n) /\ Total(g, zs) \in Int
  BY <1>2, ClaimTypes, Zenon
<1>5. n + 1 \in 1 .. n + 1 /\ (1 .. n + 1) \ {n + 1} = 1 .. n /\ IsFiniteSet(1 .. n)
  <2> HIDE DEF n, ys, D, c, d
  <2>1. n \in Nat
    BY <1>2
  <2>2. n + 1 \in 1 .. n + 1 /\ (1 .. n + 1) \ {n + 1} = 1 .. n
    BY <2>1
  <2>3. IsFiniteSet(1 .. n)
    BY <2>1, FS_Interval
  <2> QED
    BY <2>2, <2>3
<1>6. d[n + 1] = CountOf(g, z) /\ \A i \in 1 .. n : d[i] = c[i]
  <2>1. \A i \in D : d[i] = CountOf(g, ys[i])
    BY DEF Claims
  <2>2. \A i \in 1 .. n : c[i] = CountOf(g, zs[i])
    BY <1>2 DEF Claims
  <2> HIDE DEF ys, D, n, c, d
  <2>3. 1 .. n \subseteq 1 .. n + 1
    BY <1>2
  <2> QED
    BY <1>1, <1>2, <1>5, <2>1, <2>2, <2>3, Zenon
<1>7. CountOf(g, z) \in Int
  BY DEF CountOf, Zombie
<1> HIDE DEF ys, n, D, c, d
<1>8. SumFunctionOnSet(d, D) = d[n + 1] + SumFunctionOnSet(d, 1 .. n)
  <2>1. \A i \in D : d[i] \in Int
    BY <1>3
  <2>2. n + 1 \in D /\ D \ {n + 1} = 1 .. n
    BY <1>2, <1>5, Zenon
  <2>3. SumFunctionOnSet(d, D) = d[n + 1] + SumFunctionOnSet(d, D \ {n + 1})
    BY <1>3, <2>1, <2>2, SumRemove
  <2> QED
    BY <2>2, <2>3, Zenon
<1>9. SumFunctionOnSet(d, 1 .. n) = SumFunctionOnSet(c, 1 .. n)
  BY <1>5, <1>6, SumSame, Zenon
<1>10. Total(g, ys) = CountOf(g, z) + Total(g, zs)
  BY <1>3, <1>4, <1>6, <1>8, <1>9, Zenon
<1>11. Total(g, ys) = Total(g, zs) + CountOf(g, z)
  BY <1>4, <1>7, <1>10
<1> QED
  BY <1>11 DEF ys

\* A packet of flow f that raises the claims of no other flow, and those of its
\* own by one at most.
LEMMA EvidenceStep ==
    ASSUME Inv, Inv', Evidence, NEW f \in FlowIDs, CountFlow(f),
           \A g \in Flows : Total(g, zombies') <= Total(g, zombies) + One(f, g)
    PROVE  Evidence'
<1>1. zombies \in Seq(Zombie) /\ zombies' \in Seq(Zombie) /\ seen \in [Flows -> Nat]
  BY DEF Inv, TypeOK, ListTypes
<1> SUFFICES ASSUME NEW g \in Flows PROVE Total(g, zombies') <= seen'[g]
  BY DEF Evidence, CountOf, Total, Claims
<1>2. Total(g, zombies) <= seen[g]
  BY DEF Evidence, CountOf, Total, Claims
<1>3. Total(g, zombies) \in Int /\ Total(g, zombies') \in Int
  BY <1>1, ClaimTypes
<1>4. seen'[g] = seen[g] + One(f, g)
  BY <1>1, SredAssumption DEF CountFlow, One
<1>5. seen[g] \in Nat /\ One(f, g) \in Nat
  BY <1>1 DEF One
<1> QED
  BY <1>2, <1>3, <1>4, <1>5

LEMMA RememberEvidence ==
    ASSUME Inv, Inv', Evidence, NEW f \in FlowIDs, NEW size, Remember(f, size)
    PROVE  Evidence'
<1> DEFINE z == [flow |-> f, count |-> 0]
<1>1. zombies \in Seq(Zombie) /\ zombies' = Append(zombies, z) /\ z \in Zombie /\ CountFlow(f)
  BY FlowCounted DEF Remember, Inv, TypeOK, ListTypes, Zombie
<1>2. \A g \in Flows : CountOf(g, z) = One(f, g)
  BY DEF CountOf, One
<1>3. \A g \in Flows : Total(g, zombies') = Total(g, zombies) + One(f, g)
  BY <1>1, <1>2, ClaimsAppended
<1>4. \A g \in Flows : Total(g, zombies) \in Int /\ One(f, g) \in Int
  BY <1>1, ClaimTypes DEF One
<1> QED
  BY <1>1, <1>3, <1>4, EvidenceStep

\* One zombie is replaced by one that claims one packet more at most, and that
\* of flow f.
LEMMA ReplaceEvidence ==
    ASSUME Inv, Inv', Evidence, NEW f \in FlowIDs, CountFlow(f),
           NEW i \in DOMAIN zombies, NEW z \in Zombie, zombies' = [zombies EXCEPT ![i] = z],
           \A g \in Flows : CountOf(g, z) <= CountOf(g, zombies[i]) + One(f, g)
    PROVE  Evidence'
<1>1. zombies \in Seq(Zombie) /\ DOMAIN zombies' = DOMAIN zombies
  BY DEF Inv, TypeOK, ListTypes
<1>2. \A g \in Flows : Total(g, zombies') = Total(g, zombies) - CountOf(g, zombies[i]) + CountOf(g, z)
  BY <1>1, ClaimsChanged
<1>3. zombies[i] \in Zombie
  BY <1>1, ClaimTypes
<1>4. \A g \in Flows :
         /\ CountOf(g, zombies[i]) \in Int /\ CountOf(g, z) \in Int /\ One(f, g) \in Int
         /\ Total(g, zombies) \in Int
  <2>1. ASSUME NEW g \in Flows, NEW y \in Zombie
        PROVE  CountOf(g, y) \in Int /\ One(f, g) \in Int
    BY DEF CountOf, Zombie, One
  <2> QED
    BY <1>1, <1>3, <2>1, ClaimTypes
<1>5. ASSUME NEW g \in Flows
      PROVE  Total(g, zombies') <= Total(g, zombies) + One(f, g)
  <2> DEFINE a == Total(g, zombies)
             b == Total(g, zombies')
             c == CountOf(g, zombies[i])
             d == CountOf(g, z)
             e == One(f, g)
  <2>1. b = a - c + d /\ d <= c + e /\ a \in Int /\ c \in Int /\ d \in Int /\ e \in Int
    BY <1>2, <1>4
  <2> HIDE DEF a, b, c, d, e
  <2>2. b <= a + e
    BY <2>1
  <2> QED
    BY <2>2 DEF a, b, e
<1> QED
  BY <1>5, EvidenceStep

LEMMA HitEvidence ==
    ASSUME Inv, Inv', Evidence, NEW f \in FlowIDs, NEW size, Hit(f, size)
    PROVE  Evidence'
<1>1. PICK i \in DOMAIN zombies :
         zombies[i].flow = f /\ zombies' = [zombies EXCEPT ![i].count = @ + 1]
  BY DEF Hit
<1> DEFINE z == [zombies[i] EXCEPT !.count = @ + 1]
<1>2. zombies[i] \in Zombie
  BY ClaimTypes DEF Inv, TypeOK, ListTypes
<1>3. z \in Zombie /\ zombies' = [zombies EXCEPT ![i] = z]
  BY <1>1, <1>2 DEF Zombie
<1>4. \A g \in Flows : CountOf(g, z) <= CountOf(g, zombies[i]) + One(f, g)
  BY <1>1, <1>2 DEF CountOf, One, Zombie
<1> QED
  BY <1>3, <1>4, ReplaceEvidence DEF Hit, ListFull

LEMMA MissEvidence ==
    ASSUME Inv, Inv', Evidence, NEW f \in FlowIDs, NEW size, Miss(f, size)
    PROVE  Evidence'
<1>1. CountFlow(f)
  BY DEF Miss, ListFull
<1>2. CASE UNCHANGED zombies
  <2>1. \A g \in Flows : Total(g, zombies) \in Int /\ One(f, g) \in Nat
    BY ClaimTypes DEF One, Inv, TypeOK, ListTypes
  <2>2. \A g \in Flows : Total(g, zombies') <= Total(g, zombies) + One(f, g)
    BY <1>2, <2>1
  <2> QED
    BY <1>1, <2>2, EvidenceStep
<1>3. ASSUME NEW i \in DOMAIN zombies, Overwrite(i, f)
      PROVE  Evidence'
  <2> DEFINE z == [flow |-> f, count |-> 0]
  <2>1. z \in Zombie /\ zombies[i] \in Zombie
    BY <1>1, FlowCounted, ClaimTypes DEF Zombie, Inv, TypeOK, ListTypes
  <2>2. \A g \in Flows : CountOf(g, z) <= CountOf(g, zombies[i]) + One(f, g)
    BY <2>1 DEF CountOf, One, Zombie
  <2> QED
    BY <1>1, <1>3, <2>1, <2>2, ReplaceEvidence DEF Overwrite
<1> QED
  BY <1>2, <1>3 DEF Miss

\* A list of the length 0 claims nothing.
LEMMA EmptyClaims ==
    ASSUME NEW g
    PROVE  Total(g, <<>>) = 0
<1>1. DOMAIN Claims(g, <<>>) = {}
  BY EmptySeq DEF Claims
<1> QED
  BY <1>1, SumOfAll, SumEmpty DEF Total

LEMMA NextEvidence ==
    ASSUME Inv, Inv', Evidence, [Next]_vars
    PROVE  Evidence'
<1>1. CASE UNCHANGED vars \/ NoMatch \/ DoDequeue
  <2>1. zombies' = zombies /\ seen' = seen
    BY <1>1 DEF vars, NoMatch, DoDequeue, list
  <2> QED
    BY <2>1 DEF Evidence, CountOf
<1>2. CASE Initialize
  <2>1. zombies' = <<>> /\ seen' = seen /\ seen \in [Flows -> Nat]
    BY <1>2 DEF Initialize, Inv, TypeOK, ListTypes
  <2>2. \A g \in Flows : Total(g, zombies') <= seen'[g]
    BY <2>1, EmptyClaims
  <2> QED
    BY <2>2 DEF Evidence, CountOf, Total, Claims
<1> QED
  BY <1>1, <1>2, RememberEvidence, HitEvidence, MissEvidence DEF Next, Enqueue

\* The list never claims more packets of a flow than reached it: whatever is
\* counted, forgotten and overwritten in whichever order.
THEOREM ListIsEvidence == Spec => []Evidence
<1>1. Init => Evidence
  <2>1. Init => zombies = <<>> /\ \A g \in Flows : Total(g, zombies) = 0 /\ seen[g] = 0
    BY EmptyClaims DEF Init
  <2>2. Init => \A g \in Flows : Total(g, zombies) <= seen[g]
    BY <2>1
  <2> QED
    BY <2>2 DEF Evidence, Total, Claims
<1> QED
  BY <1>1, NextEvidence, SredInvariant, PTL DEF Spec

-----------------------------------------------------------------------------
(* The bytes in the queue.                                                 *)

\* p[i] is the number of bytes in the first i packets.
IsPrefixSum(p, s) ==
    /\ p \in [0 .. Len(s) -> Int]
    /\ p[0] = 0
    /\ \A i \in 1 .. Len(s) : p[i] = p[i - 1] + s[i]

\* nBytes is the number of bytes in the packets of the queue.
Weighed == \E p : IsPrefixSum(p, sizes) /\ nBytes = p[Len(sizes)]

LEMMA EnqueueWeighed ==
    ASSUME Inv, Weighed, NEW f, NEW size \in Sizes, InternalEnqueue(f, size)
    PROVE  Weighed'
<1>1. CASE UNCHANGED buffer
  BY <1>1 DEF buffer, Weighed, IsPrefixSum
<1>2. CASE sizes' = Append(sizes, size) /\ nBytes' = nBytes + size
  <2>1. PICK p : IsPrefixSum(p, sizes) /\ nBytes = p[Len(sizes)]
    BY DEF Weighed
  <2>2. /\ sizes \in Seq(Sizes) /\ Len(sizes) \in Nat /\ size \in Nat
        /\ Len(sizes') = Len(sizes) + 1 /\ sizes'[Len(sizes) + 1] = size
        /\ \A i \in 1 .. Len(sizes) : sizes'[i] = sizes[i]
    BY <1>2, AppendProperties, LenProperties, Numbers DEF Inv, TypeOK, QueueTypes
  <2> DEFINE n == Len(sizes)
             q == [i \in 0 .. n + 1 |-> IF i <= n THEN p[i] ELSE nBytes + size]
  <2>3. p \in [0 .. n -> Int] /\ p[0] = 0 /\ \A i \in 1 .. n : p[i] = p[i - 1] + sizes[i]
    BY <2>1 DEF IsPrefixSum
  <2>4. nBytes = p[n] /\ nBytes \in Int
    BY <2>1 DEF Inv, TypeOK, QueueTypes
  <2> HIDE DEF n
  <2>5. n \in Nat /\ Len(sizes') = n + 1 /\ sizes'[n + 1] = size
        /\ \A i \in 1 .. n : sizes'[i] = sizes[i]
    BY <2>2 DEF n
  <2>6. q \in [0 .. n + 1 -> Int] /\ q[0] = 0 /\ q[n + 1] = nBytes + size
    BY <2>2, <2>3, <2>4, <2>5
  <2>7. ASSUME NEW i \in 1 .. n + 1 PROVE q[i] = q[i - 1] + sizes'[i]
    <3>1. CASE i <= n
      BY <2>3, <2>5, <3>1
    <3>2. CASE i = n + 1
      BY <2>3, <2>4, <2>5, <3>2
    <3> QED
      BY <2>5, <3>1, <3>2
  <2> HIDE DEF q
  <2>8. IsPrefixSum(q, sizes') /\ nBytes' = q[Len(sizes')]
    BY <1>2, <2>5, <2>6, <2>7 DEF IsPrefixSum
  <2> QED
    BY <2>8 DEF Weighed, IsPrefixSum
<1> QED
  BY <1>1, <1>2 DEF InternalEnqueue, Reject

LEMMA DequeueWeighed ==
    ASSUME Inv, Weighed, DoDequeue
    PROVE  Weighed'
<1>1. PICK p : IsPrefixSum(p, sizes) /\ nBytes = p[Len(sizes)]
  BY DEF Weighed
<1>2. /\ sizes \in Seq(Sizes) /\ Len(sizes) \in Nat \ {0}
      /\ sizes' = Tail(sizes) /\ nBytes' = nBytes - Head(sizes)
  BY LenProperties, EmptySeq DEF DoDequeue, Inv, TypeOK, QueueTypes, WithinLimit
<1> DEFINE n == Len(sizes)
           q == [i \in 0 .. n - 1 |-> p[i + 1] - p[1]]
<1>3. /\ Len(sizes') = n - 1 /\ Head(sizes) = sizes[1]
      /\ \A i \in 1 .. n - 1 : sizes'[i] = sizes[i + 1]
      /\ \A i \in 1 .. n : sizes[i] \in Int
  BY <1>2, HeadTailProperties, ElementOfSeq, EmptySeq, Numbers DEF Inv
<1>4. p \in [0 .. n -> Int] /\ p[0] = 0 /\ \A i \in 1 .. n : p[i] = p[i - 1] + sizes[i]
  BY <1>1 DEF IsPrefixSum
<1>5. nBytes = p[n] /\ n \in Nat \ {0}
  BY <1>1, <1>2
<1> HIDE DEF n
<1>6. p[1] = sizes[1]
  BY <1>3, <1>4, <1>5
<1>7. q \in [0 .. n - 1 -> Int] /\ q[0] = 0 /\ q[n - 1] = nBytes - sizes[1]
  <2>1. ASSUME NEW i \in 0 .. n - 1 PROVE p[i + 1] - p[1] \in Int
    <3>1. i + 1 \in 0 .. n /\ 1 \in 0 .. n
      BY <1>5
    <3> QED
      BY <1>4, <3>1
  <2>2. 0 \in 0 .. n - 1 /\ n - 1 \in 0 .. n - 1 /\ (n - 1) + 1 = n /\ 0 + 1 = 1 /\ 1 \in 0 .. n
    BY <1>5
  <2>3. q[0] = p[1] - p[1] /\ q[n - 1] = p[n] - p[1]
    BY <2>2
  <2>4. p[1] \in Int
    BY <1>4, <2>2
  <2> QED
    BY <1>5, <1>6, <2>1, <2>3, <2>4
<1>8. ASSUME NEW i \in 1 .. n - 1 PROVE q[i] = q[i - 1] + sizes'[i]
  <2>1. i + 1 \in 1 .. n /\ i \in 0 .. n /\ i - 1 \in 0 .. n - 1 /\ 1 \in 0 .. n
    BY <1>5
  <2>2. p[i + 1] = p[i] + sizes[i + 1]
    BY <1>4, <1>5, <2>1
  <2>3. sizes'[i] = sizes[i + 1] /\ sizes[i + 1] \in Int
    BY <1>3, <2>1
  <2>4. p[i + 1] \in Int /\ p[i] \in Int /\ p[1] \in Int
    BY <1>4, <2>1
  <2>5. q[i] = p[i + 1] - p[1] /\ q[i - 1] = p[i] - p[1]
    BY <1>5, <2>1
  <2> QED
    BY <2>2, <2>3, <2>4, <2>5
<1> HIDE DEF q
<1>9. IsPrefixSum(q, sizes') /\ nBytes' = q[Len(sizes')]
  BY <1>2, <1>3, <1>7, <1>8 DEF IsPrefixSum
<1> QED
  BY <1>9 DEF Weighed, IsPrefixSum

LEMMA NextWeighed ==
    ASSUME Inv, Weighed, [Next]_vars
    PROVE  Weighed'
<1>1. CASE UNCHANGED buffer
  BY <1>1 DEF buffer, Weighed, IsPrefixSum
<1>2. CASE UNCHANGED vars \/ Initialize \/ NoMatch
  BY <1>1, <1>2 DEF vars, Initialize, NoMatch
<1>3. ASSUME NEW f \in FlowIDs, NEW size \in Sizes,
             Remember(f, size) \/ Hit(f, size) \/ Miss(f, size)
      PROVE  Weighed'
  <2>1. InternalEnqueue(f, size) \/ \E reason : Reject(f, reason)
    BY <1>3 DEF Remember, Hit, Miss, Judge
  <2> QED
    BY <1>1, <2>1, EnqueueWeighed DEF Reject
<1> QED
  BY <1>2, <1>3, DequeueWeighed DEF Next, Enqueue

LEMMA InitWeighed == Init => Weighed
<1> SUFFICES ASSUME Init PROVE Weighed
  OBVIOUS
<1>1. Len(sizes) = 0 /\ nBytes = 0
  BY EmptySeq DEF Init
<1>2. IsPrefixSum([i \in 0 .. 0 |-> 0], sizes)
  BY <1>1 DEF IsPrefixSum
<1> QED
  BY <1>1, <1>2 DEF Weighed

\* An empty queue has no bytes.
LEMMA EmptyWeighsNothing ==
    ASSUME Inv, Weighed, queue = <<>>
    PROVE  nBytes = 0 /\ nQueued = 0
<1>1. Len(queue) = 0 /\ Len(sizes) = 0
  BY EmptySeq DEF Inv, WithinLimit
<1>2. nBytes = 0
  BY <1>1 DEF Weighed, IsPrefixSum
<1> QED
  BY <1>1, <1>2 DEF nQueued

LEMMA IdleStep ==
    ASSUME Inv, Weighed, Next, queue = <<>>, capacity > 0,
           Len(zombies) = MAX_ZOMBIE_LIST_SIZE, received' # received
    PROVE  fate' \notin {"Zap", "Overflow"}
<1>1. nBytes = 0 /\ nQueued = 0 /\ capacity \in Nat
  BY EmptyWeighsNothing, ConfigTypes DEF Inv, TypeOK
<1>2. ~MayZap /\ ~(nQueued >= capacity)
  BY <1>1 DEF MayZap, StabilizedProbability
<1>3. ASSUME NEW f \in FlowIDs, NEW size \in Sizes, Judge(f, size)
      PROVE  fate' \in {"queued", "INTERNAL_QUEUE_DROP"}
  BY <1>2, <1>3 DEF Judge, InternalEnqueue, Reject
<1>4. CASE NoMatch
  BY <1>4 DEF NoMatch
<1>5. CASE \E f \in FlowIDs, size \in Sizes : Remember(f, size)
  <2>1. Len(zombies) \in Nat /\ Len(zombies) < MAX_ZOMBIE_LIST_SIZE
    BY <1>5, LenProperties DEF Remember, Inv, TypeOK, ListTypes
  <2> QED
    BY <2>1
<1>6. CASE \E f \in FlowIDs, size \in Sizes : Hit(f, size) \/ Miss(f, size)
  BY <1>3, <1>6 DEF Hit, Miss
<1>7. CASE Initialize \/ DoDequeue
  BY <1>7 DEF Initialize, DoDequeue, counters
<1> QED
  BY <1>4, <1>5, <1>6, <1>7 DEF Next, Enqueue

\* A disc that is idle turns no packet away by chance or for lack of room: the
\* bytes are counted exactly, so that the probability is 0 again, although the
\* limit may be in packets and the threshold in bytes.
THEOREM IdleDiscAccepts == Spec => IdleAccepts
<1>1. Inv /\ Weighed /\ [Next]_vars =>
        [queue = <<>> /\ capacity > 0 /\ Len(zombies) = MAX_ZOMBIE_LIST_SIZE
         /\ received' # received => fate' \notin {"Zap", "Overflow"}]_vars
  BY IdleStep
<1>2. Spec => [](Inv /\ Weighed)
  BY InitWeighed, NextWeighed, SredInvariant, PTL DEF Spec
<1> QED
  BY <1>1, <1>2, PTL DEF Spec, IdleAccepts
=============================================================================
