---------------------------- MODULE EsRedProofs -----------------------------
(***************************************************************************)
(* The time stamps of ES-RED, for any flows, sizes, attributes and length  *)
(* of the list: they are times at which the flow was seen, they never fall *)
(* at any place of the list, and without them each step of ES-RED is a     *)
(* step of SRED.                                                           *)
(***************************************************************************)
EXTENDS EsRed, SequenceTheorems, TLAPS

FlowOrNone == Flows \cup {NoFlow}

\* What Plainly does, for any list.
Strip(s) == [i \in DOMAIN s |-> [flow |-> s[i].flow, count |-> s[i].count]]

-----------------------------------------------------------------------------
(* Lists without their stamps.                                             *)

LEMMA StripSeq ==
    ASSUME NEW s \in Seq(StampedZombie)
    PROVE  /\ Strip(s) \in Seq(Zombie) /\ Len(Strip(s)) = Len(s)
           /\ DOMAIN Strip(s) = DOMAIN s /\ DOMAIN s = 1 .. Len(s)
           /\ \A i \in 1 .. Len(s) : /\ s[i] \in StampedZombie
                                     /\ Strip(s)[i].flow = s[i].flow
                                     /\ Strip(s)[i].count = s[i].count
<1>1. Len(s) \in Nat /\ s \in [1 .. Len(s) -> StampedZombie] /\ DOMAIN s = 1 .. Len(s)
  BY LenProperties
<1>2. \A i \in 1 .. Len(s) :
          [flow |-> s[i].flow, count |-> s[i].count] \in Zombie
  BY <1>1 DEF StampedZombie, Zombie
<1>3. Strip(s) \in [1 .. Len(s) -> Zombie]
  BY <1>1, <1>2 DEF Strip
<1>4. Strip(s) \in Seq(Zombie)
  BY <1>1, <1>3, SeqDef
<1>5. Len(Strip(s)) \in Nat /\ DOMAIN Strip(s) = 1 .. Len(Strip(s))
  BY <1>4, LenProperties
<1>6. Len(Strip(s)) = Len(s)
  BY <1>1, <1>3, <1>5
<1> QED
  BY <1>1, <1>3, <1>4, <1>6 DEF Strip

LEMMA StripAppend ==
    ASSUME NEW s \in Seq(StampedZombie), NEW z \in StampedZombie
    PROVE  Strip(Append(s, z)) = Append(Strip(s), [flow |-> z.flow, count |-> z.count])
<1> DEFINE y == [flow |-> z.flow, count |-> z.count]
           a == Append(s, z)
           b == Append(Strip(s), y)
<1>1. a \in Seq(StampedZombie) /\ Len(a) = Len(s) + 1
      /\ \A i \in 1 .. Len(s) : a[i] = s[i]
      /\ a[Len(s) + 1] = z
  BY AppendProperties
<1>2. y \in Zombie
  BY DEF StampedZombie, Zombie
<1>3. Strip(s) \in Seq(Zombie) /\ Len(Strip(s)) = Len(s) /\ Len(s) \in Nat
  BY StripSeq, LenProperties
<1>4. b \in Seq(Zombie) /\ Len(b) = Len(s) + 1
      /\ \A i \in 1 .. Len(s) : b[i] = Strip(s)[i]
      /\ b[Len(s) + 1] = y
  BY <1>2, <1>3, AppendProperties
<1>5. Strip(a) \in Seq(Zombie) /\ Len(Strip(a)) = Len(a)
  BY <1>1, StripSeq
<1>6. \A i \in 1 .. Len(a) : Strip(a)[i] = b[i]
  <2> SUFFICES ASSUME NEW i \in 1 .. Len(a) PROVE Strip(a)[i] = b[i]
    OBVIOUS
  <2>1. DOMAIN a = 1 .. Len(a) /\ DOMAIN s = 1 .. Len(s)
    BY <1>1, LenProperties
  <2>2. Strip(a)[i] = [flow |-> a[i].flow, count |-> a[i].count]
    BY <2>1 DEF Strip
  <2>3. CASE i = Len(s) + 1
    BY <1>1, <1>4, <2>2, <2>3
  <2>4. CASE i \in 1 .. Len(s)
    <3>1. Strip(s)[i] = [flow |-> s[i].flow, count |-> s[i].count]
      BY <2>1, <2>4 DEF Strip
    <3> QED
      BY <1>1, <1>4, <2>2, <2>4, <3>1
  <2> QED
    BY <1>1, <1>3, <2>3, <2>4
<1> QED
  BY <1>1, <1>4, <1>5, <1>6, SeqEqual

LEMMA StripExcept ==
    ASSUME NEW s \in Seq(StampedZombie), NEW i \in DOMAIN s, NEW z \in StampedZombie
    PROVE  Strip([s EXCEPT ![i] = z])
               = [Strip(s) EXCEPT ![i] = [flow |-> z.flow, count |-> z.count]]
BY DEF Strip

-----------------------------------------------------------------------------
(* The invariant.                                                          *)

\* A packet of flow f is seen, and its stamp is put at the end of the list or
\* in the place of another one.
Added(f) == zombies' = Append(zombies, Stamped(f, 0))
Replaced(f) == \E i \in DOMAIN zombies, n \in Nat :
                  zombies' = [zombies EXCEPT ![i] = Stamped(f, n)]

LEMMA SeenNow ==
    ASSUME EsInv, NEW f \in FlowOrNone, See(f)
    PROVE  /\ NoFutureSighting' /\ now' = now /\ now \in sightings'[f]
           /\ \A g \in FlowOrNone : sightings[g] \subseteq sightings'[g]
           /\ \A n \in Nat : Stamped(f, n) \in StampedZombie
<1>1. now' = now /\ sightings' = [sightings EXCEPT ![f] = @ \cup {now}]
  BY DEF See
<1>2. now \in 0 .. now /\ now \in 0 .. MaxTime
  BY EsRedAssumption DEF EsInv
<1> QED
  BY <1>1, <1>2 DEF EsInv, NoFutureSighting, FlowOrNone, Stamped, StampedZombie

LEMMA SeenInv ==
    ASSUME EsInv, NEW f \in FlowOrNone, See(f), phase' = phase, phase # "new",
           config' = config,
           Added(f) \/ Replaced(f) \/ UNCHANGED zombies
    PROVE  EsInv'
<1>1. /\ NoFutureSighting' /\ now' = now /\ now \in sightings'[f]
      /\ \A g \in FlowOrNone : sightings[g] \subseteq sightings'[g]
      /\ \A n \in Nat : Stamped(f, n) \in StampedZombie
  BY SeenNow
<1>2. /\ \A n \in Nat : Stamped(f, n).flow = f /\ Stamped(f, n).time = now
      /\ \A i \in DOMAIN zombies : zombies[i].flow \in FlowOrNone
                                   /\ zombies[i].time \in sightings[zombies[i].flow]
  BY StripSeq DEF Stamped, EsInv, StampedZombie, FlowOrNone, StampIsSighting
<1>3. zombies' \in Seq(StampedZombie) /\ StampIsSighting'
  <2>1. CASE UNCHANGED zombies
    BY <1>1, <1>2, <2>1 DEF EsInv, StampIsSighting
  <2>2. CASE Added(f)
    <3>1. /\ zombies' \in Seq(StampedZombie) /\ Len(zombies') = Len(zombies) + 1
          /\ \A i \in 1 .. Len(zombies) : zombies'[i] = zombies[i]
          /\ zombies'[Len(zombies) + 1] = Stamped(f, 0)
      BY <1>1, <2>2, AppendProperties DEF Added, EsInv
    <3>2. /\ Len(zombies) \in Nat /\ DOMAIN zombies = 1 .. Len(zombies)
          /\ DOMAIN zombies' = 1 .. Len(zombies) + 1
      BY <3>1, LenProperties DEF EsInv
    <3> QED
      BY <1>1, <1>2, <3>1, <3>2 DEF StampIsSighting
  <2>3. CASE Replaced(f)
    <3>1. PICK j \in DOMAIN zombies, n \in Nat :
            zombies' = [zombies EXCEPT ![j] = Stamped(f, n)]
      BY <2>3 DEF Replaced
    <3>2. DOMAIN zombies = 1 .. Len(zombies)
      BY LenProperties DEF EsInv
    <3>3. zombies' \in Seq(StampedZombie)
      BY <1>1, <3>1, <3>2, ExceptSeq DEF EsInv
    <3>4. /\ DOMAIN zombies' = DOMAIN zombies
          /\ \A i \in DOMAIN zombies :
                zombies'[i] = IF i = j THEN Stamped(f, n) ELSE zombies[i]
      BY <3>1
    <3> QED
      BY <1>1, <1>2, <3>3, <3>4 DEF StampIsSighting
  <2> QED
    BY <2>1, <2>2, <2>3
<1> QED
  BY <1>1, <1>3 DEF EsInv

\* What the steps that see a packet do to the list.
LEMMA PacketSteps ==
    ASSUME EsInv, NEW f \in FlowIDs, NEW size \in Sizes,
           StampedRemember(f, size) \/ StampedHit(f, size) \/ StampedMiss(f, size)
    PROVE  /\ f \in FlowOrNone /\ See(f) /\ phase' = phase /\ phase # "new"
           /\ config' = config
           /\ Added(f) \/ Replaced(f) \/ UNCHANGED zombies
<1>1. f \in FlowOrNone
  BY DEF FlowIDs, FlowOrNone
<1>2. CASE StampedRemember(f, size)
  BY <1>1, <1>2 DEF StampedRemember, Arrival, Added
<1>3. CASE StampedHit(f, size)
  <2>1. PICK i \in DOMAIN zombies :
          zombies' = [zombies EXCEPT ![i] = Stamped(f, @.count + 1)]
    BY <1>3 DEF StampedHit
  <2>2. zombies[i] \in StampedZombie
    BY StripSeq DEF EsInv
  <2>3. zombies[i].count + 1 \in Nat
    BY <2>2 DEF StampedZombie
  <2> QED
    BY <1>1, <1>3, <2>1, <2>3 DEF StampedHit, ListFull, Arrival, Replaced
<1>4. CASE StampedMiss(f, size)
  BY <1>1, <1>4 DEF StampedMiss, StampedOverwrite, ListFull, Arrival, Replaced
<1> QED
  BY <1>2, <1>3, <1>4

LEMMA EsInitInv == EsInit => EsInv
<1> SUFFICES ASSUME EsInit PROVE EsInv
  OBVIOUS
<1>1. zombies = <<>> /\ zombies \in Seq(StampedZombie) /\ DOMAIN zombies = {}
  BY EmptySeq DEF EsInit, Init
<1>2. now = 0 /\ now \in 0 .. MaxTime
  BY EsRedAssumption DEF EsInit
<1> QED
  BY <1>1, <1>2 DEF EsInit, Init, EsInv, NoFutureSighting, StampIsSighting

LEMMA EsNextInv ==
    ASSUME EsInv, [EsNext]_esVars
    PROVE  EsInv'
<1>1. CASE UNCHANGED <<config, zombies, phase, now, sightings>>
  BY <1>1 DEF EsInv, NoFutureSighting, StampIsSighting
<1>2. CASE StampedInitialize
  <2>1. zombies' = <<>> /\ zombies' \in Seq(StampedZombie) /\ DOMAIN zombies' = {}
    BY <1>2, EmptySeq DEF StampedInitialize, Initialize
  <2> QED
    BY <1>2, <2>1 DEF StampedInitialize, Initialize, clock, EsInv, NoFutureSighting, StampIsSighting
<1>3. CASE \E f \in FlowIDs, size \in Sizes :
             StampedRemember(f, size) \/ StampedHit(f, size) \/ StampedMiss(f, size)
  BY <1>3, PacketSteps, SeenInv
<1>4. CASE TimePasses
  <2>1. /\ now' = now + 1 /\ now' \in 0 .. MaxTime /\ 0 .. now \subseteq 0 .. now'
        /\ UNCHANGED <<config, zombies, phase, sightings>>
    BY <1>4, EsRedAssumption DEF TimePasses, EsInv, vars, list
  <2> QED
    BY <2>1 DEF EsInv, NoFutureSighting, StampIsSighting
<1>5. CASE UNCHANGED esVars
  BY <1>1, <1>5 DEF esVars, vars, list, clock
<1>6. CASE NoMatch /\ UNCHANGED clock
  BY <1>1, <1>6 DEF NoMatch, list, clock
<1>7. CASE StampedDequeue
  BY <1>1, <1>7 DEF StampedDequeue, DoDequeue, list, clock
<1> QED
  BY <1>2, <1>3, <1>4, <1>5, <1>6, <1>7 DEF EsNext, StampedEnqueue

\* The inductive invariant of the stamps.
THEOREM EsRedInvariant == EsSpec => []EsInv
<1> QED
  BY EsInitInv, EsNextInv, PTL DEF EsSpec

\* A stamp is always the time of a packet of the zombie's own flow.
THEOREM StampsAreSightings == EsSpec => []StampIsSighting
<1>1. EsInv => StampIsSighting
  BY DEF EsInv
<1> QED
  BY <1>1, EsRedInvariant, PTL

-----------------------------------------------------------------------------
(* The list freezes.                                                       *)

Freezing == \A i \in DOMAIN zombies :
                i \in DOMAIN zombies' /\ zombies[i].time <= zombies'[i].time

LEMMA NotAfterNow ==
    ASSUME EsInv
    PROVE  \A i \in DOMAIN zombies : zombies[i].time \in Nat /\ zombies[i].time <= now
<1> SUFFICES ASSUME NEW i \in DOMAIN zombies
             PROVE  zombies[i].time \in Nat /\ zombies[i].time <= now
  OBVIOUS
<1>1. zombies[i].flow \in FlowOrNone
  BY StripSeq DEF EsInv, StampedZombie, FlowOrNone
<1>2. zombies[i].time \in 0 .. now
  BY <1>1 DEF EsInv, NoFutureSighting, StampIsSighting, FlowOrNone
<1> QED
  BY <1>2 DEF EsInv

LEMMA StepFreezes ==
    ASSUME EsInv, [EsNext]_esVars
    PROVE  Freezing
<1>1. \A i \in DOMAIN zombies : zombies[i].time \in Nat /\ zombies[i].time <= now
  BY NotAfterNow
<1>2. CASE UNCHANGED zombies
  BY <1>1, <1>2 DEF Freezing
<1>3. CASE StampedInitialize
  <2>1. DOMAIN zombies = {}
    BY <1>3 DEF StampedInitialize, Initialize, EsInv
  <2> QED
    BY <2>1 DEF Freezing
<1>4. CASE \E f \in FlowIDs, size \in Sizes :
             StampedRemember(f, size) \/ StampedHit(f, size) \/ StampedMiss(f, size)
  <2>1. PICK f \in FlowOrNone : Added(f) \/ Replaced(f) \/ UNCHANGED zombies
    BY <1>4, PacketSteps
  <2>2. \A n \in Nat : Stamped(f, n).time = now
    BY DEF Stamped
  <2>3. CASE Added(f)
    <3>1. /\ \A i \in 1 .. Len(zombies) : zombies'[i] = zombies[i]
          /\ DOMAIN zombies = 1 .. Len(zombies) /\ Len(zombies) \in Nat
      BY <2>3, LenProperties DEF Added, EsInv
    <3>2. DOMAIN zombies' = 1 .. Len(zombies) + 1
      BY <2>3, <3>1 DEF Added
    <3> QED
      BY <1>1, <3>1, <3>2 DEF Freezing
  <2>4. CASE Replaced(f)
    <3>1. PICK j \in DOMAIN zombies, n \in Nat :
            zombies' = [zombies EXCEPT ![j] = Stamped(f, n)]
      BY <2>4 DEF Replaced
    <3>2. /\ DOMAIN zombies' = DOMAIN zombies
          /\ \A i \in DOMAIN zombies :
                zombies'[i] = IF i = j THEN Stamped(f, n) ELSE zombies[i]
      BY <3>1
    <3> QED
      BY <1>1, <2>2, <3>2 DEF Freezing
  <2> QED
    BY <1>2, <2>1, <2>3, <2>4
<1>5. CASE TimePasses \/ UNCHANGED esVars \/ NoMatch \/ StampedDequeue
  BY <1>2, <1>5 DEF TimePasses, esVars, vars, list, NoMatch, StampedDequeue, DoDequeue
<1> QED
  BY <1>3, <1>4, <1>5 DEF EsNext, StampedEnqueue

\* No place of the list ever gets an older stamp, so no place ever becomes
\* easier to overwrite.
THEOREM ListNeverThaws == EsSpec => ListFreezes
<1>1. EsInv /\ [EsNext]_esVars => [Freezing]_esVars
  BY StepFreezes
<1>2. ListFreezes <=> [][Freezing]_esVars
  BY DEF ListFreezes, Freezing
<1> QED
  BY <1>1, <1>2, EsRedInvariant, PTL DEF EsSpec
-----------------------------------------------------------------------------
(* Without the stamps, each step is a step of SRED.                        *)

\* What does not look at the list is the same in both.
LEMMA SameParts ==
    ASSUME NEW f, NEW size
    PROVE  /\ Arrival <=> Stabilized!Arrival
           /\ CountFlow(f) <=> Stabilized!CountFlow(f)
           /\ InternalEnqueue(f, size) <=> Stabilized!InternalEnqueue(f, size)
           /\ \A r : Reject(f, r) <=> Stabilized!Reject(f, r)
           /\ nQueued = Stabilized!nQueued /\ capacity = Stabilized!capacity
           /\ LevelsAfterHit = Stabilized!LevelsAfterHit
           /\ LevelsAfterMiss = Stabilized!LevelsAfterMiss
           /\ FlowIDs = Stabilized!FlowIDs
<1>1. nQueued = Stabilized!nQueued /\ capacity = Stabilized!capacity
  BY DEF nQueued, capacity, Stabilized!nQueued, Stabilized!capacity
<1>2. \A r : Reject(f, r) <=> Stabilized!Reject(f, r)
  BY DEF Reject, Stabilized!Reject, Notices, Stabilized!Notices, buffer,
         Stabilized!buffer, NoFlow, Stabilized!NoFlow
<1>3. HasRoom(size) <=> Stabilized!HasRoom(size)
  BY <1>1 DEF HasRoom, Stabilized!HasRoom
<1>4. InternalEnqueue(f, size) <=> Stabilized!InternalEnqueue(f, size)
  BY <1>2, <1>3 DEF InternalEnqueue, Stabilized!InternalEnqueue, Notices,
         Stabilized!Notices, NoFlow, Stabilized!NoFlow
<1> QED
  BY <1>1, <1>2, <1>4 DEF Arrival, Stabilized!Arrival, CountFlow,
         Stabilized!CountFlow, LevelsAfterHit, Stabilized!LevelsAfterHit,
         LevelsAfterMiss, Stabilized!LevelsAfterMiss, FlowIDs, Stabilized!FlowIDs,
         NoFlow, Stabilized!NoFlow, Levels, Stabilized!Levels

LEMMA SameVerdict ==
    ASSUME NEW f, NEW size, Judge(f, size)
    PROVE  Stabilized!Judge(f, size)
<1>1. MayZap <=> Stabilized!MayZap
  BY DEF MayZap, Stabilized!MayZap, StabilizedProbability,
         Stabilized!StabilizedProbability, capacity, Stabilized!capacity
<1>2. MayPass(level') <=> Stabilized!MayPass(level')
  BY DEF MayPass, Stabilized!MayPass, MayPassSimple, Stabilized!MayPassSimple,
         MayPassFull, Stabilized!MayPassFull, StabilizedProbability,
         Stabilized!StabilizedProbability, capacity, Stabilized!capacity
<1> QED
  BY <1>1, <1>2, SameParts DEF Judge, Stabilized!Judge

LEMMA PlainlyStrip == Plainly = Strip(zombies) /\ Plainly' = Strip(zombies')
BY DEF Plainly, Strip

LEMMA EnqueueImplements ==
    ASSUME EsInv, EsInv', config.pOverwrite < 100, NEW f \in FlowIDs, NEW size \in Sizes,
           StampedRemember(f, size) \/ StampedHit(f, size) \/ StampedMiss(f, size)
    PROVE  Stabilized!Next
<1>1. /\ Len(Plainly) = Len(zombies) /\ DOMAIN Plainly = DOMAIN zombies
      /\ \A i \in DOMAIN zombies : /\ Plainly[i].flow = zombies[i].flow
                                  /\ Plainly[i].count = zombies[i].count
                                  /\ zombies[i] \in StampedZombie
  BY StripSeq, PlainlyStrip DEF EsInv
<1>2. f \in Flows \cup {NoFlow} /\ f \in Stabilized!FlowIDs
  BY SameParts DEF FlowIDs
<1>3. now \in 0 .. MaxTime
  BY DEF EsInv
<1>4. \A n \in Nat : /\ Stamped(f, n) \in StampedZombie
                     /\ Stamped(f, n).flow = f /\ Stamped(f, n).count = n
  BY <1>2, <1>3 DEF Stamped, StampedZombie
<1>5. \A i \in DOMAIN zombies, n \in Nat :
          zombies' = [zombies EXCEPT ![i] = Stamped(f, n)]
              => Plainly' = [Plainly EXCEPT ![i] = [flow |-> f, count |-> n]]
  <2> SUFFICES ASSUME NEW i \in DOMAIN zombies, NEW n \in Nat,
                      zombies' = [zombies EXCEPT ![i] = Stamped(f, n)]
               PROVE  Plainly' = [Plainly EXCEPT ![i] = [flow |-> f, count |-> n]]
    OBVIOUS
  <2>1. zombies \in Seq(StampedZombie) /\ Stamped(f, n) \in StampedZombie
    BY <1>4 DEF EsInv
  <2>2. Strip([zombies EXCEPT ![i] = Stamped(f, n)])
            = [Strip(zombies) EXCEPT ![i] = [flow |-> Stamped(f, n).flow,
                                             count |-> Stamped(f, n).count]]
    BY <2>1, StripExcept
  <2> QED
    BY <1>4, <2>2, PlainlyStrip
<1>6. CASE StampedRemember(f, size)
  <2>1. Plainly' = Append(Plainly, [flow |-> f, count |-> 0])
    BY <1>4, <1>6, StripAppend, PlainlyStrip DEF StampedRemember, EsInv
  <2>2. Stabilized!Remember(f, size)
    BY <1>1, <1>6, <2>1, SameParts DEF StampedRemember, Stabilized!Remember
  <2> QED
    BY <1>2, <2>2 DEF Stabilized!Next, Stabilized!Enqueue
<1>7. ASSUME ListFull(f) PROVE Stabilized!ListFull(f)
  BY <1>1, <1>7, SameParts DEF ListFull, Stabilized!ListFull
<1>8. CASE StampedHit(f, size)
  <2>1. PICK i \in DOMAIN zombies :
          /\ zombies[i].flow = f
          /\ zombies' = [zombies EXCEPT ![i] = Stamped(f, @.count + 1)]
    BY <1>8 DEF StampedHit
  <2>2. zombies[i].count + 1 \in Nat
    BY <1>1, <2>1 DEF StampedZombie
  <2>3. Plainly' = [Plainly EXCEPT ![i] = [flow |-> f, count |-> zombies[i].count + 1]]
    BY <1>5, <2>1, <2>2
  <2>4. Plainly[i] = [flow |-> f, count |-> zombies[i].count]
    BY <2>1 DEF Plainly
  <2>5. [Plainly[i] EXCEPT !.count = @ + 1] = [flow |-> f, count |-> zombies[i].count + 1]
    BY <2>4
  <2>6. Plainly' = [Plainly EXCEPT ![i].count = @ + 1]
    BY <2>3, <2>5
  <2>7. Stabilized!Hit(f, size)
    BY <1>1, <1>7, <1>8, <2>1, <2>4, <2>6, SameParts, SameVerdict
       DEF StampedHit, Stabilized!Hit
  <2> QED
    BY <1>2, <2>7 DEF Stabilized!Next, Stabilized!Enqueue
<1>9. CASE StampedMiss(f, size)
  <2>1. PICK i \in DOMAIN zombies :
          /\ zombies[i].flow # f
          /\ \/ MayOverwrite /\ StampedOverwrite(i, f)
             \/ UNCHANGED zombies
    BY <1>9 DEF StampedMiss
  <2>2. \/ config.pOverwrite > 0 /\ Stabilized!Overwrite(i, f)
        \/ UNCHANGED Plainly
    BY <1>5, <2>1 DEF MayOverwrite, StampedOverwrite, Stabilized!Overwrite, Plainly
  <2>3. Stabilized!Miss(f, size)
    BY <1>1, <1>7, <1>9, <2>1, <2>2, SameParts, SameVerdict
       DEF StampedMiss, Stabilized!Miss
  <2> QED
    BY <1>2, <2>3 DEF Stabilized!Next, Stabilized!Enqueue
<1> QED
  BY <1>6, <1>8, <1>9

LEMMA StepImplementsSred ==
    ASSUME EsInv, EsInv', MayForget, [EsNext]_esVars
    PROVE  [Stabilized!Next]_(Stabilized!vars)
<1>1. CASE \E f \in FlowIDs, size \in Sizes :
             StampedRemember(f, size) \/ StampedHit(f, size) \/ StampedMiss(f, size)
  <2>1. config.pOverwrite < 100
    BY DEF EsInv, MayForget
  <2> QED
    BY <1>1, <2>1, EnqueueImplements
<1>2. ASSUME UNCHANGED list PROVE UNCHANGED Stabilized!list
  BY <1>2 DEF list, Stabilized!list, Plainly
<1>3. CASE StampedInitialize
  <2>1. Plainly' = <<>>
    BY <1>3 DEF StampedInitialize, Initialize, Plainly
  <2>2. Stabilized!Initialize
    BY <1>3, <2>1 DEF StampedInitialize, Initialize, Stabilized!Initialize,
       CheckConfig, Stabilized!CheckConfig, buffer, Stabilized!buffer,
       counters, Stabilized!counters
  <2> QED
    BY <2>2 DEF Stabilized!Next
<1>4. CASE NoMatch /\ UNCHANGED clock
  <2>1. Stabilized!NoMatch
    BY <1>2, <1>4 DEF NoMatch, Stabilized!NoMatch, Arrival, Stabilized!Arrival,
       buffer, Stabilized!buffer
  <2> QED
    BY <2>1 DEF Stabilized!Next, Stabilized!Enqueue
<1>5. CASE StampedDequeue
  <2>1. Stabilized!DoDequeue
    BY <1>2, <1>5 DEF StampedDequeue, DoDequeue, Stabilized!DoDequeue, DoPeek,
       Stabilized!DoPeek, counters, Stabilized!counters
  <2> QED
    BY <2>1 DEF Stabilized!Next
<1>6. CASE TimePasses \/ UNCHANGED esVars
  BY <1>2, <1>6 DEF TimePasses, esVars, vars, Stabilized!vars, buffer,
     Stabilized!buffer, counters, Stabilized!counters
<1> QED
  BY <1>1, <1>3, <1>4, <1>5, <1>6 DEF EsNext, StampedEnqueue

\* With the stamps hidden, ES-RED does nothing that SRED could not do.
THEOREM EsRedRefinesSred == MayForget /\ EsSpec => Stabilized!Spec
<1>1. EsInit => Stabilized!Init
  <2>1. EsInit => Plainly = <<>>
    BY DEF EsInit, Init, Plainly
  <2> QED
    BY <2>1 DEF EsInit, Init, Stabilized!Init
<1>2. MayForget /\ EsInv /\ EsInv' /\ [EsNext]_esVars
          => [Stabilized!Next]_(Stabilized!vars)
  BY StepImplementsSred
<1>3. EsSpec => []EsInv
  BY EsRedInvariant
<1>4. SUFFICES ASSUME MayForget PROVE EsSpec => Stabilized!Spec
  OBVIOUS
<1>5. EsInv /\ EsInv' /\ [EsNext]_esVars => [Stabilized!Next]_(Stabilized!vars)
  BY <1>2, <1>4
<1> QED
  BY <1>1, <1>3, <1>5, PTL DEF EsSpec, Stabilized!Spec
=============================================================================
