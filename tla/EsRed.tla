------------------------------- MODULE EsRed --------------------------------
(***************************************************************************)
(* ESRedQueueDisc: SRED with a time stamp in each zombie.  A zombie is     *)
(* overwritten with the probability p_overwrite / (1 + its time stamp), so *)
(* the later a flow was seen the longer it is remembered.                  *)
(*                                                                         *)
(* The class is a copy of StabilizedRedQueueDisc with four changed lines;  *)
(* what has not changed is taken from Sred.  Time is in seconds, and only  *)
(* its order and the difference between 0 and more matter.                 *)
(***************************************************************************)
EXTENDS Sred

CONSTANT MaxTime    \* bound: the time at which the simulation stops
ASSUME EsRedAssumption == MaxTime \in Nat

VARIABLES
    now,            \* Simulator::Now
    sightings       \* history: sightings[f], when packets of flow f came

clock == <<now, sightings>>
esVars == <<vars, clock>>

Stamped(f, count) == [flow |-> f, count |-> count, time |-> now]
See(f) == sightings' = [sightings EXCEPT ![f] = @ \cup {now}] /\ now' = now

StampedRemember(f, size) ==
    /\ Arrival
    /\ Len(zombies) < MAX_ZOMBIE_LIST_SIZE
    /\ zombies' = Append(zombies, Stamped(f, 0))
    /\ CountFlow(f) /\ See(f)
    /\ \/ nQueued + size <= capacity /\ InternalEnqueue(f, size)
       \/ nQueued + size > capacity /\ Reject(f, "QUEUE_OVERFLOW")
    /\ UNCHANGED <<config, phase, level, hit>>

StampedHit(f, size) ==
    /\ ListFull(f) /\ See(f)
    /\ \E i \in DOMAIN zombies :
          /\ zombies[i].flow = f
          /\ zombies' = [zombies EXCEPT ![i] = Stamped(f, @.count + 1)]
    /\ hit' = TRUE
    /\ level' \in LevelsAfterHit
    /\ Judge(f, size)

\* rand < p_overwrite_e is possible, and is not certain.
MayOverwrite == config.pOverwrite > 0
MayKeep(z) == config.pOverwrite < 100 * (1 + z.time)

\* Mutants: the stamp of the forgotten flow stays; the new one starts at zero;
\* the list position is remembered for its old flow.
OverwriteKeepsStamp(i, f) ==
    zombies' = [zombies EXCEPT ![i] = [@ EXCEPT !.flow = f, !.count = 0]]
OverwriteClearsStamp(i, f) ==
    zombies' = [zombies EXCEPT ![i] = [Stamped(f, 0) EXCEPT !.time = 0]]
OverwriteKeepsHits(i, f) == zombies' = [zombies EXCEPT ![i] = Stamped(f, @.count)]

StampedOverwrite(i, f) == zombies' = [zombies EXCEPT ![i] = Stamped(f, 0)]

StampedMiss(f, size) ==
    /\ ListFull(f) /\ See(f)
    /\ \E i \in DOMAIN zombies :
          /\ zombies[i].flow # f
          /\ \/ MayOverwrite /\ StampedOverwrite(i, f)
             \/ MayKeep(zombies[i]) /\ UNCHANGED zombies
    /\ level' \in LevelsAfterMiss
    /\ hit' = hit
    /\ Judge(f, size)

StampedEnqueue ==
    \/ NoMatch /\ UNCHANGED clock
    \/ \E f \in FlowIDs, size \in Sizes :
          StampedRemember(f, size) \/ StampedHit(f, size) \/ StampedMiss(f, size)

StampedDequeue == DoDequeue /\ UNCHANGED clock
StampedInitialize == Initialize /\ UNCHANGED clock

\* The simulator's clock, between two events.
TimePasses ==
    /\ now < MaxTime
    /\ now' = now + 1
    /\ UNCHANGED <<vars, sightings>>

EsInit ==
    /\ Init
    /\ now = 0
    /\ sightings = [f \in Flows \cup {NoFlow} |-> {}]

EsNext == StampedInitialize \/ StampedEnqueue \/ StampedDequeue \/ TimePasses

EsSpec == EsInit /\ [][EsNext]_esVars

\* The device asks for the next packet whenever it has sent one.
EsFairSpec == EsSpec /\ WF_esVars(StampedDequeue)

-----------------------------------------------------------------------------
(* Properties.                                                             *)

\* The zombies without their stamps.
Plainly == [i \in DOMAIN zombies |->
               [flow |-> zombies[i].flow, count |-> zombies[i].count]]

Stabilized == INSTANCE Sred WITH zombies <- Plainly

\* The stamps change how long a flow is remembered and nothing else: without
\* them ES-RED is SRED, as long as SRED may keep a zombie too (MayForget), which
\* it cannot when it always overwrites.
ImplementsSred == Stabilized!FairSpec
MayForget == \A c \in Configs : c.pOverwrite < 100

StampedZombie == [flow : Flows \cup {NoFlow}, count : Nat, time : 0 .. MaxTime]

\* The stamp of a zombie is the time of a packet of its own flow, never that of
\* the flow it was overwritten for.
StampIsSighting ==
    \A i \in DOMAIN zombies : zombies[i].time \in sightings[zombies[i].flow]

\* The chance of being overwritten never rises at any place of the list, not
\* even when the zombie there is a new one: the stamp is the time since the
\* start, not an age, so the list freezes as the simulation goes on.
ListFreezes ==
    [][\A i \in DOMAIN zombies :
          i \in DOMAIN zombies' /\ zombies[i].time <= zombies'[i].time]_esVars

-----------------------------------------------------------------------------
(* The inductive invariant behind the theorems of EsRedProofs.             *)

\* No packet came later than now.
NoFutureSighting == sightings \in [Flows \cup {NoFlow} -> SUBSET (0 .. now)]

EsInv ==
    /\ config \in Configs
    /\ phase = "new" => zombies = <<>>
    /\ zombies \in Seq(StampedZombie)
    /\ now \in 0 .. MaxTime
    /\ NoFutureSighting
    /\ StampIsSighting
=============================================================================
