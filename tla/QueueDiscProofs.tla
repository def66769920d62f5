--------------------------- MODULE QueueDiscProofs ---------------------------
(***************************************************************************)
(* What every implementation of QueueDisc inherits.                        *)
(***************************************************************************)
EXTENDS QueueDisc, SequenceTheorems, TLAPS

Typed == received \in Nat /\ backlog \in Seq(Nat)
Inv == Typed /\ OneFate /\ InOrder

\* A new packet is the largest number, and goes to the end.
LEMMA AcceptStep ==
    ASSUME Inv, Accept
    PROVE  Inv'
<1> DEFINE p == received + 1
<1> USE DEF Inv, Typed
<1>1. p \in Nat /\ received' = p /\ backlog' = Append(backlog, p)
      /\ dropped' = dropped /\ sent' = sent
  BY DEF Accept
<1>2. /\ backlog' \in Seq(Nat) /\ Len(backlog') = Len(backlog) + 1
      /\ \A i \in 1 .. Len(backlog) : backlog'[i] = backlog[i]
      /\ backlog'[Len(backlog) + 1] = p
  BY <1>1, AppendProperties
<1>3. Waiting' = Waiting \cup {p}
  <2>1. Len(backlog) \in Nat
    BY LenProperties
  <2>2. 1 .. Len(backlog') = (1 .. Len(backlog)) \cup {Len(backlog) + 1}
    BY <1>2, <2>1
  <2>3. Waiting' = {backlog'[i] : i \in 1 .. Len(backlog)} \cup {p}
    BY <1>2, <2>2 DEF Waiting
  <2> QED
    BY <1>2, <2>3 DEF Waiting
<1>4. \A q \in dropped \cup Waiting \cup sent : q \in Nat /\ q < p
  BY DEF OneFate
<1>5. OneFate'
  BY <1>1, <1>3, <1>4 DEF OneFate
<1>6. \A i \in 1 .. Len(backlog) : backlog[i] \in Waiting
  BY DEF Waiting
<1>7. ASSUME NEW i \in 1 .. Len(backlog'), NEW j \in 1 .. Len(backlog'), i < j
      PROVE  backlog'[i] < backlog'[j]
  <2>1. Len(backlog) \in Nat
    BY LenProperties
  <2>2. i \in 1 .. Len(backlog) /\ backlog'[i] = backlog[i]
    BY <1>2, <1>7, <2>1
  <2>3. CASE j = Len(backlog) + 1
    BY <1>2, <1>4, <1>6, <2>2, <2>3
  <2>4. CASE j \in 1 .. Len(backlog)
    BY <1>2, <1>7, <2>2, <2>4 DEF InOrder
  <2> QED
    BY <1>2, <2>1, <2>3, <2>4
<1>8. \A s \in sent', q \in Waiting' : s < q
  BY <1>1, <1>3, <1>4 DEF InOrder
<1> QED
  BY <1>1, <1>2, <1>5, <1>7, <1>8 DEF InOrder

LEMMA DropStep ==
    ASSUME Inv, Drop
    PROVE  Inv'
<1>1. Waiting' = Waiting /\ received' = received + 1
  BY DEF Drop, Waiting
<1>2. OneFate'
  BY <1>1 DEF Drop, Inv, Typed, OneFate
<1> QED
  BY <1>1, <1>2 DEF Drop, Inv, Typed, InOrder

\* The head is the smallest number that waits.
LEMMA SendStep ==
    ASSUME Inv, Send
    PROVE  Inv'
<1> DEFINE h == Head(backlog)
<1> USE DEF Inv, Typed
<1>1. /\ backlog \in Seq(Nat) /\ backlog # <<>> /\ backlog' = Tail(backlog)
      /\ received' = received /\ dropped' = dropped /\ sent' = sent \cup {h}
  BY DEF Send
<1>2. /\ backlog' \in Seq(Nat) /\ Len(backlog') = Len(backlog) - 1
      /\ \A i \in 1 .. Len(backlog') : backlog'[i] = backlog[i + 1]
      /\ h = backlog[1] /\ Len(backlog) \in Nat \ {0}
  BY <1>1, HeadTailProperties, EmptySeq, LenProperties
<1>3. Waiting = Waiting' \cup {h}
  <2>1. \A i \in 1 .. Len(backlog) : i = 1 \/ i - 1 \in 1 .. Len(backlog')
    BY <1>2
  <2>2. ASSUME NEW i \in 1 .. Len(backlog)
        PROVE  backlog[i] \in Waiting' \cup {h}
    <3>1. CASE i = 1
      BY <1>2, <3>1
    <3>2. CASE i - 1 \in 1 .. Len(backlog')
      <4>1. backlog'[i - 1] = backlog[i]
        BY <1>2, <3>2
      <4> QED
        BY <3>2, <4>1 DEF Waiting
    <3> QED
      BY <2>1, <3>1, <3>2
  <2>3. \A i \in 1 .. Len(backlog') : i + 1 \in 1 .. Len(backlog)
    BY <1>2
  <2>4. \A i \in 1 .. Len(backlog') : backlog'[i] \in Waiting
    BY <1>2, <2>3 DEF Waiting
  <2>5. Waiting \subseteq Waiting' \cup {h}
    BY <2>2 DEF Waiting
  <2>6. Waiting' \subseteq Waiting
    BY <2>4 DEF Waiting
  <2>7. h \in Waiting
    BY <1>2 DEF Waiting
  <2> QED
    BY <2>5, <2>6, <2>7
<1> HIDE DEF h
<1>4. ASSUME NEW q \in Waiting'
      PROVE  h < q
  <2>1. PICK i \in 1 .. Len(backlog') : q = backlog'[i]
    BY DEF Waiting
  <2>2. 1 \in 1 .. Len(backlog) /\ i + 1 \in 1 .. Len(backlog) /\ 1 < i + 1
    BY <1>2
  <2>3. backlog[1] < backlog[i + 1]
    BY <2>2 DEF InOrder
  <2> QED
    BY <1>2, <2>1, <2>3
<1>5. \A q \in Waiting : q \in Nat
  BY DEF OneFate
<1>6. OneFate'
  BY <1>1, <1>3, <1>4, <1>5 DEF OneFate
<1>7. ASSUME NEW i \in 1 .. Len(backlog'), NEW j \in 1 .. Len(backlog'), i < j
      PROVE  backlog'[i] < backlog'[j]
  <2>1. i + 1 \in 1 .. Len(backlog) /\ j + 1 \in 1 .. Len(backlog) /\ i + 1 < j + 1
    BY <1>2, <1>7
  <2>2. backlog[i + 1] < backlog[j + 1]
    BY <2>1 DEF InOrder
  <2> QED
    BY <1>2, <2>2
<1>8. \A s \in sent', q \in Waiting' : s < q
  BY <1>1, <1>3, <1>4 DEF InOrder
<1> QED
  BY <1>1, <1>2, <1>6, <1>7, <1>8 DEF InOrder

\* Every queue disc gives each packet one fate and keeps the order: the
\* invariants OneFate and InOrder.
THEOREM DiscOrderly == SafeSpec => [](OneFate /\ InOrder)
<1>1. Init => Inv
  BY DEF Init, Inv, Typed, OneFate, InOrder, Waiting
<1>2. Inv /\ [Next]_discVars => Inv'
  <2> SUFFICES ASSUME Inv, [Next]_discVars PROVE Inv'
    OBVIOUS
  <2>1. CASE UNCHANGED discVars
    BY <2>1 DEF discVars, Inv, Typed, OneFate, InOrder, Waiting
  <2> QED
    BY <2>1, AcceptStep, DropStep, SendStep DEF Next
<1>3. Inv => OneFate /\ InOrder
  BY DEF Inv
<1> QED
  BY <1>1, <1>2, <1>3, PTL DEF SafeSpec
=============================================================================
