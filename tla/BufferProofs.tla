---------------------------- MODULE BufferProofs ----------------------------
(***************************************************************************)
(* The bookkeeping of the upload buffer, for any number of file threads,   *)
(* any draws of the random generator and any number of uploads.            *)
(***************************************************************************)
EXTENDS Buffer, SumTheorems

\* The assumption, fact by fact.
LEMMA ConstantTypes ==
  IsFiniteSet(Threads) /\ MaxUploads \in Nat /\ Draws \subseteq Int
<1>1. IsFiniteSet(Threads) /\ MaxUploads \in Nat
  BY BufferAssumption, SMT
<1>2. ASSUME NEW a \in Int, NEW b \in Int PROVE a .. b \subseteq Int
  OBVIOUS
<1>3. MinInt \in Int
  BY SMT DEF MinInt
<1>4. Draws \subseteq MinInt .. 2147483647 /\ 2147483647 \in Int
  BY BufferAssumption, SMT
<1> QED
  BY <1>1, <1>2, <1>3, <1>4, SMT

-----------------------------------------------------------------------------
(* Chunk sizes.                                                            *)

\* Math.abs makes every int but MinInt nonnegative.
LEMMA AbsType ==
  ASSUME NEW x \in Int
  PROVE  Abs(x) \in Int /\ (x # MinInt => Abs(x) \in Nat)
BY SMT DEF Abs, MinInt

\* The remainder by a positive number; of a natural number it is below it.
LEMMA RemType ==
  ASSUME NEW x \in Int, NEW d \in Nat \ {0}
  PROVE  Rem(x, d) \in Int /\ (x \in Nat => Rem(x, d) \in 0 .. d - 1)
<1>1. CASE x >= 0
  BY <1>1 DEF Rem
<1>2. CASE x < 0
  <2> DEFINE y == -(x + 1)
             z == y % d
  <2>1. y \in Int /\ z \in 0 .. d - 1
    BY <1>2
  <2>2. Rem(x, d) = -((z + 1) % d)
    BY <1>2 DEF Rem
  <2> HIDE DEF y, z
  <2>3. (z + 1) % d \in Int
    BY <2>1
  <2> QED
    BY <1>2, <2>2, <2>3
<1> QED
  BY <1>1, <1>2

\* getRandom returns an int.
LEMMA ChunkSizeInt ==
  ASSUME NEW x \in Draws
  PROVE  ChunkSize(x) \in Int
<1>1. x \in Int
  BY ConstantTypes
<1> DEFINE d == 51191
<1>2. d \in Nat \ {0} /\ Abs(x) \in Int
  BY <1>1, AbsType, SMT
<1> HIDE DEF d
<1> DEFINE r == Rem(Abs(x), d)
<1>3. r \in Int
  BY <1>2, RemType, SMT
<1>4. ChunkSize(x) = (10 + r) * 1024
  BY SMT DEF d, ChunkSize, GetRandom, MIN_CHUNK_SIZE, MAX_CHUNK_SIZE
<1> HIDE DEF r
<1> QED
  BY <1>3, <1>4, SMT

-----------------------------------------------------------------------------
(* Type correctness.                                                       *)

LEMMA InitType == Init => TypeOK
<1> SUFFICES ASSUME Init PROVE TypeOK
  OBVIOUS
<1>1. 0 \in 0 .. MaxUploads
  BY ConstantTypes
<1>2. chunk \in [Threads -> Int] /\ \A t \in Threads : chunk[t] >= 0
  BY DEF Init
<1>3. surplus \in Nat /\ excess \in Nat
  BY DEF Init
<1>4. cur \in Int /\ temp \in [Threads -> Int] /\ uploads \in [Threads -> 0 .. MaxUploads]
  BY <1>1 DEF Init
<1>5. collided \in BOOLEAN /\ crossed \in BOOLEAN
  BY Zenon DEF Init
<1> QED
  BY <1>2, <1>3, <1>4, <1>5, Zenon DEF Init, TypeOK

LEMMA AdmitType ==
  ASSUME TypeOK, NEW t \in Threads, Admit(t)
  PROVE  TypeOK'
<1>1. PICK x \in Draws : /\ chunk' = [chunk EXCEPT ![t] = ChunkSize(x)]
                         /\ Goto(t, IF Fits(ChunkSize(x)) THEN "granted" ELSE "queued")
  BY DEF Admit
<1>2. chunk' \in [Threads -> Int]
  BY <1>1, ChunkSizeInt DEF TypeOK
<1>3. uploads' \in [Threads -> 0 .. MaxUploads]
  <2>1. uploads' = [uploads EXCEPT ![t] = @ + (IF pc[t] = "idle" THEN 1 ELSE 0)]
    BY DEF Admit
  <2>2. uploads[t] + (IF pc[t] = "idle" THEN 1 ELSE 0) \in 0 .. MaxUploads
    BY ConstantTypes DEF Admit, TypeOK
  <2> QED
    BY <2>1, <2>2 DEF TypeOK
<1>4. \A u \in Threads : pc'[u] \in {"adding", "receiving", "subtracting"} => chunk'[u] >= 0
  BY <1>1 DEF TypeOK, Goto
<1> QED
  BY <1>1, <1>2, <1>3, <1>4 DEF Admit, TypeOK, Goto, astray

LEMMA NextType == TypeOK /\ [Next]_vars => TypeOK'
<1> SUFFICES ASSUME TypeOK, [Next]_vars PROVE TypeOK'
  OBVIOUS
<1> USE DEF TypeOK, Goto, astray
<1>1. CASE UNCHANGED vars
  BY <1>1 DEF vars
<1>2. ASSUME NEW t \in Threads, Admit(t) PROVE TypeOK'
  BY <1>2, AdmitType
<1>3. ASSUME NEW t \in Threads, LeaveQueue(t) PROVE TypeOK'
  BY <1>3 DEF LeaveQueue
<1>4. ASSUME NEW t \in Threads, Abandon(t) PROVE TypeOK'
  BY <1>4 DEF Abandon
<1>5. ASSUME NEW t \in Threads, BeginReceive(t) PROVE TypeOK'
  BY <1>5 DEF BeginReceive
<1>6. ASSUME NEW t \in Threads, Add(t) PROVE TypeOK'
  BY <1>6 DEF Add, Write
<1>7. ASSUME NEW t \in Threads, EndReceive(t) PROVE TypeOK'
  BY <1>7 DEF EndReceive
<1>8. ASSUME NEW t \in Threads, Subtract(t) PROVE TypeOK'
  BY <1>8 DEF Subtract, Write, Finish
<1>9. ASSUME NEW t \in Threads, EnterCatch(t) PROVE TypeOK'
  BY <1>9 DEF EnterCatch
<1>10. ASSUME NEW t \in Threads, SubtractAgain(t) PROVE TypeOK'
  <2>1. surplus' \in Nat /\ excess' \in Nat
    BY <1>10 DEF SubtractAgain
  <2>2. /\ cur' \in Int /\ collided' \in BOOLEAN
        /\ temp' \in [Threads -> Int] /\ chunk' \in [Threads -> Int]
        /\ \A u \in Threads : pc'[u] \in {"adding", "receiving", "subtracting"} => chunk'[u] >= 0
    BY <1>10 DEF SubtractAgain, Write, Finish
  <2> QED
    BY <1>10, <2>1, <2>2 DEF SubtractAgain, Finish
<1> QED
  BY <1>1, <1>2, <1>3, <1>4, <1>5, <1>6, <1>7, <1>8, <1>9, <1>10 DEF Next, Serve

\* Type correctness for any threads and draws: what is added to CUR_BUFFER_SIZE is
\* never negative, because an array of negative size cannot be made.
THEOREM SpecTypeOK == Spec => []TypeOK
<1>1. Init => TypeOK
  BY InitType
<1>2. TypeOK /\ [Next]_vars => TypeOK'
  BY NextType
<1> QED
  BY <1>1, <1>2, PTL DEF Spec

-----------------------------------------------------------------------------
(* The counter and the chunks in use.                                      *)

UseOf == [t \in Threads |-> InUse(t)]

LEMMA TotalIsSum == TotalInUse = SumFunctionOnSet(UseOf, Threads)
BY SumOfAll DEF TotalInUse, UseOf

LEMMA InUseInt == TypeOK => \A t \in Threads : InUse(t) \in Int
BY DEF TypeOK, InUse

\* A step that changes what one thread uses changes the total by as much.
LEMMA TotalChange ==
  ASSUME TypeOK, TypeOK', NEW t \in Threads, \A u \in Threads \ {t} : InUse(u)' = InUse(u)
  PROVE  TotalInUse \in Int /\ TotalInUse' = TotalInUse - InUse(t) + InUse(t)'
<1>1. IsFiniteSet(Threads)
  BY ConstantTypes
<1>2. (\A u \in Threads : InUse(u) \in Int) /\ (\A u \in Threads : InUse(u)' \in Int)
  BY DEF TypeOK, InUse
<1>3. /\ \A u \in Threads : UseOf[u] \in Int
      /\ UseOf'[t] \in Int
      /\ \A u \in Threads \ {t} : UseOf'[u] = UseOf[u]
      /\ UseOf[t] = InUse(t) /\ UseOf'[t] = InUse(t)'
  BY <1>2 DEF UseOf
<1>4. SumFunctionOnSet(UseOf, Threads) \in Int
  BY <1>1, <1>3, SumInt
<1>5. SumFunctionOnSet(UseOf', Threads) = SumFunctionOnSet(UseOf, Threads) - UseOf[t] + UseOf'[t]
  BY <1>1, <1>3, SumChange
<1>6. TotalInUse' = SumFunctionOnSet(UseOf', Threads)
  BY SumOfAll DEF TotalInUse, UseOf
<1> QED
  BY <1>3, <1>4, <1>5, <1>6, TotalIsSum

\* No step changes what two threads use.
LEMMA OnlyOneUse ==
  ASSUME TypeOK, NEW t \in Threads, Serve(t) \/ Admit(t)
  PROVE  \A u \in Threads \ {t} : InUse(u)' = InUse(u)
BY DEF TypeOK, Serve, Admit, LeaveQueue, Abandon, BeginReceive, Add, EndReceive, Subtract,
       EnterCatch, SubtractAgain, Finish, Write, Goto, InUse

\* The bookkeeping is an inductive invariant by itself: an update that did not
\* collide has read what the counter still holds.
LEMMA NextAccounted ==
  ASSUME TypeOK, TypeOK', Accounted, [Next]_vars
  PROVE  Accounted'
<1> USE DEF astray
<1>1. CASE UNCHANGED vars
  <2>1. UseOf' = UseOf
    BY <1>1 DEF vars, UseOf, InUse
  <2>2. TotalInUse' = TotalInUse
    BY <2>1, SumOfAll DEF TotalInUse, UseOf
  <2> QED
    BY <1>1, <2>2 DEF vars, Accounted
<1>2. ASSUME NEW t \in Threads, Serve(t) \/ Admit(t) PROVE Accounted'
  <2>1. SUFFICES ASSUME ~collided' PROVE cur' = TotalInUse' - surplus' + excess'
    BY DEF Accounted
  <2>2. TotalInUse \in Int /\ TotalInUse' = TotalInUse - InUse(t) + InUse(t)'
    BY <1>2, OnlyOneUse, TotalChange
  <2>3. InUse(t) \in Int /\ InUse(t)' \in Int /\ cur \in Int /\ chunk[t] \in Int
        /\ surplus \in Nat /\ excess \in Nat
    BY DEF TypeOK, InUse
  <2>4. CASE \/ Admit(t) \/ LeaveQueue(t) \/ Abandon(t) \/ BeginReceive(t) \/ EndReceive(t)
             \/ EnterCatch(t)
    <3>1. InUse(t)' = InUse(t)
      BY <2>3, <2>4
         DEF Admit, LeaveQueue, Abandon, BeginReceive, EndReceive, EnterCatch, Goto, InUse, TypeOK
    <3>2. cur' = cur /\ collided' = collided /\ surplus' = surplus /\ excess' = excess
      BY <2>4 DEF Admit, LeaveQueue, Abandon, BeginReceive, EndReceive, EnterCatch
    <3>3. cur = TotalInUse - surplus + excess
      BY <2>1, <3>2 DEF Accounted
    <3>4. TotalInUse' = TotalInUse
      BY <2>2, <2>3, <3>1
    <3> QED
      BY <3>2, <3>3, <3>4
  <2>5. CASE Add(t)
    <3>1. InUse(t) = 0 /\ InUse(t)' = chunk[t]
      BY <2>5 DEF Add, Goto, InUse, TypeOK
    <3>2. cur' = cur + chunk[t] /\ ~collided /\ surplus' = surplus /\ excess' = excess
      BY <2>1, <2>5 DEF Add, Write
    <3> QED
      BY <2>2, <2>3, <3>1, <3>2 DEF Accounted
  <2>6. CASE Subtract(t)
    <3>1. InUse(t) = chunk[t] /\ InUse(t)' = 0
      BY <2>6 DEF Subtract, Finish, Goto, InUse, TypeOK
    <3>2. cur' = cur - chunk[t] /\ ~collided /\ surplus' = surplus /\ excess' = excess
      BY <2>1, <2>6 DEF Subtract, Write
    <3> QED
      BY <2>2, <2>3, <3>1, <3>2 DEF Accounted
  <2>7. CASE SubtractAgain(t)
    <3>1. InUse(t) = 0 /\ InUse(t)' = 0
      BY <2>7 DEF SubtractAgain, Finish, Goto, InUse, TypeOK
    <3>2. cur' = cur - chunk[t] /\ ~collided
      BY <2>1, <2>7 DEF SubtractAgain, Write
    <3>3. surplus' - excess' = surplus - excess + chunk[t]
      BY <2>3, <2>7 DEF SubtractAgain
    <3>4. surplus' \in Nat /\ excess' \in Nat
      BY DEF TypeOK
    <3> QED
      BY <2>1, <2>2, <2>3, <3>1, <3>2, <3>3, <3>4 DEF Accounted
  <2> QED
    BY <1>2, <2>4, <2>5, <2>6, <2>7 DEF Serve
<1> QED
  BY <1>1, <1>2 DEF Next

LEMMA InitAccounted == Init => Accounted
<1> SUFFICES ASSUME Init PROVE cur = TotalInUse - surplus + excess
  BY DEF Accounted
<1>1. \A t \in Threads : UseOf[t] = 0
  BY DEF Init, UseOf, InUse
<1>2. IsFiniteSet(Threads)
  BY ConstantTypes
<1> QED
  BY <1>1, <1>2, SumZero, TotalIsSum DEF Init

\* CUR_BUFFER_SIZE is what the transfers in progress use, as long as no two
\* updates overlapped, less what a failing close() made recieveFile subtract a
\* second time, and more by the negative chunks, which were never added.
THEOREM SpecAccounted == Spec => []Accounted
<1>1. Init => TypeOK /\ Accounted
  BY InitType, InitAccounted
<1>2. (TypeOK /\ Accounted) /\ [Next]_vars => (TypeOK /\ Accounted)'
  BY NextType, NextAccounted
<1> QED
  BY <1>1, <1>2, PTL DEF Spec

-----------------------------------------------------------------------------
(* The capacity of the buffer.                                             *)

Admitted == {t \in Threads : pc[t] \in {"granted", "adding"}}

\* Without overlapping, at most one upload is between its admission and the
\* addition of its chunk, and what it was promised is still free.
Reserved ==
    collided \/ crossed \/
    /\ cur <= MAX_BUFFER_SIZE + excess
    /\ \A t \in Admitted : cur + chunk[t] <= MAX_BUFFER_SIZE + excess
    /\ \A t, u \in Admitted : t = u

LEMMA BoundMoves ==
  ASSUME NEW c \in Int, NEW d \in Int, NEW e \in Int, NEW f \in Int, NEW m \in Int,
         d - f <= c - e, c <= m + e
  PROVE  d <= m + f
OBVIOUS

LEMMA InitReserved == Init => Reserved
BY SMT DEF Init, Reserved, Admitted, MAX_BUFFER_SIZE

LEMMA NextReserved ==
  ASSUME TypeOK, Reserved, [Next]_vars
  PROVE  Reserved'
<1> USE DEF astray
<1>1. CASE UNCHANGED vars
  BY <1>1 DEF vars, Reserved, Admitted
<1>2. ASSUME NEW t \in Threads, Serve(t) \/ Admit(t) PROVE Reserved'
  <2>1. SUFFICES ASSUME ~collided', ~crossed' PROVE Reserved'
    BY DEF Reserved
  <2>2. ~collided /\ ~crossed
    <3>1. CASE Admit(t)
      BY <2>1, <3>1 DEF Admit, TypeOK
    <3>2. CASE \/ LeaveQueue(t) \/ Abandon(t) \/ BeginReceive(t) \/ EndReceive(t)
               \/ EnterCatch(t)
      BY <2>1, <3>2 DEF LeaveQueue, Abandon, BeginReceive, EndReceive, EnterCatch
    <3>3. CASE Add(t) \/ Subtract(t) \/ SubtractAgain(t)
      BY <2>1, <3>3 DEF Add, Subtract, SubtractAgain, Write, TypeOK
    <3> QED
      BY <1>2, <3>1, <3>2, <3>3 DEF Serve
  <2>3. /\ cur <= MAX_BUFFER_SIZE + excess
        /\ \A u \in Admitted : cur + chunk[u] <= MAX_BUFFER_SIZE + excess
        /\ \A v, u \in Admitted : v = u
    BY <2>2 DEF Reserved
  <2>4. /\ cur \in Int /\ excess \in Nat /\ MAX_BUFFER_SIZE \in Int
        /\ \A u \in Threads : chunk[u] \in Int
    BY DEF TypeOK, MAX_BUFFER_SIZE
  <2>5. CASE Admit(t)
    <3>1. PICK x \in Draws : /\ chunk' = [chunk EXCEPT ![t] = ChunkSize(x)]
                             /\ Goto(t, IF Fits(ChunkSize(x)) THEN "granted" ELSE "queued")
      BY <2>5 DEF Admit
    <3>2. CASE Fits(ChunkSize(x))
      <4>1. pc' = [pc EXCEPT ![t] = "granted"] /\ cur' = cur /\ excess' = excess
        BY <2>5, <3>1, <3>2 DEF Goto, Admit
      <4>2. pc'[t] = "granted"
        BY <4>1 DEF TypeOK
      <4>3. Admitted = {}
        BY <2>1, <2>5, <4>2 DEF Admit, Admitted
      <4>4. Admitted' = {t}
        BY <4>1, <4>3 DEF Admitted, TypeOK
      <4>5. chunk'[t] = ChunkSize(x)
        BY <3>1 DEF TypeOK
      <4>6. cur + chunk'[t] <= MAX_BUFFER_SIZE + excess
        BY <2>4, <3>2, <4>5, ChunkSizeInt DEF Fits
      <4> QED
        BY <2>3, <4>1, <4>4, <4>6 DEF Reserved
    <3>3. CASE ~Fits(ChunkSize(x))
      <4>1. pc' = [pc EXCEPT ![t] = "queued"] /\ cur' = cur /\ excess' = excess
        BY <2>5, <3>1, <3>3 DEF Goto, Admit
      <4>2. Admitted' = Admitted \ {t} /\ \A u \in Admitted' : chunk'[u] = chunk[u]
        BY <3>1, <4>1 DEF Admitted, TypeOK
      <4> QED
        BY <2>3, <4>1, <4>2 DEF Reserved
    <3> QED
      BY <3>2, <3>3
  <2>6. CASE \/ LeaveQueue(t) \/ Abandon(t) \/ BeginReceive(t) \/ EndReceive(t)
             \/ EnterCatch(t)
    <3>1. /\ Admitted' \subseteq Admitted /\ cur' = cur /\ excess' = excess
          /\ \A u \in Admitted' : chunk'[u] = chunk[u]
      BY <2>6
         DEF LeaveQueue, Abandon, BeginReceive, EndReceive, EnterCatch, Goto, Admitted, TypeOK
    <3> QED
      BY <2>3, <3>1 DEF Reserved
  <2>7. CASE Add(t)
    <3>1. cur' = cur + chunk[t] /\ excess' = excess
      BY <2>1, <2>7 DEF Add, Write
    <3>2. t \in Admitted
      BY <2>7 DEF Add, Admitted
    <3>3. Admitted' = Admitted \ {t}
      BY <2>7 DEF Add, Goto, Admitted, TypeOK
    <3>4. Admitted' = {}
      BY <2>3, <3>2, <3>3
    <3> QED
      BY <2>3, <3>1, <3>2, <3>4 DEF Reserved
  <2>8. CASE Subtract(t) \/ SubtractAgain(t)
    <3>1. cur' - excess' <= cur - excess
      <4>1. CASE Subtract(t)
        <5>1. cur' = cur - chunk[t] /\ chunk[t] >= 0 /\ excess' = excess
          BY <2>1, <4>1 DEF Subtract, Write, TypeOK
        <5> QED
          BY <2>4, <5>1
      <4>2. CASE SubtractAgain(t)
        <5>1. cur' = cur - chunk[t]
          BY <2>1, <4>2 DEF SubtractAgain, Write
        <5>2. excess' = IF chunk[t] >= 0 THEN excess ELSE excess - chunk[t]
          BY <4>2 DEF SubtractAgain
        <5> QED
          BY <2>4, <5>1, <5>2
      <4> QED
        BY <2>8, <4>1, <4>2
    <3>2. cur' \in Int /\ excess' \in Int
      BY <2>4, <2>8 DEF Subtract, SubtractAgain, Write, TypeOK
    <3>3. Admitted' = Admitted /\ \A u \in Admitted : u \in Threads /\ chunk'[u] = chunk[u]
      BY <2>8 DEF Subtract, SubtractAgain, Finish, Goto, Admitted, TypeOK
    <3>4. cur' <= MAX_BUFFER_SIZE + excess'
      <4>1. /\ cur \in Int /\ excess \in Int /\ MAX_BUFFER_SIZE \in Int
            /\ cur <= MAX_BUFFER_SIZE + excess
        BY <2>3, <2>4
      <4> QED
        BY <3>1, <3>2, <4>1, BoundMoves
    <3>5. \A u \in Admitted' : cur' + chunk'[u] <= MAX_BUFFER_SIZE + excess'
      BY <2>3, <2>4, <3>1, <3>2, <3>3
    <3> QED
      BY <2>3, <3>3, <3>4, <3>5 DEF Reserved
  <2> QED
    BY <1>2, <2>5, <2>6, <2>7, <2>8 DEF Serve
<1> QED
  BY <1>1, <1>2 DEF Next

\* The transfers in progress never need more than the buffer has and what a
\* failing close() made recieveFile subtract twice, unless updates overlapped or
\* an admission came between another one and its addition: those three are the
\* only ways past the limit.
THEOREM SpecWithinBuffer == Spec => []WithinBuffer
<1> DEFINE Inv == TypeOK /\ Accounted /\ Reserved
<1>1. Init => Inv
  BY InitType, InitAccounted, InitReserved
<1>2. Inv /\ [Next]_vars => Inv'
  BY NextType, NextAccounted, NextReserved
<1>3. Inv => WithinBuffer
  <2> SUFFICES ASSUME Inv, ~collided, ~crossed PROVE TotalInUse <= MAX_BUFFER_SIZE + surplus
    BY DEF WithinBuffer
  <2>1. cur = TotalInUse - surplus + excess /\ cur <= MAX_BUFFER_SIZE + excess
    BY DEF Accounted, Reserved
  <2>2. surplus \in Nat /\ excess \in Nat /\ cur \in Int /\ MAX_BUFFER_SIZE \in Int
    BY DEF TypeOK, MAX_BUFFER_SIZE
  <2>3. TotalInUse \in Int
    BY ConstantTypes, InUseInt, SumInt, TotalIsSum DEF UseOf
  <2> QED
    BY <2>1, <2>2, <2>3
<1> QED
  BY <1>1, <1>2, <1>3, PTL DEF Spec
=============================================================================
