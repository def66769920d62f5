------------------------------- MODULE Buffer -------------------------------
(***************************************************************************)
(* The upload buffer of the server: CUR_BUFFER_SIZE, which the file        *)
(* threads of all connections update without a lock, the admission test of *)
(* the commands "f" and "f_r", the busy wait of those who do not pass it,  *)
(* and getRandom, which chooses the chunk sizes.  Sizes are in bytes and   *)
(* have the values of the code.                                            *)
(*                                                                         *)
(* CUR_BUFFER_SIZE is volatile: every thread reads what was written last,  *)
(* but += and -= are a read and a later write.                             *)
(***************************************************************************)
EXTENDS Integers, FiniteSets, Functions

CONSTANTS
    Threads,    \* the file threads that serve uploads
    Draws,      \* the values Random.nextInt may return
    MaxUploads  \* bound: number of uploads that each client asks for

MAX_BUFFER_SIZE == 100000 * 1024
MIN_CHUNK_SIZE == 10
MAX_CHUNK_SIZE == 50
MinInt == -2147483647 - 1

ASSUME BufferAssumption ==
    /\ IsFiniteSet(Threads)
    /\ Draws \subseteq MinInt .. 2147483647
    /\ MaxUploads \in Nat

\* Math.abs of a 32-bit int: there is no positive counterpart of MinInt.
Abs(x) == IF x < 0 /\ x # MinInt THEN -x ELSE x

\* Java's remainder, which has the sign of the dividend; written so that the
\* negation of MinInt is avoided.
Rem(x, d) == IF x >= 0 THEN x % d ELSE -((((-(x + 1)) % d) + 1) % d)

\* getRandom(a, b) with the value x drawn from nextInt.
GetRandom(a, b, x) == (a + Rem(Abs(x), b - a + 1)) * 1024

\* The chunk size of an upload, in the call of "f" and "f_r".
ChunkSize(x) == GetRandom(MIN_CHUNK_SIZE, MAX_CHUNK_SIZE * 1024, x)

VARIABLES
    cur,        \* CUR_BUFFER_SIZE
    pc,         \* pc[t]: where the file thread t is
    chunk,      \* chunk[t]: CHUNK_SIZE of the upload that t serves
    temp,       \* temp[t]: what t has read in the middle of += or -=
    surplus,    \* history: bytes that were subtracted a second time
    excess,     \* history: bytes that negative chunks have added
    collided,   \* history: a += or -= has overwritten another one
    crossed,    \* history: an upload was admitted between the admission of
                \* another one and the addition of its chunk
    uploads     \* bound: uploads[t], how many uploads t has begun

astray == <<surplus, excess>>
vars == <<cur, pc, chunk, temp, astray, collided, crossed, uploads>>

Goto(t, label) == pc' = [pc EXCEPT ![t] = label]

\* Mutant: the new chunk is not counted.
FitsWithoutIt(size) == cur <= MAX_BUFFER_SIZE

\* The admission test, also the condition of the busy wait.
Fits(size) == cur + size <= MAX_BUFFER_SIZE

\* "f" or "f_r": choose a chunk size, then admit or let wait.  A client that
\* was told that its turn has come asks again, and gets a new chunk size.
Admit(t) ==
    /\ pc[t] \in {"idle", "askAgain"}
    /\ pc[t] = "idle" => uploads[t] < MaxUploads
    /\ uploads' = [uploads EXCEPT ![t] = @ + (IF pc[t] = "idle" THEN 1 ELSE 0)]
    /\ \E x \in Draws :
          /\ chunk' = [chunk EXCEPT ![t] = ChunkSize(x)]
          /\ Goto(t, IF Fits(ChunkSize(x)) THEN "granted" ELSE "queued")
    /\ crossed' = (crossed \/ /\ pc'[t] = "granted"
                              /\ \E u \in Threads : pc[u] \in {"granted", "adding"})
    /\ UNCHANGED <<cur, temp, astray, collided>>

\* while (CUR_BUFFER_SIZE + CHUNK_SIZE > MAX_BUFFER_SIZE) { }, and the text
\* "queue ..." that makes the client ask again.  Nothing is reserved.
LeaveQueue(t) ==
    /\ pc[t] = "queued"
    /\ Fits(chunk[t])
    /\ Goto(t, "askAgain")
    /\ UNCHANGED <<cur, chunk, temp, astray, collided, crossed, uploads>>

\* The client has no such file, or is gone: "file", or the second request of a
\* client in the queue, never comes.
Abandon(t) ==
    /\ pc[t] \in {"granted", "askAgain"}
    /\ chunk' = [chunk EXCEPT ![t] = 0]
    /\ Goto(t, "idle")
    /\ UNCHANGED <<cur, temp, astray, collided, crossed, uploads>>

\* Mutant: the array is made for any chunk size.
BeginReceiveAnySize(t) ==
    /\ pc[t] = "granted"
    /\ temp' = [temp EXCEPT ![t] = cur]
    /\ Goto(t, "adding")
    /\ UNCHANGED <<cur, chunk, astray, collided, crossed, uploads>>

\* recieveFile.  An array of negative size cannot be made: the catch block
\* subtracts a chunk that was never added.
BeginReceive(t) ==
    /\ pc[t] = "granted"
    /\ IF chunk[t] >= 0
       THEN temp' = [temp EXCEPT ![t] = cur] /\ Goto(t, "adding")
       ELSE temp' = temp /\ Goto(t, "failed")
    /\ UNCHANGED <<cur, chunk, astray, collided, crossed, uploads>>

Write(t, value) ==
    /\ cur' = value
    /\ collided' = (collided \/ cur # temp[t])
    /\ temp' = [temp EXCEPT ![t] = 0]

Add(t) ==
    /\ pc[t] = "adding"
    /\ Write(t, temp[t] + chunk[t])
    /\ Goto(t, "receiving")
    /\ UNCHANGED <<chunk, astray, crossed, uploads>>

\* Mutant: one of the ways out of the loop does not subtract.
LeaveWithoutSubtract(t) ==
    /\ pc[t] = "receiving"
    /\ chunk' = [chunk EXCEPT ![t] = 0]
    /\ Goto(t, "idle")
    /\ UNCHANGED <<cur, temp, astray, collided, crossed, uploads>>

\* The loop ends, by its condition, a timeout or an exception.
EndReceive(t) ==
    /\ pc[t] = "receiving"
    /\ temp' = [temp EXCEPT ![t] = cur]
    /\ Goto(t, "subtracting")
    /\ UNCHANGED <<cur, chunk, astray, collided, crossed, uploads>>

Finish(t) ==
    /\ chunk' = [chunk EXCEPT ![t] = 0]
    /\ Goto(t, "idle")

\* Mutant: a smaller chunk is given back than was taken.
SubtractMinimum(t) ==
    /\ pc[t] = "subtracting"
    /\ Write(t, temp[t] - MIN_CHUNK_SIZE * 1024)
    /\ Finish(t)
    /\ UNCHANGED <<astray, crossed, uploads>>

\* The close() behind the subtraction may throw inside the try.
Subtract(t) ==
    /\ pc[t] = "subtracting"
    /\ Write(t, temp[t] - chunk[t])
    /\ Finish(t) \/ (Goto(t, "failed") /\ chunk' = chunk)
    /\ UNCHANGED <<astray, crossed, uploads>>

\* The catch block subtracts what is not, or no longer, counted.
EnterCatch(t) ==
    /\ pc[t] = "failed"
    /\ temp' = [temp EXCEPT ![t] = cur]
    /\ Goto(t, "undoing")
    /\ UNCHANGED <<cur, chunk, astray, collided, crossed, uploads>>

SubtractAgain(t) ==
    /\ pc[t] = "undoing"
    /\ Write(t, temp[t] - chunk[t])
    /\ Finish(t)
    /\ IF chunk[t] >= 0
       THEN surplus' = surplus + chunk[t] /\ excess' = excess
       ELSE excess' = excess - chunk[t] /\ surplus' = surplus
    /\ UNCHANGED <<crossed, uploads>>

Init ==
    /\ cur = 0
    /\ pc = [t \in Threads |-> "idle"]
    /\ chunk = [t \in Threads |-> 0]
    /\ temp = [t \in Threads |-> 0]
    /\ surplus = 0 /\ excess = 0
    /\ collided = FALSE /\ crossed = FALSE
    /\ uploads = [t \in Threads |-> 0]

\* Admit is the user's decision only when the thread is idle.
Serve(t) ==
    \/ pc[t] = "askAgain" /\ Admit(t)
    \/ LeaveQueue(t) \/ Abandon(t) \/ BeginReceive(t)
    \/ Add(t) \/ EndReceive(t) \/ Subtract(t) \/ EnterCatch(t) \/ SubtractAgain(t)
Next == \E t \in Threads : Serve(t) \/ (pc[t] = "idle" /\ Admit(t))

Spec == Init /\ [][Next]_vars

\* Every file thread runs, and every transfer ends (see Upload).
FairSpec == Spec /\ \A t \in Threads : WF_vars(Serve(t))

-----------------------------------------------------------------------------
(* Properties.                                                             *)

InUse(t) == IF pc[t] \in {"receiving", "subtracting"} THEN chunk[t] ELSE 0
TotalInUse == SumFunction([t \in Threads |-> InUse(t)])

\* A negative chunk is never added to CUR_BUFFER_SIZE.
TypeOK ==
    /\ cur \in Int
    /\ pc \in [Threads -> {"idle", "queued", "askAgain", "granted", "adding", "receiving",
                           "subtracting", "failed", "undoing"}]
    /\ chunk \in [Threads -> Int]
    /\ \A t \in Threads : pc[t] \in {"adding", "receiving", "subtracting"} => chunk[t] >= 0
    /\ temp \in [Threads -> Int]
    /\ surplus \in Nat /\ excess \in Nat
    /\ collided \in BOOLEAN /\ crossed \in BOOLEAN
    /\ uploads \in [Threads -> 0 .. MaxUploads]

\* As long as no two updates of CUR_BUFFER_SIZE have overlapped, it is the sum
\* of the chunks in use, through admissions, queues and failed uploads alike,
\* but for what the catch block of recieveFile has subtracted although it was
\* not counted: after a close() that failed, or for a chunk of negative size.
Accounted == ~collided => cur = TotalInUse - surplus + excess

\* Once the other uploads are over (their number is bounded) a client in the
\* queue gets out of it, unless updates have overlapped or negative chunks have
\* filled the buffer: no upload that ended otherwise keeps space in it.
QueueMoves == \A t \in Threads :
    pc[t] = "queued" ~> \/ pc[t] # "queued" \/ collided
                        \/ excess - surplus + chunk[t] > MAX_BUFFER_SIZE

\* The transfers in progress need no more than the buffer has, and what was
\* subtracted twice, unless updates overlapped or an admission test came between
\* another one and the addition it announced: nothing is reserved, and two large
\* chunks then exceed it.
WithinBuffer == collided \/ crossed \/ TotalInUse <= MAX_BUFFER_SIZE + surplus

\* The comments of Server.java give MIN_CHUNK_SIZE and MAX_CHUNK_SIZE in kb.
ChunkInKilobytes == \A t \in Threads :
    chunk[t] # 0 => chunk[t] \in MIN_CHUNK_SIZE * 1024 .. MAX_CHUNK_SIZE * 1024
=============================================================================
