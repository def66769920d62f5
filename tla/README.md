# Verification of CSE-322: the Hive server and the ns-3 queue disciplines

This directory holds the TLA+ models of the programs of this repository, the TLC
configurations that check them on small instances, and the proofs TLAPS checks.
The programs are a socket-programming assignment, the *Hive* (Java, a server and
a console client), and a term project for ns-3 (C++: the SRED and ES-RED queue
disciplines and the simulations that measure them).

Paths below are abbreviated: `Server.java`, `User.java`, `Message.java` and
`Client.java` are in `src/Offline (Socket Programming)/SocketProgramming/src/`,
`corner_case.txt` two levels above them, the ns-3 code in
`src/Term Project (NS3)/`.

## 1. Inventory

### The Hive

Each client opens two TCP connections: a *control* connection (port 6788) for
login, look-ups and messages, and a *file* connection (port 6789) for uploads
and downloads. The server has one `User` object, one worker thread and one file
thread for each client; the client has one console thread and one file thread.

| Component | State | Operations | Where it is hard |
|---|---|---|---|
| **Session server** (`Server.java:189-383, 574-608`, `User.java`, `Message.java`) | `users`, a `Vector<User>` shared by all worker threads; for each `User` the id, `isOnline` and a reference to a message `Vector`; the directories `files/<id>/` | login (`isAlreadyLoggedIn`, `hasLoggedInBefore`, `update`, `removeUser`, `setId`, `users.add`), the commands `a b c d send show exit`, the catch blocks that call `makeOffline` | every method of `Vector` is synchronized, but no *sequence* of them is; iterators throw `ConcurrentModificationException`; two `User` objects share one message `Vector`; a worker and a file thread both decide about `isOnline` |
| **Upload session** (`Client.java:20-69, 169-226`, `Server.java:89-158, 427-441, 503-554`) | the two byte streams of the file socket, the stored file, the timeouts of both sockets | `f`, `file`, chunks and ACKs, the confirmation, the verdict, `TIMEOUT` | raw bytes and texts share a stream; both sides time out on their own; a read returns part of a chunk; the console thread writes to the same stream |
| **Upload buffer** (`Server.java:14-18, 61-67, 97-137, 427-489`) | `CUR_BUFFER_SIZE`, shared by all file threads without a lock | admission, queue (busy wait), `+=` and `-=`, `getRandom` | check and reservation are far apart; `+=` on a volatile is not atomic; 32-bit arithmetic |
| **File requests** (`Server.java:311-327, 454-501`) | `reqId`, `requestUserId` | `d` broadcasts a request, `f_r` answers it | the number and the place in the Vector are assigned by separate statements of many threads; the requester is told of an upload that has not happened |
| **Replies on the control channel** (`Client.java:107-167`, all `curUser.write`) | the sequence of texts | one console line, one reply | the file thread of the server also writes there, so that requests and replies can get out of step |
| **Download** (`Server.java:160-187, 404-426`, `Client.java:71-87, 202-212`, `getFileId`) | the stored file, the file stream | `b_d`, `c_d` | the announced length and the bytes are read at different times; errors are swallowed |
| **Client console** (`Client.java:107-167`) | none but the streams | routes a line to one of the two sockets | see the previous two |

What makes them correct: a message reaches the mailbox of its addressee and no
other, stays there, and is displayed once; an `Online` user is being served, an id has one session at a time, and a user whose client
died can come back; an accepted upload is the file that was sent, a failed one
leaves nothing behind, an upload ends on both sides; the buffer count equals the
chunks in use.

### The ns-3 project

| Component | State | Operations | Where it is hard |
|---|---|---|---|
| **SRED** (`Task-B-Code/stabilized-red-queue-disc.{cc,h}`) | the zombie list (flow, count), the hit frequency, the internal queue | `DoEnqueue` (fill the list; hit, overwrite; drop probability), `DoDequeue`, `DoPeek`, `CheckConfig` | the packet of flow -1 is dropped and goes on; packets and bytes are mixed; division by a zero hit frequency |
| **ES-RED** (`Task-B-Code/es-red-queue-disc.{cc,h}`) | the same with a time for each zombie | the same, with an overwrite probability that depends on that time | the probability uses the absolute time, not the age |
| **Simulations** (`Task-B-Code/wired-*.cc`, `Task-A-Code/task-a-*.cc`) | the result directory, accumulated statistics, the simulator's events | name, command line, topology, applications, `rm -rf` and `mkdir`, handlers that append samples and schedule themselves again, final checks | results of several launches share directories; 0/0 at the first samples; handlers without an end; which disc is traced |

A simulation hands packets to a queue disc through the ns-3 traffic control
layer, and reads the disc's statistics from its handlers. All of it runs in one
thread, event by event; what is hard here is not interleaving but the corner
cases of numbers and units, and the disk that launches share.

What makes them correct: a disc gives each packet one fate and keeps the order,
counts every packet once, and its list and frequency
mean what the probabilities take them for; a result directory holds the samples
of one launch, all of them.

The notebooks, graphs, slides, Packet Tracer files, stored files of users and
compiled classes hold no program logic.

### Components, modules, status

| Component | Module | Status |
|---|---|---|
| Session server | `Hive`, `HiveProofs` | modelled, invariants proved |
| Upload session | `Upload`, `UploadProofs` | modelled, invariants proved |
| Upload buffer | `Buffer`, `BufferProofs` | modelled, invariants proved |
| File requests | `Hive` (the broadcast) | partly |
| Replies on the control channel | - | not modelled |
| Download | - | not modelled |
| Client console | `Upload` (the routing of `f`) | partly |
| SRED | `QueueDisc`, `Sred`, `QueueDiscProofs`, `SredProofs` | modelled, refinement of `QueueDisc` and invariants proved |
| ES-RED | `EsRed`, `EsRedProofs` | modelled, refinement of `Sred` and invariants proved |
| Wired and wireless simulations | `Experiment`, `ExperimentProofs` | modelled as far as the programs go, ns-3 from how they use it; invariants proved |

## 2. The modules

### Hive: session server

A connection `c \in Conns` stands for its `User` object, its worker thread and
its file thread, all of which are created together. `users`, `modCount` are the
shared Vector; `id`, `online`, `box` the fields of each `User` (`box[c] = v`:
`c.messageVector` is the Vector that the constructor of `v` made); `mail` the
message Vectors; `folders` the directories made by `setId`; `pc`, `typed`, `it`,
`outer`, `cmd`, `to`, `target`, `batch` the place and the locals of the worker.

*Grain.* One step is one call of a synchronized `Vector` method or one socket
operation, which is where the threads can interleave. A loop over `users` is a
sequence of steps with an iterator that remembers the `modCount` of its
creation; `next` of a stale iterator throws, `hasNext` only compares the cursor
with the size (so that the loop that ends at a smaller Vector does not throw).

*Login* is `ReadId`, `IsAlreadyLoggedIn`, `HasLoggedInBefore`, `TakeOver` (the
loop with `update`), `RemoveUser`, `SetId`, `AddUser`. An `IOException` there is
printed and the worker enters the command loop all the same, with a `User` that
may not be listed (`LoginIOError`); any other exception ends the thread
(`LoginDies`). *Commands* are `ReadList` ... `ReadExit` and the loops they run.
`Kick` is the catch block: offline, return.

`isOnline` and `Message.isRead` are plain fields that several threads use; the
model takes them as sequentially consistent, which is what the JVM does for
single fields apart from a delay of visibility.

`SetId` makes any subset of the two directories when the fault `disk` is on, for
`User.setId` does not look at what `mkdirs` returns: `add` is reached all the
same, and `LookupFiles` throws for whoever then asks for what is not there.

*Faults* are switched by a constant: `overlap` (login dialogues of different
connections may overlap), `crash` (a client vanishes), `fileError` (the file
thread ends by an exception of its own, see `Upload`), `typo` (unparsable input),
`disk` (a directory cannot be made).

Two histories: `seen`, the messages that were displayed, and `abandoned`, the
logins that ended because the client was gone when it was to be greeted. Neither
occurs in a guard.

### Upload: one upload session

Both file threads and the console, and the two streams. A stream from the client
is a sequence of *units*: a unit of file data or one of the two halves of a
text, so that a raw read can stop in the middle of a text and `readUTF` can
start in the middle of one (`ServerReadsGarbage`, the two `GarbageAhead`
disjuncts). `ServerReceives` takes any number of units that `read` may return,
and answers `ACK` each time, as the code does. Every handler of a read is an
action of its own with the whole of its consequence: deleting the file, the
answer, the reset of the timeout or the lack of it, the subtraction from the
buffer (`shares`).

A timeout may expire when the reader has nothing to read and the other side has
nothing to do either; with the fault `slow` it may expire whenever there is
nothing to read. The other faults are

- `crash`: the client vanishes, with or without what it sent last;
- `inject`: the user types a command during a transfer;
- `missing`: the client does not have the file;
- `typo`: the user types a line that the server fails to execute, with tokens
  missing, a number that is none, or a download of a file that is not there: the
  exception reaches the outer catch block (`ServerReadsBad`, `Server.java:548`);
- `huge`: a file of 2^31 bytes or more, whose announced length `parseInt` does
  not take (line 505): the same way out, in the middle of what the client sends;
- `disk`: the `FileOutputStream` cannot be made (`ServerCannotOpen`: before the
  try, the chunk and its subtraction), a write fails (`ServerWriteFails`),
  `close()` throws behind a subtraction, so that the catch block subtracts again
  (`ReleaseTwice`, lines 104-105 or 127-128 and then 134), or `delete()` fails
  (`Delete`: its result is only printed).

Which faults may happen is chosen once, in `Init`, from `FaultSets` and kept in
`faults`: one run thus has both behaviours with faults and those with none, for
which `UploadSucceeds` asks more.

History variables: `accepted` (the stored file was accepted), `undeleted` (it
could not be deleted), `twice` (how often a chunk was subtracted a second time),
`aborted`, `garbled`, `refused` (why a thread may end), `mixed`; none occurs in a
guard. Downloads and `f_r` appear only as lines that fail. Errors of the JVM, such
as `OutOfMemoryError`, are no exceptions the code catches and are left out.

### Buffer: CUR_BUFFER_SIZE

The file threads of all clients, reduced to what they do to the buffer: the
admission test, the queue, `+=` and `-=` as a read and a later write, with the
sizes of the code in bytes. `getRandom` is translated with Java's remainder and
`Math.abs`, so that a draw of `Integer.MIN_VALUE` gives a negative chunk: it is
admitted, no array of that size can be made, and the catch block subtracts it
(`BeginReceive`, `EnterCatch`, `SubtractAgain`). The same catch block follows a
`close()` that fails behind the subtraction (`Subtract`). What else ends a transfer
is the business of `Upload`.

Four histories name what disturbs the count and the limit: `surplus`, the bytes
subtracted a second time; `excess`, those that subtracting negative chunks has
added; `collided`, two updates have overlapped; `crossed`, an upload was admitted
between the admission of another one and the addition of its chunk.

### QueueDisc, Sred, EsRed: the queue disciplines

`QueueDisc` is what any queue disc promises a device: each packet is accepted or
dropped as it comes, packets leave in order, and while the device asks they
leave. Packets are numbered.

`Sred` is `StabilizedRedQueueDisc`. `config` are the attributes (`MaxSize` with
its unit, the mode, the two probabilities) and the filters, classes and internal
queues that were added before `Initialize`; `zombies` is the list; `queue`,
`sizes`, `nBytes` the internal queue; `received`, `notices` the statistics of the
base class. `DoEnqueue` has one action for each way through it: `NoMatch`,
`Remember` (the list is not full), `Hit`, `Miss`; each ends with the verdict,
`Judge`, as the code does. Abstractions:

- a draw of the random variable is a choice among the outcomes that have a
  positive probability. So `rand < p` is possible iff `p > 0`, and its opposite
  iff `p < 1`; this is what `MayZap` and `MayPass` say;
- `p_hitFreq` is a *level*: 0 for 0, and k for the interval ((k-1)/16, k/16].
  The only thing the code asks of it is whether 256 P P > 1, that is whether the
  level exceeds 1. As alpha is at most 1/1000, one packet changes the level by at
  most one; a level 1 never falls to 0, because (1 - alpha) P stays positive;
- 1/0 is infinite and 0/0 compares as false, as IEEE 754 has it: `MayPassFull`;
- the queue, the filters and the counters belong to ns-3 and are modelled from
  how the class uses them: `Queue::Enqueue` refuses a packet that exceeds the
  limit in its own unit, which the disc's drop callback counts once.

`EsRed` extends `Sred`, as the class is a copy of SRED with a time stamp in each
zombie and an overwrite probability of `p_overwrite / (1 + stamp)`. `now` is the
simulator's clock and `sightings` a history of when each flow was seen.
`Plainly` forgets the stamps; it is the refinement mapping of `ImplementsSred`.

### Experiment: the simulation programs

Two launches of any of the five programs, with the options that matter: the
number of nodes, `--queueDiscType`, `--tracing`, an unknown option. `pc[r]` is the
place in `main`: `Parse`, `Build`, `RemoveDirectory`, `MakeDirectory`, `Run`, the
events (`NextEvent`), `Report`. The constants of each program (name, schedule,
topology) are operators with its name; `pending` is the event queue of
`ns3::Simulator`, events of equal time in the order of their scheduling.
`TraceMetrics`, `TraceQueue` and `TraceQueueDrop` append a sample and are
scheduled again. Of the network only what the handlers print is kept: packets on
their way, sent, received, lost, seen by the traced disc; of a sample, which
values are numbers and not 0/0. The monitor counts the flows of both directions:
`Answer` is an acknowledgement, which never passes the traced disc. `taken` is the
history of what each launch sampled.

`system` returns -1 when no shell can be started, and only that is looked at
(`forkFails`). With `commandsFail` a `rm` or a `mkdir` fails and the program goes
on: `rm` leaves everything, the directory without its files, or nothing
(`Leftovers`; what lies between, some files and not others, is not told apart), and
without a directory the samples go nowhere (`Write`). `owner` is the launch that
last ran `rm` on a directory, `left` what that left there, `unnoticed` the commands
that failed, `overlapped` the directories of which two launches ran at once.

A handler runs every 10 or 100 ms; the model lets it run at `SampleTimes`
instead, chosen between the events that matter, the last one after every stop.

## 3. The runs

| Run | Checks | Instance |
|---|---|---|
| `hive_race` | `Inv`, `OwnMailOnly`, `OnlineEntryServed` | 2 connections, 2 ids, all faults but `disk`, 1 send |
| `hive_serial` | `SingleEntry`, `OneSession`, `MailKept`, `NoDoubleShow`, `LoginSettles`, `DeadClientReleased` | 2 connections, 1 id, crashes and missing directories, no overlapping logins, 2 sends, fair |
| `hive_two_logins` | `OneSession` fails | two overlapping logins of one id |
| `hive_unseen` | `ReadMeansSeen` fails | 2 connections, 2 sends |
| `upload_faults` | `StreamInv`, `AcceptedIntact`, `NoPartialFile`, `ShareWhileReceiving`, `ThrownOutForAReason`, `ServerSettles`, `ClientSettles`, `UploadSucceeds` | 5 units in chunks of 2, 3 uploads, three sets of faults (none; `slow`, `crash` with those of the user; `slow`, `crash` with those of the disk and `huge`), fair |
| `upload_early` | `CompletedMeansStored` fails | 3 units, chunks of 2, no fault |
| `buffer_queue` | `TypeOK`, `Accounted`, `WithinBuffer`, `QueueMoves` | 3 threads, chunks of 30 MB, 50 MB and -21 MB, fair |
| `buffer_units` | `ChunkInKilobytes` fails | 1 thread, 1 draw |
| `sred_queue` | `TypeOK`, `Accounted`, `Evidence`, `HitLevel`, `ImplementsDisc`, `IdleAccepts` | 2 flows and -1, sizes 1 and 3, list of 2, 5 packets, 7 settings, fair |
| `sred_packets` | `OverflowOnlyWhenFull` fails | 1 flow, limit of 2 packets |
| `esred_queue` | `EsInv`, `StampIsSighting`, `ImplementsSred`, `ListFreezes` | the same with 4 packets, 4 settings, time 0 to 2 |
| `experiments` | `TypeOK`, `ResultsComplete`, `NumbersStay`, `OnlyLegalLaunchesWrite`, `LaunchesEnd` | 10 sessions of two launches, at most 3 packets, 3 sample times, fair |

`Inv` of `Hive`, `StreamInv` of `Upload` and `EsInv` are the invariants that the
proofs use, and contain the type invariants.

*What the passing runs say of the Hive.* Under every interleaving and fault, a
mailbox holds only messages to the id its owner typed, and an entry shown as
`Online` has a worker in the command loop and a file thread. When login dialogues
do not overlap, there is one entry for an id, and one session unless a file thread
has ended by itself; no message is displayed twice although a session may begin
before its predecessor has noticed that its client is gone; every login comes to
an end, and a dead client's id becomes free. Mail that is in a message Vector never
loses its owner, not even while that owner logs in again and messages are
delivered meanwhile (by the worker of a client that has crashed in the middle of
a `send`, for instance), with one exception, which `MailKept` names: a client that
vanishes between `removeUser` and `users.add` takes its mail with it.

*Of the upload.* An accepted file has the announced length and, unless the user
typed into the transfer, the announced content; after a failed upload nothing of
it is stored, however the two sides disagree about where they are, unless it
cannot be deleted; the chunk is given back on every path, and more than once only
when `close()` fails behind the subtraction; a client that is present is
disconnected only after an exception in `recieveFile`, misread bytes, or a line
that could not be executed; both sides always come to an end; and without faults
every upload is stored and reported.

*Of the buffer.* As long as no two updates overlap, the count is the sum of the
chunks in use but for what was subtracted without being counted, and the queue
moves unless negative chunks have filled the buffer; and the transfers in progress
exceed the buffer by no more than was subtracted twice, unless updates have
overlapped or two admissions have crossed.

*Of the queue disciplines.* Whatever the list, the probabilities and the drop
reasons do, SRED is a queue disc and ES-RED is SRED; received
packets are the dropped, queued and sent ones, except that a packet of flow -1
is reported as dropped once too often (`StabilizedRedQueueDisc` lines 197-200
have no `return`); the list never claims more packets of a flow than there were;
the division by the hit frequency never turns a packet away from an empty
queue. The stamps of ES-RED are times of the flow's own packets, and as they are
times since the start and not ages, no place of the list ever gets easier to
overwrite (`ListFreezes`): the list freezes as a simulation goes on.

*Of the simulations.* Unless two launches of one name run at once, a directory
holds the samples of the launch that last ran `rm` there, all of them and in order,
also when the wifi program ends by `exit (1)` after its checks; they come behind
those of an earlier launch only if that `rm` failed, and are missing only if `mkdir`
failed. A launch that is refused for an option touches nothing; a value that was a
number once stays one; every launch ends.

*What the failing runs show* (each under `findings` in `PROJECT.json`): two
overlapping logins of one id both get in; a message that arrives while its
addressee runs `show` makes the iteration throw after earlier messages were
marked as read, and they are never displayed; the client prints "File Upload
Completed" on a left-over ACK; with a limit in packets, SRED drops the first
packets as `QUEUE_OVERFLOW` although the queue has room; and as `MAX_CHUNK_SIZE` is
converted to bytes twice, chunks reach 52,428,800 bytes where the comment on the
constant allows 51,200.

*Observed and not run.*

- Hive: a rejected login leaves its sockets open although `corner_case.txt:3` says
  that the stream is closed; while a user logs in again, a `send` to it is answered
  by "Invalid User"; a file thread that ends by itself lets a second session in
  (`OneSession` fails when `fileError` is added to the faults of `HiveSerial.cfg`;
  `OneFullSession` says that nothing else does), and then two sessions may display
  the same message.
- Upload: a command typed during an upload is stored as part of the file.
- Buffer: two uploads admitted one after the other exceed the buffer
  (`WithinBuffer` without `crossed`); a lost update keeps it full for good
  (`Accounted` without `collided`); a `close()` that fails makes it larger for good
  (`surplus`), and `Math.abs(Integer.MIN_VALUE)`, the chunk size -21,696,512, makes
  it smaller (`excess`).
- Queue disciplines: with a limit in packets the thresholds of `p_sred` compare
  bytes with packets, so that the probability is 0 nearly always; the full mode
  is called with a hit also after a miss (line 264).
- Simulations: overlapping launches of one name mix their samples, or lose them
  (`ResultsComplete` without `overlapped`); a failing `rm` or `mkdir` goes unnoticed
  (`ResultsComplete` without `unnoticed`); `exp_name` is put together before
  `cmd.Parse`, so that launches with other parameters overwrite the results of the
  default ones; task-a-low-rate names its results `nflow-100` and installs 25 flows
  (5 x 5 end the loops); acknowledgements are counted with the data in the printed
  ratios.

### Bounds

`MaxSends`, `MaxUploads` bound the user's commands; nothing else is cut off. Two
connections are enough for each race the code has: every check-then-act of the
login, every iterator and every shared Vector involves two threads; that a third
one makes no difference, such as a sender who is neither the old nor the new
session of the addressee, is what the proofs add, which hold for any number. Two
ids are the smallest number for which mail can go
astray. Five units in chunks of two give a short last chunk, more data than one
text can replace (a TIMEOUT that is swallowed leaves the server waiting, which
is what its timeout is for) and reads that end inside a text; three uploads let
the leftovers of the first meet the second and third. The chunk sizes are chosen
so that two of 50 MB do not fit, three of 30 MB do, and one is negative.

Two flows let a zombie be hit, missed and overwritten, and the third id is -1;
with sizes 1 and 3 and limits of 5 and 6 bytes a packet may fit while another
does not, and each threshold of `p_sred` is passed; a list of 2 is full after two
packets, so that three of five packets are judged by it (two of four in ES-RED,
which has a clock to pay for). Three time stamps are the least for an order
between a stamp, an older and a newer one. Two launches are what can interfere
through the disk; two or three packets of each launch can be delivered, lost
and still on their way between two samples.

Connections are interchangeable, which the safety runs of `Hive` use as symmetry; runs with liveness properties do not.

### Fairness

`Hive`: weak fairness of each worker thread: Java threads are scheduled, and a read
from a closed connection returns. A file thread need not notice that its client is
gone, for it may be busy waiting for buffer space. What a user types is never assumed. `Upload`: weak fairness
of both file threads; an expired timeout is a step of the thread that waits, so
fairness says that time passes. `Buffer`: weak fairness of each file thread,
which is `ServerSettles` of `Upload` for the end of a transfer.
`QueueMoves` holds because the number of uploads is bounded: with uploads for
ever coming, a busy wait may always look at the wrong moment.

`Sred`, `EsRed`: weak fairness of `DoDequeue`, as the device asks again whenever it
has sent a packet; nothing is assumed of arrivals or draws. `Experiment`: weak
fairness of each program once it is started; nothing of the network.

`CHECK_DEADLOCK FALSE` is set everywhere because every system here may stop: all
clients gone, all uploads done, all packets come, both launches ended.

## 4. The proofs

Every safety property that a passing run checks is proved, for every value of
the constants. The hypotheses on the constants are the named assumptions of the
modules, and those of the second column; they are the conditions under which the
runs check the same properties, and without them the properties are false
(section 3, *Observed and not run*).

`HiveProofs`, for any sets of connections and ids and any number of messages:

| Theorem | Faults excluded | Statement |
|---|---|---|
| `Invariant`, `TypeCorrect` | none | `Spec => []Inv`, `[]TypeOK` |
| `MailboxPrivacy` | none | `Spec => []OwnMailOnly` |
| `OnlineUsersServed` | none | `Spec => []OnlineEntryServed` |
| `SerialLogins`, `OneEntryPerId` | `overlap` | `Spec => []SerialInv`, `[]SingleEntry` |
| `Sessions`, `OneFullSessionPerId` | `overlap` | `Spec => []SessionInv`, `[]OneFullSession` |
| `OneSessionPerId` | `overlap`, `fileError` | `Spec => []OneSession` |
| `Showing`, `ShownOnce` | `overlap`, `fileError` | `Spec => []ShowInv`, `Spec => NoDoubleShow` |
| `Keeping`, `MailIsKept` | `overlap` | `Spec => []KeptInv`, `[]MailKept` |

`UploadProofs`, for any file size, chunk size, number of commands and faults:

| Theorem | Statement |
|---|---|
| `UploadInvariant`, `TypeCorrect` | `Spec => []Inv`, `[]TypeOK` |
| `FailedUploadLeavesNothing` | `Spec => [](NoPartialFile /\ AcceptedWhole)` |
| `ShareReturned` | `Spec => []ShareWhileReceiving` |
| `NobodyThrownOut` | `Spec => []ThrownOutForAReason` |
| `StreamInvariant` | `Spec => []StreamInv` |
| `AcceptedFileIntact` | `Spec => []AcceptedIntact` |

`BufferProofs`, for any finite set of file threads, any draws and any number of
uploads:

| Theorem | Statement |
|---|---|
| `SpecTypeOK` | `Spec => []TypeOK` |
| `SpecAccounted` | `Spec => []Accounted` |
| `SpecWithinBuffer` | `Spec => []WithinBuffer` |

`QueueDiscProofs`, `SredProofs` and `EsRedProofs`, for any flows, sizes,
attributes, length of the list and number of packets:

| Theorem | Statement |
|---|---|
| `DiscOrderly` | `SafeSpec => [](OneFate /\ InOrder)` of `QueueDisc` |
| `SredInvariant`, `TypeCorrect`, `HitFrequencySound` | `Spec => []Inv` of `Sred`, and its parts |
| `SredIsQueueDisc` | `Spec => Disc!SafeSpec`: SRED implements the abstract disc |
| `PacketsOrderly` | `Spec => []Orderly` |
| `StatisticsAddUp` | `Spec => []Accounted` |
| `ListIsEvidence` | `Spec => []Evidence` |
| `IdleDiscAccepts` | `Spec => IdleAccepts` |
| `EsRedInvariant`, `StampsAreSightings` | `EsSpec => []EsInv`, `[]StampIsSighting` |
| `ListNeverThaws` | `EsSpec => ListFreezes` |
| `EsRedRefinesSred` | `MayForget /\ EsSpec => Stabilized!Spec`: ES-RED implements SRED |

`ExperimentProofs`, for any sessions, numbers of nodes and packets, and any finite
set of sampled times:

| Theorem | Statement |
|---|---|
| `ExperimentInvariant`, `TypeCorrect` | `Spec => []Inv`, `[]TypeOK` |
| `ResultsAreComplete` | `Spec => []ResultsComplete` |
| `NumbersRemain` | `Spec => []NumbersStay` |
| `RejectedLaunchesLeaveResults` | `Spec => OnlyLegalLaunchesWrite` |

### Sums

`TotalInUse` of `Buffer` and `Evidence` of `Sred` are sums, which the models take
from the community modules (`SumFunction`). The library has no theorems about
them, and its induction theorems cannot be used with the provers at hand.
`SumTheorems` therefore argues by a minimal counterexample: the subset ordering
of a finite set is well-founded, so among the sets for which a statement fails
there is a minimal one (`MinimalSubset`). From this follow that the recursive
function behind the sum exists and is unique, and then what is needed of it: the
sum over the empty set (`SumEmpty`), taking out any element (`SumRemove`),
changing one value (`SumChange`), and its type (`SumInt`).

### The argument for the queue disciplines

`Inv` of `Sred` is `TypeOK`, `WithinLimit`, `HitLevel` and `Fresh` (nothing has
happened before `Initialize`, which empties the list: without it, `HitLevel` is
not inductive). `SredIsQueueDisc` maps each way through `DoEnqueue` to `Accept` or
`Drop` and `DoDequeue` to `Send`; one fate and order are proved once, of
`QueueDisc`, and carried over, which is why `PacketsOrderly` needs no invariant
of `Sred`. `StatisticsAddUp` needs the cardinality of the set of sent packets,
so it rests on `Orderly`: a packet is sent once.

`EsRedRefinesSred` hides the stamps. Lemmas say what hiding does to an appended
and to a replaced zombie (`StripAppend`, `StripExcept`), and that everything that
does not look at the list is the same in both (`SameParts`, `SameVerdict`). Its
assumption `MayForget`, that no disc is configured with an overwrite probability
of 1, is needed: such an SRED always overwrites, and ES-RED does not.

`ListIsEvidence` follows the sum over the list through the three ways of changing
it: a zombie is appended, counts one more, or makes room for one of another flow.
`IdleDiscAccepts` needs that an empty queue has no bytes, since the probability
depends on `nBytes`; it is inductive in the form `Weighed`, that `nBytes` is the
last of the partial sums of the sizes in the queue.

### The argument for the Hive

The only assumption of the first four is `HiveAssumption` of `Hive`. Neither of
their two safety properties is inductive: `OwnMailOnly` speaks about the mailbox a session has
now, and a login takes over a mailbox it found some steps earlier. `Inv` is
their common strengthening, which `hive_race` checks as well:

- `TypeOK`;
- `Ownership`: a message Vector belongs for ever to the id its creator typed,
  whoever refers to it now, and holds messages to that id only;
- `ListedIds`: a listed entry has the id its client typed;
- `Stages`: what is known at each place of a worker, e.g. that at `deliver` the
  user found is one who typed the id the message goes to;
- `Service`: who may be listed and who may be online at each place.

There is one lemma for each part of `Inv` that a step disturbs (`TypeStep`,
`OwnershipStep`, `ListedIdsStep`, `StagesStep`, `ServiceStep`) with one step for
each action, and frame lemmas for the actions that leave the part alone.

Four further invariants build on one another, each with what the next property
needs:

- `SerialInv`: there is one dialogue at a time (`OneDialogue`), and its three
  loops find the list as they left it and have passed no entry of the id that was
  typed (`Walks`). From this `SingleEntry` is inductive: when `users.add` is
  reached no entry has the id;
- `SessionInv`: whoever is connected and in the command loop, with a file thread
  that runs, has an Online entry (`Attendance`). With `SingleEntry`, two such
  sessions of one id would be one (`OneFullSession`). The end of a file thread by an
  exception of its own makes the user offline while the worker goes on; where it is
  excluded every session is such a session (`Accompanied`), which gives `OneSession`;
- `ShowInv`: what `show` has collected is in the Vector, marked as read, and not
  yet displayed if its client is still there (`Collected`); what has been
  displayed is marked. A session that follows a dead one shares its Vector, and
  finds the mark. `ShownOnce` is the step property that follows;
- `KeptInv`: at `removeUser` the new session shares the Vector of every entry that
  is about to go, and a delivery in progress goes to a Vector that somebody holds
  (`Handed`). A login that its client abandons keeps the Vector it took over, for
  ever and out of reach: `MailKept` counts it as the one excuse, and `Handed` says
  that it never becomes a dialogue again.

### The argument for the upload

The only assumption is `UploadAssumption`. `Inv` of `Upload` adds to the properties what they depend on:

- `Counting`: in the loop of `recieveFile`, the length of the stored file and
  the local variable `size` add up to the file size. This is what bounds the
  file, and it needs `AllowedBound`: a read never takes more than `size`;
- `Undecided`: before the decision there is a file, and no accepted one;
- `ShareWhileReceiving`, as a sum: the chunks added and not subtracted are one in
  the loop and none outside, less `twice`. Whether a `close()` has failed is not
  visible in any other state, hence the history;
- `TimerLeft`: the timeout of an idle socket is set only after an upload that
  ended in the catch block, which is why the server may only then throw out a
  client that is merely idle (`ThrownOutForAReason` is not inductive without);
- `AcceptedWhole`: nothing touches an accepted file but a new upload of it.

`ClientStep` shows that neither the client nor the console touches the state
these speak about, `ServerTypes` and `ServerProgress` go through the actions of
the server. The contents of the stream need not be known for any of this: what
is proved so far holds for a client that sends its texts in any order.

They must be known for `AcceptedIntact`: the server counts raw bytes, so a TIMEOUT
text of the client can be stored as part of the file, and the question is whether
a file with it can be confirmed. `StreamInv`, which `upload_faults` checks, adds to
`Inv` what the two streams hold in each stage of an upload (`CommandTyped`,
`CommandAnswered`, `Announced`, `Unreadable`, `Transferring`), unless the user has typed into a
transfer (`mixed`). The point is the last stage: as long as the server receives,
or waits for the confirmation of a file of full length, either the stored part is
clean and exactly the rest of the file comes next (`FileAhead`), or the client has
given up, and then no confirmation is in the stream nor will be (`Hopeless`).

### The argument for the buffer

`Accounted` is inductive with `TypeOK`: a thread in the middle of `+=` or `-=` has
read the current value, or the write will set `collided`; the sum changes by the
chunk (`SumChange`). `WithinBuffer` is not: the test of the admission compares
with the current value, and the addition comes later. `Reserved` says what holds
in between, as long as nothing crossed: only one upload is admitted and not yet
added, and its chunk still fits, up to what was subtracted twice. `surplus` and
`excess` are exactly what the catch block subtracts while nothing of it is counted,
so that no draw has to be excluded: a negative chunk never gets as far as
`adding` (`TypeOK`).

### The argument for the simulations

`Inv` of `Experiment` has one part for each thing the programs rely on, proved by
one lemma for each part: `Types` and `Legality` of all launches, and for each
launch `Clock`, `Counts`, `Printed` and `Directory`, with `NumbersStay`.

- The scheduler: `InOrder` and `Insert` pick places by counting the events that
  are due earlier, which sorts whatever was scheduled (`InOrderSorts`,
  `InsertSorts`: a count grows strictly along the order, so that no two events
  claim one place and none is left over). With this, `Clock` is inductive: events
  are never due before the current time, so that samples are appended in the
  order of time. `Least` and `Greatest` of the sampled times are there because
  the set is finite.
- The numbers: `Printed` says that no earlier sample shows a number that one taken
  now would lack. It is kept because packets only move forward
  (`TrafficMoves`), so that no divisor falls back to 0 (`NumbersGrow`); a delay
  comes with its ratios because what arrived was sent (`DelayHasRatios`, where
  the sensor network divides by another sum than the other programs).
- The directory: as long as launches of one name have not overlapped, at most one
  of them is between its command line and its end, and from `rm -rf` on it owns its
  directory, whether or not the command succeeded: the files hold what `rm` left
  and then what the launch recorded (`Stored`), or nothing more if there is no
  directory to append to (`Directory`). What an ended launch recorded stays until
  another launch of that name runs `rm`.

`OnlyLegalLaunchesWrite` follows from `Legality`: what changes the disk is behind
`cmd.Parse` and, in the wifi program, behind the test of the type.

### What is model-checked only

All liveness: `LoginSettles`, `DeadClientReleased`, `ServerSettles`,
`ClientSettles`, `UploadSucceeds`, `QueueMoves`, `LaunchesEnd`, and the fairness
part of `ImplementsDisc` and of `ImplementsSred`. Liveness under fairness and
`ENABLED` are out of the prover's reach. What the failing runs show is a
counterexample each, and needs no proof. That the 32-bit arithmetic of `getRandom`
is Java's is a matter of the translation. `OneFullSession`, on the other hand, is
proved only: `hive_serial` checks `OneSession`, which is the same when no file thread
ends by itself.

## 5. Not modelled

- *File requests*: the numbering by `reqId++` and `requestUserId.add`, two
  statements of every worker thread, after which numbers repeat and a number is
  not its place in the Vector; and `f_r`, which tells the requester of an upload
  that has not begun (`Server.java:495`). Read, not modelled: what is to be said
  of them are deviations, each visible in one interleaving.
- *Replies on the control connection*: pairing console lines and replies needs
  `Hive` and `Upload` in one state space. Read: after the queue path the extra
  `ok` of the file thread is taken for the reply to the next line.
- *Download*: `b_d` and `c_d` mirror the transfer of `Upload` without
  acknowledgement, timeout or verdict; the client counts whatever follows the
  announced length as file bytes.
- *File commands before login* (`Server.java:427`): the file thread runs from the
  start and would act on `files/0`.
- *ns-3*: its scheduler, TCP, radio and statistics are modelled from how the
  programs use them and marked external. `AssignStreams`, `DoDispose`,
  `TraceThroughput` (never scheduled) and the attributes the programs pass on
  have no state of their own here. Requeueing by the device is left out: it does
  not pass through the class.
- *Notebooks, graphs, reports*: no program logic.

## 6. What could follow

An abstract mailbox for each id that `Hive` implements when logins do not
overlap; an atomic upload that `Upload` implements; the download and the reply
channel as modules of their own.
