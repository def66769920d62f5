------------------------------- MODULE Upload -------------------------------
(***************************************************************************)
(* One upload session: the file thread of a client (Client.java), the user *)
(* at its console, and the file thread of the server that serves it        *)
(* (Server.java), joined by the two byte streams of the file socket.       *)
(*                                                                         *)
(* The client announces the file, sends it in chunks and waits for an ACK  *)
(* after each one, confirms the end and waits for the verdict; both sides  *)
(* arm a 5 second socket timeout meanwhile.  Raw file bytes and texts      *)
(* written by writeUTF share the stream from the client: each side has to  *)
(* guess from its own state what comes next, and the model keeps what      *)
(* happens when the guess is wrong.                                        *)
(*                                                                         *)
(* Of the commands of the file socket only uploads are executed here; the  *)
(* downloads and "f_r" appear as lines the server fails to execute.        *)
(***************************************************************************)
EXTENDS Integers, Sequences, FiniteSets, SequencesExt

CONSTANTS
    FileSize,   \* length of the uploaded file, in units
    Chunk,      \* chunk size the server has chosen, in units
    MaxUploads, \* bound: number of "f" commands typed at the console
    FaultSets   \* which faults may happen together, see below

\* slow:    a timeout may expire although the other side is about to answer
\* crash:   the client may vanish, with or without what it sent last
\* inject:  the user types a command while the file thread is transferring
\* typo:    the user types a line the server fails to execute: tokens missing,
\*          not a number, a download of a file that does not exist
\* disk:    a stored file may fail to be opened, written, closed or deleted
\* missing: the file named by "f" may not exist at the client
\* huge:    the file named by "f" may have 2^31 bytes or more
FaultKinds == {"slow", "crash", "inject", "typo", "disk", "missing", "huge"}

ASSUME UploadAssumption ==
    /\ FileSize \in Nat
    /\ Chunk \in Nat \ {0}
    /\ MaxUploads \in Nat
    /\ FaultSets \subseteq SUBSET FaultKinds

VARIABLES
    up,         \* stream client -> server: a sequence of units
    down,       \* stream server -> client: a sequence of texts
    cPc,        \* where the file thread of the client is
    at,         \* units of the file the client has sent
    told,       \* what the client printed about its last upload
    sPc,        \* where the file thread of the server is
    sTimer,     \* the server's socket has its 5 second timeout set
    left,       \* local variable size of recieveFile
    file,       \* the stored file, under the one name that is uploaded
    accepted,   \* history: the server accepted the file that is stored
    undeleted,  \* history: the stored file could not be deleted
    shares,     \* chunks this thread has added to CUR_BUFFER_SIZE and not taken out
    twice,      \* history: how often a chunk was taken out a second time
    aborted,    \* history: an upload has ended in the catch block of "file"
    garbled,    \* history: the server has read file bytes as a text
    refused,    \* history: the server has read a line it could not execute
    mixed,      \* history: a command was typed during a transfer
    asked,      \* bound: number of "f" commands so far
    faults      \* what may go wrong in this behaviour

client == <<cPc, at, told>>
stored == <<file, accepted, undeleted>>
share  == <<shares, twice>>
blame  == <<aborted, garbled, refused>>
server == <<sPc, sTimer, left, stored, share, blame>>
console == <<mixed, asked, faults>>
vars == <<up, down, client, server, console>>

\* A text occupies two units, so that a raw read can stop in the middle; "bad"
\* is one that the server reads and cannot execute.
Data == [text |-> "data", part |-> 0]
Text(m) == <<[text |-> m, part |-> 1], [text |-> m, part |-> 2]>>
UpTexts == {"f", "bad", "file", "ACK", "TIMEOUT"}
DownTexts == {"f", "ACK", "NOT_ACK", "FileDeleted"} \* "File Deleted"
Unit == {Data} \cup [text : UpTexts, part : 1 .. 2]

NoFile == [len |-> -1, clean |-> TRUE]

Least(S) == CHOOSE m \in S : \A n \in S : m <= n
Alive == cPc # "gone"

\* readUTF finds a whole text at the front of the stream, or other bytes.
TextAhead == up # <<>> /\ up[1].part = 1
GarbageAhead == up # <<>> /\ up[1].part # 1
DropUp(k) == SubSeq(up, k + 1, Len(up))
Tell(m) == down' = Append(down, m)

\* The server answers and waits for the next command; when the client is gone
\* the write may fail instead, and the outer catch block ends the thread.
Answer(m) ==
    \/ sPc' = "idle" /\ Tell(m)
    \/ ~Alive /\ sPc' = "dead" /\ down' = down

\* A 5 second timeout expires while the reader finds nothing to read: when the
\* other side has nothing to react to either, or is slow.
ServerIsQuiet == sPc = "dead" \/ up = <<>>
ClientIsQuiet == cPc \in {"idle", "await", "verdict"} /\ down = <<>>
\* Mutant: the client waits without a timeout.
NoClientTimeout == FALSE
ClientTimeout == down = <<>> /\ (ServerIsQuiet \/ "slow" \in faults)
ServerTimeout == up = <<>> /\ Alive /\ (ClientIsQuiet \/ "slow" \in faults)
EndOfStream == up = <<>> /\ ~Alive

-----------------------------------------------------------------------------
(* The client.                                                             *)

\* The console thread writes "f name type", or another line, to the file stream.
TypeUpload ==
    /\ Alive
    /\ asked < MaxUploads
    /\ \/ "inject" \in faults /\ mixed' = TRUE
       \/ /\ cPc = "idle" /\ down = <<>> /\ up = <<>> /\ sPc \in {"idle", "dead"}
          /\ mixed' = mixed
    /\ \/ up' = up \o Text("f")
       \/ "typo" \in faults /\ up' = up \o Text("bad")
    /\ asked' = asked + 1
    /\ UNCHANGED <<down, client, server, faults>>

\* The reply "f chunk ...": announce the file.  FileNotFoundException is only
\* printed.  The server cannot parse the length of a huge file.
ClientStarts ==
    /\ cPc = "idle"
    /\ down # <<>> /\ Head(down) = "f"
    /\ down' = Tail(down)
    /\ \/ /\ \/ up' = up \o Text("file")
             \/ "huge" \in faults /\ FileSize > 0 /\ up' = up \o Text("bad")
          /\ cPc' = "send"
          /\ at' = 0
          /\ told' = "nothing"
       \/ "missing" \in faults /\ UNCHANGED <<up, client>>
    /\ UNCHANGED <<server, console>>

\* Any other text that arrives between uploads is printed and forgotten.
ClientSkips ==
    /\ cPc = "idle"
    /\ down # <<>> /\ Head(down) # "f"
    /\ down' = Tail(down)
    /\ UNCHANGED <<up, client, server, console>>

ClientSendsChunk ==
    /\ cPc = "send"
    /\ at < FileSize
    /\ LET k == Least({Chunk, FileSize - at})
       IN  up' = up \o [i \in 1 .. k |-> Data] /\ at' = at + k
    /\ cPc' = "await"
    /\ UNCHANGED <<down, told, server, console>>

ClientReadsAck ==
    /\ cPc = "await"
    /\ down # <<>> /\ Head(down) = "ACK"
    /\ down' = Tail(down)
    /\ cPc' = "send"
    /\ UNCHANGED <<up, at, told, server, console>>

\* After the last chunk, or after anything but an ACK, the client confirms.
ClientConfirms ==
    /\ \/ cPc = "send" /\ at = FileSize /\ down' = down
       \/ cPc = "await" /\ down # <<>> /\ Head(down) # "ACK" /\ down' = Tail(down)
    /\ up' = up \o Text("ACK")
    /\ cPc' = "verdict"
    /\ UNCHANGED <<at, told, server, console>>

ClientAckTimesOut ==
    /\ cPc = "await"
    /\ ClientTimeout
    /\ up' = up \o Text("TIMEOUT")
    /\ cPc' = "idle"
    /\ UNCHANGED <<down, at, told, server, console>>

ClientReadsVerdict ==
    /\ cPc = "verdict"
    /\ down # <<>>
    /\ down' = Tail(down)
    /\ told' = IF Head(down) = "ACK" THEN "completed" ELSE "failed"
    /\ cPc' = "idle"
    /\ UNCHANGED <<up, at, server, console>>

\* The exception leaves sendFile; nothing is said about the upload.
ClientVerdictTimesOut ==
    /\ cPc = "verdict"
    /\ ClientTimeout
    /\ cPc' = "idle"
    /\ UNCHANGED <<up, down, at, told, server, console>>

\* A reset connection loses what the server has not read yet.
ClientCrashes ==
    /\ "crash" \in faults
    /\ Alive
    /\ cPc' = "gone"
    /\ up' \in {up, <<>>}
    /\ UNCHANGED <<down, at, told, server, console>>

-----------------------------------------------------------------------------
(* The server between uploads.                                             *)

\* The command "f", admitted: the chunk size goes to the client.
ServerReadsF ==
    /\ sPc = "idle"
    /\ TextAhead /\ up[1].text = "f"
    /\ up' = DropUp(2)
    /\ Answer("f")
    /\ UNCHANGED <<client, sTimer, left, stored, share, blame, console>>

\* The exception of a line that cannot be executed, or of the length of a huge
\* file, reaches the outer catch block, which ends the thread.
ServerReadsBad ==
    /\ sPc = "idle"
    /\ TextAhead /\ up[1].text = "bad"
    /\ up' = DropUp(2)
    /\ sPc' = "dead"
    /\ refused' = TRUE
    /\ UNCHANGED <<down, client, sTimer, left, stored, share, aborted, garbled, console>>

\* File.delete() reports a failure by its result, which is only printed.
Delete ==
    /\ accepted' = FALSE
    /\ \/ file' = NoFile /\ undeleted' = FALSE
       \/ "disk" \in faults /\ file # NoFile /\ file' = file /\ undeleted' = TRUE

\* recieveFile threw: the file is deleted, the timeout stays set.
Abort ==
    /\ Delete
    /\ aborted' = TRUE
    /\ Answer("FileDeleted")

\* Mutant: the timeout is not set.
NoTimer == sTimer' = sTimer

\* connectionSocketFile.setSoTimeout(5000)
ArmTimer == sTimer' = TRUE

\* The command "file": the timeout is set, the stored file is truncated and
\* the chunk is added to CUR_BUFFER_SIZE.
ServerReadsHeader ==
    /\ sPc = "idle"
    /\ TextAhead /\ up[1].text = "file"
    /\ up' = DropUp(2)
    /\ ArmTimer
    /\ file' = [len |-> 0, clean |-> TRUE]
    /\ accepted' = FALSE /\ undeleted' = FALSE
    /\ left' = FileSize
    /\ shares' = shares + 1
    /\ sPc' = "receive"
    /\ UNCHANGED <<down, client, twice, blame, console>>

\* The FileOutputStream cannot be made: that is before the try of recieveFile
\* and before the chunk is added.
ServerCannotOpen ==
    /\ sPc = "idle"
    /\ TextAhead /\ up[1].text = "file"
    /\ "disk" \in faults
    /\ up' = DropUp(2)
    /\ ArmTimer
    /\ Abort
    /\ UNCHANGED <<client, left, share, garbled, refused, console>>

ServerReadsTimeoutText ==
    /\ sPc = "idle"
    /\ TextAhead /\ up[1].text = "TIMEOUT"
    /\ up' = DropUp(2)
    /\ Delete
    /\ Answer("FileDeleted")
    /\ UNCHANGED <<client, sTimer, left, share, blame, console>>

\* A confirmation that comes too late matches no command.
ServerIgnores ==
    /\ sPc = "idle"
    /\ TextAhead /\ up[1].text = "ACK"
    /\ up' = DropUp(2)
    /\ UNCHANGED <<down, client, server, console>>

\* File bytes, or the rest of a text, read by readUTF: the first two are taken
\* for a length.  The result matches no command, or cannot be decoded.
ServerReadsGarbage ==
    /\ sPc = "idle"
    /\ GarbageAhead
    /\ \E k \in 1 .. Len(up) : up' = DropUp(k)
    /\ sPc' \in {"idle", "dead"}
    /\ garbled' = TRUE
    /\ UNCHANGED <<down, client, sTimer, left, stored, share, aborted, refused, console>>

\* readUTF throws: the file thread makes the user offline and ends.  A socket
\* timeout that is still set does the same to a client that is merely idle.
ServerEnds ==
    /\ sPc = "idle"
    /\ EndOfStream \/ (sTimer /\ up = <<>>)
    /\ sPc' = "dead"
    /\ UNCHANGED <<up, down, client, sTimer, left, stored, share, blame, console>>

-----------------------------------------------------------------------------
(* recieveFile.                                                            *)

\* Mutant: the chunk is not taken out of CUR_BUFFER_SIZE again.
KeepShare == UNCHANGED share

\* CUR_BUFFER_SIZE -= CHUNK_SIZE
ReleaseShare == shares' = shares - 1 /\ twice' = twice

\* The close() behind the subtraction throws: the catch block subtracts again.
\* Its own close() finds the file closed, and the confirmation is read next.
ReleaseTwice ==
    /\ "disk" \in faults
    /\ shares' = shares - 2 /\ twice' = twice + 1
    /\ sPc' = "confirm"

\* Mutant: one more byte is accepted than the file has.
AllowedTooMuch == Least({Chunk, left + 1, Len(up)})

\* read(buffer, 0, min(buffer.length, size)) returns what has arrived, at
\* most that much, and at least one byte.
Allowed == Least({Chunk, left, Len(up)})

\* The stored file with k more units at its end.
Longer(k) == [len |-> file.len + k,
              clean |-> file.clean /\ \A i \in 1 .. k : up[i] = Data]

TakeUnits(k) == up' = DropUp(k) /\ file' = Longer(k) /\ left' = left - k

ServerReceives ==
    /\ sPc = "receive"
    /\ left > 0 /\ up # <<>>
    /\ \E k \in 1 .. Allowed : TakeUnits(k)
    /\ Tell("ACK")
    /\ UNCHANGED <<client, sPc, sTimer, accepted, undeleted, share, blame, console>>

\* The file is complete, or the stream has ended.
ServerLeavesLoop ==
    /\ sPc = "receive"
    /\ left <= 0 \/ EndOfStream
    /\ \/ ReleaseShare /\ sPc' = "confirm"
       \/ ReleaseTwice
    /\ UNCHANGED <<up, down, client, sTimer, left, stored, blame, console>>

\* A write of the ACK, or to the disk, fails: the catch block subtracts and
\* closes, and unless that close() throws the confirmation is read next.
ServerWriteFails ==
    /\ sPc = "receive"
    /\ left > 0 /\ up # <<>>
    /\ ReleaseShare
    /\ \/ /\ ~Alive
          /\ \E k \in 1 .. Allowed : TakeUnits(k)
          /\ sPc' = "confirm"
          /\ UNCHANGED <<down, accepted, undeleted, aborted>>
       \/ /\ "disk" \in faults
          /\ left' = left
          /\ \E k \in 1 .. Allowed :
                /\ up' = DropUp(k)
                /\ \/ /\ \E j \in 0 .. k - 1 : file' = Longer(j)
                      /\ sPc' = "confirm"
                      /\ UNCHANGED <<down, accepted, undeleted, aborted>>
                   \/ Abort
    /\ UNCHANGED <<client, sTimer, garbled, refused, console>>

\* Mutants: the timeout is left set; the file is left there.
TurnDownKeepsTimer == Delete /\ Answer("NOT_ACK") /\ sTimer' = sTimer
TurnDownKeepsFile == sTimer' = FALSE /\ Answer("NOT_ACK") /\ UNCHANGED stored

\* recieveFile returned false: the timeout is lifted and the file deleted.
TurnDown ==
    /\ sTimer' = FALSE
    /\ Delete
    /\ Answer("NOT_ACK")

ServerReceiveTimesOut ==
    /\ sPc = "receive"
    /\ left > 0 /\ sTimer /\ ServerTimeout
    /\ \/ ReleaseShare /\ TurnDown
       \/ ReleaseTwice /\ UNCHANGED <<down, sTimer, stored>>
    /\ UNCHANGED <<up, client, left, blame, console>>

\* Mutant: the length of the stored file is not compared.
AnySize == TRUE

\* file.length() == filesize
FullSize == file.len = FileSize

\* When the verdict cannot be written the catch block deletes the file again.
ServerAccepts ==
    /\ sPc = "confirm"
    /\ TextAhead /\ up[1].text = "ACK" /\ FullSize
    /\ up' = DropUp(2)
    /\ sTimer' = FALSE
    /\ Answer("ACK")
    /\ \/ sPc' = "idle" /\ accepted' = TRUE /\ UNCHANGED <<file, undeleted>>
       \/ sPc' = "dead" /\ Delete
    /\ UNCHANGED <<client, left, share, blame, console>>

\* A wrong size, or anything but "ACK" for a confirmation.
ServerRejects ==
    /\ sPc = "confirm"
    /\ \/ /\ TextAhead /\ ~(up[1].text = "ACK" /\ FullSize)
          /\ up' = DropUp(2)
          /\ garbled' = garbled
       \/ /\ GarbageAhead
          /\ \E k \in 1 .. Len(up) : up' = DropUp(k)
          /\ garbled' = TRUE
    /\ TurnDown
    /\ UNCHANGED <<client, left, share, aborted, refused, console>>

\* No confirmation arrives, or bytes that are no text.
ServerConfirmFails ==
    /\ sPc = "confirm"
    /\ \/ /\ EndOfStream \/ (sTimer /\ ServerTimeout)
          /\ UNCHANGED <<up, garbled>>
       \/ /\ GarbageAhead
          /\ \E k \in 1 .. Len(up) : up' = DropUp(k)
          /\ garbled' = TRUE
    /\ Abort
    /\ UNCHANGED <<client, sTimer, left, share, refused, console>>

-----------------------------------------------------------------------------
Init ==
    /\ up = <<>> /\ down = <<>>
    /\ cPc = "idle" /\ at = 0 /\ told = "nothing"
    /\ sPc = "idle" /\ sTimer = FALSE /\ left = 0
    /\ file = NoFile /\ accepted = FALSE /\ undeleted = FALSE
    /\ shares = 0 /\ twice = 0
    /\ aborted = FALSE /\ garbled = FALSE /\ refused = FALSE
    /\ mixed = FALSE /\ asked = 0
    /\ faults \in FaultSets

ClientThread ==
    \/ ClientStarts \/ ClientSkips \/ ClientSendsChunk \/ ClientReadsAck
    \/ ClientConfirms \/ ClientAckTimesOut \/ ClientReadsVerdict
    \/ ClientVerdictTimesOut

ServerThread ==
    \/ ServerReadsF \/ ServerReadsBad \/ ServerReadsHeader \/ ServerCannotOpen
    \/ ServerReadsTimeoutText \/ ServerIgnores \/ ServerReadsGarbage \/ ServerEnds
    \/ ServerReceives \/ ServerLeavesLoop \/ ServerWriteFails
    \/ ServerReceiveTimesOut \/ ServerAccepts \/ ServerRejects \/ ServerConfirmFails

Next == ClientThread \/ ServerThread \/ TypeUpload \/ ClientCrashes

Spec == Init /\ [][Next]_vars

\* Both threads run, and time passes: a timeout that stays due expires.
FairSpec == Spec /\ WF_vars(ClientThread) /\ WF_vars(ServerThread)

-----------------------------------------------------------------------------
(* Properties.                                                             *)

TypeOK ==
    /\ up \in Seq(Unit) /\ down \in Seq(DownTexts)
    /\ cPc \in {"idle", "send", "await", "verdict", "gone"}
    /\ at \in 0 .. FileSize
    /\ told \in {"nothing", "completed", "failed"}
    /\ sPc \in {"idle", "receive", "confirm", "dead"}
    /\ left \in 0 .. FileSize
    /\ file \in {NoFile} \cup [len : 0 .. FileSize, clean : BOOLEAN]
    /\ shares \in Int /\ twice \in Nat
    /\ sTimer \in BOOLEAN /\ accepted \in BOOLEAN /\ undeleted \in BOOLEAN
    /\ aborted \in BOOLEAN /\ garbled \in BOOLEAN /\ refused \in BOOLEAN
    /\ mixed \in BOOLEAN /\ asked \in 0 .. MaxUploads /\ faults \in FaultSets

\* What the server has accepted is as long as the uploaded file and, unless the
\* user typed into the transfer, is the uploaded file: no text of the protocol,
\* not even a TIMEOUT that came too late, was swallowed as file bytes.
AcceptedIntact == accepted => file.len = FileSize /\ (file.clean \/ mixed)

\* Between uploads, and after the thread has ended, nothing but an accepted
\* file is stored: a failed upload never leaves a part of a file behind, unless
\* the file cannot be deleted.
NoPartialFile == sPc \in {"idle", "dead"} => file = NoFile \/ accepted \/ undeleted

\* The chunk of this thread is in CUR_BUFFER_SIZE exactly while it is in the
\* loop that needs it, whichever way the upload ends.  Only a close() that fails
\* takes it out a second time, and then for good.
ShareWhileReceiving == shares = (IF sPc = "receive" THEN 1 ELSE 0) - twice

\* A client that is there is thrown out only after an upload that ended by an
\* exception, after the server has taken file bytes for a text, or after a line
\* that it could not execute.
ThrownOutForAReason == sPc = "dead" /\ Alive => aborted \/ garbled \/ refused

\* The client prints "File Upload Completed" only when the file is stored.
CompletedMeansStored == told = "completed" => accepted

\* Whatever goes wrong, an upload ends on both sides.
ServerSettles == sPc \in {"receive", "confirm"} ~> sPc \in {"idle", "dead"}
ClientSettles == cPc \in {"send", "await", "verdict"} ~> cPc \in {"idle", "gone"}

\* Without faults every upload that is typed gets stored, and the client says so.
UploadSucceeds == \A n \in 1 .. MaxUploads :
    faults = {} /\ asked = n ~> accepted /\ told = "completed" /\ cPc = "idle"

-----------------------------------------------------------------------------
(* The inductive invariant behind the theorems of UploadProofs.            *)

\* While the loop of recieveFile runs, size counts what is still to be stored.
Counting == sPc = "receive" => file.len + left = FileSize

\* Before the decision there is a file, and it is not an accepted one.
Undecided == sPc \in {"receive", "confirm"} => file # NoFile /\ ~accepted

\* Only an exception in recieveFile leaves the timeout of an idle socket set.
TimerLeft == sTimer /\ sPc = "idle" => aborted

\* The file that was accepted has been left as it was.
AcceptedWhole == accepted => file.len = FileSize

Inv ==
    /\ TypeOK /\ Counting /\ Undecided /\ TimerLeft /\ AcceptedWhole
    /\ NoPartialFile /\ ShareWhileReceiving /\ ThrownOutForAReason

\* Some unit of the stream u belongs to a text m.
Carries(u, m) == \E i \in 1 .. Len(u) : u[i].text = m

\* A client at pc has sent so many units of the file, of which the server has
\* got some: the others come in u after the first skip units, and an ACK comes
\* only behind the last unit of the file.
FileAhead(u, pc, sent, skip, got) ==
    /\ got <= sent /\ skip + (sent - got) <= Len(u)
    /\ \A i \in skip + 1 .. skip + (sent - got) : u[i] = Data
    /\ Carries(u, "ACK") => sent = FileSize
    /\ pc \in {"send", "await"} => Len(u) = skip + (sent - got)
    /\ pc = "verdict" => sent = FileSize

\* The stages of an upload, by what the two streams hold: "f" and its answer,
\* the header with what follows it, a line that cannot be executed, and the
\* transfer.  In the last one either the rest of the file is ahead, or no
\* confirmation will come any more.
Waiting == sPc \in {"idle", "dead"} /\ cPc \in {"idle", "gone"}
CommandTyped == Carries(up, "f") => Waiting /\ up = Text("f") /\ down = <<>>
CommandAnswered ==
    (\E i \in 1 .. Len(down) : down[i] = "f") => Waiting /\ up = <<>> /\ down = <<"f">>
Announced ==
    Carries(up, "file") =>
        /\ sPc \in {"idle", "dead"} /\ down = <<>>
        /\ 2 <= Len(up) /\ up[1] = Text("file")[1] /\ up[2] = Text("file")[2]
        /\ \A i \in 3 .. Len(up) : up[i].text # "file"
        /\ FileAhead(up, cPc, at, 2, 0)
Unreadable ==
    Carries(up, "bad") =>
        /\ sPc \in {"idle", "dead"} /\ down = <<>>
        /\ 2 <= Len(up) /\ up[1] = Text("bad")[1] /\ up[2] = Text("bad")[2]
        /\ \A i \in 3 .. Len(up) : up[i].text \notin {"f", "bad", "file"}
Hopeless == cPc \in {"idle", "gone"} /\ ~Carries(up, "ACK")
Transferring ==
    /\ sPc \in {"receive", "confirm"} => \A i \in 1 .. Len(down) : down[i] = "ACK"
    /\ sPc = "receive" \/ (sPc = "confirm" /\ FullSize)
           => (file.clean /\ FileAhead(up, cPc, at, 0, file.len)) \/ Hopeless

\* Nothing is known once the user has typed into a transfer.
Streams ==
    mixed \/ (CommandTyped /\ CommandAnswered /\ Announced /\ Unreadable /\ Transferring)

StreamInv == Inv /\ Streams /\ AcceptedIntact
=============================================================================
