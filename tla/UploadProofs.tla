---------------------------- MODULE UploadProofs ----------------------------
(***************************************************************************)
(* The safety of one upload session, for every file size, chunk size and   *)
(* number of commands and for any set of faults.                           *)
(***************************************************************************)
EXTENDS Upload, SequenceTheorems, TLAPS

\* min(a, b), as the code takes it.
LEMMA LeastOfTwo ==
    ASSUME NEW a \in Nat, NEW b \in Nat
    PROVE  Least({a, b}) \in {a, b} /\ Least({a, b}) <= a /\ Least({a, b}) <= b
<1>1. \E m \in {a, b} : \A n \in {a, b} : m <= n
  <2>1. CASE a <= b
    BY <2>1
  <2>2. CASE b <= a
    BY <2>2
  <2> QED
    BY <2>1, <2>2
<1> QED
  BY <1>1 DEF Least

LEMMA LeastOfThree ==
    ASSUME NEW a \in Nat, NEW b \in Nat, NEW c \in Nat
    PROVE  /\ Least({a, b, c}) \in {a, b, c}
           /\ Least({a, b, c}) <= a /\ Least({a, b, c}) <= b /\ Least({a, b, c}) <= c
<1>1. \E m \in {a, b, c} : \A n \in {a, b, c} : m <= n
  <2>1. CASE a <= b /\ a <= c
    BY <2>1
  <2>2. CASE b <= a /\ b <= c
    BY <2>2
  <2>3. CASE c <= a /\ c <= b
    BY <2>3
  <2> QED
    BY <2>1, <2>2, <2>3
<1> QED
  BY <1>1 DEF Least

\* The stream from the client stays a sequence of units when a text or a chunk
\* is written to it and when the server reads some of it.
LEMMA TextSent ==
    ASSUME up \in Seq(Unit), NEW m \in UpTexts
    PROVE  up \o Text(m) \in Seq(Unit)
<1>1. Text(m) \in Seq(Unit)
  BY DEF Text, Unit
<1> QED
  BY <1>1, ConcatProperties

LEMMA ChunkSent ==
    ASSUME up \in Seq(Unit), NEW k \in Nat
    PROVE  up \o [i \in 1 .. k |-> Data] \in Seq(Unit)
<1>1. [i \in 1 .. k |-> Data] \in [1 .. k -> Unit]
  BY DEF Unit
<1>2. [i \in 1 .. k |-> Data] \in Seq(Unit)
  BY <1>1, SeqDef
<1> QED
  BY <1>2, ConcatProperties

LEMMA UnitsRead ==
    ASSUME up \in Seq(Unit), NEW k \in Nat
    PROVE  DropUp(k) \in Seq(Unit)
<1>1. Len(up) \in Nat /\ \A i \in k + 1 .. Len(up) : up[i] \in Unit
  BY LenProperties, ElementOfSeq
<1> QED
  BY <1>1, SubSeqProperties DEF DropUp

\* What recieveFile takes from the stream never exceeds what is left to come.
LEMMA AllowedBound ==
    ASSUME TypeOK, sPc = "receive", NEW k \in 1 .. Allowed
    PROVE  k \in Nat /\ k <= left /\ k <= Len(up)
<1>1. Chunk \in Nat /\ left \in Nat /\ Len(up) \in Nat
  BY UploadAssumption, LenProperties DEF TypeOK
<1>2. Allowed \in Nat /\ Allowed <= left /\ Allowed <= Len(up)
  BY <1>1, LeastOfThree DEF Allowed
<1> QED
  BY <1>1, <1>2

\* A file that exists has a length and is clean or not.
LEMMA FileExists ==
    ASSUME TypeOK, file # NoFile
    PROVE  file.len \in 0 .. FileSize /\ file.clean \in BOOLEAN
  BY DEF TypeOK

LEMMA NoFileType == NoFile.len = -1 /\ NoFile.clean = TRUE
  BY DEF NoFile

\* Replies stay replies.
LEMMA TextAnswered ==
    ASSUME TypeOK, NEW m \in DownTexts, Answer(m)
    PROVE  down' \in Seq(DownTexts) /\ sPc' \in {"idle", "dead"}
<1>1. down \in Seq(DownTexts)
  BY DEF TypeOK
<1>2. Append(down, m) \in Seq(DownTexts)
  BY <1>1, AppendProperties
<1> QED
  BY <1>1, <1>2 DEF Answer, Tell

LEMMA ReplyTaken ==
    ASSUME TypeOK, down # <<>>
    PROVE  Tail(down) \in Seq(DownTexts)
  BY HeadTailProperties DEF TypeOK

\* What the client and the console do leaves the server's state alone, and a
\* client that is gone stays gone.
LEMMA ClientStep ==
    ASSUME TypeOK, ClientThread \/ TypeUpload \/ ClientCrashes
    PROVE  TypeOK' /\ UNCHANGED server /\ (Alive' => Alive)
<1> USE UploadAssumption DEF client, console, server, stored, share, blame
<1>1. CASE ClientStarts
  <2>1. up' \in Seq(Unit)
    BY <1>1, TextSent DEF ClientStarts, TypeOK, UpTexts
  <2> QED
    BY <1>1, <2>1, ReplyTaken DEF ClientStarts, TypeOK, Alive
<1>2. CASE ClientSkips
  BY <1>2, ReplyTaken DEF ClientSkips, TypeOK, Alive
<1>3. CASE ClientSendsChunk
  <2> DEFINE k == Least({Chunk, FileSize - at})
  <2>1. Chunk \in Nat /\ FileSize - at \in Nat /\ at \in Nat
    BY <1>3 DEF ClientSendsChunk, TypeOK
  <2>2. k \in Nat /\ at + k \in 0 .. FileSize
    BY <2>1, LeastOfTwo
  <2>3. up' = up \o [i \in 1 .. k |-> Data] /\ at' = at + k
    BY <1>3 DEF ClientSendsChunk
  <2> HIDE DEF k
  <2>4. up' \in Seq(Unit) /\ at' \in 0 .. FileSize
    BY <2>2, <2>3, ChunkSent DEF TypeOK
  <2> QED
    BY <1>3, <2>4, ZenonT(60) DEF ClientSendsChunk, TypeOK, Alive
<1>4. CASE ClientReadsAck
  BY <1>4, ReplyTaken DEF ClientReadsAck, TypeOK, Alive
<1>5. CASE ClientConfirms
  <2>1. up' \in Seq(Unit)
    BY <1>5, TextSent DEF ClientConfirms, TypeOK, UpTexts
  <2>2. down' \in Seq(DownTexts)
    BY <1>5, ReplyTaken DEF ClientConfirms, TypeOK
  <2>3. /\ cPc' \in {"idle", "send", "await", "verdict", "gone"}
        /\ UNCHANGED <<at, told, mixed, asked, faults>> /\ UNCHANGED server
        /\ Alive' => Alive
    BY <1>5 DEF ClientConfirms, Alive
  <2> QED
    BY <2>1, <2>2, <2>3 DEF TypeOK
<1>6. CASE ClientAckTimesOut
  <2>1. up' \in Seq(Unit)
    BY <1>6, TextSent DEF ClientAckTimesOut, TypeOK, UpTexts
  <2> QED
    BY <1>6, <2>1 DEF ClientAckTimesOut, TypeOK, Alive
<1>7. CASE ClientReadsVerdict
  BY <1>7, ReplyTaken DEF ClientReadsVerdict, TypeOK, Alive
<1>8. CASE ClientVerdictTimesOut
  BY <1>8 DEF ClientVerdictTimesOut, TypeOK, Alive
<1>9. CASE TypeUpload
  <2>1. up' \in Seq(Unit)
    BY <1>9, TextSent DEF TypeUpload, TypeOK, UpTexts
  <2>2. asked' \in 0 .. MaxUploads
    BY <1>9 DEF TypeUpload, TypeOK
  <2>3. mixed' \in BOOLEAN
    BY <1>9 DEF TypeUpload, TypeOK
  <2> QED
    BY <1>9, <2>1, <2>2, <2>3 DEF TypeUpload, TypeOK, Alive
<1>10. CASE ClientCrashes
  <2>1. up' \in Seq(Unit)
    BY <1>10, EmptySeq DEF ClientCrashes, TypeOK
  <2> QED
    BY <1>10, <2>1 DEF ClientCrashes, TypeOK, Alive
<1> QED
  BY <1>1, <1>2, <1>3, <1>4, <1>5, <1>6, <1>7, <1>8, <1>9, <1>10 DEF ClientThread

\* A deletion leaves no file, or the one that it could not delete.
LEMMA Deleted ==
    ASSUME TypeOK, Delete
    PROVE  /\ file' \in {NoFile} \cup [len : 0 .. FileSize, clean : BOOLEAN]
           /\ accepted' = FALSE /\ undeleted' \in BOOLEAN
           /\ file' = NoFile \/ undeleted'
  BY DEF Delete, TypeOK

\* recieveFile takes what is allowed, and stores all of it or less.
LEMMA TakingTypes ==
    ASSUME Inv, sPc = "receive", NEW k \in 1 .. Allowed
    PROVE  /\ DropUp(k) \in Seq(Unit)
           /\ left - k \in 0 .. FileSize
           /\ \A j \in 0 .. k : /\ Longer(j) \in [len : 0 .. FileSize, clean : BOOLEAN]
                               /\ Longer(j) # NoFile
                               /\ Longer(j).len = file.len + j
<1> USE UploadAssumption
<1>1. TypeOK /\ Undecided /\ Counting
  BY DEF Inv
<1>2. k \in Nat /\ k <= left
  BY <1>1, AllowedBound
<1>3. DropUp(k) \in Seq(Unit)
  BY <1>1, <1>2, UnitsRead DEF TypeOK
<1>4. file # NoFile /\ file.len + left = FileSize
  BY <1>1 DEF Undecided, Counting
<1>5. file.len \in 0 .. FileSize /\ left \in 0 .. FileSize /\ file.len \in Nat
  BY <1>1, <1>4, FileExists DEF TypeOK
<1>6. left - k \in 0 .. FileSize
  BY <1>2, <1>4, <1>5
<1>7. ASSUME NEW j \in 0 .. k
      PROVE  /\ Longer(j) \in [len : 0 .. FileSize, clean : BOOLEAN]
             /\ Longer(j) # NoFile /\ Longer(j).len = file.len + j
  <2>1. file.len + j \in 0 .. FileSize /\ file.len + j # -1
    BY <1>2, <1>4, <1>5
  <2>2. (file.clean /\ \A i \in 1 .. j : up[i] = Data) \in BOOLEAN
    OBVIOUS
  <2>3. ASSUME NEW l \in 0 .. FileSize, NEW b \in BOOLEAN
        PROVE  [len |-> l, clean |-> b] \in [len : 0 .. FileSize, clean : BOOLEAN]
    OBVIOUS
  <2>4. Longer(j) \in [len : 0 .. FileSize, clean : BOOLEAN]
    BY <2>1, <2>2, <2>3 DEF Longer
  <2>5. Longer(j).len = file.len + j
    BY DEF Longer
  <2> QED
    BY <2>1, <2>4, <2>5, NoFileType
<1> QED
  BY <1>3, <1>6, <1>7

\* The steps of the file thread of the server keep the types.
LEMMA ServerTypes ==
    ASSUME Inv, ServerThread
    PROVE  TypeOK'
<1> USE UploadAssumption DEF client, console, stored, share, blame
<1>0. "f" \in DownTexts /\ "ACK" \in DownTexts /\ "NOT_ACK" \in DownTexts /\ "FileDeleted" \in DownTexts
  BY DEF DownTexts
<1>1. TypeOK /\ Inv
  BY DEF Inv
<1>2. up \in Seq(Unit) /\ Len(up) \in Nat /\ DropUp(2) \in Seq(Unit)
  BY <1>1, LenProperties, UnitsRead DEF TypeOK
<1>3. /\ \A i \in Int : i - 1 \in Int /\ i + 1 \in Int /\ i - 2 \in Int
      /\ \A i \in Nat : i + 1 \in Nat
  OBVIOUS
<1>4. CASE ServerReadsF
  <2>1. down' \in Seq(DownTexts) /\ sPc' \in {"idle", "dead"}
    BY <1>0, <1>1, <1>4, TextAnswered DEF ServerReadsF
  <2> QED
    BY <1>1, <1>2, <1>4, <2>1, ZenonT(60) DEF ServerReadsF, TypeOK
<1>5. CASE ServerReadsBad
  BY <1>1, <1>2, <1>5, ZenonT(60) DEF ServerReadsBad, TypeOK
<1>6. CASE ServerReadsHeader
  <2>1. [len |-> 0, clean |-> TRUE] \in [len : 0 .. FileSize, clean : BOOLEAN]
    OBVIOUS
  <2>2. /\ shares' \in Int /\ sPc' = "receive" /\ left' \in 0 .. FileSize
        /\ file' \in {NoFile} \cup [len : 0 .. FileSize, clean : BOOLEAN]
        /\ up' \in Seq(Unit)
    BY <1>1, <1>2, <1>6, <2>1 DEF ServerReadsHeader, TypeOK
  <2> QED
    BY <1>1, <1>6, <2>2 DEF ServerReadsHeader, TypeOK, ArmTimer
<1>7. CASE ServerCannotOpen
  <2>1. down' \in Seq(DownTexts) /\ sPc' \in {"idle", "dead"}
    BY <1>0, <1>1, <1>7, TextAnswered DEF ServerCannotOpen, Abort
  <2>2. /\ file' \in {NoFile} \cup [len : 0 .. FileSize, clean : BOOLEAN]
        /\ accepted' = FALSE /\ undeleted' \in BOOLEAN
    BY <1>1, <1>7, Deleted DEF ServerCannotOpen, Abort
  <2> QED
    BY <1>1, <1>2, <1>7, <2>1, <2>2 DEF ServerCannotOpen, Abort, ArmTimer, TypeOK
<1>8. CASE ServerReadsTimeoutText
  <2>1. down' \in Seq(DownTexts) /\ sPc' \in {"idle", "dead"}
    BY <1>0, <1>1, <1>8, TextAnswered DEF ServerReadsTimeoutText
  <2>2. /\ file' \in {NoFile} \cup [len : 0 .. FileSize, clean : BOOLEAN]
        /\ accepted' = FALSE /\ undeleted' \in BOOLEAN
    BY <1>1, <1>8, Deleted DEF ServerReadsTimeoutText
  <2> QED
    BY <1>1, <1>2, <1>8, <2>1, <2>2 DEF ServerReadsTimeoutText, TypeOK
<1>9. CASE ServerIgnores
  BY <1>1, <1>2, <1>9, ZenonT(60) DEF ServerIgnores, TypeOK, server
<1>10. CASE ServerReadsGarbage
  <2>1. up' \in Seq(Unit)
    BY <1>2, <1>10, UnitsRead DEF ServerReadsGarbage
  <2> QED
    BY <1>1, <1>10, <2>1, ZenonT(60) DEF ServerReadsGarbage, TypeOK
<1>11. CASE ServerEnds
  BY <1>1, <1>11, ZenonT(60) DEF ServerEnds, TypeOK
<1>12. CASE ServerReceives
  <2>1. /\ up' \in Seq(Unit)
        /\ file' \in {NoFile} \cup [len : 0 .. FileSize, clean : BOOLEAN]
        /\ left' \in 0 .. FileSize
    <3>1. PICK k \in 1 .. Allowed : TakeUnits(k)
      BY <1>12 DEF ServerReceives
    <3>2. k \in 0 .. k /\ sPc = "receive"
      BY <1>1, <1>12, <3>1, AllowedBound DEF ServerReceives
    <3> QED
      BY <1>1, <3>1, <3>2, TakingTypes DEF TakeUnits
  <2>2. down' \in Seq(DownTexts)
    BY <1>0, <1>1, <1>12, AppendProperties DEF ServerReceives, Tell, TypeOK
  <2> QED
    BY <1>1, <1>12, <2>1, <2>2, ZenonT(60) DEF ServerReceives, TypeOK
<1>13. CASE ServerLeavesLoop
  <2>1. shares' \in Int /\ twice' \in Nat /\ sPc' = "confirm"
    BY <1>1, <1>3, <1>13 DEF ServerLeavesLoop, ReleaseShare, ReleaseTwice, TypeOK
  <2> QED
    BY <1>1, <1>13, <2>1, ZenonT(60) DEF ServerLeavesLoop, TypeOK
<1>14. CASE ServerWriteFails
  <2>1. shares' \in Int /\ twice' \in Nat
    BY <1>1, <1>3, <1>14 DEF ServerWriteFails, ReleaseShare, TypeOK
  <2>2. /\ sPc = "receive"
        /\ UNCHANGED <<cPc, at, told, sTimer, garbled, refused, mixed, asked, faults>>
    BY <1>14 DEF ServerWriteFails
  <2>3. CASE /\ \E k \in 1 .. Allowed : TakeUnits(k)
             /\ sPc' = "confirm" /\ UNCHANGED <<down, accepted, undeleted, aborted>>
    <3>1. PICK k \in 1 .. Allowed : TakeUnits(k)
      BY <2>3
    <3>2. k \in 0 .. k
      BY <1>1, <2>2, <3>1, AllowedBound
    <3>3. /\ up' \in Seq(Unit) /\ left' \in 0 .. FileSize
          /\ file' \in {NoFile} \cup [len : 0 .. FileSize, clean : BOOLEAN]
      BY <1>1, <2>2, <3>1, <3>2, TakingTypes DEF TakeUnits
    <3> QED
      BY <1>1, <2>1, <2>2, <2>3, <3>3, ZenonT(60) DEF TypeOK
  <2>4. ASSUME left' = left, NEW k \in 1 .. Allowed, up' = DropUp(k), NEW j \in 0 .. k - 1,
               file' = Longer(j), sPc' = "confirm",
               UNCHANGED <<down, accepted, undeleted, aborted>>
        PROVE  TypeOK'
    <3>1. j \in 0 .. k
      BY <1>1, <2>2, <2>4, AllowedBound
    <3>2. /\ up' \in Seq(Unit) /\ left' \in 0 .. FileSize
          /\ file' \in {NoFile} \cup [len : 0 .. FileSize, clean : BOOLEAN]
      BY <1>1, <2>2, <2>4, <3>1, TakingTypes DEF TypeOK
    <3> QED
      BY <1>1, <2>1, <2>2, <2>4, <3>2, ZenonT(60) DEF TypeOK
  <2>5. ASSUME left' = left, NEW k \in 1 .. Allowed, up' = DropUp(k), Abort
        PROVE  TypeOK'
    <3>1. up' \in Seq(Unit)
      BY <1>1, <2>2, <2>5, TakingTypes
    <3>2. down' \in Seq(DownTexts) /\ sPc' \in {"idle", "dead"} /\ aborted' = TRUE
      BY <1>0, <1>1, <2>5, TextAnswered DEF Abort
    <3>3. /\ file' \in {NoFile} \cup [len : 0 .. FileSize, clean : BOOLEAN]
          /\ accepted' = FALSE /\ undeleted' \in BOOLEAN
      BY <1>1, <2>5, Deleted DEF Abort
    <3> QED
      BY <1>1, <2>1, <2>2, <2>5, <3>1, <3>2, <3>3 DEF TypeOK
  <2> QED
    BY <1>14, <2>3, <2>4, <2>5 DEF ServerWriteFails
<1>15. ASSUME TurnDown
       PROVE  /\ down' \in Seq(DownTexts) /\ sPc' \in {"idle", "dead"}
              /\ file' \in {NoFile} \cup [len : 0 .. FileSize, clean : BOOLEAN]
              /\ accepted' = FALSE /\ undeleted' \in BOOLEAN /\ sTimer' = FALSE
  BY <1>0, <1>1, <1>15, Deleted, TextAnswered DEF TurnDown
<1>16. CASE ServerReceiveTimesOut
  <2>1. CASE ReleaseShare /\ TurnDown
    <3>1. shares' \in Int /\ twice' \in Nat
      BY <1>1, <1>3, <2>1 DEF ReleaseShare, TypeOK
    <3> QED
      BY <1>1, <1>15, <1>16, <2>1, <3>1 DEF ServerReceiveTimesOut, TypeOK
  <2>2. CASE ReleaseTwice /\ UNCHANGED <<down, sTimer, stored>>
    <3>1. shares' \in Int /\ twice' \in Nat /\ sPc' = "confirm"
      BY <1>1, <1>3, <2>2 DEF ReleaseTwice, TypeOK
    <3> QED
      BY <1>1, <1>16, <2>2, <3>1, ZenonT(60) DEF ServerReceiveTimesOut, TypeOK
  <2> QED
    BY <1>16, <2>1, <2>2 DEF ServerReceiveTimesOut
<1>17. CASE ServerAccepts
  <2>1. down' \in Seq(DownTexts) /\ sPc' \in {"idle", "dead"}
    BY <1>0, <1>1, <1>17, TextAnswered DEF ServerAccepts
  <2>2. /\ file' \in {NoFile} \cup [len : 0 .. FileSize, clean : BOOLEAN]
        /\ accepted' \in BOOLEAN /\ undeleted' \in BOOLEAN
    BY <1>1, <1>17, Deleted DEF ServerAccepts, TypeOK
  <2> QED
    BY <1>1, <1>2, <1>17, <2>1, <2>2 DEF ServerAccepts, TypeOK
<1>18. CASE ServerRejects
  <2>1. up' \in Seq(Unit)
    BY <1>2, <1>18, UnitsRead DEF ServerRejects
  <2>2. garbled' \in BOOLEAN
    BY <1>1, <1>18 DEF ServerRejects, TypeOK
  <2> QED
    BY <1>1, <1>15, <1>18, <2>1, <2>2 DEF ServerRejects, TypeOK
<1>19. CASE ServerConfirmFails
  <2>1. up' \in Seq(Unit)
    BY <1>2, <1>19, UnitsRead DEF ServerConfirmFails
  <2>2. down' \in Seq(DownTexts) /\ sPc' \in {"idle", "dead"} /\ aborted' = TRUE
    BY <1>0, <1>1, <1>19, TextAnswered DEF ServerConfirmFails, Abort
  <2>3. garbled' \in BOOLEAN
    BY <1>1, <1>19 DEF ServerConfirmFails, TypeOK
  <2>4. /\ file' \in {NoFile} \cup [len : 0 .. FileSize, clean : BOOLEAN]
        /\ accepted' = FALSE /\ undeleted' \in BOOLEAN
    BY <1>1, <1>19, Deleted DEF ServerConfirmFails, Abort
  <2> QED
    BY <1>1, <1>19, <2>1, <2>2, <2>3, <2>4 DEF ServerConfirmFails, TypeOK
<1> QED
  BY <1>4, <1>5, <1>6, <1>7, <1>8, <1>9, <1>10, <1>11, <1>12, <1>13, <1>14, <1>16, <1>17,
     <1>18, <1>19
  DEF ServerThread

\* What is left of the invariant, apart from the types.
Progress ==
    /\ Counting /\ Undecided /\ TimerLeft /\ AcceptedWhole
    /\ NoPartialFile /\ ShareWhileReceiving /\ ThrownOutForAReason

\* The steps of the server keep the rest of the invariant: it is in these that
\* a file is opened, measured, kept or deleted and the timeout set or lifted.
LEMMA ServerProgress ==
    ASSUME Inv, ServerThread
    PROVE  Progress'
<1> USE UploadAssumption
    DEF client, console, stored, share, blame, Progress, Alive, Counting, Undecided,
        TimerLeft, AcceptedWhole, NoPartialFile, ShareWhileReceiving, ThrownOutForAReason
<1>1. Progress
  BY DEF Inv
<1>2. TypeOK /\ Inv /\ shares \in Int /\ twice \in Nat /\ FileSize \in Nat
  BY DEF Inv, TypeOK
<1>3. CASE ServerReadsF
  BY <1>1, <1>3 DEF ServerReadsF, Answer
<1>4. CASE ServerReadsBad
  BY <1>1, <1>4 DEF ServerReadsBad
<1>5. CASE ServerReadsHeader
  <2>1. file'.len = 0 /\ file' # NoFile /\ sPc' = "receive"
    BY <1>5, NoFileType DEF ServerReadsHeader
  <2>2. left' = FileSize /\ ~accepted' /\ UNCHANGED <<cPc, twice, aborted, garbled, refused>>
    BY <1>5 DEF ServerReadsHeader
  <2>3. shares' = 1 - twice
    BY <1>1, <1>2, <1>5 DEF ServerReadsHeader
  <2> QED
    BY <1>2, <2>1, <2>2, <2>3
<1>6. ASSUME Abort
      PROVE  /\ sPc' = "idle" \/ (sPc' = "dead" /\ cPc = "gone")
             /\ (file' = NoFile \/ undeleted') /\ ~accepted' /\ aborted'
  BY <1>2, <1>6, Deleted DEF Abort, Answer
<1>7. CASE ServerCannotOpen
  <2>1. UNCHANGED <<cPc, shares, twice>> /\ sPc = "idle"
    BY <1>7 DEF ServerCannotOpen
  <2> QED
    BY <1>1, <1>6, <1>7, <2>1 DEF ServerCannotOpen
<1>8. CASE ServerReadsTimeoutText
  <2>1. (file' = NoFile \/ undeleted') /\ ~accepted'
    BY <1>2, <1>8, Deleted DEF ServerReadsTimeoutText
  <2> QED
    BY <1>1, <1>8, <2>1 DEF ServerReadsTimeoutText, Answer
<1>9. CASE ServerIgnores
  BY <1>1, <1>9 DEF ServerIgnores, server
<1>10. CASE ServerReadsGarbage
  BY <1>1, <1>10 DEF ServerReadsGarbage
<1>11. CASE ServerEnds
  BY <1>1, <1>11 DEF ServerEnds, EndOfStream
<1>12. CASE ServerReceives
  <2>1. sPc = "receive" /\ UNCHANGED <<cPc, sPc, accepted, shares, twice, aborted, garbled>>
    BY <1>12 DEF ServerReceives
  <2>2. PICK k \in 1 .. Allowed : TakeUnits(k)
    BY <1>12 DEF ServerReceives
  <2>3. k \in 0 .. k /\ k \in Nat
    BY <1>2, <2>1, <2>2, AllowedBound
  <2>4. file' # NoFile /\ file'.len = file.len + k /\ left' = left - k
    BY <1>2, <2>1, <2>2, <2>3, TakingTypes DEF TakeUnits
  <2>5. file.len \in Nat /\ left \in Nat
    BY <1>1, <1>2, <2>1, FileExists DEF TypeOK
  <2>6. file'.len + left' = FileSize
    BY <1>1, <2>1, <2>3, <2>4, <2>5
  <2> QED
    BY <1>1, <2>1, <2>4, <2>6
<1>13. ASSUME sPc = "receive", ReleaseShare \/ ReleaseTwice
       PROVE  shares' = 0 - twice'
  <2>1. shares = 1 - twice
    BY <1>1, <1>13
  <2> QED
    BY <1>2, <1>13, <2>1 DEF ReleaseShare, ReleaseTwice
<1>14. CASE ServerLeavesLoop
  <2>1. /\ sPc = "receive" /\ sPc' = "confirm"
        /\ UNCHANGED <<cPc, file, accepted, aborted, garbled>>
    BY <1>14 DEF ServerLeavesLoop, ReleaseTwice
  <2>2. shares' = 0 - twice'
    BY <1>13, <1>14, <2>1 DEF ServerLeavesLoop
  <2> QED
    BY <1>1, <2>1, <2>2
<1>15. CASE ServerWriteFails
  <2>1. sPc = "receive" /\ UNCHANGED <<cPc, sTimer, garbled, refused>>
    BY <1>15 DEF ServerWriteFails
  <2>2. shares' = 0 - twice'
    BY <1>13, <1>15, <2>1 DEF ServerWriteFails
  <2>3. CASE Abort
    BY <1>1, <1>6, <2>1, <2>2, <2>3
  <2>4. ASSUME sPc' = "confirm", UNCHANGED <<accepted, aborted>>, NEW k \in 1 .. Allowed,
               NEW j \in 0 .. k, file' = Longer(j)
        PROVE  Progress'
    <3>1. file' # NoFile
      BY <1>2, <2>1, <2>4, TakingTypes
    <3> QED
      BY <1>1, <2>1, <2>2, <2>4, <3>1
  <2>5. ASSUME NEW k \in 1 .. Allowed
        PROVE  k \in 0 .. k /\ (0 .. k - 1) \subseteq (0 .. k)
    BY <1>2, <2>1, AllowedBound
  <2>6. CASE sPc' = "confirm" /\ UNCHANGED <<accepted, aborted>>
             /\ \E k \in 1 .. Allowed : \E j \in 0 .. k : file' = Longer(j)
    BY <2>4, <2>6
  <2>7. \/ Abort
        \/ /\ sPc' = "confirm" /\ UNCHANGED <<accepted, aborted>>
           /\ \E k \in 1 .. Allowed : \E j \in 0 .. k : file' = Longer(j)
    BY <1>15, <2>5 DEF ServerWriteFails, TakeUnits
  <2> QED
    BY <2>3, <2>6, <2>7
<1>16. ASSUME TurnDown
       PROVE  /\ sPc' = "idle" \/ (sPc' = "dead" /\ cPc = "gone")
              /\ (file' = NoFile \/ undeleted') /\ ~accepted' /\ ~sTimer'
  BY <1>2, <1>16, Deleted DEF TurnDown, Answer
<1>17. CASE ServerReceiveTimesOut
  <2>1. sPc = "receive" /\ UNCHANGED <<cPc, left, aborted, garbled, refused>>
    BY <1>17 DEF ServerReceiveTimesOut
  <2>2. shares' = 0 - twice'
    BY <1>13, <1>17, <2>1 DEF ServerReceiveTimesOut
  <2>3. CASE TurnDown
    BY <1>1, <1>16, <2>1, <2>2, <2>3
  <2>4. CASE sPc' = "confirm" /\ UNCHANGED <<sTimer, file, accepted>>
    BY <1>1, <2>1, <2>2, <2>4
  <2> QED
    BY <1>17, <2>3, <2>4 DEF ServerReceiveTimesOut, ReleaseTwice
<1>18. CASE ServerAccepts
  <2>1. sPc' = "idle" \/ (sPc' = "dead" /\ cPc = "gone")
    BY <1>18 DEF ServerAccepts, Answer
  <2>2. /\ sPc = "confirm" /\ ~sTimer' /\ UNCHANGED <<cPc, shares, twice, aborted, garbled>>
        /\ \/ sPc' = "idle" /\ accepted' /\ file' = file
           \/ sPc' = "dead" /\ ~accepted' /\ (file' = NoFile \/ undeleted')
    BY <1>2, <1>18, Deleted DEF ServerAccepts
  <2>3. file.len = FileSize
    BY <1>18 DEF ServerAccepts, FullSize
  <2> QED
    BY <1>1, <2>1, <2>2, <2>3
<1>19. CASE ServerRejects
  <2>1. sPc = "confirm" /\ UNCHANGED <<cPc, shares, twice>>
    BY <1>19 DEF ServerRejects
  <2> QED
    BY <1>1, <1>16, <1>19, <2>1 DEF ServerRejects
<1>20. CASE ServerConfirmFails
  <2>1. sPc = "confirm" /\ UNCHANGED <<cPc, shares, twice>>
    BY <1>20 DEF ServerConfirmFails
  <2> QED
    BY <1>1, <1>6, <1>20, <2>1 DEF ServerConfirmFails
<1> QED
  BY <1>3, <1>4, <1>5, <1>7, <1>8, <1>9, <1>10, <1>11, <1>12, <1>14, <1>15, <1>17, <1>18,
     <1>19, <1>20
  DEF ServerThread

LEMMA InitialState == ASSUME Init PROVE Inv
<1> USE UploadAssumption DEF Init
<1>1. up \in Seq(Unit) /\ down \in Seq(DownTexts)
  BY EmptySeq
<1>2. TypeOK
  <2>1. /\ file \in {NoFile} \cup [len : 0 .. FileSize, clean : BOOLEAN]
        /\ at \in 0 .. FileSize /\ left \in 0 .. FileSize
        /\ shares \in Int /\ twice \in Nat /\ asked \in 0 .. MaxUploads
    OBVIOUS
  <2>2. /\ sTimer \in BOOLEAN /\ accepted \in BOOLEAN /\ undeleted \in BOOLEAN
        /\ aborted \in BOOLEAN /\ garbled \in BOOLEAN /\ refused \in BOOLEAN
        /\ mixed \in BOOLEAN
    OBVIOUS
  <2>3. /\ cPc = "idle" /\ told = "nothing" /\ sPc = "idle"
        /\ faults \in FaultSets
    OBVIOUS
  <2> HIDE DEF Init
  <2> QED
    BY <1>1, <2>1, <2>2, <2>3 DEF TypeOK
<1>3. Progress
  BY DEF Progress, Counting, Undecided, TimerLeft, AcceptedWhole,
         NoPartialFile, ShareWhileReceiving, ThrownOutForAReason
<1> QED
  BY <1>2, <1>3 DEF Inv, Progress

\* The steps that leave the server's state alone keep the rest of the invariant
\* too; of the client it only speaks as being there or gone.
LEMMA ServerFrame ==
    ASSUME Inv, UNCHANGED server, Alive' => Alive
    PROVE  Progress'
  BY DEF Inv, server, stored, share, blame, Progress, Counting, Undecided, TimerLeft,
         AcceptedWhole, NoPartialFile, ShareWhileReceiving, ThrownOutForAReason

\* The invariant of the upload: while the loop of recieveFile runs, the length
\* of the stored file and the local variable size add up to the file size, and
\* the timeout and the history flags tell how the last upload has ended.
THEOREM UploadInvariant == Spec => []Inv
<1>1. Init => Inv
  BY InitialState
<1>2. Inv /\ [Next]_vars => Inv'
  <2> SUFFICES ASSUME Inv, [Next]_vars PROVE Inv'
    OBVIOUS
  <2>1. TypeOK
    BY DEF Inv
  <2>2. CASE ServerThread
    BY <2>2, ServerTypes, ServerProgress DEF Inv, Progress
  <2>3. CASE ClientThread \/ TypeUpload \/ ClientCrashes
    BY <2>1, <2>3, ClientStep, ServerFrame DEF Inv, Progress
  <2>4. CASE UNCHANGED vars
    <3>1. TypeOK'
      BY <2>1, <2>4 DEF vars, client, server, console, stored, share, blame, TypeOK
    <3>2. UNCHANGED server /\ (Alive' => Alive)
      BY <2>4 DEF vars, client, Alive
    <3> QED
      BY <3>1, <3>2, ServerFrame DEF Inv, Progress
  <2> QED
    BY <2>2, <2>3, <2>4 DEF Next
<1> QED
  BY <1>1, <1>2, PTL DEF Spec

\* Every variable stays in its type: the two streams carry nothing but the
\* units and texts of the protocol, and the stored file never grows beyond the
\* announced size.
THEOREM TypeCorrect == Spec => []TypeOK
<1>1. Inv => TypeOK
  BY DEF Inv
<1> QED
  BY <1>1, UploadInvariant, PTL

\* When no upload runs, or the thread has ended, a file that is stored is one
\* that the server has accepted and that has the announced length, or one that
\* File.delete() could not delete.
THEOREM FailedUploadLeavesNothing == Spec => [](NoPartialFile /\ AcceptedWhole)
<1>1. Inv => NoPartialFile /\ AcceptedWhole
  BY DEF Inv
<1> QED
  BY <1>1, UploadInvariant, PTL

\* Outside the loop of recieveFile the chunk is out of CUR_BUFFER_SIZE, and in
\* it the chunk is counted, less what a close() that failed behind the
\* subtraction has made the catch block subtract once more.
THEOREM ShareReturned == Spec => []ShareWhileReceiving
<1>1. Inv => ShareWhileReceiving
  BY DEF Inv
<1> QED
  BY <1>1, UploadInvariant, PTL

\* The server ends the thread of a client that is there only after an upload
\* that ended in the catch block, after it took file bytes for a text, or after
\* a line that it could not execute.
THEOREM NobodyThrownOut == Spec => []ThrownOutForAReason
<1>1. Inv => ThrownOutForAReason
  BY DEF Inv
<1> QED
  BY <1>1, UploadInvariant, PTL
-----------------------------------------------------------------------------
(* What the streams carry.                                                 *)

LEMMA TextUnits ==
    ASSUME NEW m \in UpTexts
    PROVE  /\ Text(m) \in Seq(Unit) /\ Len(Text(m)) = 2
           /\ Text(m)[1] = [text |-> m, part |-> 1] /\ Text(m)[2] = [text |-> m, part |-> 2]
           /\ \A n : Carries(Text(m), n) => n = m
<1>1. Text(m) \in Seq(Unit) /\ Len(Text(m)) = 2
      /\ Text(m)[1] = [text |-> m, part |-> 1] /\ Text(m)[2] = [text |-> m, part |-> 2]
  BY DEF Text, Unit
<1>2. ASSUME NEW i \in 1 .. 2 PROVE Text(m)[i].text = m
  BY <1>1
<1> QED
  BY <1>1, <1>2 DEF Carries

LEMMA ChunkUnits ==
    ASSUME NEW k \in Nat
    PROVE  LET w == [i \in 1 .. k |-> Data]
           IN  /\ w \in Seq(Unit) /\ Len(w) = k
               /\ \A n : Carries(w, n) => n = "data"
<1> DEFINE w == [i \in 1 .. k |-> Data]
<1>1. w \in Seq(Unit)
  BY SeqDef DEF Unit
<1>2. Len(w) = k
  BY <1>1, LenProperties
<1>3. \A i \in 1 .. k : w[i].text = "data"
  BY DEF Data
<1> HIDE DEF w
<1>4. \A n : Carries(w, n) => n = "data"
  BY <1>2, <1>3 DEF Carries
<1> QED
  BY <1>1, <1>2, <1>4 DEF w

LEMMA Joined ==
    ASSUME NEW u \in Seq(Unit), NEW w \in Seq(Unit)
    PROVE  /\ u \o w \in Seq(Unit) /\ Len(u \o w) = Len(u) + Len(w)
           /\ Len(u) \in Nat /\ Len(w) \in Nat
           /\ \A i \in 1 .. Len(u) : (u \o w)[i] = u[i]
           /\ \A i \in 1 .. Len(w) : (u \o w)[Len(u) + i] = w[i]
           /\ \A m : Carries(u \o w, m) => Carries(u, m) \/ Carries(w, m)
<1>1. /\ u \o w \in Seq(Unit) /\ Len(u \o w) = Len(u) + Len(w)
      /\ \A i \in 1 .. Len(u) + Len(w) :
            (u \o w)[i] = IF i <= Len(u) THEN u[i] ELSE w[i - Len(u)]
  BY ConcatProperties
<1>2. Len(u) \in Nat /\ Len(w) \in Nat
  BY LenProperties
<1>3. \A i \in 1 .. Len(u) : (u \o w)[i] = u[i]
  BY <1>1, <1>2
<1>4. \A i \in 1 .. Len(w) : (u \o w)[Len(u) + i] = w[i]
  BY <1>1, <1>2
<1>5. ASSUME NEW m, NEW i \in 1 .. Len(u) + Len(w), (u \o w)[i].text = m
      PROVE  Carries(u, m) \/ Carries(w, m)
  <2>1. CASE i <= Len(u)
    BY <1>2, <1>3, <1>5, <2>1 DEF Carries
  <2>2. CASE ~(i <= Len(u))
    <3>1. i - Len(u) \in 1 .. Len(w) /\ (u \o w)[i] = w[i - Len(u)]
      BY <1>1, <1>2, <2>2
    <3> QED
      BY <1>5, <3>1 DEF Carries
  <2> QED
    BY <2>1, <2>2
<1> QED
  BY <1>1, <1>2, <1>3, <1>4, <1>5 DEF Carries

LEMMA Dropped ==
    ASSUME NEW u \in Seq(Unit), NEW k \in 0 .. Len(u)
    PROVE  LET v == SubSeq(u, k + 1, Len(u))
           IN  /\ v \in Seq(Unit) /\ Len(v) = Len(u) - k /\ Len(u) \in Nat
               /\ \A i \in 1 .. Len(u) - k : v[i] = u[k + i]
               /\ \A m : Carries(v, m) => Carries(u, m)
<1> DEFINE v == SubSeq(u, k + 1, Len(u))
<1>1. Len(u) \in Nat /\ \A i \in k + 1 .. Len(u) : u[i] \in Unit
  BY LenProperties, ElementOfSeq
<1>2. /\ v \in Seq(Unit) /\ Len(v) = Len(u) - k
      /\ \A i \in 1 .. Len(u) - k : v[i] = u[k + i]
  <2>1. k + 1 \in Int /\ (k + 1 <= Len(u) => Len(u) - (k + 1) + 1 = Len(u) - k)
        /\ (~(k + 1 <= Len(u)) => Len(u) - k = 0)
    BY <1>1
  <2> QED
    BY <1>1, <2>1, SubSeqProperties
<1> HIDE DEF v
<1>3. ASSUME NEW m, Carries(v, m) PROVE Carries(u, m)
  <2>1. PICK i \in 1 .. Len(u) - k : v[i].text = m
    BY <1>2, <1>3 DEF Carries
  <2>2. k + i \in 1 .. Len(u) /\ u[k + i].text = m
    BY <1>1, <1>2, <2>1
  <2> QED
    BY <2>2 DEF Carries
<1> QED
  BY <1>1, <1>2, <1>3 DEF v

\* The server takes units that belong to the file, or the header before it.
LEMMA FileTaken ==
    ASSUME NEW u \in Seq(Unit), NEW pc, NEW sent \in Nat, NEW got \in Nat,
           FileAhead(u, pc, sent, 0, got), NEW k \in Nat, k <= sent - got
    PROVE  /\ FileAhead(SubSeq(u, k + 1, Len(u)), pc, sent, 0, got + k)
           /\ \A i \in 1 .. k : u[i] = Data
<1> DEFINE v == SubSeq(u, k + 1, Len(u))
<1>1. Len(u) \in Nat /\ k \in 0 .. Len(u)
  BY LenProperties DEF FileAhead
<1>2. /\ Len(v) = Len(u) - k
      /\ \A i \in 1 .. Len(u) - k : v[i] = u[k + i]
      /\ Carries(v, "ACK") => Carries(u, "ACK")
  BY <1>1, Dropped
<1> HIDE DEF v
<1>3. ASSUME NEW i \in 1 .. sent - (got + k) PROVE v[i] = Data
  <2>1. i \in 1 .. Len(u) - k /\ k + i \in 1 .. sent - got
    BY <1>1, <1>3 DEF FileAhead
  <2>2. u[k + i] = Data
    BY <2>1 DEF FileAhead
  <2> QED
    BY <1>2, <2>1, <2>2
<1>4. FileAhead(v, pc, sent, 0, got + k)
  BY <1>1, <1>2, <1>3 DEF FileAhead
<1>5. \A i \in 1 .. k : u[i] = Data
  BY DEF FileAhead
<1> QED
  BY <1>4, <1>5 DEF v

LEMMA HeaderTaken ==
    ASSUME NEW u \in Seq(Unit), NEW pc, NEW sent \in Nat,
           FileAhead(u, pc, sent, 2, 0)
    PROVE  FileAhead(SubSeq(u, 3, Len(u)), pc, sent, 0, 0)
<1> DEFINE v == SubSeq(u, 2 + 1, Len(u))
<1>0. SubSeq(u, 3, Len(u)) = v
  OBVIOUS
<1>1. Len(u) \in Nat /\ 2 \in 0 .. Len(u)
  BY LenProperties DEF FileAhead
<1>2. /\ Len(v) = Len(u) - 2
      /\ \A i \in 1 .. Len(u) - 2 : v[i] = u[2 + i]
      /\ Carries(v, "ACK") => Carries(u, "ACK")
  BY <1>1, Dropped
<1> HIDE DEF v
<1>3. ASSUME NEW i \in 1 .. sent PROVE v[i] = Data
  <2>1. i \in 1 .. Len(u) - 2 /\ 2 + i \in 3 .. 2 + sent
    BY <1>1, <1>3 DEF FileAhead
  <2>2. u[2 + i] = Data
    BY <2>1 DEF FileAhead
  <2> QED
    BY <1>2, <2>1, <2>2
<1>4. FileAhead(v, pc, sent, 0, 0)
  BY <1>1, <1>2, <1>3 DEF FileAhead
<1> QED
  BY <1>0, <1>4, Zenon

\* When the server takes more, it is what a client has sent that has given up.
LEMMA MoreTaken ==
    ASSUME NEW u \in Seq(Unit), NEW pc, NEW sent \in Nat, NEW got \in Nat,
           FileAhead(u, pc, sent, 0, got), NEW k \in Nat, k <= Len(u),
           got + k <= FileSize, k > sent - got
    PROVE  pc \notin {"send", "await", "verdict"} /\ ~Carries(u, "ACK")
BY LenProperties, UploadAssumption DEF FileAhead

\* The client sends a chunk.
LEMMA FileSent ==
    ASSUME NEW u \in Seq(Unit), NEW sent \in Nat, NEW skip \in Nat, NEW got \in Nat,
           NEW k \in Nat, FileAhead(u, "send", sent, skip, got), sent < FileSize
    PROVE  FileAhead(u \o [i \in 1 .. k |-> Data], "await", sent + k, skip, got)
<1> DEFINE w == [i \in 1 .. k |-> Data]
           v == u \o w
<1>1. w \in Seq(Unit) /\ Len(w) = k /\ (\A i \in 1 .. k : w[i] = Data)
      /\ ~Carries(w, "ACK")
  BY ChunkUnits
<1>2. /\ Len(v) = Len(u) + k /\ Len(u) \in Nat
      /\ \A i \in 1 .. Len(u) : v[i] = u[i]
      /\ \A i \in 1 .. k : v[Len(u) + i] = w[i]
      /\ Carries(v, "ACK") => Carries(u, "ACK") \/ Carries(w, "ACK")
  <2> HIDE DEF w
  <2> QED
    BY <1>1, Joined
<1> HIDE DEF v, w
<1>3. ~Carries(v, "ACK")
  BY <1>1, <1>2 DEF FileAhead
<1>4. Len(u) = skip + (sent - got) /\ got <= sent
  BY DEF FileAhead
<1>5. ASSUME NEW i \in skip + 1 .. skip + (sent + k - got) PROVE v[i] = Data
  <2>1. CASE i <= Len(u)
    BY <1>2, <1>4, <1>5, <2>1 DEF FileAhead
  <2>2. CASE ~(i <= Len(u))
    <3>1. i - Len(u) \in 1 .. k /\ Len(u) + (i - Len(u)) = i
      BY <1>2, <1>4, <1>5, <2>2
    <3> QED
      BY <1>1, <1>2, <3>1
  <2> QED
    BY <2>1, <2>2
<1>6. FileAhead(v, "await", sent + k, skip, got)
  BY <1>2, <1>3, <1>4, <1>5 DEF FileAhead
<1> QED
  BY <1>6 DEF v, w

\* The client writes a text and waits for the verdict, or gives up.
LEMMA TextBehindFile ==
    ASSUME NEW u \in Seq(Unit), NEW pc, NEW q, NEW sent \in Nat, NEW skip \in Nat,
           NEW got \in Nat, FileAhead(u, pc, sent, skip, got), NEW m \in UpTexts,
           q \notin {"send", "await"}, m = "ACK" \/ q = "verdict" => sent = FileSize
    PROVE  FileAhead(u \o Text(m), q, sent, skip, got)
<1> DEFINE v == u \o Text(m)
<1>1. Text(m) \in Seq(Unit) /\ (Carries(Text(m), "ACK") => m = "ACK") /\ Len(Text(m)) = 2
  BY TextUnits
<1>2. /\ Len(v) = Len(u) + 2 /\ Len(u) \in Nat
      /\ \A i \in 1 .. Len(u) : v[i] = u[i]
      /\ Carries(v, "ACK") => Carries(u, "ACK") \/ Carries(Text(m), "ACK")
  BY <1>1, Joined, ZenonT(60)
<1> HIDE DEF v
<1>3. \A i \in skip + 1 .. skip + (sent - got) : v[i] = Data
  BY <1>2 DEF FileAhead
<1>4. FileAhead(v, q, sent, skip, got)
  BY <1>1, <1>2, <1>3 DEF FileAhead
<1> QED
  BY <1>4 DEF v

-----------------------------------------------------------------------------
(* The stages of an upload.                                                *)

\* No command or header is on the way.
NoCommand ==
    /\ ~Carries(up, "f") /\ ~Carries(up, "bad") /\ ~Carries(up, "file")
    /\ \A i \in 1 .. Len(down) : down[i] # "f"

LEMMA StreamTypes ==
    ASSUME TypeOK
    PROVE  /\ up \in Seq(Unit) /\ Len(up) \in Nat /\ down \in Seq(DownTexts) /\ Len(down) \in Nat
           /\ at \in Nat /\ at <= FileSize /\ FileSize \in Nat /\ Chunk \in Nat
BY LenProperties, UploadAssumption DEF TypeOK

\* A server that is between uploads, with no command on the way, has nothing to
\* promise.
LEMMA QuietIdle ==
    ASSUME NoCommand, sPc \in {"idle", "dead"}
    PROVE  Streams
BY DEF NoCommand, Streams, CommandTyped, CommandAnswered, Announced, Unreadable,
           Transferring

\* A server that receives, or reads anything but a command, has no command ahead.
LEMMA NothingOnTheWay ==
    ASSUME TypeOK, Streams, ~mixed,
           sPc \in {"receive", "confirm"} \/ GarbageAhead
             \/ (TextAhead /\ up[1].text \notin {"f", "bad", "file"})
    PROVE  NoCommand
<1> USE DEF Streams
<1>1. ~Carries(up, "f") /\ ~Carries(up, "bad")
  BY TextUnits DEF CommandTyped, Unreadable, Waiting, GarbageAhead, TextAhead, UpTexts
<1>2. ~Carries(up, "file")
  BY TextUnits DEF Announced, GarbageAhead, TextAhead, UpTexts
<1>3. \A i \in 1 .. Len(down) : down[i] # "f"
  BY DEF CommandAnswered, Waiting, GarbageAhead, TextAhead
<1> QED
  BY <1>1, <1>2, <1>3 DEF NoCommand

\* A reply that is not "f" brings no command.
LEMMA Replied ==
    ASSUME TypeOK, NEW m \in DownTexts, Answer(m) \/ Tell(m) \/ down' = down
    PROVE  \A i \in 1 .. Len(down') : down'[i] = m \/ \E j \in 1 .. Len(down) : down'[i] = down[j]
<1>1. down \in Seq(DownTexts) /\ Len(down) \in Nat
  BY StreamTypes
<1>2. CASE down' = down
  BY <1>2
<1>3. CASE down' = Append(down, m)
  <2>1. /\ Len(down') = Len(down) + 1 /\ down'[Len(down) + 1] = m
        /\ \A i \in 1 .. Len(down) : down'[i] = down[i]
    BY <1>1, <1>3, AppendProperties
  <2> QED
    BY <1>1, <2>1
<1> QED
  BY <1>2, <1>3 DEF Answer, Tell

LEMMA UpDropped ==
    ASSUME TypeOK, NEW k \in 0 .. Len(up), up' = DropUp(k)
    PROVE  \A m : Carries(up', m) => Carries(up, m)
BY StreamTypes, Dropped DEF DropUp

\* A text is two units, unless the stream ends with its first one.
LEMMA UpDroppedText ==
    ASSUME TypeOK, TextAhead, up' = DropUp(2)
    PROVE  \A m : Carries(up', m) => Carries(up, m)
<1>1. up \in Seq(Unit) /\ Len(up) \in Nat
  BY StreamTypes
<1>2. CASE 2 <= Len(up)
  BY <1>1, <1>2, UpDropped
<1>3. CASE ~(2 <= Len(up))
  <2>1. Len(DropUp(2)) = 0
    BY <1>1, <1>3, SubSeqProperties, ElementOfSeq DEF DropUp
  <2> QED
    BY <2>1 DEF Carries
<1> QED
  BY <1>2, <1>3

\* A server whose step brings nothing for the client to execute, and after which
\* it is between uploads, has nothing to promise either.
LEMMA Rests ==
    ASSUME TypeOK, NoCommand, \A m : Carries(up', m) => Carries(up, m), sPc' \in {"idle", "dead"},
           NEW m \in DownTexts \ {"f"}, Answer(m) \/ down' = down
    PROVE  Streams'
<1>1. \A i \in 1 .. Len(down') : down'[i] # "f"
  BY Replied DEF NoCommand
<1>2. NoCommand'
  BY <1>1 DEF NoCommand
<1> QED
  BY <1>2 DEF NoCommand, Streams, CommandTyped, CommandAnswered, Announced, Unreadable,
              Transferring

\* The steps that end an upload, or read something else than a command.
LEMMA ServerRests ==
    ASSUME StreamInv, ~mixed,
           \/ ServerReadsTimeoutText \/ ServerIgnores \/ ServerReadsGarbage
           \/ ServerReceiveTimesOut /\ TurnDown
           \/ ServerWriteFails /\ Abort
           \/ ServerAccepts \/ ServerRejects \/ ServerConfirmFails
    PROVE  Streams'
<1> USE DEF ServerReadsTimeoutText, ServerIgnores, ServerReadsGarbage, ServerReceiveTimesOut,
            ServerAccepts, ServerRejects, ServerConfirmFails
<1>1. TypeOK /\ Streams
  BY DEF StreamInv, Inv
<1>2. NoCommand
  BY <1>1, NothingOnTheWay DEF ServerWriteFails
<1>3. \A m : Carries(up', m) => Carries(up, m)
  <2>1. CASE up' = up
    BY <2>1
  <2>2. CASE TextAhead /\ up' = DropUp(2)
    BY <1>1, <2>2, UpDroppedText
  <2>3. CASE \E k \in 1 .. Len(up) : up' = DropUp(k)
    <3>1. Len(up) \in Nat
      BY <1>1, StreamTypes
    <3>2. PICK k \in 0 .. Len(up) : up' = DropUp(k)
      BY <2>3, <3>1
    <3> QED
      BY <1>1, <3>2, UpDropped
  <2>4. CASE ServerWriteFails
    <3>1. sPc = "receive" /\ \E k \in 1 .. Allowed : up' = DropUp(k)
      BY <2>4 DEF ServerWriteFails, TakeUnits
    <3> QED
      BY <1>1, <2>3, <3>1, AllowedBound, StreamTypes
  <2> QED
    BY <2>1, <2>2, <2>3, <2>4
<1>4. \E m \in DownTexts \ {"f"} : Answer(m) \/ down' = down
  BY DEF DownTexts, TurnDown, Abort
<1>5. sPc' \in {"idle", "dead"}
  BY DEF server, Answer, TurnDown, Abort
<1> QED
  BY <1>1, <1>2, <1>3, <1>4, <1>5, Rests

\* The commands, and the end of the thread.
LEMMA ServerStarts ==
    ASSUME StreamInv, ~mixed,
           \/ ServerReadsF \/ ServerReadsBad \/ ServerReadsHeader \/ ServerCannotOpen
           \/ ServerEnds
    PROVE  Streams'
<1>1. TypeOK /\ Streams
  BY DEF StreamInv, Inv
<1>2. CASE ServerReadsF
  <2>1. up[1].text = "f" /\ up # <<>> /\ up' = DropUp(2) /\ Answer("f") /\ cPc' = cPc
    BY <1>2 DEF ServerReadsF, TextAhead, client
  <2>2. 1 \in 1 .. Len(up)
    BY <1>1, <2>1, StreamTypes, EmptySeq
  <2>3. Waiting /\ up = Text("f") /\ down = <<>>
    BY <1>1, <2>1, <2>2, ~mixed DEF Streams, CommandTyped, Carries
  <2>4. up' = <<>>
    BY <2>1, <2>3, TextUnits, SubSeqProperties DEF DropUp, Text
  <2>5. ~Carries(up', "f") /\ ~Carries(up', "bad") /\ ~Carries(up', "file")
    BY <2>4, EmptySeq DEF Carries
  <2>6. (down' = <<"f">> /\ sPc' = "idle") \/ (down' = <<>> /\ sPc' = "dead")
    BY <2>1, <2>3 DEF Answer, Tell
  <2> QED
    BY <2>1, <2>3, <2>4, <2>5, <2>6
       DEF Streams, CommandTyped, CommandAnswered, Announced, Unreadable,
           Transferring, Waiting
<1>3. CASE ServerReadsHeader \/ ServerCannotOpen
  <2>1. /\ up[1].text = "file" /\ up # <<>> /\ up' = DropUp(2) /\ UNCHANGED <<cPc, at>>
    BY <1>3 DEF ServerReadsHeader, ServerCannotOpen, TextAhead, client
  <2>2. 1 \in 1 .. Len(up) /\ up \in Seq(Unit) /\ at \in Nat
    BY <1>1, <2>1, StreamTypes, EmptySeq
  <2>3. /\ down = <<>> /\ 2 <= Len(up) /\ (\A i \in 3 .. Len(up) : up[i].text # "file")
        /\ FileAhead(up, cPc, at, 2, 0)
    BY <1>1, <2>1, <2>2, ~mixed DEF Streams, Announced, Carries
  <2>4. FileAhead(up', cPc, at, 0, 0)
    BY <2>1, <2>2, <2>3, HeaderTaken DEF DropUp
  <2>5. /\ Len(up') = Len(up) - 2 /\ Len(up) \in Nat
        /\ \A i \in 1 .. Len(up) - 2 : up'[i] = up[2 + i]
        /\ \A m : Carries(up', m) => Carries(up, m)
    <3>1. 2 \in 0 .. Len(up) /\ up' = SubSeq(up, 2 + 1, Len(up)) /\ Len(up) \in Nat
      BY <1>1, <2>1, <2>3, StreamTypes DEF DropUp
    <3> QED
      BY <2>2, <3>1, Dropped
  <2>6. ~Carries(up', "file")
    BY <2>3, <2>5, SMTT(60) DEF Carries
  <2>7. ~Carries(up', "f") /\ ~Carries(up', "bad")
    <3>1. /\ Carries(up, "f") => up = Text("f")
          /\ Carries(up, "bad") => up[1] = Text("bad")[1]
      BY <1>1, ~mixed DEF Streams, CommandTyped, Unreadable
    <3>2. up[1].text = "file"
      BY <2>1
    <3> QED
      BY <2>5, <3>1, <3>2, TextUnits DEF UpTexts
  <2>8. CASE ServerReadsHeader
    <3>1. /\ file' = [len |-> 0, clean |-> TRUE] /\ down' = down /\ sPc' = "receive"
      BY <2>8 DEF ServerReadsHeader
    <3>2. \A i \in 1 .. Len(down') : FALSE
      BY <2>3, <3>1, EmptySeq
    <3>3. file'.len = 0 /\ file'.clean
      BY <3>1
    <3> QED
      BY <2>1, <2>4, <2>6, <2>7, <3>1, <3>2, <3>3
         DEF Streams, CommandTyped, CommandAnswered, Announced, Unreadable, Transferring
  <2>9. CASE ServerCannotOpen
    <3>1. Answer("FileDeleted") /\ sPc' \in {"idle", "dead"} /\ "FileDeleted" \in DownTexts
      BY <2>9 DEF ServerCannotOpen, Abort, Answer, DownTexts
    <3>2. \A i \in 1 .. Len(down') : down'[i] # "f"
      BY <1>1, <2>3, <3>1, Replied, EmptySeq
    <3> QED
      BY <2>6, <2>7, <3>1, <3>2
         DEF Streams, CommandTyped, CommandAnswered, Announced, Unreadable, Transferring
  <2> QED
    BY <1>3, <2>8, <2>9
<1>4. CASE ServerEnds
  <2>1. UNCHANGED <<up, down, cPc, at, file>> /\ sPc' = "dead" /\ sPc = "idle" /\ mixed' = mixed
    BY <1>4 DEF ServerEnds, client, console, stored
  <2> QED
    BY <1>1, <2>1, ~mixed
       DEF Streams, CommandTyped, CommandAnswered, Announced, Unreadable,
           Transferring, Waiting
<1>5. CASE ServerReadsBad
  <2>1. /\ up[1].text = "bad" /\ up # <<>> /\ up' = DropUp(2) /\ sPc' = "dead"
        /\ down' = down
    BY <1>5 DEF ServerReadsBad, TextAhead
  <2>2. 1 \in 1 .. Len(up) /\ up \in Seq(Unit)
    BY <1>1, <2>1, StreamTypes, EmptySeq
  <2>3. /\ down = <<>> /\ 2 <= Len(up)
        /\ \A i \in 3 .. Len(up) : up[i].text \notin {"f", "bad", "file"}
    BY <1>1, <2>1, <2>2, ~mixed DEF Streams, Unreadable, Carries
  <2>4. /\ Len(up') = Len(up) - 2 /\ Len(up) \in Nat
        /\ \A i \in 1 .. Len(up) - 2 : up'[i] = up[2 + i]
    <3>1. 2 \in 0 .. Len(up) /\ up' = SubSeq(up, 2 + 1, Len(up)) /\ Len(up) \in Nat
      BY <1>1, <2>1, <2>3, StreamTypes DEF DropUp
    <3> QED
      BY <2>2, <3>1, Dropped
  <2>5. \A i \in 1 .. Len(up') : up'[i].text \notin {"f", "bad", "file"}
    BY <2>3, <2>4, SMTT(60)
  <2>6. \A i \in 1 .. Len(down') : down'[i] # "f"
    BY <2>1, <2>3, EmptySeq
  <2>7. NoCommand'
    BY <2>5, <2>6, SMTT(60) DEF NoCommand, Carries
  <2> QED
    BY <2>1, <2>7
       DEF NoCommand, Streams, CommandTyped, CommandAnswered, Announced, Unreadable, Transferring
<1> QED
  BY <1>2, <1>3, <1>4, <1>5

\* recieveFile: what is taken is of the file, or there will be no confirmation.
LEMMA TakingSound ==
    ASSUME StreamInv, ~mixed, sPc = "receive", NEW k \in 1 .. Allowed, TakeUnits(k),
           UNCHANGED <<cPc, at>>
    PROVE  (file'.clean /\ FileAhead(up', cPc', at', 0, file'.len)) \/ Hopeless'
<1>1. TypeOK /\ Streams /\ Counting /\ Undecided
  BY DEF StreamInv, Inv
<1>2. /\ k \in Nat /\ k <= left /\ k <= Len(up) /\ up \in Seq(Unit) /\ Len(up) \in Nat
      /\ at \in Nat /\ up' = SubSeq(up, k + 1, Len(up))
  BY <1>1, AllowedBound, StreamTypes DEF TakeUnits, DropUp
<1>3. /\ file.len \in 0 .. FileSize /\ file.clean \in BOOLEAN /\ file.len + left = FileSize
      /\ file.len \in Nat /\ left \in Nat
  BY <1>1, FileExists, UploadAssumption DEF Counting, Undecided, TypeOK
<1>4. /\ file'.len = file.len + k
      /\ file'.clean = (file.clean /\ \A i \in 1 .. k : up[i] = Data)
  BY DEF TakeUnits, Longer
<1>5. (file.clean /\ FileAhead(up, cPc, at, 0, file.len)) \/ Hopeless
  BY <1>1, ~mixed DEF Streams, Transferring
<1>6. \A m : Carries(up', m) => Carries(up, m)
  BY <1>2, Dropped
<1>7. CASE Hopeless
  BY <1>6, <1>7 DEF Hopeless
<1>8. CASE /\ file.clean /\ FileAhead(up, cPc, at, 0, file.len)
           /\ k <= at - file.len
  <2>1. /\ FileAhead(up', cPc, at, 0, file.len + k)
        /\ \A i \in 1 .. k : up[i] = Data
    BY <1>2, <1>3, <1>8, FileTaken
  <2> QED
    BY <1>4, <1>8, <2>1
<1>9. CASE /\ FileAhead(up, cPc, at, 0, file.len)
           /\ ~(k <= at - file.len)
  <2>1. cPc \notin {"send", "await", "verdict"} /\ ~Carries(up, "ACK")
    <3>1. file.len + k <= FileSize /\ k > at - file.len
      BY <1>2, <1>3, <1>9
    <3> QED
      BY <1>2, <1>3, <1>9, <3>1, MoreTaken
  <2>2. cPc \in {"idle", "gone"}
    BY <1>1, <2>1 DEF TypeOK
  <2> QED
    BY <1>6, <2>1, <2>2 DEF Hopeless
<1> QED
  BY <1>5, <1>7, <1>8, <1>9

\* A part of the file that is all the server has got, when a write failed, is not
\* of the size that is compared.
LEMMA LessThanFile ==
    ASSUME Inv, sPc = "receive", left > 0, NEW k \in 0 .. left - 1, file' = Longer(k)
    PROVE  ~FullSize'
<1>1. TypeOK /\ file # NoFile /\ file.len + left = FileSize
  BY DEF Inv, Undecided, Counting
<1>2. file.len \in Nat /\ left \in Nat /\ file'.len = file.len + k /\ FileSize \in Nat
  BY <1>1, FileExists, UploadAssumption DEF TypeOK, Longer
<1>3. file'.len < FileSize
  BY <1>1, <1>2
<1> QED
  BY <1>2, <1>3 DEF FullSize

LEMMA ServerTransfers ==
    ASSUME StreamInv, ~mixed,
           \/ ServerReceives \/ ServerLeavesLoop
           \/ ServerWriteFails /\ ~Abort
           \/ ServerReceiveTimesOut /\ ~TurnDown
    PROVE  Streams'
<1>1. /\ TypeOK /\ Inv /\ Streams /\ Counting /\ Undecided /\ sPc = "receive"
      /\ FileSize \in Nat /\ left \in Nat /\ Chunk \in Nat
  BY UploadAssumption
     DEF StreamInv, Inv, ServerReceives, ServerLeavesLoop, ServerWriteFails,
         ServerReceiveTimesOut, TypeOK
<1>2. NoCommand
  BY <1>1, NothingOnTheWay
<1>3. \/ up' = up
      \/ \E k \in 1 .. Allowed : up' = DropUp(k)
  BY DEF ServerReceives, ServerLeavesLoop, ServerWriteFails, ServerReceiveTimesOut, TakeUnits
<1>4. \A m : Carries(up', m) => Carries(up, m)
  <2>1. ASSUME NEW k \in 1 .. Allowed, up' = DropUp(k)
        PROVE  \A m : Carries(up', m) => Carries(up, m)
    <3>1. k \in 0 .. Len(up)
      BY <1>1, AllowedBound, StreamTypes
    <3> QED
      BY <1>1, <2>1, <3>1, UpDropped
  <2> QED
    BY <1>3, <2>1
<1>5. /\ \A i \in 1 .. Len(down') : down'[i] = "ACK"
      /\ UNCHANGED <<cPc, at>>
  <2>1. \A i \in 1 .. Len(down) : down[i] = "ACK"
    BY <1>1, ~mixed DEF Streams, Transferring
  <2>2. Tell("ACK") \/ down' = down
    BY DEF ServerReceives, ServerLeavesLoop, ServerWriteFails, ServerReceiveTimesOut
  <2> QED
    BY <1>1, <2>1, <2>2, Replied
       DEF ServerReceives, ServerLeavesLoop, ServerWriteFails, ServerReceiveTimesOut, DownTexts,
           client
<1>6. NoCommand'
  BY <1>2, <1>4, <1>5 DEF NoCommand
<1>7. \/ \E k \in 1 .. Allowed : TakeUnits(k)
      \/ UNCHANGED <<up, file>>
      \/ left > 0 /\ \E k \in 0 .. left - 1 : file' = Longer(k) /\ sPc' = "confirm"
  <2>1. \/ \E k \in 1 .. Allowed : TakeUnits(k)
        \/ UNCHANGED <<up, file>>
        \/ /\ left > 0 /\ sPc' = "confirm"
           /\ \E k \in 1 .. Allowed : \E j \in 0 .. k - 1 : file' = Longer(j)
    BY DEF ServerReceives, ServerLeavesLoop, ServerWriteFails, ServerReceiveTimesOut, stored,
           ReleaseTwice
  <2>2. ASSUME NEW k \in 1 .. Allowed PROVE (0 .. k - 1) \subseteq (0 .. left - 1)
    BY <1>1, <2>2, AllowedBound
  <2> QED
    BY <2>1, <2>2
<1>8. sPc' = "receive" \/ (sPc' = "confirm" /\ FullSize')
        => (file'.clean /\ FileAhead(up', cPc', at', 0, file'.len)) \/ Hopeless'
  <2>1. CASE \E k \in 1 .. Allowed : TakeUnits(k)
    BY <1>1, <1>5, <2>1, TakingSound
  <2>2. CASE UNCHANGED <<up, file>>
    BY <1>1, <1>5, <2>2, ~mixed DEF Streams, Transferring, Hopeless
  <2>3. CASE left > 0 /\ \E k \in 0 .. left - 1 : file' = Longer(k) /\ sPc' = "confirm"
    BY <1>1, <2>3, LessThanFile
  <2> QED
    BY <1>7, <2>1, <2>2, <2>3
<1> QED
  BY <1>5, <1>6, <1>8
     DEF NoCommand, Streams, CommandTyped, CommandAnswered, Announced, Unreadable, Transferring

-----------------------------------------------------------------------------
(* The client's side of the stages.                                        *)

\* The client takes a text that is no command for it, or is not waiting for one:
\* there is none.
LEMMA TextForClient ==
    ASSUME TypeOK, Streams, ~mixed, down # <<>>, down' = Tail(down),
           Head(down) # "f" \/ cPc \notin {"idle", "gone"}
    PROVE  /\ NoCommand /\ \A i \in 1 .. Len(down') : down'[i] # "f"
           /\ sPc \in {"receive", "confirm"} =>
                Head(down) = "ACK" /\ \A i \in 1 .. Len(down') : down'[i] = "ACK"
<1>1. /\ down \in Seq(DownTexts) /\ Len(down) \in Nat /\ Head(down) = down[1]
      /\ 1 \in 1 .. Len(down)
  BY StreamTypes, EmptySeq
<1>2. \A i \in 1 .. Len(down') : i + 1 \in 1 .. Len(down) /\ down'[i] = down[i + 1]
  BY <1>1, HeadTailProperties
<1>3. \A i \in 1 .. Len(down) : down[i] # "f"
  <2>1. SUFFICES ASSUME \E i \in 1 .. Len(down) : down[i] = "f" PROVE FALSE
    OBVIOUS
  <2>2. Waiting /\ down = <<"f">>
    BY <2>1 DEF Streams, CommandAnswered
  <2> QED
    BY <1>1, <2>2 DEF Waiting
<1>4. ~Carries(up, "f") /\ ~Carries(up, "bad") /\ ~Carries(up, "file")
  BY DEF Streams, CommandTyped, Announced, Unreadable
<1>5. sPc \in {"receive", "confirm"} => \A i \in 1 .. Len(down) : down[i] = "ACK"
  BY DEF Streams, Transferring
<1> QED
  BY <1>1, <1>2, <1>3, <1>4, <1>5 DEF NoCommand

\* What is ahead of the server stays ahead when the client only goes on.
LEMMA GoesOn ==
    ASSUME NEW u, NEW pc, NEW q, NEW sent, NEW skip, NEW got,
           FileAhead(u, pc, sent, skip, got),
           q \in {"idle", "gone"} \/ (pc = "await" /\ q = "send")
    PROVE  FileAhead(u, q, sent, skip, got)
BY DEF FileAhead

LEMMA ClientReads ==
    ASSUME StreamInv, ~mixed, ClientSkips \/ ClientReadsAck \/ ClientReadsVerdict
    PROVE  Streams'
<1>1. TypeOK /\ Streams
  BY DEF StreamInv, Inv
<1>2. /\ down # <<>> /\ down' = Tail(down)
      /\ Head(down) # "f" \/ cPc \notin {"idle", "gone"}
      /\ UNCHANGED <<up, at, sPc, file>>
      /\ cPc' \in {"idle", "gone"} \/ (cPc = "await" /\ cPc' = "send")
  BY DEF ClientSkips, ClientReadsAck, ClientReadsVerdict, client, server, stored
<1>3. /\ NoCommand /\ \A i \in 1 .. Len(down') : down'[i] # "f"
      /\ sPc \in {"receive", "confirm"} => \A i \in 1 .. Len(down') : down'[i] = "ACK"
  BY <1>1, <1>2, TextForClient
<1>4. NoCommand'
  BY <1>2, <1>3 DEF NoCommand
<1>5. FileAhead(up, cPc, at, 0, file.len) => FileAhead(up, cPc', at, 0, file.len)
  BY <1>2, GoesOn
<1>6. Hopeless => Hopeless'
  BY <1>2 DEF Hopeless
<1>7. Transferring'
  BY <1>1, <1>2, <1>3, <1>5, <1>6, ~mixed DEF Streams, Transferring, FullSize
<1> QED
  BY <1>4, <1>7 DEF NoCommand, Streams, CommandTyped, CommandAnswered, Announced, Unreadable

\* A line that the server cannot execute is alone in the stream.
LEMMA BadAlone ==
    ASSUME up' = Text("bad"), sPc' \in {"idle", "dead"}, down' = <<>>
    PROVE  Streams'
<1>1. /\ Len(up') = 2 /\ up'[1] = Text("bad")[1] /\ up'[2] = Text("bad")[2]
      /\ \A n : Carries(up', n) => n = "bad"
  BY TextUnits DEF UpTexts
<1>2. 2 <= Len(up') /\ \A i \in 3 .. Len(up') : FALSE
  BY <1>1
<1>3. Unreadable'
  BY <1>1, <1>2 DEF Unreadable
<1>4. \A i \in 1 .. Len(down') : FALSE
  BY EmptySeq
<1> QED
  BY <1>1, <1>3, <1>4 DEF Streams, CommandTyped, CommandAnswered, Announced, Transferring

\* The header is sent.
LEMMA ClientAnnounces ==
    ASSUME StreamInv, ~mixed, ClientStarts
    PROVE  Streams'
<1>1. TypeOK /\ Streams /\ FileSize \in Nat
  BY UploadAssumption DEF StreamInv, Inv
<1>2. /\ down # <<>> /\ Head(down) = "f" /\ down' = Tail(down) /\ UNCHANGED <<sPc, file>>
      /\ \/ up' = up \o Text("file") /\ cPc' = "send" /\ at' = 0
         \/ up' = up \o Text("bad")
         \/ up' = up
  BY DEF ClientStarts, server, stored
<1>3. down[1] = "f" /\ 1 \in 1 .. Len(down)
  BY <1>1, <1>2, StreamTypes, EmptySeq
<1>4. Waiting /\ up = <<>> /\ down = <<"f">>
  BY <1>1, <1>3, ~mixed DEF Streams, CommandAnswered
<1>5. down' = <<>> /\ Len(down') = 0 /\ sPc' \in {"idle", "dead"}
  BY <1>2, <1>4 DEF Waiting
<1>6. CASE up' = up
  <2>1. NoCommand'
    BY <1>4, <1>5, <1>6 DEF NoCommand, Carries
  <2> QED
    BY <1>5, <2>1 DEF NoCommand, Streams, CommandTyped, CommandAnswered, Announced, Unreadable,
           Transferring
<1>7. CASE up' = up \o Text("file") /\ cPc' = "send" /\ at' = 0
  <2> DEFINE t == Text("file")
  <2>1. /\ t \in Seq(Unit) /\ Len(t) = 2
        /\ \A n : Carries(t, n) => n = "file"
    BY TextUnits DEF UpTexts
  <2>2. up' = t
    BY <1>4, <1>7, <2>1, ConcatEmptySeq
  <2>3. FileAhead(t, "send", 0, 2, 0)
    <3> HIDE DEF t
    <3> QED
      BY <2>1 DEF FileAhead
  <2>4. ~Carries(up', "f") /\ ~Carries(up', "bad") /\ FileAhead(up', cPc', at', 2, 0)
    BY <1>7, <2>1, <2>2, <2>3
  <2>5. Announced'
    <3>1. Len(up') = 2 /\ up'[1] = t[1] /\ up'[2] = t[2]
      BY <2>1, <2>2
    <3>2. 2 <= Len(up') /\ \A i \in 3 .. Len(up') : up'[i].text # "file"
      BY <3>1
    <3> QED
      BY <1>5, <2>4, <3>1, <3>2 DEF Announced
  <2> QED
    BY <1>5, <2>4, <2>5 DEF Streams, CommandTyped, CommandAnswered, Unreadable, Transferring
<1>8. CASE up' = up \o Text("bad")
  <2>1. up' = Text("bad") /\ sPc' \in {"idle", "dead"} /\ down' = <<>>
    BY <1>4, <1>5, <1>8, TextUnits, ConcatEmptySeq DEF UpTexts
  <2> QED
    BY <2>1, BadAlone
<1> QED
  BY <1>2, <1>6, <1>7, <1>8

\* The client writes behind what it has sent: a chunk, or a text for which it is
\* time.  New units come after the header.
LEMMA ClientWrites ==
    ASSUME StreamInv, ~mixed, NEW w \in Seq(Unit), up' = up \o w,
           ~Carries(w, "f"), ~Carries(w, "bad"), ~Carries(w, "file"),
           cPc \in {"send", "await"}, UNCHANGED <<down, sPc, file>>,
           \A skip \in Nat, got \in Nat :
              FileAhead(up, cPc, at, skip, got) => FileAhead(up', cPc', at', skip, got)
    PROVE  Streams'
<1>1. TypeOK /\ Streams /\ Undecided
  BY DEF StreamInv, Inv
<1>2. /\ Len(up') = Len(up) + Len(w) /\ Len(up) \in Nat /\ Len(w) \in Nat
      /\ \A i \in 1 .. Len(up) : up'[i] = up[i]
      /\ \A i \in 1 .. Len(w) : up'[Len(up) + i] = w[i]
      /\ \A m : Carries(up', m) => Carries(up, m) \/ Carries(w, m)
  BY <1>1, StreamTypes, Joined
<1>3. ~Carries(up, "f") /\ \A i \in 1 .. Len(down) : down[i] # "f"
  BY <1>1, ~mixed DEF Streams, CommandTyped, CommandAnswered, Waiting
<1>4. ~Carries(up', "f") /\ \A i \in 1 .. Len(down') : down'[i] # "f"
  BY <1>2, <1>3
<1>5. Announced'
  <2>1. SUFFICES ASSUME Carries(up', "file") PROVE Announced'
    BY DEF Announced
  <2>2. /\ sPc \in {"idle", "dead"} /\ down = <<>>
        /\ 2 <= Len(up) /\ up[1] = Text("file")[1] /\ up[2] = Text("file")[2]
        /\ \A i \in 3 .. Len(up) : up[i].text # "file"
        /\ FileAhead(up, cPc, at, 2, 0)
    BY <1>1, <1>2, <2>1, ~mixed DEF Streams, Announced
  <2>3. FileAhead(up', cPc', at', 2, 0)
    BY <2>2
  <2>4. 2 <= Len(up') /\ up'[1] = up[1] /\ up'[2] = up[2]
    BY <1>2, <2>2
  <2>5. ASSUME NEW i \in 3 .. Len(up') PROVE up'[i].text # "file"
    <3>1. CASE i <= Len(up)
      <4>1. i \in 3 .. Len(up) /\ i \in 1 .. Len(up)
        BY <1>2, <2>5, <3>1
      <4> QED
        BY <1>2, <2>2, <4>1
    <3>2. CASE ~(i <= Len(up))
      <4>1. i - Len(up) \in 1 .. Len(w) /\ up'[Len(up) + (i - Len(up))] = up'[i]
        BY <1>2, <2>5, <3>2
      <4> QED
        BY <1>2, <4>1 DEF Carries
    <3> QED
      BY <3>1, <3>2
  <2> QED
    BY <2>2, <2>3, <2>4, <2>5 DEF Announced
<1>6. Unreadable'
  <2>1. SUFFICES ASSUME Carries(up', "bad") PROVE Unreadable'
    BY DEF Unreadable
  <2>2. /\ sPc \in {"idle", "dead"} /\ down = <<>>
        /\ 2 <= Len(up) /\ up[1] = Text("bad")[1] /\ up[2] = Text("bad")[2]
        /\ \A i \in 3 .. Len(up) : up[i].text \notin {"f", "bad", "file"}
    BY <1>1, <1>2, <2>1, ~mixed DEF Streams, Unreadable
  <2>3. 2 <= Len(up') /\ up'[1] = up[1] /\ up'[2] = up[2]
    BY <1>2, <2>2
  <2>4. ASSUME NEW i \in 3 .. Len(up') PROVE up'[i].text \notin {"f", "bad", "file"}
    <3>1. CASE i <= Len(up)
      <4>1. i \in 3 .. Len(up) /\ i \in 1 .. Len(up)
        BY <1>2, <2>4, <3>1
      <4> QED
        BY <1>2, <2>2, <4>1
    <3>2. CASE ~(i <= Len(up))
      <4>1. i - Len(up) \in 1 .. Len(w) /\ up'[Len(up) + (i - Len(up))] = up'[i]
        BY <1>2, <2>4, <3>2
      <4> QED
        BY <1>2, <4>1 DEF Carries
    <3> QED
      BY <3>1, <3>2
  <2> QED
    BY <2>2, <2>3, <2>4 DEF Unreadable
<1>7. Transferring'
  <2>1. ~Hopeless
    BY DEF Hopeless
  <2>2. sPc \in {"receive", "confirm"} => file.len \in Nat
    BY <1>1, FileExists, UploadAssumption DEF Undecided
  <2> QED
    BY <1>1, <2>1, <2>2, ~mixed DEF Streams, Transferring, FullSize
<1> QED
  BY <1>4, <1>5, <1>6, <1>7 DEF Streams, CommandTyped, CommandAnswered

LEMMA ClientSends ==
    ASSUME StreamInv, ~mixed, ClientSendsChunk \/ ClientAckTimesOut \/ ClientConfirms
    PROVE  Streams'
<1>1. /\ TypeOK /\ Streams /\ at \in Nat /\ at <= FileSize /\ FileSize \in Nat
      /\ up \in Seq(Unit) /\ Chunk \in Nat
  BY StreamTypes DEF StreamInv, Inv
<1>2. CASE ClientSendsChunk
  <2> DEFINE k == Least({Chunk, FileSize - at})
             w == [i \in 1 .. k |-> Data]
  <2>1. /\ cPc = "send" /\ at < FileSize /\ up' = up \o w /\ at' = at + k /\ cPc' = "await"
        /\ UNCHANGED <<down, sPc, file>>
    BY <1>2 DEF ClientSendsChunk, server, stored
  <2>2. FileSize - at \in Nat
    BY <1>1
  <2>3. k \in Nat
    BY <1>1, <2>2, LeastOfTwo
  <2> HIDE DEF k
  <2>4. w \in Seq(Unit) /\ ~Carries(w, "f") /\ ~Carries(w, "bad") /\ ~Carries(w, "file")
    BY <2>3, ChunkUnits
  <2>5. ASSUME NEW skip \in Nat, NEW got \in Nat, FileAhead(up, cPc, at, skip, got)
        PROVE  FileAhead(up', cPc', at', skip, got)
    BY <1>1, <2>1, <2>3, <2>5, FileSent
  <2> HIDE DEF w
  <2> QED
    BY <2>1, <2>4, <2>5, ClientWrites
<1>3. CASE ClientAckTimesOut \/ (ClientConfirms /\ cPc = "send")
  <2>1. PICK m \in {"ACK", "TIMEOUT"} :
          /\ up' = up \o Text(m) /\ cPc \in {"send", "await"}
          /\ cPc' \notin {"send", "await"}
          /\ (m = "ACK" \/ cPc' = "verdict") => at = FileSize
          /\ UNCHANGED <<down, at, sPc, file>>
    BY <1>3 DEF ClientAckTimesOut, ClientConfirms, server, stored
  <2>2. m \in UpTexts /\ m \notin {"f", "bad", "file"}
    BY DEF UpTexts
  <2>3. /\ Text(m) \in Seq(Unit)
        /\ ~Carries(Text(m), "f") /\ ~Carries(Text(m), "bad") /\ ~Carries(Text(m), "file")
    BY <2>2, TextUnits
  <2>4. ASSUME NEW skip \in Nat, NEW got \in Nat, FileAhead(up, cPc, at, skip, got)
        PROVE  FileAhead(up', cPc', at', skip, got)
    BY <1>1, <2>1, <2>2, <2>4, TextBehindFile
  <2> QED
    BY <2>1, <2>3, <2>4, ClientWrites
<1>4. CASE ClientConfirms /\ cPc = "await"
  <2>1. /\ down # <<>> /\ Head(down) # "ACK" /\ down' = Tail(down)
        /\ up' = up \o Text("ACK") /\ UNCHANGED <<sPc, file>>
    BY <1>4 DEF ClientConfirms, server, stored
  <2>2. /\ NoCommand /\ \A i \in 1 .. Len(down') : down'[i] # "f"
        /\ sPc \notin {"receive", "confirm"}
    BY <1>1, <1>4, <2>1, TextForClient
  <2>3. \A n : Carries(up', n) => Carries(up, n) \/ n = "ACK"
    <3>1. Text("ACK") \in Seq(Unit) /\ \A n : Carries(Text("ACK"), n) => n = "ACK"
      BY TextUnits DEF UpTexts
    <3> QED
      BY <1>1, <2>1, <3>1, Joined
  <2>4. NoCommand'
    BY <2>2, <2>3 DEF NoCommand
  <2> QED
    BY <2>1, <2>2, <2>4
       DEF NoCommand, Streams, CommandTyped, CommandAnswered, Announced, Unreadable,
           Transferring
<1>5. ClientConfirms => cPc \in {"send", "await"}
  BY DEF ClientConfirms
<1> QED
  BY <1>2, <1>3, <1>4, <1>5

\* The client gives up or is lost, perhaps with what it had sent.
LEMMA ClientGivesUp ==
    ASSUME StreamInv, ~mixed, ClientVerdictTimesOut \/ ClientCrashes
    PROVE  Streams'
<1>1. TypeOK /\ Streams
  BY DEF StreamInv, Inv
<1>2. /\ UNCHANGED <<down, at, sPc, file>> /\ cPc' \in {"idle", "gone"}
      /\ up' = up \/ up' = <<>>
  BY DEF ClientVerdictTimesOut, ClientCrashes, server, stored
<1>3. CASE up' = up
  <2>1. ASSUME NEW skip, NEW got, FileAhead(up, cPc, at, skip, got)
        PROVE  FileAhead(up', cPc', at', skip, got)
    BY <1>2, <1>3, <2>1, GoesOn
  <2>2. Hopeless => Hopeless'
    BY <1>2, <1>3 DEF Hopeless
  <2>3. Waiting => Waiting'
    BY <1>2 DEF Waiting
  <2>4. Announced'
    BY <1>1, <1>2, <1>3, <2>1, ~mixed DEF Streams, Announced
  <2>5. Transferring'
    BY <1>1, <1>2, <1>3, <2>1, <2>2, ~mixed DEF Streams, Transferring, FullSize
  <2> QED
    BY <1>1, <1>2, <1>3, <2>3, <2>4, <2>5, ~mixed
       DEF Streams, CommandTyped, CommandAnswered, Unreadable
<1>4. CASE up' = <<>>
  <2>1. \A m : ~Carries(up', m)
    BY <1>4, EmptySeq DEF Carries
  <2>2. Hopeless'
    BY <1>2, <2>1 DEF Hopeless
  <2>3. CommandAnswered'
    BY <1>1, <1>2, <1>4, ~mixed DEF Streams, CommandAnswered, Waiting
  <2>4. Transferring'
    BY <1>1, <1>2, <2>2, ~mixed DEF Streams, Transferring
  <2> QED
    BY <2>1, <2>3, <2>4 DEF Streams, CommandTyped, Announced, Unreadable
<1> QED
  BY <1>2, <1>3, <1>4

\* A command that is typed into a transfer ends all that is known; another one
\* is alone in the stream.
LEMMA CommandIsTyped ==
    ASSUME StreamInv, ~mixed, TypeUpload
    PROVE  Streams'
<1>1. CASE mixed'
  BY <1>1 DEF Streams
<1>2. CASE ~mixed'
  <2>1. /\ cPc = "idle" /\ down = <<>> /\ up = <<>> /\ sPc \in {"idle", "dead"}
        /\ up' = up \o Text("f") \/ up' = up \o Text("bad")
        /\ UNCHANGED <<down, cPc, sPc>>
    BY <1>2 DEF TypeUpload, client, server
  <2>2. Len(down') = 0
    BY <2>1
  <2>3. CASE up' = up \o Text("f")
    <3>1. Text("f") \in Seq(Unit) /\ \A n : Carries(Text("f"), n) => n = "f"
      BY TextUnits DEF UpTexts
    <3>2. up' = Text("f")
      BY <2>1, <2>3, <3>1, ConcatEmptySeq
    <3>3. CommandTyped' /\ ~Carries(up', "file") /\ ~Carries(up', "bad")
      BY <2>1, <3>1, <3>2 DEF CommandTyped, Waiting
    <3> QED
      BY <2>1, <2>2, <3>3 DEF Streams, CommandAnswered, Announced, Unreadable, Transferring
  <2>4. CASE up' = up \o Text("bad")
    <3>1. up' = Text("bad") /\ sPc' \in {"idle", "dead"} /\ down' = <<>>
      BY <2>1, <2>4, TextUnits, ConcatEmptySeq DEF UpTexts
    <3> QED
      BY <3>1, BadAlone
  <2> QED
    BY <2>1, <2>3, <2>4
<1> QED
  BY <1>1, <1>2

-----------------------------------------------------------------------------
(* The file that is accepted.                                              *)

\* The confirmation is only read behind the last unit of the file.
LEMMA AcceptingSound ==
    ASSUME StreamInv, ServerAccepts
    PROVE  file.clean \/ mixed
<1>1. sPc = "confirm" /\ up # <<>> /\ up[1].text = "ACK" /\ FullSize /\ TypeOK
  BY DEF ServerAccepts, TextAhead, StreamInv, Inv
<1>2. Carries(up, "ACK")
  BY <1>1, StreamTypes, EmptySeq DEF Carries
<1> QED
  BY <1>1, <1>2 DEF StreamInv, Streams, Transferring, Hopeless

LEMMA IntactStep ==
    ASSUME StreamInv, Next
    PROVE  AcceptedIntact'
<1>1. mixed => mixed'
  BY DEF Next, ClientThread, ServerThread, ClientStarts, ClientSkips, ClientSendsChunk,
         ClientReadsAck, ClientConfirms, ClientAckTimesOut, ClientReadsVerdict,
         ClientVerdictTimesOut, ServerReadsF, ServerReadsBad, ServerReadsHeader,
         ServerCannotOpen, ServerReadsTimeoutText, ServerIgnores, ServerReadsGarbage, ServerEnds,
         ServerReceives, ServerLeavesLoop, ServerWriteFails, ServerReceiveTimesOut, ServerAccepts,
         ServerRejects, ServerConfirmFails,
         TypeUpload, ClientCrashes, console
<1>2. AcceptedIntact /\ Undecided
  BY DEF StreamInv, Inv
<1>3. CASE UNCHANGED <<file, accepted>>
  BY <1>1, <1>2, <1>3 DEF AcceptedIntact
<1>4. CASE ~accepted'
  BY <1>4 DEF AcceptedIntact
<1>5. CASE ServerAccepts
  <2>1. /\ file' = file \/ ~accepted'
        /\ file.len = FileSize
    BY <1>5 DEF ServerAccepts, FullSize, Delete
  <2> QED
    BY <1>1, <1>5, <2>1, AcceptingSound DEF AcceptedIntact
<1>6. Next => UNCHANGED <<file, accepted>> \/ ~accepted' \/ ServerAccepts
  <2>1. CASE ClientThread \/ TypeUpload \/ ClientCrashes
    BY <2>1 DEF ClientThread, ClientStarts, ClientSkips, ClientSendsChunk,
         ClientReadsAck, ClientConfirms, ClientAckTimesOut, ClientReadsVerdict,
         ClientVerdictTimesOut, TypeUpload, ClientCrashes, server, stored
  <2>2. CASE ServerThread
    BY <1>2, <2>2
       DEF ServerThread, ServerReadsF, ServerReadsBad, ServerReadsHeader, ServerCannotOpen,
         ServerReadsTimeoutText, ServerIgnores, ServerReadsGarbage, ServerEnds, ServerReceives,
         ServerLeavesLoop, ServerWriteFails, ServerReceiveTimesOut, ServerRejects,
         ServerConfirmFails, TurnDown, Abort, Delete, server, stored, Undecided
  <2> QED
    BY <2>1, <2>2 DEF Next
<1> QED
  BY <1>3, <1>4, <1>5, <1>6

LEMMA StreamStep ==
    ASSUME StreamInv, Next
    PROVE  Streams'
<1>1. CASE mixed
  BY <1>1 DEF Streams, Next, ClientThread, ServerThread, ClientStarts, ClientSkips,
         ClientSendsChunk, ClientReadsAck, ClientConfirms, ClientAckTimesOut,
         ClientReadsVerdict, ClientVerdictTimesOut, ServerReadsF, ServerReadsBad,
         ServerReadsHeader, ServerCannotOpen, ServerReadsTimeoutText, ServerIgnores,
         ServerReadsGarbage, ServerEnds, ServerReceives, ServerLeavesLoop, ServerWriteFails,
         ServerReceiveTimesOut, ServerAccepts,
         ServerRejects, ServerConfirmFails, TypeUpload, ClientCrashes, console
<1>2. CASE ~mixed /\ ClientThread
  BY <1>2, ClientReads, ClientAnnounces, ClientSends, ClientGivesUp DEF ClientThread
<1>3. CASE ~mixed /\ ServerThread
  BY <1>3, ServerRests, ServerStarts, ServerTransfers DEF ServerThread
<1>4. CASE ~mixed /\ (TypeUpload \/ ClientCrashes)
  BY <1>4, CommandIsTyped, ClientGivesUp
<1> QED
  BY <1>1, <1>2, <1>3, <1>4 DEF Next

\* Unless the user types into a transfer, the two streams are always in one of
\* the stages of the protocol: a command, its answer, the header with what
\* follows, or a transfer in which either the rest of the file comes next or no
\* confirmation will ever come.
THEOREM StreamInvariant == Spec => []StreamInv
<1>1. Init => Streams /\ AcceptedIntact
  BY EmptySeq DEF Init, Streams, CommandTyped, CommandAnswered, Announced, Unreadable,
           Transferring,
                  Carries, AcceptedIntact
<1>2. Streams /\ AcceptedIntact /\ Inv /\ [Next]_vars => (Streams /\ AcceptedIntact)'
  <2> SUFFICES ASSUME StreamInv, [Next]_vars PROVE (Streams /\ AcceptedIntact)'
    BY DEF StreamInv
  <2>1. CASE Next
    BY <2>1, IntactStep, StreamStep
  <2>2. CASE UNCHANGED vars
    BY <2>2 DEF vars, client, server, stored, console, StreamInv, Streams, CommandTyped,
         CommandAnswered, Announced, Unreadable, Transferring, Waiting, Hopeless, FullSize, AcceptedIntact
  <2> QED
    BY <2>1, <2>2
<1>3. StreamInv <=> Inv /\ Streams /\ AcceptedIntact
  BY DEF StreamInv
<1> QED
  BY <1>1, <1>2, <1>3, UploadInvariant, PTL DEF Spec

\* A file that the server has accepted has the announced length and consists of
\* the bytes of the file alone: a TIMEOUT that the client wrote into the stream
\* when it gave up is never both stored and confirmed, whichever side was slow
\* or vanished, as long as the user does not type into the transfer.
THEOREM AcceptedFileIntact == Spec => []AcceptedIntact
<1>1. StreamInv => AcceptedIntact
  BY DEF StreamInv
<1> QED
  BY <1>1, StreamInvariant, PTL
=============================================================================
