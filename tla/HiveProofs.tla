----------------------------- MODULE HiveProofs -----------------------------
(***************************************************************************)
(* The safety of the directory of users, for any number of connections.    *)
(***************************************************************************)
EXTENDS Hive, SequenceTheorems, TLAPS

\* The elements of a sequence are its values at the indices from 1 to its length.
LEMMA ToSetOfSeq ==
    ASSUME NEW S, NEW s \in Seq(S)
    PROVE  ToSet(s) = {s[i] : i \in 1 .. Len(s)}
  BY LenProperties DEF ToSet

\* Removing the element with index i moves those behind it one place forward.
LEMMA RemoveAtValues ==
    ASSUME NEW S, NEW s \in Seq(S), NEW i \in 1 .. Len(s)
    PROVE  /\ Len(s) \in Nat /\ Len(RemoveAt(s, i)) = Len(s) - 1
           /\ RemoveAt(s, i) \in Seq(S)
           /\ \A k \in 1 .. Len(s) - 1 :
                 RemoveAt(s, i)[k] = IF k < i THEN s[k] ELSE s[k + 1]
<1> DEFINE a == SubSeq(s, 1, i - 1)
           b == SubSeq(s, i + 1, Len(s))
<1>1. RemoveAt(s, i) = a \o b
  BY DEF RemoveAt
<1>2. Len(s) \in Nat /\ \A k \in 1 .. Len(s) : s[k] \in S
  BY LenProperties, ElementOfSeq
<1>3. /\ a \in Seq(S) /\ Len(a) = i - 1
      /\ \A k \in 1 .. i - 1 : a[k] = s[k]
  <2>1. \A k \in 1 .. i - 1 : s[k] \in S
    BY <1>2
  <2> QED
    BY <1>2, <2>1, SubSeqProperties
<1>4. /\ b \in Seq(S) /\ Len(b) = Len(s) - i
      /\ \A k \in 1 .. Len(s) - i : b[k] = s[i + k]
  <2>1. \A k \in i + 1 .. Len(s) : s[k] \in S
    BY <1>2
  <2> QED
    BY <1>2, <2>1, SubSeqProperties
<1> HIDE DEF a, b
<1>5. /\ a \o b \in Seq(S)
      /\ Len(a \o b) = Len(s) - 1
      /\ \A k \in 1 .. Len(s) - 1 :
            (a \o b)[k] = IF k <= i - 1 THEN a[k] ELSE b[k - (i - 1)]
  <2>1. /\ a \o b \in Seq(S)
        /\ Len(a \o b) = Len(a) + Len(b)
        /\ \A k \in 1 .. Len(a) + Len(b) :
              (a \o b)[k] = IF k <= Len(a) THEN a[k] ELSE b[k - Len(a)]
    BY <1>3, <1>4, ConcatProperties
  <2>2. Len(a) + Len(b) = Len(s) - 1
    BY <1>2, <1>3, <1>4
  <2> QED
    BY <1>3, <2>1, <2>2
<1>6. ASSUME NEW k \in 1 .. Len(s) - 1
      PROVE  (a \o b)[k] = IF k < i THEN s[k] ELSE s[k + 1]
  <2>1. CASE k < i
    BY <2>1, <1>2, <1>3, <1>5
  <2>2. CASE ~(k < i)
    <3>1. k - (i - 1) \in 1 .. Len(s) - i /\ i + (k - (i - 1)) = k + 1 /\ ~(k <= i - 1)
      BY <2>2, <1>2
    <3>2. (a \o b)[k] = b[k - (i - 1)]
      BY <3>1, <1>5
    <3>3. b[k - (i - 1)] = s[k + 1]
      BY <3>1, <1>4
    <3> QED
      BY <2>2, <3>2, <3>3
  <2> QED
    BY <2>1, <2>2
<1> QED
  BY <1>1, <1>2, <1>5, <1>6

\* Removing an element by its index leaves a sequence and adds no element.
LEMMA RemoveAtType ==
    ASSUME NEW S, NEW s \in Seq(S), NEW i \in 1 .. Len(s)
    PROVE  /\ RemoveAt(s, i) \in Seq(S)
           /\ ToSet(RemoveAt(s, i)) \subseteq ToSet(s)
<1> DEFINE t == RemoveAt(s, i)
<1>1. /\ Len(s) \in Nat /\ Len(t) = Len(s) - 1 /\ t \in Seq(S)
      /\ \A k \in 1 .. Len(s) - 1 : t[k] = IF k < i THEN s[k] ELSE s[k + 1]
  BY RemoveAtValues
<1> HIDE DEF t
<1>2. \A k \in 1 .. Len(s) - 1 : \E j \in 1 .. Len(s) : t[k] = s[j]
  BY <1>1
<1>3. ToSet(t) = {t[k] : k \in 1 .. Len(s) - 1} /\ ToSet(s) = {s[k] : k \in 1 .. Len(s)}
  BY <1>1, ToSetOfSeq
<1> QED
  BY <1>1, <1>2, <1>3 DEF t

\* Appending adds one element.
LEMMA AppendToSet ==
    ASSUME NEW S, NEW s \in Seq(S), NEW e \in S
    PROVE  /\ Append(s, e) \in Seq(S)
           /\ ToSet(Append(s, e)) = ToSet(s) \cup {e}
<1>1. /\ Append(s, e) \in Seq(S)
      /\ Len(Append(s, e)) = Len(s) + 1
      /\ \A i \in 1 .. Len(s) : Append(s, e)[i] = s[i]
      /\ Append(s, e)[Len(s) + 1] = e
      /\ Len(s) \in Nat
  BY AppendProperties, LenProperties
<1>2. ToSet(Append(s, e)) = {Append(s, e)[i] : i \in 1 .. Len(s) + 1}
  BY <1>1, ToSetOfSeq
<1>3. ToSet(s) = {s[i] : i \in 1 .. Len(s)}
  BY ToSetOfSeq
<1> QED
  BY <1>1, <1>2, <1>3

\* Marking a message as read changes neither its addressee nor the mailbox's shape.
LEMMA MarkType ==
    ASSUME NEW s \in Seq(Message), NEW k
    PROVE  LET t == [s EXCEPT ![k].read = TRUE]
           IN  /\ t \in Seq(Message)
               /\ DOMAIN t = DOMAIN s
               /\ \A i \in DOMAIN s : t[i].to = s[i].to
<1> DEFINE t == [s EXCEPT ![k].read = TRUE]
<1>1. /\ Len(s) \in Nat /\ DOMAIN s = 1 .. Len(s)
      /\ \A i \in 1 .. Len(s) : s[i] \in Message
  BY LenProperties, ElementOfSeq
<1>2. DOMAIN t = DOMAIN s
  OBVIOUS
<1>3. \A i \in DOMAIN s : t[i] = IF i = k THEN [s[i] EXCEPT !.read = TRUE] ELSE s[i]
  OBVIOUS
<1>4. \A i \in DOMAIN s : t[i] \in Message /\ t[i].to = s[i].to
  BY <1>1, <1>3 DEF Message
<1>5. t \in [1 .. Len(s) -> Message]
  BY <1>1, <1>2, <1>4
<1>6. t \in Seq(Message)
  BY <1>1, <1>5, SeqDef
<1> QED
  BY <1>2, <1>4, <1>6

\* The list of the server holds connections only.
LEMMA ListedConns == ASSUME TypeOK PROVE Listed \subseteq Conns
  BY LenProperties, ElementOfSeq DEF TypeOK, Listed, ToSet

\* What next() returns is an element of the list.
LEMMA ElementListed ==
    ASSUME TypeOK, NEW i \in Iterator, CanNext(i)
    PROVE  Element(i) \in Listed /\ Element(i) \in Conns /\ i.at + 1 \in 1 .. Len(users)
<1>1. Len(users) \in Nat /\ DOMAIN users = 1 .. Len(users)
  BY LenProperties DEF TypeOK
<1>2. i.at \in Nat /\ i.at < Len(users)
  BY DEF CanNext, Iterator
<1>3. i.at + 1 \in 1 .. Len(users)
  BY <1>1, <1>2
<1>4. users[i.at + 1] \in Listed
  BY <1>1, <1>3 DEF Listed, ToSet
<1> QED
  BY <1>3, <1>4, ListedConns DEF Element

\* Iterators stay iterators.
LEMMA IteratorTypes ==
    /\ NoIter \in Iterator
    /\ \A i \in Iterator : Advance(i) \in Iterator
    /\ \A i \in Iterator : modCount \in Nat => UpToDate(i) \in Iterator
  BY DEF NoIter, Iterator, Advance, UpToDate

\* The labels an action jumps to by name.
LEMMA LabelTypes ==
    {"login", "online", "before", "copy", "remove", "setId", "add", "reject",
     "rejected", "cmd", "list", "scan", "find", "deliver", "cast", "show", "mark",
     "reply", "showReply", "files", "kicked", "end"} \subseteq Labels
  BY DEF Labels, LoginSteps, LoginLoops, CommandSteps, CommandLoops

\* Every step of a thread keeps the types.
LEMMA TypeStep ==
    ASSUME Inv, NEW c \in Conns, Worker(c) \/ Input(c) \/ FileThreadReadsEOF(c)
    PROVE  TypeOK'
<1> USE DEF directory, fields, store, link, request, ghosts, Goto, SetIt
<1>1. TypeOK
  BY DEF Inv
<1>2. it[c] \in Iterator /\ outer[c] \in Iterator
  BY <1>1 DEF TypeOK
<1>3. /\ Advance(it[c]) \in Iterator /\ Advance(outer[c]) \in Iterator
      /\ UpToDate(it[c]) \in Iterator /\ NoIter \in Iterator
  BY <1>1, <1>2, IteratorTypes DEF TypeOK
<1>4. CanNext(it[c]) => Element(it[c]) \in Conns
  BY <1>1, <1>2, ElementListed
<1>5. CASE OpenIterator(c)
  <2>1. modCount \in Nat /\ Len(Mailbox(c)) \in Nat
    BY <1>1, LenProperties DEF TypeOK, Mailbox
  <2>2. /\ [at |-> 0, mod |-> modCount] \in Iterator
        /\ [at |-> 0, mod |-> Len(Mailbox(c))] \in Iterator
    BY <2>1 DEF Iterator
  <2>3. it' \in [Conns -> Iterator]
    BY <1>1, <1>5, <2>2, ZenonT(60) DEF TypeOK, OpenIterator
  <2>4. outer' \in [Conns -> Iterator]
    BY <1>1, <1>5, <2>2 DEF TypeOK, OpenIterator
  <2> QED
    BY <1>1, <1>5, <2>3, <2>4 DEF TypeOK, OpenIterator
<1>6. CASE ReadId(c)
  BY <1>1, <1>3, LabelTypes, <1>6 DEF TypeOK, ReadId
<1>7. CASE ReadBadId(c)
  BY <1>1, <1>3, LabelTypes, <1>7 DEF TypeOK, ReadBadId
<1>8. CASE LoginIOError(c)
  BY <1>1, <1>3, LabelTypes, <1>8 DEF TypeOK, LoginIOError
<1>9. CASE LoginDies(c)
  BY <1>1, <1>3, LabelTypes, <1>9 DEF TypeOK, LoginDies
<1>10. CASE IsAlreadyLoggedIn(c)
  <2>1. it' \in [Conns -> Iterator]
    BY <1>1, <1>2, <1>10, <1>3, ZenonT(60) DEF TypeOK, Scan, IsAlreadyLoggedIn
  <2>2. pc' \in [Conns -> Labels]
    BY <1>1, <1>2, <1>10, LabelTypes DEF TypeOK, Scan, IsAlreadyLoggedIn
  <2> QED
    BY <1>1, <1>10, <2>1, <2>2 DEF TypeOK, Scan, IsAlreadyLoggedIn
<1>11. CASE Reject(c)
  BY <1>1, <1>3, LabelTypes, <1>11 DEF TypeOK, Reject
<1>12. CASE HasLoggedInBefore(c)
  <2>1. it' \in [Conns -> Iterator]
    BY <1>1, <1>2, <1>12, <1>3 DEF TypeOK, Scan, HasLoggedInBefore
  <2>2. pc' \in [Conns -> Labels]
    BY <1>1, <1>2, <1>12, LabelTypes DEF TypeOK, Scan, HasLoggedInBefore
  <2> QED
    BY <1>1, <1>12, <2>1, <2>2 DEF TypeOK, Scan, HasLoggedInBefore
<1>13. CASE TakeOver(c)
  <2>1. it' \in [Conns -> Iterator]
    BY <1>1, <1>2, <1>13, <1>3 DEF TypeOK, Scan, TakeOver
  <2>2. pc' \in [Conns -> Labels]
    BY <1>1, <1>2, <1>13, LabelTypes DEF TypeOK, Scan, TakeOver
  <2>3. CanNext(it[c]) => box[Element(it[c])] \in Conns
    BY <1>1, <1>4 DEF TypeOK
  <2>4. box' \in [Conns -> Conns]
    BY <1>1, <1>13, <2>3 DEF TypeOK, Scan, TakeOver
  <2> QED
    BY <1>1, <1>13, <2>1, <2>2, <2>4 DEF TypeOK, Scan, TakeOver
<1>14. CASE RemoveUser(c)
  <2>1. it' \in [Conns -> Iterator]
    BY <1>1, <1>2, <1>14, <1>3, ZenonT(60) DEF TypeOK, RemoveUser
  <2>2. pc' \in [Conns -> Labels]
    BY <1>1, <1>2, <1>14, LabelTypes DEF TypeOK, RemoveUser
  <2>3. users' \in Seq(Conns)
    BY <1>1, <1>2, <1>14, ElementListed, RemoveAtType DEF TypeOK, RemoveUser
  <2>4. modCount' \in Nat
    BY <1>1, <1>2, <1>14 DEF TypeOK, RemoveUser
  <2> QED
    BY <1>1, <1>14, <2>1, <2>2, <2>3, <2>4 DEF TypeOK, RemoveUser
<1>15. CASE SetId(c)
  <2>1. typed[c] \in Ids
    BY <1>1, <1>15 DEF TypeOK, SetId, Inv, Stages, Stage, LoginSteps
  <2>2. id' \in [Conns -> Ids \cup {NoId}] /\ folders' \subseteq Ids \X Directories
    BY <1>1, <1>15, <2>1 DEF TypeOK, SetId
  <2>3. pc' \in [Conns -> Labels]
    BY <1>1, <1>15, LabelTypes DEF TypeOK, SetId
  <2> QED
    BY <1>1, <1>15, <2>2, <2>3 DEF TypeOK, SetId
<1>16. CASE AddUser(c)
  BY <1>1, <1>3, LabelTypes, AppendProperties, <1>16 DEF TypeOK, AddUser
<1>17. CASE ReadList(c)
  <2>1. pc' \in [Conns -> Labels]
    BY <1>1, <1>2, <1>17, LabelTypes DEF TypeOK, ReadList, Start
  <2>2. it' \in [Conns -> Iterator]
    BY <1>1, <1>2, <1>17, <1>3 DEF TypeOK, ReadList, Start
  <2>3. cmd' \in [Conns -> Commands]
    BY <1>1, <1>2, <1>17 DEF TypeOK, ReadList, Start, Commands
  <2> QED
    BY <1>1, <1>17, <2>1, <2>2, <2>3 DEF TypeOK, ReadList, Start
<1>18. CASE ReadOwnFiles(c)
  <2>1. pc' \in [Conns -> Labels]
    BY <1>1, <1>2, <1>18, LabelTypes DEF TypeOK, ReadOwnFiles, Start
  <2>2. it' \in [Conns -> Iterator]
    BY <1>1, <1>2, <1>18, <1>3 DEF TypeOK, ReadOwnFiles, Start
  <2>3. cmd' \in [Conns -> Commands]
    BY <1>1, <1>2, <1>18 DEF TypeOK, ReadOwnFiles, Start, Commands
  <2> QED
    BY <1>1, <1>18, <2>1, <2>2, <2>3 DEF TypeOK, ReadOwnFiles, Start
<1>19. CASE ReadLookup(c)
  BY <1>1, <1>3, LabelTypes, <1>19 DEF TypeOK, ReadLookup, Start, Commands
<1>20. CASE ReadSend(c)
  BY <1>1, <1>3, LabelTypes, <1>20 DEF TypeOK, ReadSend, Start, Commands
<1>21. CASE ReadFileRequest(c)
  BY <1>1, <1>3, LabelTypes, <1>21 DEF TypeOK, ReadFileRequest, Start, Commands
<1>22. CASE ReadShow(c)
  BY <1>1, <1>3, LabelTypes, <1>22 DEF TypeOK, ReadShow, Start, Commands
<1>23. CASE ReadExit(c)
  BY <1>1, <1>3, LabelTypes, <1>23 DEF TypeOK, ReadExit
<1>24. CASE ReadMalformed(c)
  BY <1>1, <1>3, LabelTypes, <1>24 DEF TypeOK, ReadMalformed, Kick, Clear, Commands
<1>25. CASE SocketFails(c)
  BY <1>1, <1>3, LabelTypes, <1>25 DEF TypeOK, SocketFails, Kick, Clear, Commands
<1>26. CASE CommandFails(c)
  BY <1>1, <1>3, LabelTypes, <1>26 DEF TypeOK, CommandFails, Kick, Clear, Commands
<1>27. CASE GetUsers(c)
  <2>1. it' \in [Conns -> Iterator]
    BY <1>1, <1>2, <1>27, <1>3 DEF TypeOK, Scan, GetUsers
  <2>2. pc' \in [Conns -> Labels]
    BY <1>1, <1>2, <1>27, LabelTypes DEF TypeOK, Scan, GetUsers
  <2> QED
    BY <1>1, <1>27, <2>1, <2>2 DEF TypeOK, Scan, GetUsers
<1>28. CASE IsAValidUser(c)
  <2>1. it' \in [Conns -> Iterator]
    BY <1>1, <1>2, <1>28, <1>3, ZenonT(60) DEF TypeOK, Scan, IsAValidUser
  <2>2. pc' \in [Conns -> Labels]
    BY <1>1, <1>2, <1>28, LabelTypes, ZenonT(60) DEF TypeOK, Scan, IsAValidUser
  <2> QED
    BY <1>1, <1>28, <2>1, <2>2 DEF TypeOK, Scan, IsAValidUser
<1>29. CASE FindUser(c)
  <2>1. it' \in [Conns -> Iterator]
    BY <1>1, <1>2, <1>29, <1>3, ZenonT(60) DEF TypeOK, FindUser
  <2>2. pc' \in [Conns -> Labels]
    BY <1>1, <1>2, <1>29, LabelTypes, ZenonT(60) DEF TypeOK, FindUser
  <2>3. target' \in [Conns -> Conns]
    BY <1>1, <1>2, <1>29, <1>4, ZenonT(60) DEF TypeOK, FindUser
  <2> QED
    BY <1>1, <1>29, <2>1, <2>2, <2>3 DEF TypeOK, FindUser
<1>30. CASE FindUserFails(c)
  BY <1>1, <1>3, LabelTypes, <1>30 DEF TypeOK, FindUserFails, Kick, Clear, Commands
<1>31. CASE Deliver(c)
  BY <1>1, <1>3, LabelTypes, AppendProperties, <1>31 DEF TypeOK, Deliver, Inv, Stages, Stage, Message, CommandSteps
<1>32. CASE Broadcast(c)
  <2>1. outer' \in [Conns -> Iterator]
    BY <1>1, <1>2, <1>32, <1>3, ZenonT(60) DEF TypeOK, Broadcast
  <2>2. pc' \in [Conns -> Labels]
    BY <1>1, <1>2, <1>32, LabelTypes, ZenonT(60) DEF TypeOK, Broadcast
  <2>3. to' \in [Conns -> Ids \cup {NoId}]
    <3>1. CanNext(outer[c]) => id[Element(outer[c])] \in Ids \cup {NoId}
      BY <1>1, <1>2, ElementListed DEF TypeOK
    <3> QED
      BY <1>1, <1>32, <3>1 DEF TypeOK, Broadcast
  <2> QED
    BY <1>1, <1>32, <2>1, <2>2, <2>3 DEF TypeOK, Broadcast
<1>33. CASE ShowTest(c)
  <2>1. it' \in [Conns -> Iterator]
    BY <1>1, <1>2, <1>33, <1>3, ZenonT(60) DEF TypeOK, ShowTest
  <2>2. pc' \in [Conns -> Labels]
    BY <1>1, <1>2, <1>33, LabelTypes, ZenonT(60) DEF TypeOK, ShowTest
  <2>3. batch' \in [Conns -> SUBSET Nat]
    <3>1. it[c].at \in Nat
      BY <1>1, <1>2 DEF TypeOK, Iterator
    <3>2. it[c].at + 1 \in Nat
      BY <3>1
    <3>3. batch' = batch \/ batch' = [batch EXCEPT ![c] = @ \cup {it[c].at + 1}]
      BY <1>33 DEF ShowTest
    <3>4. batch \in [Conns -> SUBSET Nat]
      BY <1>1 DEF TypeOK
    <3> QED
      BY <3>2, <3>3, <3>4
  <2>4. UNCHANGED <<users, modCount, id, online, box, mail, folders, connected, fileThread,
                    typed, outer, cmd, to, target, seen, abandoned, sent>>
    BY <1>33 DEF ShowTest, directory, fields, store, link, ghosts
  <2> QED
    BY <1>1, <2>1, <2>2, <2>3, <2>4 DEF TypeOK
<1>34. CASE ShowMark(c)
  <2>1. it' \in [Conns -> Iterator]
    BY <1>1, <1>2, <1>34, <1>3 DEF TypeOK, ShowMark
  <2>2. pc' \in [Conns -> Labels]
    BY <1>1, <1>2, <1>34, LabelTypes DEF TypeOK, ShowMark
  <2>3. mail' \in [Conns -> Seq(Message)]
    <3>1. box[c] \in Conns /\ mail[box[c]] \in Seq(Message)
      BY <1>1 DEF TypeOK
    <3> DEFINE t == [mail[box[c]] EXCEPT ![it[c].at + 1].read = TRUE]
    <3>2. t \in Seq(Message)
      BY <3>1, MarkType
    <3>3. mail' = [mail EXCEPT ![box[c]] = t]
      BY <1>34 DEF ShowMark
    <3> HIDE DEF t
    <3> QED
      BY <1>1, <3>1, <3>2, <3>3 DEF TypeOK
  <2> QED
    BY <1>1, <1>34, <2>1, <2>2, <2>3 DEF TypeOK, ShowMark
<1>35. CASE ShowReply(c)
  BY <1>1, <1>3, LabelTypes, <1>35 DEF TypeOK, ShowReply, Clear, Commands
<1>36. CASE Reply(c)
  BY <1>1, <1>3, LabelTypes, <1>36 DEF TypeOK, Reply, Clear, Commands
<1>40. CASE LookupFiles(c)
  <2>1. CASE Kick(c) /\ UNCHANGED link
    BY <1>1, <1>3, LabelTypes, <2>1 DEF TypeOK, Kick, Clear, Commands
  <2>2. CASE /\ Goto(c, "reply")
             /\ UNCHANGED <<directory, fields, store, link, typed, it, outer, request, ghosts>>
    BY <1>1, LabelTypes, <2>2 DEF TypeOK
  <2> QED
    BY <1>40, <2>1, <2>2 DEF LookupFiles, Kick
<1>37. CASE FileThreadReadsEOF(c)
  BY <1>1, <1>3, LabelTypes, <1>37 DEF TypeOK, FileThreadReadsEOF, FileThreadEnds
<1>38. CASE FileThreadFails(c)
  BY <1>1, <1>3, LabelTypes, <1>38 DEF TypeOK, FileThreadFails, FileThreadEnds
<1>39. CASE Disconnect(c)
  BY <1>1, <1>3, LabelTypes, <1>39 DEF TypeOK, Disconnect
<1> QED
  BY <1>5, <1>6, <1>7, <1>8, <1>9, <1>10, <1>11, <1>12, <1>13, <1>14, <1>15, <1>16, <1>17, <1>18, <1>19, <1>20, <1>21, <1>22, <1>23, <1>24, <1>25, <1>26, <1>27, <1>28, <1>29, <1>30, <1>31, <1>32, <1>33, <1>34, <1>35, <1>36, <1>37, <1>38, <1>39, <1>40 DEF Worker, Login, Command, Input

\* Ownership only reads the mailboxes and the fields of the request.
LEMMA MailFrame ==
    ASSUME NEW c \in Conns, Worker(c) \/ Input(c) \/ FileThreadReadsEOF(c),
           ~ReadId(c), ~TakeOver(c), ~Deliver(c), ~ShowMark(c)
    PROVE  UNCHANGED <<typed, box, mail>>
  BY DEF Worker, Login, Command, Input, OpenIterator, IsAlreadyLoggedIn,
         HasLoggedInBefore, RemoveUser, SetId, AddUser, Reject, LoginDies,
         LoginIOError, GetUsers, IsAValidUser, FindUser, FindUserFails, Broadcast,
         ShowTest, ShowReply, Reply, LookupFiles, CommandFails,
         SocketFails, ReadBadId, ReadList,
         ReadOwnFiles, ReadLookup, ReadSend, ReadFileRequest, ReadShow, ReadExit,
         ReadMalformed, FileThreadFails, FileThreadReadsEOF, FileThreadEnds,
         Disconnect, Start, Kick, fields, store, directory, request, link, ghosts

\* Every step keeps each mailbox, and each message on its way, with its addressee.
LEMMA OwnershipStep ==
    ASSUME Inv, NEW c \in Conns, Worker(c) \/ Input(c) \/ FileThreadReadsEOF(c)
    PROVE  Ownership'
<1>1. TypeOK /\ Ownership /\ ListedIds /\ Stages
  BY DEF Inv
<1>2. CASE ReadId(c)
  <2>1. PICK i \in Ids : typed' = [typed EXCEPT ![c] = i]
    BY <1>2 DEF ReadId
  <2>2. i # NoId /\ typed[c] = NoId /\ box[c] = c
    BY <1>1, <1>2, HiveAssumption DEF ReadId, Stages, Stage, Ownership
  <2>3. \A d \in Conns : box[d] = c => d = c
    BY <1>1, <2>2 DEF Ownership
  <2>4. DOMAIN mail[c] = {}
    <3>1. \A k \in DOMAIN mail[c] : mail[c][k].to = NoId
      BY <1>1, <2>2 DEF Ownership
    <3>2. \A k \in DOMAIN mail[c] : mail[c][k] \in Message
      BY <1>1, LenProperties, ElementOfSeq DEF TypeOK
    <3> QED
      BY <3>1, <3>2, HiveAssumption DEF Message
  <2>5. box' = box /\ mail' = mail
    BY <1>2 DEF ReadId, fields, store
  <2>6. \A d \in Conns : typed'[d] = IF d = c THEN i ELSE typed[d]
    BY <1>1, <2>1 DEF TypeOK
  <2> QED
    BY <1>1, <2>2, <2>3, <2>4, <2>5, <2>6 DEF Ownership, TypeOK
<1>3. CASE TakeOver(c)
  <2>1. typed' = typed /\ mail' = mail
    BY <1>3 DEF TakeOver, store
  <2>2. typed[c] # NoId
    BY <1>1, <1>3 DEF TakeOver, Stages, Stage, LoginSteps, LoginLoops
  <2>3. CASE box' = box
    BY <1>1, <2>1, <2>3 DEF Ownership
  <2>4. ASSUME NEW u \in Listed, u \in Conns, id[u] = typed[c],
               box' = [box EXCEPT ![c] = box[u]]
        PROVE  Ownership'
    <3>1. typed[u] = typed[c] /\ typed[box[u]] = typed[u]
      BY <1>1, <2>4 DEF ListedIds, Ownership
    <3>2. \A d \in Conns : box'[d] = IF d = c THEN box[u] ELSE box[d]
      BY <1>1, <2>4 DEF TypeOK
    <3> QED
      BY <1>1, <2>1, <2>2, <3>1, <3>2 DEF Ownership
  <2>5. it[c] \in Iterator
    BY <1>1 DEF TypeOK
  <2>6. CanNext(it[c]) => Element(it[c]) \in Listed /\ Element(it[c]) \in Conns
    BY <1>1, <2>5, ElementListed
  <2>7. CASE CanNext(it[c]) /\ IsEarlier(c, Element(it[c]))
    BY <1>3, <2>4, <2>6, <2>7 DEF TakeOver, IsEarlier
  <2>8. CASE ~(CanNext(it[c]) /\ IsEarlier(c, Element(it[c])))
    BY <1>3, <2>3, <2>8 DEF TakeOver
  <2> QED
    BY <2>7, <2>8
<1>4. CASE Deliver(c)
  <2> DEFINE b == box[target[c]]
             m == [from |-> id[c], to |-> to[c], read |-> FALSE]
  <2>1. typed' = typed /\ box' = box /\ mail' = [mail EXCEPT ![b] = Append(@, m)]
    BY <1>4 DEF Deliver, fields
  <2>2. target[c] \in Conns /\ b \in Conns /\ typed[b] = to[c] /\ m \in Message
    BY <1>1, <1>4 DEF Deliver, Stages, Stage, Ownership, TypeOK, Message, CommandSteps
  <2>3. \A k \in DOMAIN Append(mail[b], m) : Append(mail[b], m)[k].to = typed[b]
    <3>1. mail[b] \in Seq(Message)
      BY <1>1, <2>2 DEF TypeOK
    <3>2. \A k \in 1 .. Len(mail[b]) : mail[b][k].to = typed[b]
      BY <1>1, <2>2, <3>1, LenProperties DEF Ownership
    <3>3. /\ DOMAIN Append(mail[b], m) = 1 .. Len(mail[b]) + 1
          /\ Len(mail[b]) \in Nat
          /\ \A k \in 1 .. Len(mail[b]) : Append(mail[b], m)[k] = mail[b][k]
          /\ Append(mail[b], m)[Len(mail[b]) + 1] = m
      BY <2>2, <3>1, AppendProperties, LenProperties
    <3>4. m.to = typed[b]
      BY <2>2
    <3> HIDE DEF m, b
    <3> QED
      BY <3>2, <3>3, <3>4
  <2>4. \A v \in Conns : mail'[v] = IF v = b THEN Append(mail[b], m) ELSE mail[v]
    BY <1>1, <2>1, <2>2 DEF TypeOK
  <2> HIDE DEF m, b
  <2> QED
    BY <1>1, <2>1, <2>2, <2>3, <2>4 DEF Ownership
<1>5. CASE ShowMark(c)
  <2> DEFINE k == it[c].at + 1
             t == [mail[box[c]] EXCEPT ![k].read = TRUE]
  <2>1. typed' = typed /\ box' = box /\ mail' = [mail EXCEPT ![box[c]] = t]
    BY <1>5 DEF ShowMark, fields
  <2>2. box[c] \in Conns /\ mail[box[c]] \in Seq(Message)
    BY <1>1 DEF TypeOK
  <2>3. /\ DOMAIN t = DOMAIN mail[box[c]]
        /\ \A i \in DOMAIN mail[box[c]] : t[i].to = mail[box[c]][i].to
    BY <2>2, MarkType
  <2> HIDE DEF t
  <2>4. \A v \in Conns : mail'[v] = IF v = box[c] THEN t ELSE mail[v]
    BY <1>1, <2>1, <2>2 DEF TypeOK
  <2> QED
    BY <1>1, <2>1, <2>2, <2>3, <2>4 DEF Ownership
<1>6. CASE UNCHANGED <<typed, box, mail>>
  BY <1>1, <1>6, SMTT(60) DEF Ownership
<1> QED
  BY <1>2, <1>3, <1>4, <1>5, <1>6, MailFrame

\* Only removeUser and users.add change the list.
LEMMA DirectoryFrame ==
    ASSUME NEW c \in Conns, Worker(c) \/ Input(c) \/ FileThreadReadsEOF(c),
           ~RemoveUser(c), ~AddUser(c)
    PROVE  users' = users /\ modCount' = modCount
  BY DEF Worker, Login, Command, Input, OpenIterator, IsAlreadyLoggedIn,
         HasLoggedInBefore, TakeOver, ReadId, SetId, Reject, LoginDies, Deliver,
         LoginIOError, GetUsers, IsAValidUser, FindUser, FindUserFails, Broadcast,
         ShowTest, ShowMark, ShowReply, Reply, LookupFiles, CommandFails,
         SocketFails, ReadBadId,
         ReadList, ReadOwnFiles, ReadLookup, ReadSend, ReadFileRequest, ReadShow,
         ReadExit, ReadMalformed, FileThreadFails, FileThreadReadsEOF,
         FileThreadEnds, Disconnect, Start, Kick, directory

\* users.add lists one connection, every other step at most takes one away.
LEMMA ListedStep ==
    ASSUME TypeOK, NEW c \in Conns, Worker(c) \/ Input(c) \/ FileThreadReadsEOF(c)
    PROVE  IF AddUser(c) THEN Listed' = Listed \cup {c} ELSE Listed' \subseteq Listed
<1>1. CASE AddUser(c)
  BY <1>1, AppendToSet DEF AddUser, TypeOK, Listed
<1>2. CASE RemoveUser(c) /\ ~AddUser(c)
  <2>1. CASE users' = users
    BY <1>2, <2>1 DEF Listed
  <2>2. CASE CanNext(it[c]) /\ users' = RemoveAt(users, it[c].at + 1)
    <3>1. users \in Seq(Conns) /\ it[c].at + 1 \in 1 .. Len(users)
      BY <2>2, ElementListed DEF TypeOK
    <3> QED
      BY <1>2, <2>2, <3>1, RemoveAtType DEF Listed
  <2> QED
    BY <1>2, <2>1, <2>2 DEF RemoveUser, directory
<1>3. CASE ~AddUser(c) /\ ~RemoveUser(c)
  BY <1>3, DirectoryFrame DEF Listed
<1> QED
  BY <1>1, <1>2, <1>3

\* A step of one connection leaves the stage of every other one as it is.
LEMMA OtherFrame ==
    ASSUME TypeOK, NEW c \in Conns, Worker(c) \/ Input(c) \/ FileThreadReadsEOF(c),
           NEW d \in Conns, d # c
    PROVE  /\ UNCHANGED <<pc[d], id[d], connected[d], to[d], target[d]>>
           /\ UNCHANGED <<typed[d], online[d], fileThread[d]>>
  BY SMTT(60) DEF Worker, Login, Command, Input, OpenIterator, IsAlreadyLoggedIn,
         HasLoggedInBefore, TakeOver, RemoveUser, SetId, AddUser, Reject, LoginDies,
         LoginIOError, GetUsers, IsAValidUser, FindUser, FindUserFails, Broadcast,
         Deliver, ShowTest, ShowMark, ShowReply, Reply, LookupFiles, CommandFails,
         SocketFails,
         ReadId, ReadBadId, ReadList, ReadOwnFiles, ReadLookup, ReadSend,
         ReadFileRequest, ReadShow, ReadExit, ReadMalformed, FileThreadFails,
         FileThreadReadsEOF, FileThreadEnds, Disconnect, Start, Kick, Clear, Goto, Scan,
         fields, request, link, ghosts, TypeOK

\* Only ReadId changes what was typed and only setId an id.
LEMMA OwnFrame ==
    ASSUME Inv, NEW c \in Conns, Worker(c) \/ Input(c) \/ FileThreadReadsEOF(c)
    PROVE  /\ ReadId(c) \/ typed' = typed
           /\ SetId(c) \/ id' = id
  BY DEF Worker, Login, Command, Input, OpenIterator, IsAlreadyLoggedIn,
         HasLoggedInBefore, TakeOver, RemoveUser, SetId, AddUser, Reject, LoginDies,
         LoginIOError, GetUsers, IsAValidUser, FindUser, FindUserFails, Broadcast,
         Deliver, ShowTest, ShowMark, ShowReply, Reply, LookupFiles, CommandFails,
         SocketFails,
         ReadId, ReadBadId, ReadList, ReadOwnFiles, ReadLookup, ReadSend,
         ReadFileRequest, ReadShow, ReadExit, ReadMalformed, FileThreadFails,
         FileThreadReadsEOF, FileThreadEnds, Disconnect, Start, Kick,
         fields, store

\* Every step keeps the ids of the listed connections set.
LEMMA ListedIdsStep ==
    ASSUME Inv, NEW c \in Conns, Worker(c) \/ Input(c) \/ FileThreadReadsEOF(c)
    PROVE  ListedIds'
<1>1. TypeOK /\ ListedIds /\ Stage(c) /\ Listed \subseteq Conns
  BY ListedConns DEF Inv, Stages
<1>3. ASSUME NEW d \in Listed', d # c
      PROVE  id'[d] = typed'[d] /\ typed'[d] # NoId
  <2>1. d \in Listed
    BY <1>1, <1>3, ListedStep
  <2> QED
    BY <1>1, <1>3, <2>1, OtherFrame DEF ListedIds
<1>4. ASSUME c \in Listed'
      PROVE  id'[c] = typed'[c] /\ typed'[c] # NoId
  <2>1. CASE AddUser(c)
    BY <1>1, <2>1 DEF AddUser, Stage, fields, LoginSteps
  <2>2. CASE ~AddUser(c)
    <3>1. c \in Listed
      BY <1>1, <1>4, <2>2, ListedStep
    <3>2. ~ReadId(c)
      BY <1>1, <3>1 DEF ReadId, Stage, ListedIds
    <3>3. typed' = typed
      BY <3>2, OwnFrame
    <3>4. id'[c] = typed[c]
      <4>1. CASE SetId(c)
        BY <1>1, <4>1 DEF SetId, TypeOK
      <4>2. CASE id' = id
        BY <1>1, <3>1, <4>2 DEF ListedIds
      <4> QED
        BY <4>1, <4>2, OwnFrame
    <3> QED
      BY <1>1, <3>1, <3>3, <3>4 DEF ListedIds
  <2> QED
    BY <2>1, <2>2
<1> QED
  BY <1>3, <1>4 DEF ListedIds

\* Every step keeps what is known at each place of a worker thread.
LEMMA StagesStep ==
    ASSUME Inv, NEW c \in Conns, Worker(c) \/ Input(c) \/ FileThreadReadsEOF(c)
    PROVE  Stages'
<1>1. TypeOK /\ Stages /\ Stage(c) /\ ListedIds
  BY DEF Inv, Stages
<1>2. ASSUME NEW d \in Conns, d # c
      PROVE  Stage(d)'
  <2>1. UNCHANGED <<pc[d], id[d], connected[d], to[d], target[d], typed[d]>>
    BY <1>1, <1>2, OtherFrame
  <2>2. ASSUME pc[d] = "deliver"
        PROVE  typed'[target[d]] = typed[target[d]]
    <3>1. target[d] \in Conns /\ typed[target[d]] \in Ids
      BY <1>1, <2>2 DEF Stages, Stage, TypeOK
    <3>2. CASE target[d] = c
      BY <1>1, <3>1, <3>2, OwnFrame, HiveAssumption DEF ReadId, Stage
    <3>3. CASE target[d] # c
      BY <1>1, <3>1, <3>3, OtherFrame
    <3> QED
      BY <3>2, <3>3
  <2>3. Stage(d)
    BY <1>1 DEF Stages
  <2> QED
    BY <2>1, <2>2, <2>3 DEF Stage
<1>3. Stage(c)'
  <2> USE DEF directory, fields, store, link, request, ghosts, Goto, SetIt,
              LoginSteps, LoginLoops, CommandSteps, CommandLoops
  <2>1. CASE OpenIterator(c)
    BY <1>1, <2>1 DEF TypeOK, Stage, OpenIterator
  <2>2. CASE ReadId(c)
    BY <1>1, <2>2, HiveAssumption DEF TypeOK, Stage, ReadId
  <2>3. CASE ReadBadId(c)
    BY <1>1, <2>3 DEF TypeOK, Stage, ReadBadId
  <2>4. CASE LoginIOError(c)
    BY <1>1, <2>4 DEF TypeOK, Stage, LoginIOError
  <2>5. CASE LoginDies(c)
    BY <1>1, <2>5 DEF TypeOK, Stage, LoginDies
  <2>6. CASE IsAlreadyLoggedIn(c)
    BY <1>1, <2>6 DEF TypeOK, Stage, Scan, IsAlreadyLoggedIn
  <2>7. CASE Reject(c)
    BY <1>1, <2>7 DEF TypeOK, Stage, Reject
  <2>8. CASE HasLoggedInBefore(c)
    BY <1>1, <2>8 DEF TypeOK, Stage, Scan, HasLoggedInBefore
  <2>9. CASE TakeOver(c)
    BY <1>1, <2>9 DEF TypeOK, Stage, Scan, TakeOver
  <2>10. CASE RemoveUser(c)
    BY <1>1, <2>10 DEF TypeOK, Stage, RemoveUser
  <2>11. CASE SetId(c)
    BY <1>1, <2>11 DEF TypeOK, Stage, SetId
  <2>12. CASE AddUser(c)
    BY <1>1, <2>12 DEF TypeOK, Stage, AddUser
  <2>13. CASE ReadList(c)
    BY <1>1, <2>13 DEF TypeOK, Stage, ReadList, Start
  <2>14. CASE ReadOwnFiles(c)
    BY <1>1, <2>14 DEF TypeOK, Stage, ReadOwnFiles, Start
  <2>15. CASE ReadLookup(c)
    BY <1>1, <2>15 DEF TypeOK, Stage, ReadLookup, Start
  <2>16. CASE ReadSend(c)
    BY <1>1, <2>16 DEF TypeOK, Stage, ReadSend, Start
  <2>17. CASE ReadFileRequest(c)
    BY <1>1, <2>17 DEF TypeOK, Stage, ReadFileRequest, Start
  <2>18. CASE ReadShow(c)
    BY <1>1, <2>18 DEF TypeOK, Stage, ReadShow, Start
  <2>19. CASE ReadExit(c)
    BY <1>1, <2>19 DEF TypeOK, Stage, ReadExit
  <2>20. CASE ReadMalformed(c)
    BY <1>1, <2>20 DEF TypeOK, Stage, ReadMalformed, Kick, Clear
  <2>21. CASE SocketFails(c)
    BY <1>1, <2>21 DEF TypeOK, Stage, SocketFails, Kick, Clear
  <2>22. CASE CommandFails(c)
    BY <1>1, <2>22 DEF TypeOK, Stage, CommandFails, Kick, Clear
  <2>23. CASE GetUsers(c)
    BY <1>1, <2>23 DEF TypeOK, Stage, Scan, GetUsers
  <2>24. CASE IsAValidUser(c)
    BY <1>1, <2>24 DEF TypeOK, Stage, Scan, IsAValidUser
  <2>25. CASE FindUser(c)
    <3>1. CanNext(it[c]) =>
             /\ Element(it[c]) \in Conns
             /\ id[Element(it[c])] = typed[Element(it[c])]
      BY <1>1, ElementListed DEF TypeOK, ListedIds
    <3> QED
      BY <1>1, <2>25, <3>1 DEF TypeOK, Stage, FindUser
  <2>26. CASE FindUserFails(c)
    BY <1>1, <2>26 DEF TypeOK, Stage, FindUserFails, Kick, Clear
  <2>27. CASE Deliver(c)
    BY <1>1, <2>27 DEF TypeOK, Stage, Deliver
  <2>28. CASE Broadcast(c)
    <3>1. CanNext(outer[c]) => id[Element(outer[c])] \in Ids
      BY <1>1, ElementListed DEF TypeOK, ListedIds
    <3> QED
      BY <1>1, <2>28, <3>1 DEF TypeOK, Stage, Broadcast
  <2>29. CASE ShowTest(c)
    BY <1>1, <2>29 DEF TypeOK, Stage, ShowTest
  <2>30. CASE ShowMark(c)
    BY <1>1, <2>30 DEF TypeOK, Stage, ShowMark
  <2>31. CASE ShowReply(c)
    BY <1>1, <2>31 DEF TypeOK, Stage, ShowReply, Clear
  <2>32. CASE Reply(c)
    BY <1>1, <2>32 DEF TypeOK, Stage, Reply, Clear
  <2>36. CASE LookupFiles(c)
    BY <1>1, <2>36 DEF TypeOK, Stage, LookupFiles, Kick, Clear
  <2>33. CASE FileThreadReadsEOF(c)
    BY <1>1, <2>33 DEF TypeOK, Stage, FileThreadReadsEOF, FileThreadEnds
  <2>34. CASE FileThreadFails(c)
    BY <1>1, <2>34 DEF TypeOK, Stage, FileThreadFails, FileThreadEnds
  <2>35. CASE Disconnect(c)
    BY <1>1, <2>35 DEF TypeOK, Stage, Disconnect
  <2> QED
    BY <2>1, <2>2, <2>3, <2>4, <2>5, <2>6, <2>7, <2>8, <2>9, <2>10, <2>11, <2>12, <2>13, <2>14, <2>15, <2>16, <2>17, <2>18, <2>19, <2>20, <2>21, <2>22, <2>23, <2>24, <2>25, <2>26, <2>27, <2>28, <2>29, <2>30, <2>31, <2>32, <2>33, <2>34, <2>35, <2>36 DEF Worker, Login, Command, Input
<1> QED
  BY <1>2, <1>3 DEF Stages

\* Every step keeps the listed and online connections served by their threads.
LEMMA ServiceStep ==
    ASSUME Inv, NEW c \in Conns, Worker(c) \/ Input(c) \/ FileThreadReadsEOF(c)
    PROVE  Service'
<1>1. TypeOK /\ Service /\ Served(c)
  BY DEF Inv, Service
<1>2. ASSUME NEW d \in Conns, d # c
      PROVE  Served(d)'
  <2>1. UNCHANGED <<pc[d], online[d], fileThread[d]>>
    BY <1>1, <1>2, OtherFrame
  <2>2. d \in Listed' => d \in Listed
    BY <1>1, <1>2, ListedStep
  <2>3. Served(d)
    BY <1>1 DEF Service
  <2> QED
    BY <2>1, <2>2, <2>3 DEF Served
<1>3. Served(c)'
  <2>1. c \in Listed' => c \in Listed \/ AddUser(c)
    BY <1>1, ListedStep
  <2> USE DEF directory, fields, store, link, request, ghosts, Goto, SetIt,
              LoginSteps, LoginLoops, CommandSteps, CommandLoops
  <2>2. CASE OpenIterator(c) /\ ~AddUser(c)
    BY <1>1, <2>1, <2>2 DEF TypeOK, Served, OpenIterator
  <2>3. CASE ReadId(c) /\ ~AddUser(c)
    BY <1>1, <2>1, <2>3 DEF TypeOK, Served, ReadId
  <2>4. CASE ReadBadId(c) /\ ~AddUser(c)
    BY <1>1, <2>1, <2>4 DEF TypeOK, Served, ReadBadId
  <2>5. CASE LoginIOError(c) /\ ~AddUser(c)
    BY <1>1, <2>1, <2>5 DEF TypeOK, Served, LoginIOError
  <2>6. CASE LoginDies(c) /\ ~AddUser(c)
    BY <1>1, <2>1, <2>6 DEF TypeOK, Served, LoginDies
  <2>7. CASE IsAlreadyLoggedIn(c) /\ ~AddUser(c)
    BY <1>1, <2>1, <2>7 DEF TypeOK, Served, Scan, IsAlreadyLoggedIn
  <2>8. CASE Reject(c) /\ ~AddUser(c)
    BY <1>1, <2>1, <2>8 DEF TypeOK, Served, Reject
  <2>9. CASE HasLoggedInBefore(c) /\ ~AddUser(c)
    BY <1>1, <2>1, <2>9 DEF TypeOK, Served, Scan, HasLoggedInBefore
  <2>10. CASE TakeOver(c) /\ ~AddUser(c)
    BY <1>1, <2>1, <2>10 DEF TypeOK, Served, Scan, TakeOver
  <2>11. CASE RemoveUser(c) /\ ~AddUser(c)
    BY <1>1, <2>1, <2>11 DEF TypeOK, Served, RemoveUser
  <2>12. CASE SetId(c) /\ ~AddUser(c)
    BY <1>1, <2>1, <2>12 DEF TypeOK, Served, SetId
  <2>13. CASE AddUser(c)
    BY <1>1, <2>1, <2>13 DEF TypeOK, Served, AddUser
  <2>14. CASE ReadList(c) /\ ~AddUser(c)
    BY <1>1, <2>1, <2>14 DEF TypeOK, Served, ReadList, Start
  <2>15. CASE ReadOwnFiles(c) /\ ~AddUser(c)
    BY <1>1, <2>1, <2>15 DEF TypeOK, Served, ReadOwnFiles, Start
  <2>16. CASE ReadLookup(c) /\ ~AddUser(c)
    BY <1>1, <2>1, <2>16 DEF TypeOK, Served, ReadLookup, Start
  <2>17. CASE ReadSend(c) /\ ~AddUser(c)
    BY <1>1, <2>1, <2>17 DEF TypeOK, Served, ReadSend, Start
  <2>18. CASE ReadFileRequest(c) /\ ~AddUser(c)
    BY <1>1, <2>1, <2>18 DEF TypeOK, Served, ReadFileRequest, Start
  <2>19. CASE ReadShow(c) /\ ~AddUser(c)
    BY <1>1, <2>1, <2>19 DEF TypeOK, Served, ReadShow, Start
  <2>20. CASE ReadExit(c) /\ ~AddUser(c)
    BY <1>1, <2>1, <2>20 DEF TypeOK, Served, ReadExit
  <2>21. CASE ReadMalformed(c) /\ ~AddUser(c)
    BY <1>1, <2>1, <2>21 DEF TypeOK, Served, ReadMalformed, Kick, Clear
  <2>22. CASE SocketFails(c) /\ ~AddUser(c)
    BY <1>1, <2>1, <2>22 DEF TypeOK, Served, SocketFails, Kick, Clear
  <2>23. CASE CommandFails(c) /\ ~AddUser(c)
    BY <1>1, <2>1, <2>23 DEF TypeOK, Served, CommandFails, Kick, Clear
  <2>24. CASE GetUsers(c) /\ ~AddUser(c)
    BY <1>1, <2>1, <2>24 DEF TypeOK, Served, Scan, GetUsers
  <2>25. CASE IsAValidUser(c) /\ ~AddUser(c)
    BY <1>1, <2>1, <2>25 DEF TypeOK, Served, Scan, IsAValidUser
  <2>26. CASE FindUser(c) /\ ~AddUser(c)
    BY <1>1, <2>1, <2>26 DEF TypeOK, Served, FindUser
  <2>27. CASE FindUserFails(c) /\ ~AddUser(c)
    BY <1>1, <2>1, <2>27 DEF TypeOK, Served, FindUserFails, Kick, Clear
  <2>28. CASE Deliver(c) /\ ~AddUser(c)
    BY <1>1, <2>1, <2>28 DEF TypeOK, Served, Deliver
  <2>29. CASE Broadcast(c) /\ ~AddUser(c)
    BY <1>1, <2>1, <2>29 DEF TypeOK, Served, Broadcast
  <2>30. CASE ShowTest(c) /\ ~AddUser(c)
    BY <1>1, <2>1, <2>30 DEF TypeOK, Served, ShowTest
  <2>31. CASE ShowMark(c) /\ ~AddUser(c)
    BY <1>1, <2>1, <2>31 DEF TypeOK, Served, ShowMark
  <2>32. CASE ShowReply(c) /\ ~AddUser(c)
    BY <1>1, <2>1, <2>32 DEF TypeOK, Served, ShowReply, Clear
  <2>33. CASE Reply(c) /\ ~AddUser(c)
    BY <1>1, <2>1, <2>33 DEF TypeOK, Served, Reply, Clear
  <2>37. CASE LookupFiles(c) /\ ~AddUser(c)
    BY <1>1, <2>1, <2>37 DEF TypeOK, Served, LookupFiles, Kick, Clear
  <2>34. CASE FileThreadReadsEOF(c) /\ ~AddUser(c)
    BY <1>1, <2>1, <2>34 DEF TypeOK, Served, FileThreadReadsEOF, FileThreadEnds
  <2>35. CASE FileThreadFails(c) /\ ~AddUser(c)
    BY <1>1, <2>1, <2>35 DEF TypeOK, Served, FileThreadFails, FileThreadEnds
  <2>36. CASE Disconnect(c) /\ ~AddUser(c)
    BY <1>1, <2>1, <2>36 DEF TypeOK, Served, Disconnect
  <2> QED
    BY <2>2, <2>3, <2>4, <2>5, <2>6, <2>7, <2>8, <2>9, <2>10, <2>11, <2>12, <2>13, <2>14, <2>15, <2>16, <2>17, <2>18, <2>19, <2>20, <2>21, <2>22, <2>23, <2>24, <2>25, <2>26, <2>27, <2>28, <2>29, <2>30, <2>31, <2>32, <2>33, <2>34, <2>35, <2>36, <2>37 DEF Worker, Login, Command, Input
<1> QED
  BY <1>2, <1>3 DEF Service

\* A stuttering step keeps the invariant.
LEMMA StutterStep == ASSUME Inv, UNCHANGED vars PROVE Inv'
  BY DEF vars, directory, fields, store, link, request, ghosts, Inv, TypeOK,
         Ownership, ListedIds, Listed, Stages, Stage, Service, Served

\* The server starts with empty lists.
LEMMA InvInit == ASSUME Init PROVE Inv
<1> USE HiveAssumption DEF Init
<1>1. TypeOK
  BY DEF TypeOK, Labels, Commands, Iterator, NoIter
<1>2. Listed = {}
  BY DEF Listed, ToSet
<1>3. Ownership
  BY DEF Ownership
<1>4. Stages
  BY DEF Stages, Stage, LoginSteps, LoginLoops, CommandSteps, CommandLoops
<1>5. ListedIds /\ Service
  BY <1>2 DEF ListedIds, Service, Served
<1> QED
  BY <1>1, <1>3, <1>4, <1>5 DEF Inv

\* The inductive invariant of the server's directory: types, mail kept by its
\* addressee, identified entries, the stages of a login, and online entries served.
THEOREM Invariant == Spec => []Inv
<1>1. Init => Inv
  BY InvInit
<1>2. Inv /\ [Next]_vars => Inv'
  <2> SUFFICES ASSUME Inv, [Next]_vars PROVE Inv'
    OBVIOUS
  <2>1. CASE UNCHANGED vars
    BY <2>1, StutterStep
  <2>2. CASE Next
    <3>1. PICK c \in Conns : Worker(c) \/ Input(c) \/ FileThreadReadsEOF(c)
      BY <2>2 DEF Next
    <3> QED
      BY <3>1, TypeStep, OwnershipStep, ListedIdsStep, StagesStep, ServiceStep
      DEF Inv
  <2> QED
    BY <2>1, <2>2
<1> QED
  BY <1>1, <1>2, PTL DEF Spec

\* Every variable stays in its type, for any number of connections, ids and messages.
THEOREM TypeCorrect == Spec => []TypeOK
<1>1. Inv => TypeOK
  BY DEF Inv
<1> QED
  BY <1>1, Invariant, PTL

\* A user is only ever shown, and only ever stored, messages that were sent to it:
\* no copying of a mailbox from an old entry to a new one mixes two users' mail.
THEOREM MailboxPrivacy == Spec => []OwnMailOnly
<1>1. Inv => OwnMailOnly
  BY DEF Inv, Ownership, OwnMailOnly, Mailbox, TypeOK
<1> QED
  BY <1>1, Invariant, PTL

\* A listed user that is shown online has both of its threads running: whatever is
\* queued for it will be looked at.
THEOREM OnlineUsersServed == Spec => []OnlineEntryServed
<1>1. Inv => OnlineEntryServed
  <2> SUFFICES ASSUME Inv, NEW c \in Listed, online[c]
               PROVE  pc[c] \in {"cmd"} \cup CommandSteps /\ fileThread[c]
    BY DEF OnlineEntryServed
  <2>1. c \in Conns /\ Served(c)
    BY ListedConns DEF Inv, Service
  <2> QED
    BY <2>1 DEF Served
<1> QED
  BY <1>1, Invariant, PTL
-----------------------------------------------------------------------------
(* Login dialogues that do not overlap.                                    *)

\* Nobody becomes Online again, and neither connection nor file thread comes back.
LEMMA OnlineOnlyFalls ==
    ASSUME TypeOK, NEW c \in Conns, Worker(c) \/ Input(c) \/ FileThreadReadsEOF(c),
           NEW d \in Conns
    PROVE  /\ online'[d] => online[d]
           /\ connected'[d] => connected[d]
           /\ fileThread'[d] => fileThread[d]
  BY DEF Worker, Login, Command, Input, OpenIterator, IsAlreadyLoggedIn,
         HasLoggedInBefore, TakeOver, RemoveUser, SetId, AddUser, Reject, LoginDies,
         LoginIOError, GetUsers, IsAValidUser, FindUser, FindUserFails, Broadcast,
         Deliver, ShowTest, ShowMark, ShowReply, Reply, LookupFiles, CommandFails,
         SocketFails,
         ReadId, ReadBadId, ReadList, ReadOwnFiles, ReadLookup, ReadSend,
         ReadFileRequest, ReadShow, ReadExit, ReadMalformed, FileThreadFails,
         FileThreadReadsEOF, FileThreadEnds, Disconnect, Start, Kick,
         fields, link, TypeOK

LEMMA OtherIterator ==
    ASSUME TypeOK, NEW c \in Conns, Worker(c) \/ Input(c) \/ FileThreadReadsEOF(c),
           NEW d \in Conns, d # c
    PROVE  it'[d] = it[d]
  BY DEF Worker, Login, Command, Input, OpenIterator, IsAlreadyLoggedIn,
         HasLoggedInBefore, TakeOver, RemoveUser, SetId, AddUser, Reject, LoginDies,
         LoginIOError, GetUsers, IsAValidUser, FindUser, FindUserFails, Broadcast,
         Deliver, ShowTest, ShowMark, ShowReply, Reply, LookupFiles, CommandFails,
         SocketFails,
         ReadId, ReadBadId, ReadList, ReadOwnFiles, ReadLookup, ReadSend,
         ReadFileRequest, ReadShow, ReadExit, ReadMalformed, FileThreadFails,
         FileThreadReadsEOF, FileThreadEnds, Disconnect, Start, Kick, Scan, SetIt,
         TypeOK

\* What a worker does in the login dialogue, seen from its place after the step.
LEMMA DialogueMoves ==
    ASSUME TypeOK, NEW c \in Conns, Worker(c) \/ Input(c) \/ FileThreadReadsEOF(c),
           pc'[c] \in LoginSteps
    PROVE  \/ ReadId(c)
           \/ OpenIterator(c) \/ IsAlreadyLoggedIn(c) \/ HasLoggedInBefore(c)
           \/ TakeOver(c) \/ RemoveUser(c) \/ SetId(c)
           \/ UNCHANGED <<users, modCount, id, typed, box, pc, it>>
<1> USE DEF LoginSteps, LoginLoops, CommandSteps, CommandLoops
<1>1. CASE AddUser(c) \/ Reject(c) \/ LoginDies(c) \/ LoginIOError(c)
  BY <1>1 DEF AddUser, Reject, LoginDies, LoginIOError, Goto, TypeOK
<1>2. CASE Command(c)
  <2>1. pc[c] \notin LoginSteps
    BY <1>2 DEF Command, GetUsers, IsAValidUser, FindUser, FindUserFails, Deliver,
         Broadcast, ShowTest, ShowMark, ShowReply, Reply, LookupFiles, CommandFails,
         SocketFails
  <2>2. pc' = pc \/ pc'[c] \notin LoginSteps
    BY <1>2, <2>1
       DEF Command, GetUsers, IsAValidUser, FindUser, FindUserFails, Deliver, Broadcast,
         ShowTest, ShowMark, ShowReply, Reply, LookupFiles, CommandFails,
         SocketFails, Kick, Scan,
         Goto, TypeOK
  <2> QED
    BY <2>1, <2>2
<1>3. CASE Input(c) /\ ~ReadId(c)
  BY <1>3 DEF Input, ReadBadId, ReadList, ReadOwnFiles, ReadLookup, ReadSend,
         ReadFileRequest, ReadShow, ReadExit, ReadMalformed, FileThreadFails,
         FileThreadEnds, Disconnect, Start, Kick, Goto, TypeOK, directory, fields
<1>4. CASE FileThreadReadsEOF(c)
  BY <1>4 DEF FileThreadReadsEOF, FileThreadEnds, directory
<1> QED
  BY <1>1, <1>2, <1>3, <1>4 DEF Worker, Login

\* A dialogue only begins when no other one is under way.
LEMMA OneDialogueStep ==
    ASSUME TypeOK, OneDialogue, "overlap" \notin Faults,
           NEW c \in Conns, Worker(c) \/ Input(c) \/ FileThreadReadsEOF(c)
    PROVE  OneDialogue'
<1>1. \A d \in Conns \ {c} : pc'[d] = pc[d]
  BY OtherFrame
<1>2. CASE ReadId(c)
  BY <1>1, <1>2 DEF OneDialogue, ReadId
<1>3. CASE pc'[c] \in LoginSteps => pc[c] \in LoginSteps
  BY <1>1, <1>3 DEF OneDialogue
<1>4. pc'[c] \in LoginSteps => ReadId(c) \/ pc[c] \in LoginSteps
  <2>1. SUFFICES ASSUME pc'[c] \in LoginSteps, ~ReadId(c) PROVE pc[c] \in LoginSteps
    OBVIOUS
  <2>2. CASE pc' = pc
    BY <2>1, <2>2
  <2>3. CASE \/ IsAlreadyLoggedIn(c) \/ HasLoggedInBefore(c) \/ TakeOver(c)
             \/ RemoveUser(c) \/ SetId(c)
    BY <2>3 DEF IsAlreadyLoggedIn, HasLoggedInBefore, TakeOver, RemoveUser, SetId,
                LoginSteps, LoginLoops
  <2>4. OpenIterator(c) => pc' = pc
    BY DEF OpenIterator
  <2> QED
    BY <2>1, <2>2, <2>3, <2>4, DialogueMoves
<1> QED
  BY <1>2, <1>3, <1>4

\* The iterator of a dialogue.
LEMMA WalkTypes ==
    ASSUME TypeOK, NEW c \in Conns
    PROVE  /\ Len(users) \in Nat /\ modCount \in Nat
           /\ it[c].at \in Nat /\ NoIter.at = 0
           /\ Advance(it[c]).at = it[c].at + 1 /\ Advance(it[c]).mod = it[c].mod
           /\ UpToDate(it[c]).at = it[c].at /\ UpToDate(it[c]).mod = modCount + 1
  BY LenProperties DEF TypeOK, Iterator, NoIter, Advance, UpToDate

\* The loops of a dialogue that runs alone, step by step.
LEMMA OwnWalk ==
    ASSUME Inv, Walks, NEW c \in Conns, Worker(c) \/ Input(c) \/ FileThreadReadsEOF(c)
    PROVE  Walked(c)'
<1>1. /\ TypeOK /\ Walked(c) /\ Served(c) /\ Listed \subseteq Conns
      /\ (c \in Listed => pc[c] \notin LoginSteps)
  BY ListedConns DEF Inv, Walks, Service, Served, LoginSteps, LoginLoops, CommandSteps,
                     CommandLoops
<1>2. /\ Len(users) \in Nat /\ modCount \in Nat
      /\ it[c].at \in Nat /\ NoIter.at = 0
      /\ Advance(it[c]).at = it[c].at + 1 /\ Advance(it[c]).mod = it[c].mod
      /\ UpToDate(it[c]).at = it[c].at /\ UpToDate(it[c]).mod = modCount + 1
  BY <1>1, WalkTypes
<1>3. \A k \in 1 .. Len(users) : users[k] \in Conns /\ users[k] \in Listed
  BY <1>1, LenProperties, ElementOfSeq DEF TypeOK, Listed, ToSet
<1>4. \A d \in Conns : online'[d] => online[d]
  BY <1>1, OnlineOnlyFalls
<1> USE DEF LoginSteps, LoginLoops
<1>5. CASE pc'[c] \notin LoginSteps
  BY <1>5 DEF Walked
<1>6. CASE UNCHANGED <<users, modCount, id, typed, box, pc, it>>
  <2>1. \A k \in 1 .. Len(users) : online'[users[k]] => online[users[k]]
    BY <1>3, <1>4
  <2>2. pc[c] \in LoginLoops => \A k \in 1 .. it[c].at : k \in 1 .. Len(users)
    BY <1>1, <1>2 DEF Walked
  <2> QED
    BY <1>1, <1>6, <2>1, <2>2 DEF Walked
<1>7. CASE ReadId(c)
  <2>1. pc'[c] = "online" /\ it'[c] = NoIter
    BY <1>1, <1>7 DEF ReadId, Goto, SetIt, TypeOK
  <2>2. users' = users
    BY <1>7 DEF ReadId, directory
  <2> QED
    BY <1>2, <2>1, <2>2 DEF Walked
<1>8. CASE OpenIterator(c) /\ pc'[c] \in LoginSteps
  <2>1. /\ UNCHANGED <<users, modCount, id, online, typed, pc>>
        /\ it'[c] = [at |-> 0, mod |-> modCount]
    BY <1>1, <1>8 DEF OpenIterator, SetIt, TypeOK, directory, fields, CommandLoops
  <2>2. it'[c].at = 0 /\ it'[c].mod = modCount
    BY <2>1
  <2> QED
    BY <1>1, <1>2, <2>1, <2>2 DEF Walked
<1>9. CASE IsAlreadyLoggedIn(c) \/ HasLoggedInBefore(c) \/ TakeOver(c)
  <2>1. /\ UNCHANGED <<users, modCount, id, online, typed>>
        /\ pc[c] \in {"online", "before", "copy"}
    BY <1>9 DEF IsAlreadyLoggedIn, HasLoggedInBefore, TakeOver, directory, fields
  <2>2. CASE Exhausted(it[c]) /\ it'[c] = NoIter
    <3>1. it[c].at = Len(users)
      BY <2>2 DEF Exhausted
    <3>2. pc'[c] = IF pc[c] = "online" THEN "before"
                   ELSE IF pc[c] = "before" THEN "setId" ELSE "remove"
      BY <1>1, <1>9, <2>2, <3>1
         DEF IsAlreadyLoggedIn, HasLoggedInBefore, TakeOver, Scan, Goto, CanNext, TypeOK
    <3> QED
      BY <1>1, <1>2, <2>1, <2>2, <3>1, <3>2 DEF Walked
  <2>3. CASE CanNext(it[c]) /\ it'[c] = NoIter
    <3>1. it[c].at < Len(users)
      BY <2>3 DEF CanNext
    <3>2. \/ pc[c] = "online" /\ pc'[c] = "reject"
          \/ pc[c] = "before" /\ pc'[c] = "copy"
          \/ pc[c] = "copy" /\ pc'[c] = "remove"
      <4>1. ~Exhausted(it[c])
        BY <1>2, <3>1 DEF Exhausted
      <4>2. Advance(it[c]) # NoIter
        BY <1>2
      <4> QED
        BY <1>1, <1>9, <2>3, <4>1, <4>2
           DEF IsAlreadyLoggedIn, HasLoggedInBefore, TakeOver, Scan, Goto, SetIt, TypeOK
    <3> QED
      BY <1>1, <1>2, <2>1, <2>3, <3>2 DEF Walked
  <2>4. CASE /\ CanNext(it[c]) /\ it'[c] = Advance(it[c]) /\ pc' = pc
             /\ pc[c] = "online" => ~IsOnlineEntry(c, Element(it[c]))
             /\ pc[c] = "before" => ~IsOfflineEntry(c, Element(it[c]))
             /\ pc[c] = "copy" => ~IsEarlier(c, Element(it[c]))
    <3>1. it[c].at < Len(users) /\ it[c].mod = modCount
      BY <2>4 DEF CanNext
    <3>2. it'[c].at = it[c].at + 1 /\ it'[c].mod = modCount
      BY <1>2, <2>4, <3>1
    <3>3. pc[c] = "online" =>
            (id[users[it[c].at + 1]] = typed[c] => ~online[users[it[c].at + 1]])
      BY <2>4 DEF IsOnlineEntry, Element
    <3>4. pc[c] \in {"before", "copy"} => id[users[it[c].at + 1]] # typed[c]
      <4>1. it[c].at + 1 \in 1 .. Len(users)
        BY <1>2, <3>1
      <4> QED
        BY <1>1, <2>4, <4>1 DEF IsOfflineEntry, IsEarlier, Element, Walked
    <3>5. \A k \in 1 .. it[c].at + 1 : k \in 1 .. it[c].at \/ k = it[c].at + 1
      BY <1>2
    <3> QED
      BY <1>1, <1>2, <2>1, <2>4, <3>1, <3>2, <3>3, <3>4, <3>5 DEF Walked
  <2> QED
    <3>1. CASE IsAlreadyLoggedIn(c)
      BY <1>1, <2>2, <2>3, <2>4, <3>1 DEF IsAlreadyLoggedIn, Scan, SetIt, TypeOK
    <3>2. CASE HasLoggedInBefore(c)
      BY <1>1, <2>2, <2>3, <2>4, <3>2 DEF HasLoggedInBefore, Scan, SetIt, TypeOK
    <3>3. CASE TakeOver(c)
      BY <1>1, <2>2, <2>3, <2>4, <3>3 DEF TakeOver, Scan, SetIt, TypeOK
    <3> QED
      BY <1>9, <3>1, <3>2, <3>3
<1>10. CASE RemoveUser(c)
  <2>1. pc[c] = "remove" /\ UNCHANGED <<id, online, typed>>
    BY <1>10 DEF RemoveUser, fields
  <2>2. CASE /\ CanNext(it[c]) /\ id[Element(it[c])] = typed[c]
             /\ users' = RemoveAt(users, it[c].at + 1) /\ modCount' = modCount + 1
             /\ it'[c] = UpToDate(it[c]) /\ pc' = pc
    <3>1. it[c].at + 1 \in 1 .. Len(users) /\ users \in Seq(Conns)
      BY <1>1, <1>2, <2>2 DEF CanNext, TypeOK
    <3>2. /\ Len(users') = Len(users) - 1
          /\ \A k \in 1 .. Len(users) - 1 :
                users'[k] = IF k < it[c].at + 1 THEN users[k] ELSE users[k + 1]
      BY <2>2, <3>1, RemoveAtValues
    <3>3. it'[c].at = it[c].at /\ it'[c].mod = modCount'
      BY <1>2, <2>2
    <3>4. \A k \in 1 .. Len(users') : \E j \in 1 .. Len(users) : users'[k] = users[j]
      BY <1>2, <3>2
    <3>5. \A k \in 1 .. it[c].at : users'[k] = users[k]
      BY <1>2, <3>1, <3>2
    <3>6. it'[c].at <= Len(users')
      BY <1>2, <3>1, <3>2, <3>3
    <3>7. /\ \A k \in 1 .. Len(users) : id[users[k]] = typed[c] => ~online[users[k]]
          /\ \A k \in 1 .. it[c].at : id[users[k]] # typed[c]
      BY <1>1, <2>1 DEF Walked
    <3> QED
      BY <2>1, <2>2, <3>3, <3>4, <3>5, <3>6, <3>7, SMTT(60) DEF Walked
  <2>3. CASE /\ CanNext(it[c]) /\ id[Element(it[c])] # typed[c]
             /\ it'[c] = Advance(it[c]) /\ UNCHANGED <<users, modCount, pc>>
    <3>1. it[c].at < Len(users) /\ it[c].mod = modCount
      BY <2>3 DEF CanNext
    <3>2. it'[c].at = it[c].at + 1 /\ it'[c].mod = modCount
      BY <1>2, <2>3, <3>1
    <3>3. \A k \in 1 .. it[c].at + 1 : k \in 1 .. it[c].at \/ k = it[c].at + 1
      BY <1>2
    <3> QED
      BY <1>1, <1>2, <2>1, <2>3, <3>1, <3>2, <3>3 DEF Walked, Element
  <2>4. CASE Exhausted(it[c]) /\ pc'[c] = "setId" /\ UNCHANGED <<users, modCount>>
    BY <1>1, <2>1, <2>4 DEF Walked, Exhausted
  <2> QED
    BY <1>1, <1>10, <2>2, <2>3, <2>4 DEF RemoveUser, SetIt, Goto, TypeOK, directory
<1>11. CASE SetId(c) /\ pc'[c] \in LoginSteps
  <2>1. /\ pc[c] = "setId" /\ pc'[c] = "add" /\ UNCHANGED <<users, typed>>
        /\ id' = [id EXCEPT ![c] = typed[c]]
    BY <1>1, <1>11 DEF SetId, Goto, TypeOK, directory
  <2>2. \A k \in 1 .. Len(users) : id'[users[k]] = id[users[k]]
    BY <1>1, <1>3, <2>1 DEF TypeOK
  <2> QED
    BY <1>1, <2>1, <2>2 DEF Walked
<1> QED
  BY <1>1, <1>5, <1>6, <1>7, <1>8, <1>9, <1>10, <1>11, DialogueMoves

\* The dialogue that is under way is not disturbed by the other connections.
LEMMA OtherWalk ==
    ASSUME Inv, OneDialogue, Walks,
           NEW c \in Conns, Worker(c) \/ Input(c) \/ FileThreadReadsEOF(c),
           NEW d \in Conns, d # c
    PROVE  Walked(d)'
<1>1. TypeOK /\ Walked(d) /\ UNCHANGED <<pc[d], typed[d], it[d]>>
  BY OtherFrame, OtherIterator DEF Inv, Walks
<1>2. CASE pc[d] \notin LoginSteps
  BY <1>1, <1>2 DEF Walked, LoginSteps, LoginLoops
<1>3. CASE pc[d] \in LoginSteps
  <2>1. ~RemoveUser(c) /\ ~AddUser(c) /\ ~SetId(c)
    BY <1>3 DEF OneDialogue, RemoveUser, AddUser, SetId, LoginSteps, LoginLoops
  <2>2. UNCHANGED <<users, modCount, id>>
    BY <2>1, DirectoryFrame, OwnFrame
  <2>3. /\ Len(users) \in Nat /\ it[d].at \in Nat
        /\ \A k \in 1 .. Len(users) : users[k] \in Conns
    BY <1>1, WalkTypes, LenProperties, ElementOfSeq DEF TypeOK
  <2>4. \A k \in 1 .. Len(users) : online'[users[k]] => online[users[k]]
    BY <1>1, <2>3, OnlineOnlyFalls
  <2>5. pc[d] \in LoginLoops => \A k \in 1 .. it[d].at : k \in 1 .. Len(users)
    BY <1>1, <2>3 DEF Walked
  <2> QED
    BY <1>1, <2>2, <2>4, <2>5 DEF Walked, LoginLoops
<1> QED
  BY <1>2, <1>3

\* An entry is added when the list has none with its id.
LEMMA SingleEntryStep ==
    ASSUME SerialInv, NEW c \in Conns, Worker(c) \/ Input(c) \/ FileThreadReadsEOF(c)
    PROVE  SingleEntry'
<1>1. /\ TypeOK /\ SingleEntry /\ Walked(c) /\ Stage(c) /\ Served(c)
      /\ users \in Seq(Conns) /\ Len(users) \in Nat /\ DOMAIN users = 1 .. Len(users)
      /\ \A k \in 1 .. Len(users) : users[k] \in Conns /\ users[k] \in Listed
  BY LenProperties, ElementOfSeq
     DEF SerialInv, Inv, Walks, Stages, Service, TypeOK, Listed, ToSet
<1>2. CASE AddUser(c)
  <2>1. users' = Append(users, c) /\ id' = id /\ pc[c] = "add"
    BY <1>2 DEF AddUser, fields
  <2>2. /\ users' \in Seq(Conns) /\ Len(users') = Len(users) + 1
        /\ \A k \in 1 .. Len(users) : users'[k] = users[k]
        /\ users'[Len(users) + 1] = c
    BY <1>1, <2>1, AppendProperties
  <2>3. DOMAIN users' = 1 .. Len(users) + 1
    BY <2>2, LenProperties
  <2>4. \A k \in 1 .. Len(users) : id[users[k]] # id[c]
    BY <1>1, <2>1 DEF Walked, Stage
  <2> QED
    BY <1>1, <2>1, <2>2, <2>3, <2>4 DEF SingleEntry
<1>3. CASE RemoveUser(c) /\ CanNext(it[c]) /\ users' = RemoveAt(users, it[c].at + 1)
  <2> DEFINE i == it[c].at + 1
  <2>1. i \in 1 .. Len(users) /\ id' = id
    BY <1>1, <1>3, ElementListed DEF TypeOK, RemoveUser, fields
  <2> HIDE DEF i
  <2>2. /\ users' \in Seq(Conns) /\ Len(users') = Len(users) - 1
        /\ \A k \in 1 .. Len(users) - 1 :
              users'[k] = IF k < i THEN users[k] ELSE users[k + 1]
    BY <1>1, <1>3, <2>1, RemoveAtValues, RemoveAtType DEF i
  <2>3. DOMAIN users' = 1 .. Len(users) - 1
    BY <2>2, LenProperties
  <2> QED
    BY <1>1, <2>1, <2>2, <2>3, SMTT(60) DEF SingleEntry
<1>4. CASE users' = users
  <2>1. \A k \in 1 .. Len(users) : id'[users[k]] = id[users[k]]
    <3>1. CASE SetId(c)
      <4>1. c \notin Listed /\ id' = [id EXCEPT ![c] = typed[c]]
        BY <1>1, <3>1 DEF SetId, Served, CommandSteps, CommandLoops
      <4> QED
        BY <1>1, <4>1 DEF TypeOK
    <3>2. CASE id' = id
      BY <3>2
    <3> QED
      BY <3>1, <3>2, OwnFrame DEF SerialInv
  <2> QED
    BY <1>1, <1>4, <2>1 DEF SingleEntry
<1> QED
  BY <1>2, <1>3, <1>4, DirectoryFrame DEF RemoveUser, directory

LEMMA SerialStutter ==
    ASSUME SerialInv, UNCHANGED vars PROVE SerialInv'
  BY StutterStep
     DEF vars, directory, fields, SerialInv, OneDialogue, Walks, Walked, SingleEntry

LEMMA SerialStep ==
    ASSUME SerialInv, "overlap" \notin Faults,
           NEW c \in Conns, Worker(c) \/ Input(c) \/ FileThreadReadsEOF(c)
    PROVE  SerialInv'
<1>1. Inv'
  BY TypeStep, OwnershipStep, ListedIdsStep, StagesStep, ServiceStep DEF SerialInv, Inv
<1>2. OneDialogue'
  BY OneDialogueStep DEF SerialInv, Inv
<1>3. Walks'
  BY OwnWalk, OtherWalk DEF SerialInv, Walks
<1> QED
  BY <1>1, <1>2, <1>3, SingleEntryStep DEF SerialInv

LEMMA SerialInit ==
    ASSUME Init PROVE SerialInv
<1>1. Inv
  BY InvInit
<1> QED
  BY <1>1 DEF Init, SerialInv, OneDialogue, Walks, Walked, SingleEntry, LoginSteps,
              LoginLoops

\* When login dialogues do not overlap, the loops over users of a dialogue never
\* find the list changed and leave at most one entry of an id.
THEOREM SerialLogins ==
    ASSUME "overlap" \notin Faults
    PROVE  Spec => []SerialInv
<1>1. Init => SerialInv
  BY SerialInit
<1>2. SerialInv /\ [Next]_vars => SerialInv'
  BY SerialStutter, SerialStep DEF Next
<1> QED
  BY <1>1, <1>2, PTL DEF Spec

\* At most one listed User has an id: isAlreadyLoggedIn, hasLoggedInBefore and
\* removeUser together replace the earlier entry, whatever commands, exits,
\* crashes and exceptions of other workers come in between.
THEOREM OneEntryPerId ==
    ASSUME "overlap" \notin Faults
    PROVE  Spec => []SingleEntry
<1>1. SerialInv => SingleEntry
  BY DEF SerialInv
<1> QED
  BY <1>1, SerialLogins, PTL

-----------------------------------------------------------------------------
(* Sessions.                                                               *)

\* The entries of the list that a step takes away.
LEMMA EntryStays ==
    ASSUME TypeOK, NEW c \in Conns, Worker(c) \/ Input(c) \/ FileThreadReadsEOF(c),
           NEW d \in Conns, d \in Listed, d \notin Listed'
    PROVE  /\ pc[c] = "remove" /\ pc'[c] = "remove" /\ box' = box
           /\ \E k \in 1 .. Len(users) : users[k] = d /\ id[users[k]] = typed[c]
<1>1. users \in Seq(Conns) /\ Len(users) \in Nat /\ DOMAIN users = 1 .. Len(users)
  BY LenProperties DEF TypeOK
<1>2. users' # users /\ ~AddUser(c)
  BY ListedStep DEF Listed
<1>3. RemoveUser(c)
  BY <1>2, DirectoryFrame
<1>4. /\ CanNext(it[c]) /\ id[Element(it[c])] = typed[c]
      /\ users' = RemoveAt(users, it[c].at + 1) /\ pc' = pc /\ pc[c] = "remove" /\ box' = box
  BY <1>2, <1>3 DEF RemoveUser, directory, fields
<1> DEFINE i == it[c].at + 1
<1>5. i \in 1 .. Len(users) /\ Element(it[c]) = users[i]
  BY <1>4, ElementListed, SMTT(60) DEF TypeOK, Element
<1> HIDE DEF i
<1>6. /\ users' \in Seq(Conns) /\ Len(users') = Len(users) - 1
      /\ \A j \in 1 .. Len(users) - 1 :
            users'[j] = IF j < i THEN users[j] ELSE users[j + 1]
  BY <1>1, <1>4, <1>5, RemoveAtValues DEF i
<1>7. PICK k \in 1 .. Len(users) : users[k] = d
  BY <1>1 DEF Listed, ToSet
<1>8. k = i
  <2>1. ASSUME NEW j \in 1 .. Len(users) - 1, users'[j] = d PROVE FALSE
    BY <1>6, <2>1, LenProperties DEF Listed, ToSet
  <2>2. CASE k < i
    BY <1>1, <1>5, <1>6, <1>7, <2>1, <2>2
  <2>3. CASE k > i
    <3>1. k - 1 \in 1 .. Len(users) - 1 /\ ~(k - 1 < i) /\ (k - 1) + 1 = k
      BY <1>1, <1>5, <1>7, <2>3
    <3>2. users'[k - 1] = d
      BY <1>6, <1>7, <3>1
    <3> QED
      BY <2>1, <3>1, <3>2
  <2> QED
    BY <1>5, <1>7, <2>2, <2>3
<1> QED
  BY <1>4, <1>5, <1>7, <1>8

\* A session whose client is there and whose file thread runs stays Online and
\* listed: only its worker ends it.
LEMMA AttendanceStep ==
    ASSUME SessionInv,
           NEW c \in Conns, Worker(c) \/ Input(c) \/ FileThreadReadsEOF(c)
    PROVE  Attendance'
<1>1. TypeOK /\ Attendance /\ Attended(c) /\ Walked(c)
  BY DEF SessionInv, SerialInv, Inv, Walks, Attendance
<1>2. ASSUME NEW d \in Conns, d \in Listed, online[d]
      PROVE  d \in Listed'
  <2>1. d \notin Listed' =>
           /\ pc[c] = "remove"
           /\ \E k \in 1 .. Len(users) : users[k] = d /\ id[users[k]] = typed[c]
    BY <1>1, <1>2, EntryStays
  <2> QED
    BY <1>1, <1>2, <2>1 DEF Walked
<1>3. ASSUME NEW d \in Conns, d # c
      PROVE  Attended(d)'
  <2>1. UNCHANGED <<pc[d], connected[d], online[d], fileThread[d]>> /\ Attended(d)
    BY <1>1, <1>3, OtherFrame DEF Attendance
  <2> QED
    BY <1>2, <2>1 DEF Attended
<1>4. Attended(c)'
  <2> USE DEF LoginSteps, LoginLoops, CommandSteps, CommandLoops
  <2>1. SUFFICES ASSUME connected'[c], fileThread'[c],
                        pc'[c] \in {"login", "cmd"} \cup LoginSteps \cup CommandSteps
                 PROVE  /\ online'[c]
                        /\ pc'[c] \in {"cmd"} \cup CommandSteps => c \in Listed'
    BY DEF Attended
  <2>2. connected[c] /\ fileThread[c] /\ c \in Conns
    BY <1>1, <2>1, OnlineOnlyFalls
  <2>3. /\ online' = online
        /\ pc[c] \in {"login", "cmd"} \cup LoginSteps \cup CommandSteps
        /\ pc'[c] \in {"cmd"} \cup CommandSteps =>
              pc[c] \in {"cmd"} \cup CommandSteps \/ AddUser(c)
    <3>1. CASE Login(c) \/ OpenIterator(c)
      BY <1>1, <2>1, <2>2, <3>1
         DEF Login, IsAlreadyLoggedIn, HasLoggedInBefore, TakeOver, RemoveUser, SetId,
             AddUser, Reject, LoginDies, LoginIOError, OpenIterator, Scan, Goto, fields, TypeOK
    <3>2. CASE Command(c)
      BY <1>1, <2>1, <2>2, <3>2
         DEF Command, GetUsers, IsAValidUser, FindUser, FindUserFails, Deliver, Broadcast,
             ShowTest, ShowMark, ShowReply, Reply, LookupFiles, CommandFails,
         SocketFails, Kick, Scan,
             Goto, fields, TypeOK
    <3>3. CASE Input(c)
      BY <1>1, <2>1, <2>2, <3>3
         DEF Input, ReadId, ReadBadId, ReadList, ReadOwnFiles, ReadLookup, ReadSend,
             ReadFileRequest, ReadShow, ReadExit, ReadMalformed, FileThreadFails,
             FileThreadEnds, Disconnect, Start, Kick, Goto, fields, TypeOK
    <3>4. ~FileThreadReadsEOF(c)
      BY <2>2 DEF FileThreadReadsEOF
    <3> QED
      BY <3>1, <3>2, <3>3, <3>4 DEF Worker
  <2>4. online[c] /\ (pc[c] \in {"cmd"} \cup CommandSteps => c \in Listed)
    BY <1>1, <2>2, <2>3 DEF Attended
  <2>5. AddUser(c) => c \in Listed'
    BY <1>1, ListedStep
  <2> QED
    BY <1>2, <2>3, <2>4, <2>5
<1> QED
  BY <1>3, <1>4 DEF Attendance

\* A file thread that ends under a client that is there has failed.
LEMMA AccompaniedStep ==
    ASSUME SessionInv, NEW c \in Conns, Worker(c) \/ Input(c) \/ FileThreadReadsEOF(c)
    PROVE  Accompanied'
<1>1. TypeOK /\ Accompanied
  BY DEF SessionInv, SerialInv, Inv
<1>2. ASSUME NEW d \in Conns, connected'[d], "fileError" \notin Faults
      PROVE  fileThread'[d]
  <2>1. connected[d] /\ fileThread[d]
    BY <1>1, <1>2, OnlineOnlyFalls DEF Accompanied
  <2>2. CASE d # c
    BY <1>1, <2>1, <2>2, OtherFrame
  <2>3. CASE d = c
    <3>1. ~FileThreadReadsEOF(c) /\ ~FileThreadFails(c)
      BY <1>2, <2>1, <2>3 DEF FileThreadReadsEOF, FileThreadFails
    <3>2. fileThread' = fileThread
      BY <3>1
         DEF Worker, Login, Command, Input, OpenIterator, IsAlreadyLoggedIn,
             HasLoggedInBefore, TakeOver, RemoveUser, SetId, AddUser, Reject, LoginDies,
             LoginIOError, GetUsers, IsAValidUser, LookupFiles, FindUser, FindUserFails,
             Broadcast, Deliver, ShowTest, ShowMark, ShowReply, Reply, CommandFails,
             SocketFails, ReadId, ReadBadId, ReadList, ReadOwnFiles, ReadLookup, ReadSend,
             ReadFileRequest, ReadShow, ReadExit, ReadMalformed, Disconnect, Start, Kick,
             link
    <3> QED
      BY <2>1, <2>3, <3>2
  <2> QED
    BY <2>2, <2>3
<1> QED
  BY <1>2 DEF Accompanied

LEMMA SessionStutter ==
    ASSUME SessionInv, UNCHANGED vars PROVE SessionInv'
  BY SerialStutter
     DEF vars, directory, fields, link, SessionInv, Attendance, Attended, Accompanied,
         Listed

LEMMA SessionInit ==
    ASSUME Init PROVE SessionInv
  BY SerialInit
     DEF Init, SessionInv, Attendance, Attended, Accompanied, CommandSteps, CommandLoops

\* The sessions with a client and a file thread are those of the Online entries.
THEOREM Sessions ==
    ASSUME "overlap" \notin Faults
    PROVE  Spec => []SessionInv
<1>1. Init => SessionInv
  BY SessionInit
<1>2. SessionInv /\ [Next]_vars => SessionInv'
  BY SessionStutter, SerialStep, AttendanceStep, AccompaniedStep DEF Next, SessionInv
<1> QED
  BY <1>1, <1>2, PTL DEF Spec

\* A session that is attended has a listed entry, and an id has only one.
LEMMA FullSessionsDiffer ==
    ASSUME SessionInv
    PROVE  OneFullSession
<1>1. SUFFICES ASSUME NEW c \in Conns, NEW d \in Conns, InSession(c), InSession(d),
                      fileThread[c], fileThread[d], id[c] = id[d]
               PROVE  c = d
  BY DEF OneFullSession
<1>2. c \in Listed /\ d \in Listed
  BY <1>1 DEF InSession, SessionInv, Attendance, Attended
<1>3. PICK i \in DOMAIN users, j \in DOMAIN users : users[i] = c /\ users[j] = d
  BY <1>2 DEF Listed, ToSet
<1> QED
  BY <1>1, <1>3 DEF SessionInv, SerialInv, SingleEntry

\* Two clients whose file threads both run are never in under one id, whatever
\* crashes, exceptions and failing directories come in between.
THEOREM OneFullSessionPerId ==
    ASSUME "overlap" \notin Faults
    PROVE  Spec => []OneFullSession
<1>1. SessionInv => OneFullSession
  BY FullSessionsDiffer
<1> QED
  BY <1>1, Sessions, PTL

LEMMA SessionsDiffer ==
    ASSUME SessionInv, "fileError" \notin Faults
    PROVE  OneSession
  BY FullSessionsDiffer DEF OneSession, OneFullSession, InSession, SessionInv, Accompanied

\* Two clients that are there never use one id at the same time, as long as no
\* file thread fails: an entry that is Online is not replaced, and every session
\* has such an entry.
THEOREM OneSessionPerId ==
    ASSUME Faults \cap {"overlap", "fileError"} = {}
    PROVE  Spec => []OneSession
<1>1. SessionInv => OneSession
  BY SessionsDiffer
<1>2. Spec => []SessionInv
  BY Sessions
<1> QED
  BY <1>1, <1>2, PTL
-----------------------------------------------------------------------------
(* Messages that are shown.                                                *)

\* Messages are appended and marked as read, and nothing else happens to them.
LEMMA MailGrows ==
    ASSUME Inv, NEW c \in Conns, Worker(c) \/ Input(c) \/ FileThreadReadsEOF(c),
           NEW v \in Conns, NEW i \in DOMAIN mail[v]
    PROVE  i \in DOMAIN mail'[v] /\ (mail[v][i].read => mail'[v][i].read)
<1>1. TypeOK /\ Stages /\ \A w \in Conns : mail[w] \in Seq(Message)
  BY DEF Inv, TypeOK
<1>2. CASE mail' = mail
  BY <1>2
<1>3. CASE Deliver(c)
  <2> DEFINE b == box[target[c]]
             m == [from |-> id[c], to |-> to[c], read |-> FALSE]
  <2>1. m \in Message /\ b \in Conns
    BY <1>1, <1>3 DEF Deliver, Stages, Stage, TypeOK, Message, CommandSteps
  <2>2. mail' = [mail EXCEPT ![b] = Append(mail[b], m)]
    BY <1>3 DEF Deliver
  <2> HIDE DEF b, m
  <2>3. mail'[v] = IF v = b THEN Append(mail[v], m) ELSE mail[v]
    BY <1>1, <2>1, <2>2 DEF TypeOK
  <2>4. /\ DOMAIN mail[v] = 1 .. Len(mail[v]) /\ Len(mail[v]) \in Nat
        /\ Append(mail[v], m) \in Seq(Message) /\ Len(Append(mail[v], m)) = Len(mail[v]) + 1
        /\ \A k \in 1 .. Len(mail[v]) : Append(mail[v], m)[k] = mail[v][k]
    BY <1>1, <2>1, AppendProperties, LenProperties
  <2>5. DOMAIN Append(mail[v], m) = 1 .. Len(mail[v]) + 1
    BY <2>4, LenProperties
  <2> QED
    BY <2>3, <2>4, <2>5
<1>4. CASE ShowMark(c)
  <2> DEFINE k == it[c].at + 1
             t == [mail[box[c]] EXCEPT ![k].read = TRUE]
  <2>1. box[c] \in Conns /\ mail' = [mail EXCEPT ![box[c]] = t]
    BY <1>1, <1>4 DEF ShowMark, TypeOK
  <2>2. ASSUME NEW s \in Seq(Message), NEW j \in DOMAIN s
        PROVE  LET u == [s EXCEPT ![k].read = TRUE]
               IN  j \in DOMAIN u /\ (s[j].read => u[j].read)
    <3>1. s[j] \in Message
      BY <2>2, LenProperties, ElementOfSeq
    <3> QED
      BY <2>2, <3>1 DEF Message
  <2>3. v = box[c] => i \in DOMAIN t /\ (mail[v][i].read => t[i].read)
    BY <1>1, <2>2
  <2> HIDE DEF t
  <2>4. mail'[v] = IF v = box[c] THEN t ELSE mail[v]
    BY <1>1, <2>1 DEF TypeOK
  <2> QED
    BY <2>3, <2>4
<1>5. ReadId(c) \/ TakeOver(c) => mail' = mail
  BY DEF ReadId, TakeOver, store
<1> QED
  BY <1>2, <1>3, <1>4, <1>5, MailFrame

\* Only "show" collects messages and only its reply displays them.
LEMMA ShowFrame ==
    ASSUME TypeOK, NEW c \in Conns, Worker(c) \/ Input(c) \/ FileThreadReadsEOF(c)
    PROVE  /\ \A d \in Conns \ {c} : batch'[d] = batch[d] /\ box'[d] = box[d]
           /\ ShowReply(c) \/ seen' = seen
           /\ \/ batch'[c] = {}
              \/ batch'[c] = batch[c] /\ pc[c] \notin {"show", "mark", "showReply"}
              \/ UNCHANGED <<pc, box, batch>> /\ (pc[c] # "show" => it' = it)
              \/ ShowTest(c) \/ ShowMark(c)
<1>1. CASE Login(c)
  BY <1>1
     DEF Login, IsAlreadyLoggedIn, HasLoggedInBefore, TakeOver, RemoveUser, SetId,
         AddUser, Reject, LoginDies, LoginIOError, fields, request, ghosts, TypeOK,
         LoginLoops
<1>2. CASE OpenIterator(c)
  BY <1>2 DEF OpenIterator, fields, request, ghosts, LoginLoops
<1>3. CASE Command(c)
  BY <1>3, ZenonT(60)
     DEF Command, GetUsers, IsAValidUser, FindUser, FindUserFails, Deliver, Broadcast,
         ShowTest, ShowMark, ShowReply, Reply, LookupFiles, CommandFails,
         SocketFails, Kick, Clear,
         fields, request, ghosts, TypeOK
<1>4. CASE Input(c)
  BY <1>4
     DEF Input, ReadId, ReadBadId, ReadList, ReadOwnFiles, ReadLookup, ReadSend,
         ReadFileRequest, ReadShow, ReadExit, ReadMalformed, FileThreadFails,
         FileThreadEnds, Disconnect, Start, Kick, Clear, fields, request, ghosts, TypeOK
<1>5. CASE FileThreadReadsEOF(c)
  BY <1>5 DEF FileThreadReadsEOF, FileThreadEnds, request, ghosts
<1> QED
  BY <1>1, <1>2, <1>3, <1>4, <1>5 DEF Worker

\* Two sessions with a client behind them do not share a message Vector.
LEMMA BoxesDiffer ==
    ASSUME SessionInv, "fileError" \notin Faults,
           NEW c \in Conns, NEW d \in Conns, InSession(c), InSession(d), box[c] = box[d]
    PROVE  c = d
<1>1. c \in Listed /\ d \in Listed
  BY DEF InSession, SessionInv, Attendance, Attended, Accompanied
<1>2. typed[c] = typed[d]
  BY DEF SessionInv, SerialInv, Inv, Ownership
<1>3. id[c] = id[d]
  BY <1>1, <1>2 DEF SessionInv, SerialInv, Inv, ListedIds
<1> QED
  BY <1>3, SessionsDiffer DEF OneSession

LEMMA OwnCollection ==
    ASSUME ShowInv, NEW c \in Conns, Worker(c) \/ Input(c) \/ FileThreadReadsEOF(c)
    PROVE  Collected(c)'
<1>1. Inv /\ TypeOK /\ Collected(c) /\ SeenIsRead /\ box[c] \in Conns
  BY DEF ShowInv, SessionInv, SerialInv, Inv, TypeOK
<1>2. CASE batch'[c] = {}
  BY <1>2 DEF Collected
<1>3. CASE batch'[c] = batch[c] /\ pc[c] \notin {"show", "mark", "showReply"}
  BY <1>1, <1>2, <1>3 DEF Collected
<1>4. connected'[c] => connected[c]
  BY <1>1, OnlineOnlyFalls
<1>5. \A i \in DOMAIN mail[box[c]] :
         i \in DOMAIN mail'[box[c]] /\ (mail[box[c]][i].read => mail'[box[c]][i].read)
  BY <1>1, MailGrows
<1>6. CASE /\ UNCHANGED <<pc, box, batch>> /\ (pc[c] # "show" => it' = it)
           /\ batch'[c] # {}
  <2>1. seen' = seen
    <3>1. ~ShowReply(c)
      BY <1>1, <1>6 DEF ShowReply, Clear, TypeOK
    <3> QED
      BY <1>1, <3>1, ShowFrame
  <2> QED
    BY <1>1, <1>4, <1>5, <1>6, <2>1 DEF Collected, Mailbox
<1>7. CASE ShowTest(c) /\ batch'[c] # {}
  <2>1. pc[c] = "show" /\ UNCHANGED <<mail, box, seen, connected>>
    BY <1>7 DEF ShowTest, store, fields, ghosts, link
  <2>2. \A i \in batch[c] : i \in DOMAIN Mailbox(c) /\ Mailbox(c)[i].read /\ (connected[c] => <<box[c], i>> \notin seen)
    BY <1>1, <2>1 DEF Collected
  <2>3. CASE batch'[c] = batch[c] /\ pc'[c] \in {"show", "showReply"}
    BY <2>1, <2>2, <2>3 DEF Collected, Mailbox
  <2>4. CASE /\ it[c].at < Len(Mailbox(c)) /\ ~Mailbox(c)[it[c].at + 1].read
             /\ batch'[c] = batch[c] \cup {it[c].at + 1} /\ pc'[c] = "mark" /\ it' = it
    <3> DEFINE k == it[c].at + 1
    <3>1. k \in DOMAIN Mailbox(c)
      <4>1. /\ DOMAIN Mailbox(c) = 1 .. Len(Mailbox(c)) /\ Len(Mailbox(c)) \in Nat
            /\ it[c].at \in Nat
        BY <1>1, LenProperties DEF TypeOK, Mailbox, Iterator
      <4> QED
        BY <2>4, <4>1
    <3>2. <<box[c], k>> \notin seen
      BY <1>1, <2>4, <3>1 DEF SeenIsRead, Mailbox
    <3> QED
      BY <2>1, <2>2, <2>4, <3>1, <3>2 DEF Collected, Mailbox
  <2> QED
    BY <1>1, <1>7, <2>1, <2>3, <2>4 DEF ShowTest, Goto, TypeOK
<1>8. CASE ShowMark(c)
  <2> DEFINE k == it[c].at + 1
  <2>1. pc[c] = "mark" /\ pc'[c] = "show" /\ UNCHANGED <<box, batch, seen, connected>>
    BY <1>1, <1>8 DEF ShowMark, Goto, TypeOK, fields, request, ghosts, link
  <2>2. k \in DOMAIN mail[box[c]] => mail'[box[c]][k].read
    <3>1. mail'[box[c]] = [mail[box[c]] EXCEPT ![k].read = TRUE]
      BY <1>1, <1>8 DEF ShowMark, TypeOK
    <3>2. k \in DOMAIN mail[box[c]] => mail[box[c]][k] \in Message
      BY <1>1, LenProperties, ElementOfSeq DEF TypeOK
    <3> QED
      BY <3>1, <3>2 DEF Message
  <2> HIDE DEF k
  <2>3. \A i \in batch[c] : i \in DOMAIN mail[box[c]] /\ (mail[box[c]][i].read \/ i = k)
    BY <1>1 DEF Collected, Mailbox, k
  <2> QED
    BY <1>1, <1>5, <2>1, <2>2, <2>3 DEF Collected, Mailbox
<1> QED
  BY <1>1, <1>2, <1>3, <1>6, <1>7, <1>8, ShowFrame

LEMMA OtherCollection ==
    ASSUME ShowInv, "fileError" \notin Faults,
           NEW c \in Conns, Worker(c) \/ Input(c) \/ FileThreadReadsEOF(c),
           NEW d \in Conns, d # c
    PROVE  Collected(d)'
<1>1. Inv /\ TypeOK /\ Collected(d) /\ SessionInv /\ box[d] \in Conns /\ box[c] \in Conns
  BY DEF ShowInv, SessionInv, SerialInv, Inv, TypeOK
<1>2. UNCHANGED <<pc[d], connected[d], it[d], batch[d], box[d]>>
  BY <1>1, OtherFrame, OtherIterator, ShowFrame
<1>3. \A i \in DOMAIN mail[box[d]] :
         i \in DOMAIN mail'[box[d]] /\ (mail[box[d]][i].read => mail'[box[d]][i].read)
  BY <1>1, MailGrows
<1>4. ASSUME connected[d], NEW i \in batch[d]
      PROVE  <<box[d], i>> \notin seen'
  <2>1. <<box[d], i>> \notin seen
    BY <1>1, <1>4 DEF Collected
  <2>2. CASE ShowReply(c) /\ connected[c]
    <3>1. InSession(c) /\ InSession(d)
      BY <1>1, <1>4, <2>2 DEF InSession, ShowReply, Collected, CommandSteps, CommandLoops
    <3>2. box[c] # box[d]
      BY <1>1, <3>1, BoxesDiffer
    <3>3. seen' = seen \cup ({box[c]} \X batch[c])
      BY <2>2 DEF ShowReply
    <3> QED
      BY <2>1, <3>2, <3>3
  <2>3. CASE seen' = seen
    BY <2>1, <2>3
  <2> QED
    BY <1>1, <2>2, <2>3, ShowFrame DEF ShowReply
<1> QED
  BY <1>1, <1>2, <1>3, <1>4 DEF Collected, Mailbox

LEMMA SeenStep ==
    ASSUME ShowInv, NEW c \in Conns, Worker(c) \/ Input(c) \/ FileThreadReadsEOF(c)
    PROVE  SeenIsRead'
<1>1. Inv /\ TypeOK /\ Collected(c) /\ SeenIsRead /\ box[c] \in Conns /\ seen \subseteq Conns \X Nat
  BY DEF ShowInv, SessionInv, SerialInv, Inv, TypeOK
<1>2. ASSUME NEW e \in seen
      PROVE  e[2] \in DOMAIN mail'[e[1]] /\ mail'[e[1]][e[2]].read
  <2>1. e[1] \in Conns
    BY <1>1
  <2>2. e[2] \in DOMAIN mail[e[1]] /\ mail[e[1]][e[2]].read
    BY <1>1 DEF SeenIsRead
  <2> QED
    BY <1>1, <2>1, <2>2, MailGrows
<1>3. CASE ShowReply(c)
  <2>1. mail' = mail /\ seen' \subseteq seen \cup ({box[c]} \X batch[c]) /\ pc[c] = "showReply"
    BY <1>3 DEF ShowReply, store
  <2>2. \A i \in batch[c] : i \in DOMAIN mail[box[c]] /\ mail[box[c]][i].read
    BY <1>1, <2>1 DEF Collected, Mailbox
  <2> QED
    BY <1>2, <2>1, <2>2 DEF SeenIsRead
<1>4. CASE seen' = seen
  BY <1>2, <1>4 DEF SeenIsRead
<1> QED
  BY <1>1, <1>3, <1>4, ShowFrame

\* What "show" collects was unread, and while the client is there no other
\* session with a client shares the message Vector.
THEOREM Showing ==
    ASSUME Faults \cap {"overlap", "fileError"} = {}
    PROVE  Spec => []ShowInv
<1>1. Init => ShowInv
  <2> SUFFICES ASSUME Init PROVE ShowInv
    OBVIOUS
  <2>1. SessionInv
    BY SessionInit
  <2> QED
    BY <2>1 DEF Init, ShowInv, Collected, SeenIsRead
<1>2. ShowInv /\ [Next]_vars => ShowInv'
  <2> SUFFICES ASSUME ShowInv, [Next]_vars PROVE ShowInv'
    OBVIOUS
  <2>1. CASE UNCHANGED vars
    BY <2>1, SessionStutter
       DEF vars, fields, store, link, request, ghosts, ShowInv, Collected, Mailbox, SeenIsRead
  <2>2. CASE Next
    <3>1. PICK c \in Conns : Worker(c) \/ Input(c) \/ FileThreadReadsEOF(c)
      BY <2>2 DEF Next
    <3>2. SessionInv'
      BY <3>1, SerialStep, AttendanceStep, AccompaniedStep DEF ShowInv, SessionInv
    <3> QED
      BY <3>1, <3>2, OwnCollection, OtherCollection, SeenStep DEF ShowInv
  <2> QED
    BY <2>1, <2>2
<1> QED
  BY <1>1, <1>2, PTL DEF Spec

\* No message is displayed twice: a session that takes over the message Vector of
\* one whose worker is still busy finds the messages marked that the other has
\* collected, and only one of the two has a client to display them to.
THEOREM ShownOnce ==
    ASSUME Faults \cap {"overlap", "fileError"} = {}
    PROVE  Spec => NoDoubleShow
<1>1. ShowInv => \A c \in Conns : connected[c] => seen \cap ({box[c]} \X batch[c]) = {}
  BY DEF ShowInv, Collected
<1>2. ShowInv =>
        [\A c \in Conns :
          pc[c] = "showReply" /\ pc'[c] = "cmd" /\ connected[c]
              => seen \cap ({box[c]} \X batch[c]) = {}]_vars
  BY <1>1
<1> QED
  BY <1>2, Showing, PTL DEF NoDoubleShow
-----------------------------------------------------------------------------
(* Messages that are kept.                                                 *)

\* A dialogue that has taken over a message Vector ends with its User listed.
LEMMA HolderStays ==
    ASSUME KeptInv, "overlap" \notin Faults,
           NEW c \in Conns, Worker(c) \/ Input(c) \/ FileThreadReadsEOF(c),
           pc[c] \in {"remove", "setId", "add"}
    PROVE  /\ box'[c] = box[c]
           /\ c \in Listed' \cup abandoned' \/ pc'[c] \in {"remove", "setId", "add"}
<1>1. TypeOK /\ Walked(c)
  BY DEF KeptInv, SerialInv, Inv, Walks
<1>2. CASE AddUser(c)
  BY <1>1, <1>2, ListedStep DEF AddUser, fields
<1>3. CASE Login(c) /\ ~AddUser(c)
  <2>1. ~LoginDies(c)
    BY <1>1 DEF LoginDies, Stale, Walked
  <2> QED
    BY <1>1, <1>3, <2>1
       DEF Login, IsAlreadyLoggedIn, HasLoggedInBefore, TakeOver, RemoveUser, SetId,
           Reject, LoginIOError, Goto, fields, TypeOK
<1>4. CASE OpenIterator(c)
  BY <1>4 DEF OpenIterator, fields
<1>5. ~Command(c)
  BY DEF Command, GetUsers, IsAValidUser, FindUser, FindUserFails, Deliver, Broadcast,
         ShowTest, ShowMark, ShowReply, Reply, LookupFiles, CommandFails,
         SocketFails
<1>6. CASE Input(c) \/ FileThreadReadsEOF(c)
  BY <1>6
     DEF Input, ReadId, ReadBadId, ReadList, ReadOwnFiles, ReadLookup, ReadSend,
         ReadFileRequest, ReadShow, ReadExit, ReadMalformed, FileThreadFails,
         FileThreadReadsEOF, FileThreadEnds, Disconnect, Start, fields
<1> QED
  BY <1>2, <1>3, <1>4, <1>5, <1>6 DEF Worker

\* Only the dialogue itself changes which message Vector its User refers to.
LEMMA BoxFrame ==
    ASSUME TypeOK, NEW c \in Conns, Worker(c) \/ Input(c) \/ FileThreadReadsEOF(c),
           NEW d \in Conns, d # c \/ pc[c] # "copy"
    PROVE  box'[d] = box[d]
<1>1. CASE d # c
  BY <1>1, ShowFrame, SMTT(60)
<1>2. CASE pc[c] # "copy"
  <2>1. ~TakeOver(c)
    BY <1>2 DEF TakeOver
  <2> QED
    BY <2>1
       DEF Worker, Login, Command, Input, OpenIterator, IsAlreadyLoggedIn,
         HasLoggedInBefore, RemoveUser, SetId, AddUser, Reject, LoginDies,
         LoginIOError, GetUsers, IsAValidUser, FindUser, FindUserFails, Broadcast,
         Deliver, ShowTest, ShowMark, ShowReply, Reply, LookupFiles, CommandFails,
         SocketFails,
         ReadId, ReadBadId, ReadList, ReadOwnFiles, ReadLookup, ReadSend,
         ReadFileRequest, ReadShow, ReadExit, ReadMalformed, FileThreadFails,
         FileThreadReadsEOF, FileThreadEnds, Disconnect, Start, Kick, fields
<1> QED
  BY <1>1, <1>2

\* Nobody gets out of the history of abandoned logins.
LEMMA AbandonedStay ==
    ASSUME NEW c \in Conns, Worker(c) \/ Input(c) \/ FileThreadReadsEOF(c)
    PROVE  abandoned \subseteq abandoned'
           /\ (~SetId(c) => abandoned' = abandoned)
           /\ abandoned' \subseteq abandoned \cup {c}
  BY DEF Worker, Login, Command, Input, OpenIterator, IsAlreadyLoggedIn,
         HasLoggedInBefore, TakeOver, RemoveUser, SetId, AddUser, Reject, LoginDies,
         LoginIOError, GetUsers, IsAValidUser, FindUser, FindUserFails, Broadcast,
         Deliver, ShowTest, ShowMark, ShowReply, Reply, LookupFiles, CommandFails,
         SocketFails,
         ReadId, ReadBadId, ReadList, ReadOwnFiles, ReadLookup, ReadSend,
         ReadFileRequest, ReadShow, ReadExit, ReadMalformed, FileThreadFails,
         FileThreadReadsEOF, FileThreadEnds, Disconnect, Start, Kick, ghosts

LEMMA HeldStays ==
    ASSUME KeptInv, "overlap" \notin Faults,
           NEW c \in Conns, Worker(c) \/ Input(c) \/ FileThreadReadsEOF(c),
           NEW v \in Conns, Held(v)
    PROVE  Held(v)'
<1>1. /\ TypeOK /\ Handed(c)
      /\ \A d \in Conns : d \in Listed => pc[d] # "copy"
  BY DEF KeptInv, SerialInv, Inv, Service, Served, CommandSteps, CommandLoops
<1>2. PICK w \in Conns :
          box[w] = v /\ (w \in Listed \cup abandoned \/ pc[w] \in {"remove", "setId", "add"})
  BY DEF Held
<1>3. CASE pc[w] \in {"remove", "setId", "add"}
  <2>1. CASE w = c
    BY <1>2, <1>3, <2>1, HolderStays DEF Held
  <2>2. CASE w # c
    BY <1>1, <1>2, <1>3, <2>2, OtherFrame, BoxFrame DEF Held
  <2> QED
    BY <2>1, <2>2
<1>4. CASE w \in Listed /\ w \in Listed'
  <2>1. box'[w] = v
    BY <1>1, <1>2, <1>4, BoxFrame
  <2> QED
    BY <1>4, <2>1 DEF Held
<1>5. CASE w \in Listed /\ w \notin Listed'
  <2>1. /\ pc[c] = "remove" /\ pc'[c] = "remove" /\ box' = box
        /\ \E k \in 1 .. Len(users) : users[k] = w /\ id[users[k]] = typed[c]
    BY <1>1, <1>5, EntryStays
  <2>2. box[c] = v
    BY <1>1, <1>2, <2>1 DEF Handed
  <2> QED
    BY <2>1, <2>2 DEF Held
<1>6. CASE w \in abandoned
  <2>1. pc[w] # "copy"
    BY <1>6 DEF KeptInv, Handed, LoginSteps, LoginLoops
  <2>2. box'[w] = v /\ w \in abandoned'
    BY <1>1, <1>2, <1>6, <2>1, BoxFrame, AbandonedStay
  <2> QED
    BY <2>2 DEF Held
<1> QED
  BY <1>2, <1>3, <1>4, <1>5, <1>6

\* A message is only ever put into a message Vector that somebody has.
LEMMA MailKeptStep ==
    ASSUME KeptInv, "overlap" \notin Faults,
           NEW c \in Conns, Worker(c) \/ Input(c) \/ FileThreadReadsEOF(c)
    PROVE  MailKept'
<1>1. Inv /\ TypeOK /\ Stages /\ Handed(c) /\ MailKept
      /\ \A w \in Conns : mail[w] \in Seq(Message)
  BY DEF KeptInv, SerialInv, Inv, TypeOK
<1>2. ASSUME NEW v \in Conns, mail'[v] # <<>>
      PROVE  mail[v] # <<>> \/ (Deliver(c) /\ v = box[target[c]])
  <2>1. CASE mail' = mail
    BY <1>2, <2>1
  <2>2. CASE Deliver(c)
    <3> DEFINE m == [from |-> id[c], to |-> to[c], read |-> FALSE]
    <3>1. mail' = [mail EXCEPT ![box[target[c]]] = Append(mail[box[target[c]]], m)]
      BY <2>2 DEF Deliver
    <3> HIDE DEF m
    <3> QED
      BY <1>1, <1>2, <2>2, <3>1 DEF TypeOK
  <2>3. CASE ShowMark(c)
    <3> DEFINE t == [mail[box[c]] EXCEPT ![it[c].at + 1].read = TRUE]
    <3>1. box[c] \in Conns /\ mail' = [mail EXCEPT ![box[c]] = t]
      BY <1>1, <2>3 DEF ShowMark, TypeOK
    <3>2. t \in Seq(Message) /\ DOMAIN t = DOMAIN mail[box[c]]
      BY <1>1, <3>1, MarkType
    <3> HIDE DEF t
    <3>3. mail[box[c]] = <<>> => t = <<>>
      <4>1. /\ DOMAIN t = 1 .. Len(t) /\ Len(t) \in Nat
            /\ DOMAIN mail[box[c]] = 1 .. Len(mail[box[c]])
            /\ (mail[box[c]] = <<>> => Len(mail[box[c]]) = 0)
        BY <1>1, <3>1, <3>2, LenProperties, EmptySeq
      <4>2. ASSUME mail[box[c]] = <<>>, Len(t) # 0 PROVE FALSE
        <5>1. 1 \in DOMAIN t
          BY <4>1, <4>2
        <5>2. 1 \notin DOMAIN mail[box[c]]
          BY <4>1, <4>2
        <5> QED
          BY <3>2, <5>1, <5>2
      <4> QED
        BY <3>2, <4>2, EmptySeq
    <3> QED
      BY <1>1, <1>2, <3>1, <3>3 DEF TypeOK
  <2>4. ReadId(c) \/ TakeOver(c) => mail' = mail
    BY DEF ReadId, TakeOver, store
  <2> QED
    BY <2>1, <2>2, <2>3, <2>4, MailFrame
<1>3. ASSUME NEW v \in Conns, mail'[v] # <<>>
      PROVE  Held(v)'
  <2>1. Held(v)
    BY <1>1, <1>2, <1>3 DEF MailKept, Held, Handed, Deliver
  <2> QED
    BY <2>1, HeldStays
<1> QED
  BY <1>3 DEF MailKept, Held

\* Who is in the command loop does not log in again.
LEMMA LoginLeft ==
    ASSUME TypeOK, NEW c \in Conns, Worker(c) \/ Input(c) \/ FileThreadReadsEOF(c),
           pc[c] \notin {"login"} \cup LoginSteps
    PROVE  pc'[c] \notin {"login"} \cup LoginSteps
<1> USE DEF LoginSteps, LoginLoops
<1>1. CASE Login(c) \/ OpenIterator(c)
  BY <1>1
     DEF Login, IsAlreadyLoggedIn, HasLoggedInBefore, TakeOver, RemoveUser, SetId, AddUser,
         Reject, LoginDies, LoginIOError, OpenIterator, Goto, TypeOK
<1>2. CASE Command(c)
  BY <1>2
     DEF Command, GetUsers, IsAValidUser, FindUser, FindUserFails, Deliver, Broadcast,
         ShowTest, ShowMark, ShowReply, Reply, LookupFiles, CommandFails,
         SocketFails, Kick, Scan,
         Goto, TypeOK
<1>3. CASE Input(c)
  BY <1>3
     DEF Input, ReadId, ReadBadId, ReadList, ReadOwnFiles, ReadLookup, ReadSend,
         ReadFileRequest, ReadShow, ReadExit, ReadMalformed, FileThreadFails,
         FileThreadEnds, Disconnect, Start, Kick, Goto, TypeOK
<1>4. CASE FileThreadReadsEOF(c)
  BY <1>4 DEF FileThreadReadsEOF, FileThreadEnds
<1> QED
  BY <1>1, <1>2, <1>3, <1>4 DEF Worker

LEMMA OwnHand ==
    ASSUME KeptInv, "overlap" \notin Faults,
           NEW c \in Conns, Worker(c) \/ Input(c) \/ FileThreadReadsEOF(c)
    PROVE  Handed(c)'
<1>1. /\ Inv /\ TypeOK /\ Handed(c) /\ Walked(c) /\ SingleEntry
      /\ \A d \in Conns : d \in Listed => pc[d] \notin {"login"} \cup LoginSteps
  BY DEF KeptInv, SerialInv, Inv, Walks, Service, Served, CommandSteps, CommandLoops,
         LoginSteps, LoginLoops
<1>2. /\ users \in Seq(Conns) /\ Len(users) \in Nat /\ DOMAIN users = 1 .. Len(users)
      /\ \A k \in 1 .. Len(users) : users[k] \in Conns /\ users[k] \in Listed
      /\ it[c].at \in Nat
  BY <1>1, LenProperties, ElementOfSeq, SMTT(60) DEF TypeOK, Listed, ToSet, Iterator
<1>3. ASSUME c \in abandoned'
      PROVE  pc'[c] \notin {"login"} \cup LoginSteps
  <2>1. CASE c \in abandoned
    BY <1>1, <2>1, LoginLeft DEF Handed
  <2>2. CASE c \notin abandoned
    <3>1. SetId(c)
      BY <1>3, <2>2, AbandonedStay
    <3>2. pc' = [pc EXCEPT ![c] = "cmd"]
      BY <1>3, <2>2, <3>1 DEF SetId, Goto
    <3> QED
      BY <1>1, <3>2 DEF TypeOK, LoginSteps, LoginLoops
  <2> QED
    BY <2>1, <2>2
<1>4. ASSUME pc'[c] = "remove", NEW k \in 1 .. Len(users'), id'[users'[k]] = typed'[c]
      PROVE  box'[users'[k]] = box'[c]
  <2>1. pc'[c] \in LoginSteps
    BY <1>4 DEF LoginSteps, LoginLoops
  <2>2. CASE UNCHANGED <<users, modCount, id, typed, box, pc, it>>
    BY <1>1, <1>4, <2>2 DEF Handed
  <2>3. CASE TakeOver(c)
    <3>1. UNCHANGED <<users, id, typed>> /\ pc[c] = "copy"
      BY <2>3 DEF TakeOver, directory
    <3>2. CASE CanNext(it[c]) /\ IsEarlier(c, Element(it[c]))
      <4>1. /\ it[c].at + 1 \in 1 .. Len(users)
            /\ id[users[it[c].at + 1]] = typed[c]
            /\ box' = [box EXCEPT ![c] = box[users[it[c].at + 1]]]
        BY <1>1, <2>3, <3>2, ElementListed DEF TypeOK, TakeOver, IsEarlier, Element
      <4>2. users[k] = users[it[c].at + 1] /\ users[k] \in Conns /\ users[k] # c
        BY <1>1, <1>2, <1>4, <3>1, <4>1 DEF SingleEntry, LoginSteps, LoginLoops
      <4> QED
        BY <1>1, <3>1, <4>1, <4>2 DEF TypeOK
    <3>3. CASE Exhausted(it[c])
      BY <1>1, <1>2, <1>4, <3>1, <3>3 DEF Walked, Exhausted
    <3> QED
      BY <1>1, <1>4, <2>3, <3>1, <3>2, <3>3 DEF TakeOver, Scan
  <2>4. CASE RemoveUser(c)
    <3>1. pc[c] = "remove" /\ UNCHANGED <<id, typed, box>>
      BY <2>4 DEF RemoveUser, fields
    <3>2. \E j \in 1 .. Len(users) : users'[k] = users[j]
      <4>1. CASE users' = users
        BY <1>4, <4>1
      <4>2. CASE CanNext(it[c]) /\ users' = RemoveAt(users, it[c].at + 1)
        <5>1. it[c].at + 1 \in 1 .. Len(users)
          BY <1>1, <4>2, ElementListed, SMTT(60) DEF TypeOK
        <5>2. /\ Len(users') = Len(users) - 1
              /\ users'[k] = IF k < it[c].at + 1 THEN users[k] ELSE users[k + 1]
          BY <1>2, <1>4, <4>2, <5>1, RemoveAtValues
        <5> QED
          BY <1>2, <1>4, <5>2
      <4> QED
        BY <2>4, <4>1, <4>2 DEF RemoveUser, directory
    <3> QED
      BY <1>1, <1>4, <3>1, <3>2 DEF Handed
  <2>5. OpenIterator(c) => UNCHANGED <<users, id, typed, box, pc>>
    BY DEF OpenIterator, directory, fields
  <2>6. ~ReadId(c) /\ ~IsAlreadyLoggedIn(c) /\ ~HasLoggedInBefore(c) /\ ~SetId(c)
    BY <1>1, <1>4
       DEF ReadId, IsAlreadyLoggedIn, HasLoggedInBefore, SetId, Scan, Goto, TypeOK
  <2> QED
    BY <1>1, <1>4, <2>1, <2>2, <2>3, <2>4, <2>5, <2>6, DialogueMoves DEF Handed
<1>5. ASSUME pc'[c] = "deliver"
      PROVE  Held(box[target[c]])' /\ pc'[target'[c]] \notin {"login"} \cup LoginSteps
  <2>1. CASE FindUser(c)
    <3> DEFINE u == Element(it[c])
    <3>1. u \in Listed /\ u \in Conns /\ target'[c] = u /\ box' = box /\ users' = users
      BY <1>1, <1>5, <2>1, ElementListed DEF TypeOK, FindUser, fields, directory, Goto
    <3> HIDE DEF u
    <3>2. u \in Listed'
      BY <3>1 DEF Listed
    <3>3. Held(box[target[c]])'
      BY <3>1, <3>2 DEF Held
    <3>4. pc'[u] \notin {"login"} \cup LoginSteps
      <4>1. CASE u = c
        BY <1>5, <4>1 DEF LoginSteps, LoginLoops
      <4>2. CASE u # c
        BY <1>1, <3>1, <4>2, OtherFrame
      <4> QED
        BY <4>1, <4>2
    <3> QED
      BY <3>1, <3>3, <3>4
  <2>2. CASE pc[c] = "deliver" /\ UNCHANGED <<target, box, pc>>
    <3>1. Held(box[target[c]]) /\ pc[target[c]] \notin {"login"} \cup LoginSteps
          /\ target[c] \in Conns /\ box[target[c]] \in Conns
      BY <1>1, <2>2 DEF Handed, TypeOK
    <3>2. Held(box[target[c]])'
      BY <2>2, <3>1, HeldStays
    <3> QED
      BY <2>2, <3>1, <3>2
  <2>3. FindUser(c) \/ (pc[c] = "deliver" /\ UNCHANGED <<target, box, pc>>)
    <3>1. CASE Login(c) \/ OpenIterator(c)
      BY <1>1, <1>5, <3>1
         DEF Login, IsAlreadyLoggedIn, HasLoggedInBefore, TakeOver, RemoveUser, SetId, AddUser,
             Reject, LoginDies, LoginIOError, OpenIterator, Scan, Goto, TypeOK, LoginLoops
    <3>2. CASE Command(c)
      BY <1>1, <1>5, <3>2
         DEF Command, GetUsers, IsAValidUser, FindUserFails, Deliver, Broadcast,
             ShowTest, ShowMark, ShowReply, Reply, LookupFiles, CommandFails,
         SocketFails, Kick, Scan,
             Goto, TypeOK
    <3>3. CASE Input(c)
      BY <1>1, <1>5, <3>3
         DEF Input, ReadId, ReadBadId, ReadList, ReadOwnFiles, ReadLookup, ReadSend,
             ReadFileRequest, ReadShow, ReadExit, ReadMalformed, FileThreadFails,
             FileThreadEnds, Disconnect, Start, Kick, Goto, TypeOK, fields, request
    <3>4. CASE FileThreadReadsEOF(c)
      BY <1>5, <3>4 DEF FileThreadReadsEOF, FileThreadEnds, request
    <3> QED
      BY <3>1, <3>2, <3>3, <3>4 DEF Worker
  <2> QED
    BY <2>1, <2>2, <2>3
<1> QED
  BY <1>3, <1>4, <1>5 DEF Handed

LEMMA OtherHand ==
    ASSUME KeptInv, "overlap" \notin Faults,
           NEW c \in Conns, Worker(c) \/ Input(c) \/ FileThreadReadsEOF(c),
           NEW d \in Conns, d # c
    PROVE  Handed(d)'
<1>1. Inv /\ TypeOK /\ Handed(d) /\ OneDialogue
  BY DEF KeptInv, SerialInv, Inv
<1>2. /\ UNCHANGED <<pc[d], target[d], typed[d]>> /\ box'[d] = box[d]
      /\ d \in abandoned' => d \in abandoned
  BY <1>1, OtherFrame, BoxFrame, AbandonedStay
<1>3. ASSUME pc[d] = "remove", NEW k \in 1 .. Len(users'), id'[users'[k]] = typed'[d]
      PROVE  box'[users'[k]] = box'[d]
  <2>1. pc[c] \notin LoginSteps
    BY <1>1, <1>3 DEF OneDialogue, LoginSteps, LoginLoops
  <2>2. ~RemoveUser(c) /\ ~AddUser(c) /\ ~SetId(c) /\ pc[c] # "copy"
    BY <2>1 DEF RemoveUser, AddUser, SetId, LoginSteps, LoginLoops
  <2>3. UNCHANGED <<users, id>>
    BY <1>1, <2>2, DirectoryFrame, OwnFrame
  <2>4. users[k] \in Conns
    BY <1>1, <1>3, <2>3, LenProperties, ElementOfSeq DEF TypeOK
  <2>5. box'[users[k]] = box[users[k]]
    BY <1>1, <2>2, <2>4, BoxFrame
  <2> QED
    BY <1>1, <1>2, <1>3, <2>3, <2>5 DEF Handed
<1>4. ASSUME pc[d] = "deliver"
      PROVE  Held(box[target[d]])' /\ pc'[target[d]] \notin {"login"} \cup LoginSteps
  <2>1. /\ Held(box[target[d]]) /\ pc[target[d]] \notin {"login"} \cup LoginSteps
        /\ target[d] \in Conns /\ box[target[d]] \in Conns
    BY <1>1, <1>4 DEF Handed, TypeOK
  <2>2. box'[target[d]] = box[target[d]]
    BY <1>1, <2>1, BoxFrame DEF LoginSteps, LoginLoops
  <2>3. Held(box[target[d]])'
    BY <1>2, <2>1, <2>2, HeldStays DEF Held
  <2>4. pc'[target[d]] \notin {"login"} \cup LoginSteps
    BY <1>1, <2>1, OtherFrame, LoginLeft
  <2> QED
    BY <2>3, <2>4
<1> QED
  BY <1>1, <1>2, <1>3, <1>4 DEF Handed

\* A message Vector with messages is always somebody's.
THEOREM Keeping ==
    ASSUME "overlap" \notin Faults
    PROVE  Spec => []KeptInv
<1>1. Init => KeptInv
  BY SerialInit DEF Init, KeptInv, Handed, MailKept, LoginSteps, LoginLoops
<1>2. KeptInv /\ [Next]_vars => KeptInv'
  <2> SUFFICES ASSUME KeptInv, [Next]_vars PROVE KeptInv'
    OBVIOUS
  <2>1. CASE UNCHANGED vars
    BY <2>1, SerialStutter
       DEF vars, directory, fields, store, link, request, ghosts, KeptInv, Handed, Held,
           MailKept, Listed
  <2>2. CASE Next
    <3>1. PICK c \in Conns : Worker(c) \/ Input(c) \/ FileThreadReadsEOF(c)
      BY <2>2 DEF Next
    <3>2. SerialInv'
      BY <3>1, SerialStep DEF KeptInv
    <3> QED
      BY <3>1, <3>2, MailKeptStep, OwnHand, OtherHand DEF KeptInv
  <2> QED
    BY <2>1, <2>2
<1> QED
  BY <1>1, <1>2, PTL DEF Spec

\* No message is lost by a login: the message Vector of an id is taken over before
\* the earlier entry is removed, and the dialogue that has taken it over ends with
\* its own entry listed, unless its client has vanished when it is greeted.
THEOREM MailIsKept ==
    ASSUME "overlap" \notin Faults
    PROVE  Spec => []MailKept
<1>1. KeptInv => MailKept
  BY DEF KeptInv
<1> QED
  BY <1>1, Keeping, PTL
=============================================================================
