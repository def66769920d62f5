-------------------------------- MODULE Hive --------------------------------
(***************************************************************************)
(* The session server of the "Hive" (Server.java, User.java, Message.java).*)
(*                                                                         *)
(* Every accepted connection c gets a User object, a worker thread that    *)
(* runs the login dialogue and then the command loop, and a file thread.   *)
(* All workers share one java.util.Vector of User objects, and a user who  *)
(* logs in again takes over the message Vector of the earlier User object. *)
(*                                                                         *)
(* The grain is the one the threads can interleave at: one call of a       *)
(* synchronized Vector method (creating an iterator, next, add, remove) or *)
(* one socket operation is one step.  An iterator remembers the modCount   *)
(* it was created at; a step of an iterator that is out of date throws     *)
(* ConcurrentModificationException.                                        *)
(***************************************************************************)
EXTENDS Integers, Sequences, FiniteSets, SequencesExt

CONSTANTS
    Conns,      \* the connections the server accepts; also their User objects
    Ids,        \* the student ids people type at the login prompt
    NoId,       \* the id field of a User before setId
    Faults,     \* what the environment does besides using the system, see below
    MaxSends    \* bound: number of "send" and "d" commands in one behaviour

\* overlap:   two login dialogues may run at the same time
\* crash:     a client may vanish without typing "exit"
\* fileError: a file thread may end by an exception of its own (a file that
\*            does not exist or cannot be made, a malformed file command)
\* typo:      a client may type something that does not parse
\* disk:      a directory may fail to be made
FaultKinds == {"overlap", "crash", "fileError", "typo", "disk"}

ASSUME HiveAssumption ==
    /\ NoId \notin Ids
    /\ Faults \subseteq FaultKinds
    /\ MaxSends \in Nat

VARIABLES
    users,      \* Server.users, the shared Vector<User>
    modCount,   \* its modification count
    id,         \* id[c]: User.id
    online,     \* online[c]: User.isOnline
    box,        \* box[c]: which message Vector User.messageVector refers to;
                \* c's constructor creates the Vector named c
    mail,       \* mail[v]: the messages in message Vector v
    folders,    \* <<i, d>>: the directory files/<i>/<d> exists
    connected,  \* connected[c]: the client still has its sockets open
    fileThread, \* fileThread[c]: the file thread of c is running
    pc,         \* pc[c]: where the worker thread of c is
    typed,      \* typed[c]: the local variable id of the login dialogue
    it,         \* it[c]: the iterator the worker is using
    outer,      \* outer[c]: the iterator over users of a broadcast
    cmd,        \* cmd[c]: the command being executed
    to,         \* to[c]: the id the command names
    target,     \* target[c]: what findUser returned
    batch,      \* batch[c]: positions of the messages "show" has collected
    seen,       \* history: <<v, i>> is here when message i of v was displayed
    abandoned,  \* history: the logins that ended because the client was gone
                \* when it was to be greeted
    sent        \* bound: number of "send" and "d" commands so far

directory == <<users, modCount>>
fields    == <<id, online, box>>
store     == <<mail, folders>>
link      == <<connected, fileThread>>
request   == <<cmd, to, target, batch>>
ghosts    == <<seen, abandoned, sent>>
vars == <<directory, fields, store, link, pc, typed, it, outer, request, ghosts>>

Message == [from : Ids, to : Ids, read : BOOLEAN]

\* An iterator: the number of elements it has returned and the modification
\* count it expects.  NoIter: the loop has not asked for its iterator yet.
NoIter == [at |-> 0, mod |-> -1]
Iterator == [at : Nat, mod : Nat \cup {-1}]

LoginLoops == {"online", "before", "copy", "remove"}
LoginSteps == LoginLoops \cup {"setId", "add"}
Commands == {"none", "a", "b", "c", "d", "send", "show"}
Directories == {"public", "private"}
CommandLoops == {"list", "scan", "find", "cast", "show"}
CommandSteps == CommandLoops \cup {"files", "deliver", "mark", "reply", "showReply"}
\* kicked: the worker has returned after makeOffline in its catch block;
\* end: it has returned after "exit" or died of an uncaught exception.
Labels == {"login", "reject", "rejected", "cmd", "kicked", "end"}
              \cup LoginSteps \cup CommandSteps

Listed == ToSet(users)

-----------------------------------------------------------------------------
(* java.util.Vector's iterator, over users.                                *)

\* hasNext() compares the cursor with the size, next() checks the count.
CanNext(i) == i.mod = modCount /\ i.at < Len(users)
Exhausted(i) == i # NoIter /\ i.at = Len(users)
Stale(i) == i # NoIter /\ i.mod # modCount

Element(i) == users[i.at + 1]
Advance(i) == [i EXCEPT !.at = @ + 1]

\* The message Vector of the session is only ever appended to, so that its
\* length serves as its modification count.
Mailbox(c) == mail[box[c]]

\* The locals of one round of the command loop go out of scope.
Clear(c) ==
    /\ cmd' = [cmd EXCEPT ![c] = "none"]
    /\ to' = [to EXCEPT ![c] = NoId]
    /\ target' = [target EXCEPT ![c] = c]
    /\ batch' = [batch EXCEPT ![c] = {}]

Goto(c, label) == pc' = [pc EXCEPT ![c] = label]
SetIt(c, i) == it' = [it EXCEPT ![c] = i]

\* One round of a loop that looks for a User: leave for hit when the next
\* User passes the test, for miss when there is no next one.
Scan(c, test, hit, miss) ==
    \/ CanNext(it[c]) /\ test /\ Goto(c, hit) /\ SetIt(c, NoIter)
    \/ CanNext(it[c]) /\ ~test /\ SetIt(c, Advance(it[c])) /\ pc' = pc
    \/ Exhausted(it[c]) /\ Goto(c, miss) /\ SetIt(c, NoIter)

\* The enhanced for loop (or removeUser) calls users.iterator().
OpenIterator(c) ==
    \/ /\ pc[c] \in LoginLoops \cup {"list", "scan", "find"}
       /\ it[c] = NoIter
       /\ SetIt(c, [at |-> 0, mod |-> modCount])
       /\ UNCHANGED <<directory, fields, store, link, pc, typed, outer, request, ghosts>>
    \/ /\ pc[c] = "show"
       /\ it[c] = NoIter
       /\ SetIt(c, [at |-> 0, mod |-> Len(Mailbox(c))])
       /\ UNCHANGED <<directory, fields, store, link, pc, typed, outer, request, ghosts>>
    \/ /\ pc[c] = "cast"
       /\ outer[c] = NoIter
       /\ outer' = [outer EXCEPT ![c] = [at |-> 0, mod |-> modCount]]
       /\ UNCHANGED <<directory, fields, store, link, pc, typed, it, request, ghosts>>

-----------------------------------------------------------------------------
(* The login dialogue.                                                     *)

\* dis.readUTF and parseInt.  Without "overlap" nobody else is logging in.
ReadId(c) ==
    /\ pc[c] = "login"
    /\ connected[c]
    /\ "overlap" \in Faults \/ \A d \in Conns : pc[d] \notin LoginSteps
    /\ \E i \in Ids : typed' = [typed EXCEPT ![c] = i]
    /\ Goto(c, "online")
    /\ SetIt(c, NoIter)
    /\ UNCHANGED <<directory, fields, store, link, outer, request, ghosts>>

\* NumberFormatException is not an IOException: the worker thread dies.
ReadBadId(c) ==
    /\ "typo" \in Faults
    /\ pc[c] = "login"
    /\ connected[c]
    /\ Goto(c, "end")
    /\ UNCHANGED <<directory, fields, store, link, typed, it, outer, request, ghosts>>

\* An IOException of the dialogue is printed, and the worker goes on to the
\* command loop without having logged anybody in.
LoginIOError(c) ==
    /\ pc[c] \in {"login", "reject"}
    /\ ~connected[c]
    /\ Goto(c, "cmd")
    /\ UNCHANGED <<directory, fields, store, link, typed, it, outer, request, ghosts>>

\* A ConcurrentModificationException of the dialogue is caught by nobody.
LoginDies(c) ==
    /\ pc[c] \in LoginLoops
    /\ Stale(it[c])
    /\ Goto(c, "end")
    /\ SetIt(c, NoIter)
    /\ UNCHANGED <<directory, fields, store, link, typed, outer, request, ghosts>>

\* Mutant: the status is tested the wrong way round.
IsOnlineEntryNegated(c, u) == id[u] = typed[c] /\ ~online[u]

\* The condition of isAlreadyLoggedIn on one listed User u.
IsOnlineEntry(c, u) == id[u] = typed[c] /\ online[u]

IsAlreadyLoggedIn(c) ==
    /\ pc[c] = "online"
    /\ Scan(c, IsOnlineEntry(c, Element(it[c])), "reject", "before")
    /\ UNCHANGED <<directory, fields, store, link, typed, outer, request, ghosts>>

\* "You are already logged in": the worker returns and leaves both sockets,
\* and the file thread, as they are.
Reject(c) ==
    /\ pc[c] = "reject"
    /\ Goto(c, "rejected")
    /\ UNCHANGED <<directory, fields, store, link, typed, it, outer, request, ghosts>>

\* The condition of hasLoggedInBefore on one listed User u.
IsOfflineEntry(c, u) == id[u] = typed[c] /\ ~online[u]

HasLoggedInBefore(c) ==
    /\ pc[c] = "before"
    /\ Scan(c, IsOfflineEntry(c, Element(it[c])), "copy", "setId")
    /\ UNCHANGED <<directory, fields, store, link, typed, outer, request, ghosts>>

\* Mutant: the comparison is with the id field of the new User, which is not
\* set yet.
IsNotYetSet(c, u) == id[u] = id[c]

\* u is the earlier User object of the id that is logging in.
IsEarlier(c, u) == id[u] = typed[c]

\* The loop that finds the earlier User and calls curUser.update: the new
\* User shares the message Vector of the old one, it does not copy it.
TakeOver(c) ==
    /\ pc[c] = "copy"
    /\ Scan(c, IsEarlier(c, Element(it[c])), "remove", "remove")
    /\ box' = IF CanNext(it[c]) /\ IsEarlier(c, Element(it[c]))
              THEN [box EXCEPT ![c] = box[Element(it[c])]]
              ELSE box
    /\ UNCHANGED <<directory, id, online, store, link, typed, outer, request, ghosts>>

\* Mutants: users.remove instead of Iterator.remove; removeUser not called.
NotUpToDate(i) == i
SkipRemoveUser(c) ==
    /\ pc[c] = "remove"
    /\ Goto(c, "setId")
    /\ SetIt(c, NoIter)
    /\ UNCHANGED <<directory, fields, store, link, typed, outer, request, ghosts>>

\* Iterator.remove keeps the removing iterator, and no other, up to date.
UpToDate(i) == [i EXCEPT !.mod = modCount + 1]

RemoveUser(c) ==
    /\ pc[c] = "remove"
    /\ \/ /\ CanNext(it[c])
          /\ id[Element(it[c])] = typed[c]
          /\ users' = RemoveAt(users, it[c].at + 1)
          /\ modCount' = modCount + 1
          /\ SetIt(c, UpToDate(it[c]))
          /\ pc' = pc
       \/ /\ CanNext(it[c])
          /\ id[Element(it[c])] # typed[c]
          /\ SetIt(c, Advance(it[c]))
          /\ UNCHANGED <<directory, pc>>
       \/ /\ Exhausted(it[c])
          /\ Goto(c, "setId")
          /\ SetIt(c, NoIter)
          /\ UNCHANGED directory
    /\ UNCHANGED <<fields, store, link, typed, outer, request, ghosts>>

\* User.setId assigns the field, greets the client and makes the directories.
\* What mkdirs returns is not looked at, so that add is reached whether or not
\* they exist; it is not reached when the greeting fails.
SetId(c) ==
    /\ pc[c] = "setId"
    /\ id' = [id EXCEPT ![c] = typed[c]]
    /\ \/ /\ \E made \in SUBSET ({typed[c]} \X Directories) :
                /\ "disk" \in Faults \/ made = {typed[c]} \X Directories
                /\ folders' = folders \cup made
          /\ Goto(c, "add")
          /\ abandoned' = abandoned
       \/ /\ ~connected[c]
          /\ folders' = folders
          /\ Goto(c, "cmd")
          /\ abandoned' = abandoned \cup {c}
    /\ UNCHANGED <<directory, online, box, mail, link, typed, it, outer, request, seen, sent>>

AddUser(c) ==
    /\ pc[c] = "add"
    /\ users' = Append(users, c)
    /\ modCount' = modCount + 1
    /\ Goto(c, "cmd")
    /\ UNCHANGED <<fields, store, link, typed, it, outer, request, ghosts>>

-----------------------------------------------------------------------------
(* The command loop.                                                       *)

Start(c, name, label) ==
    /\ pc[c] = "cmd"
    /\ connected[c]
    /\ cmd' = [cmd EXCEPT ![c] = name]
    /\ Goto(c, label)
    /\ SetIt(c, NoIter)
    /\ UNCHANGED <<directory, fields, store, link, typed, target, batch, seen, abandoned>>

ReadList(c) ==
    Start(c, "a", "list") /\ UNCHANGED <<to, outer, sent>>

ReadOwnFiles(c) ==
    Start(c, "b", "files") /\ UNCHANGED <<to, outer, sent>>

ReadLookup(c) ==
    /\ Start(c, "c", "scan")
    /\ \E i \in Ids : to' = [to EXCEPT ![c] = i]
    /\ UNCHANGED <<outer, sent>>

ReadSend(c) ==
    /\ sent < MaxSends
    /\ Start(c, "send", "scan")
    /\ \E i \in Ids : to' = [to EXCEPT ![c] = i]
    /\ sent' = sent + 1
    /\ UNCHANGED outer

ReadFileRequest(c) ==
    /\ sent < MaxSends
    /\ Start(c, "d", "cast")
    /\ outer' = [outer EXCEPT ![c] = NoIter]
    /\ sent' = sent + 1
    /\ UNCHANGED to

ReadShow(c) ==
    Start(c, "show", "show") /\ UNCHANGED <<to, outer, sent>>

\* "exit": the worker returns; the client process has closed its sockets.
ReadExit(c) ==
    /\ pc[c] = "cmd"
    /\ connected[c]
    /\ online' = [online EXCEPT ![c] = FALSE]
    /\ connected' = [connected EXCEPT ![c] = FALSE]
    /\ Goto(c, "end")
    /\ UNCHANGED <<directory, id, box, store, fileThread, typed, it, outer, request, ghosts>>

\* Mutant: the catch block only returns.
KickKeepsOnline(c) ==
    /\ Goto(c, "kicked")
    /\ SetIt(c, NoIter)
    /\ outer' = [outer EXCEPT ![c] = NoIter]
    /\ Clear(c)
    /\ UNCHANGED <<directory, fields, store, link, typed, ghosts>>

\* catch (Exception e) { curUser.makeOffline(); return; }
Kick(c) ==
    /\ online' = [online EXCEPT ![c] = FALSE]
    /\ Goto(c, "kicked")
    /\ SetIt(c, NoIter)
    /\ outer' = [outer EXCEPT ![c] = NoIter]
    /\ Clear(c)
    /\ UNCHANGED <<directory, id, box, store, link, typed, ghosts>>

\* A command without its arguments, or with one that is not a number.
ReadMalformed(c) ==
    /\ "typo" \in Faults
    /\ pc[c] = "cmd"
    /\ connected[c]
    /\ Kick(c)

\* readUTF or a write fails because the client is gone.
SocketFails(c) ==
    /\ pc[c] \in {"cmd", "reply", "showReply"}
    /\ ~connected[c]
    /\ Kick(c)

\* A ConcurrentModificationException in one of the loops of a command.
CommandFails(c) ==
    /\ \/ pc[c] \in {"list", "scan", "find"} /\ Stale(it[c])
       \/ pc[c] = "cast" /\ Stale(outer[c])
       \/ pc[c] = "show" /\ it[c] # NoIter /\ it[c].mod # Len(Mailbox(c))
    /\ Kick(c)

\* getUsers looks at every entry.
GetUsers(c) ==
    /\ pc[c] = "list"
    /\ Scan(c, FALSE, "list", "reply")
    /\ UNCHANGED <<directory, fields, store, link, typed, outer, request, ghosts>>

\* "c" and "send" first ask whether the id is listed.
IsAValidUser(c) ==
    /\ pc[c] = "scan"
    /\ Scan(c, id[Element(it[c])] = to[c],
            IF cmd[c] = "send" THEN "find" ELSE "files", "reply")
    /\ UNCHANGED <<directory, fields, store, link, typed, outer, request, ghosts>>

\* "b" lists both directories of the session's own id, "c" the public one of
\* the id it names; the list of a directory that does not exist is null, and
\* the loop over it throws NullPointerException.
LookedUp(c) ==
    IF cmd[c] = "b" THEN {id[c]} \X Directories ELSE {<<to[c], "public">>}

LookupFiles(c) ==
    /\ pc[c] = "files"
    /\ \/ /\ LookedUp(c) \subseteq folders
          /\ Goto(c, "reply")
          /\ UNCHANGED <<directory, fields, store, link, typed, it, outer, request, ghosts>>
       \/ ~(LookedUp(c) \subseteq folders) /\ Kick(c)

\* Mutant: the ids are not compared.
FindFirstUser(c) ==
    /\ pc[c] = "find"
    /\ CanNext(it[c])
    /\ target' = [target EXCEPT ![c] = Element(it[c])]
    /\ Goto(c, "deliver")
    /\ SetIt(c, NoIter)
    /\ UNCHANGED <<directory, fields, store, link, typed, outer, cmd, to, batch, ghosts>>

FindUser(c) ==
    /\ pc[c] = "find"
    /\ \/ /\ CanNext(it[c])
          /\ id[Element(it[c])] = to[c]
          /\ target' = [target EXCEPT ![c] = Element(it[c])]
          /\ Goto(c, "deliver")
          /\ SetIt(c, NoIter)
       \/ /\ CanNext(it[c])
          /\ id[Element(it[c])] # to[c]
          /\ SetIt(c, Advance(it[c]))
          /\ UNCHANGED <<pc, target>>
    /\ UNCHANGED <<directory, fields, store, link, typed, outer, cmd, to, batch, ghosts>>

\* findUser returned null and sendMessage dereferences it.
FindUserFails(c) ==
    /\ pc[c] = "find"
    /\ Exhausted(it[c])
    /\ Kick(c)

\* addMessageToQueue, then the reply of "send" or the next user of "d".
Deliver(c) ==
    /\ pc[c] = "deliver"
    /\ LET m == [from |-> id[c], to |-> to[c], read |-> FALSE]
       IN  mail' = [mail EXCEPT ![box[target[c]]] = Append(@, m)]
    /\ Goto(c, IF cmd[c] = "send" THEN "reply" ELSE "cast")
    /\ UNCHANGED <<directory, fields, folders, link, typed, it, outer, request, ghosts>>

\* The loop of "d" over all users.
Broadcast(c) ==
    /\ pc[c] = "cast"
    /\ \/ /\ CanNext(outer[c])
          /\ to' = [to EXCEPT ![c] = id[Element(outer[c])]]
          /\ outer' = [outer EXCEPT ![c] = Advance(@)]
          /\ Goto(c, "find")
       \/ /\ Exhausted(outer[c])
          /\ outer' = [outer EXCEPT ![c] = NoIter]
          /\ Goto(c, "reply")
          /\ to' = to
    /\ UNCHANGED <<directory, fields, store, link, typed, it, cmd, target, batch, ghosts>>

\* showUnreadMessage: next() and the test of isRead ...
ShowTest(c) ==
    /\ pc[c] = "show"
    /\ \/ /\ it[c].mod = Len(Mailbox(c)) /\ it[c].at < Len(Mailbox(c))
          /\ ~Mailbox(c)[it[c].at + 1].read
          /\ batch' = [batch EXCEPT ![c] = @ \cup {it[c].at + 1}]
          /\ Goto(c, "mark")
          /\ it' = it
       \/ /\ it[c].mod = Len(Mailbox(c)) /\ it[c].at < Len(Mailbox(c))
          /\ Mailbox(c)[it[c].at + 1].read
          /\ SetIt(c, Advance(it[c]))
          /\ UNCHANGED <<batch, pc>>
       \/ /\ it[c] # NoIter /\ it[c].at = Len(Mailbox(c))
          /\ Goto(c, "showReply")
          /\ SetIt(c, NoIter)
          /\ batch' = batch
    /\ UNCHANGED <<directory, fields, store, link, typed, outer, cmd, to, target, ghosts>>

\* Mutant: setRead is not called.
ShowForgetsMark(c) ==
    /\ pc[c] = "mark"
    /\ SetIt(c, Advance(it[c]))
    /\ Goto(c, "show")
    /\ UNCHANGED <<directory, fields, store, link, typed, outer, request, ghosts>>

\* ... then setRead(true).
ShowMark(c) ==
    /\ pc[c] = "mark"
    /\ mail' = [mail EXCEPT ![box[c]][it[c].at + 1].read = TRUE]
    /\ SetIt(c, Advance(it[c]))
    /\ Goto(c, "show")
    /\ UNCHANGED <<directory, fields, folders, link, typed, outer, request, ghosts>>

ShowReply(c) ==
    /\ pc[c] = "showReply"
    /\ seen' = IF connected[c] THEN seen \cup ({box[c]} \X batch[c]) ELSE seen
    /\ Clear(c)
    /\ Goto(c, "cmd")
    /\ UNCHANGED <<directory, fields, store, link, typed, it, outer, abandoned, sent>>

\* curUser.write of every other command.
Reply(c) ==
    /\ pc[c] = "reply"
    /\ Clear(c)
    /\ Goto(c, "cmd")
    /\ UNCHANGED <<directory, fields, store, link, typed, it, outer, ghosts>>

-----------------------------------------------------------------------------
(* The file thread, as far as it touches the session, and the client.      *)

FileThreadEnds(c) ==
    /\ fileThread[c]
    /\ fileThread' = [fileThread EXCEPT ![c] = FALSE]
    /\ online' = [online EXCEPT ![c] = FALSE]
    /\ UNCHANGED <<directory, id, box, store, connected, pc, typed, it, outer, request, ghosts>>

FileThreadReadsEOF(c) == ~connected[c] /\ FileThreadEnds(c)
FileThreadFails(c) == "fileError" \in Faults /\ connected[c] /\ FileThreadEnds(c)

\* The client vanishes, or its user types "exit" when no worker is left to
\* read it: the client process then ends all the same.
Disconnect(c) ==
    /\ "crash" \in Faults \/ pc[c] \in {"rejected", "kicked", "end"}
    /\ connected[c]
    /\ connected' = [connected EXCEPT ![c] = FALSE]
    /\ UNCHANGED <<directory, fields, store, fileThread, pc, typed, it, outer, request, ghosts>>

-----------------------------------------------------------------------------
Init ==
    /\ users = <<>>
    /\ modCount = 0
    /\ id = [c \in Conns |-> NoId]
    /\ online = [c \in Conns |-> TRUE]
    /\ box = [c \in Conns |-> c]
    /\ mail = [c \in Conns |-> <<>>]
    /\ folders = {}
    /\ connected = [c \in Conns |-> TRUE]
    /\ fileThread = [c \in Conns |-> TRUE]
    /\ pc = [c \in Conns |-> "login"]
    /\ typed = [c \in Conns |-> NoId]
    /\ it = [c \in Conns |-> NoIter]
    /\ outer = [c \in Conns |-> NoIter]
    /\ cmd = [c \in Conns |-> "none"]
    /\ to = [c \in Conns |-> NoId]
    /\ target = [c \in Conns |-> c]
    /\ batch = [c \in Conns |-> {}]
    /\ seen = {} /\ abandoned = {}
    /\ sent = 0

\* What a worker does by itself once it has read its input.
Login(c) ==
    \/ IsAlreadyLoggedIn(c) \/ HasLoggedInBefore(c) \/ TakeOver(c)
    \/ RemoveUser(c) \/ SetId(c) \/ AddUser(c) \/ Reject(c)
    \/ LoginDies(c) \/ LoginIOError(c)
Command(c) ==
    \/ GetUsers(c) \/ IsAValidUser(c) \/ LookupFiles(c)
    \/ FindUser(c) \/ FindUserFails(c)
    \/ Deliver(c) \/ Broadcast(c) \/ ShowTest(c) \/ ShowMark(c)
    \/ ShowReply(c) \/ Reply(c) \/ CommandFails(c) \/ SocketFails(c)
Worker(c) == OpenIterator(c) \/ Login(c) \/ Command(c)

\* What waits for somebody at a keyboard, or for bad luck.
Input(c) ==
    \/ ReadId(c) \/ ReadBadId(c) \/ ReadList(c) \/ ReadOwnFiles(c) \/ ReadLookup(c)
    \/ ReadSend(c) \/ ReadFileRequest(c) \/ ReadShow(c) \/ ReadExit(c) \/ ReadMalformed(c)
    \/ FileThreadFails(c) \/ Disconnect(c)

Next == \E c \in Conns : Worker(c) \/ Input(c) \/ FileThreadReadsEOF(c)

Spec == Init /\ [][Next]_vars

\* The JVM runs every runnable thread; nobody has to type or to disconnect.
\* The file thread is not required to notice an end of stream, for it may be
\* busy waiting for upload buffer space.
Fairness == \A c \in Conns : WF_vars(Worker(c))
FairSpec == Spec /\ Fairness
-----------------------------------------------------------------------------
(* Properties.                                                             *)

TypeOK ==
    /\ users \in Seq(Conns)
    /\ modCount \in Nat
    /\ id \in [Conns -> Ids \cup {NoId}]
    /\ online \in [Conns -> BOOLEAN]
    /\ box \in [Conns -> Conns]
    /\ mail \in [Conns -> Seq(Message)]
    /\ folders \subseteq Ids \X Directories
    /\ connected \in [Conns -> BOOLEAN]
    /\ fileThread \in [Conns -> BOOLEAN]
    /\ pc \in [Conns -> Labels]
    /\ typed \in [Conns -> Ids \cup {NoId}]
    /\ it \in [Conns -> Iterator]
    /\ outer \in [Conns -> Iterator]
    /\ cmd \in [Conns -> Commands]
    /\ to \in [Conns -> Ids \cup {NoId}]
    /\ target \in [Conns -> Conns]
    /\ batch \in [Conns -> SUBSET Nat]
    /\ seen \subseteq Conns \X Nat
    /\ abandoned \subseteq Conns
    /\ sent \in Nat

\* However logins, crashes and commands interleave, the message Vector of a
\* session holds only messages addressed to the id that the session's client
\* typed: nobody is ever shown, or takes over, somebody else's mail.
OwnMailOnly ==
    \A c \in Conns : \A i \in DOMAIN Mailbox(c) : Mailbox(c)[i].to = typed[c]

\* A user shown as Online is being served: the worker thread of that entry is
\* in the command loop and its file thread runs.  No exit, exception or
\* disconnection, in any order, leaves a listed entry Online with nobody behind
\* it, which would lock its owner out by "You are already logged in".
OnlineEntryServed ==
    \A c \in Listed : online[c] => /\ pc[c] \in {"cmd"} \cup CommandSteps
                                   /\ fileThread[c]

\* When login dialogues do not overlap, at most one listed User has an id,
\* whatever the clients and the other commands do meanwhile.
SingleEntry ==
    \A i, j \in DOMAIN users : id[users[i]] = id[users[j]] => i = j

InSession(c) == connected[c] /\ pc[c] \in {"cmd"} \cup CommandSteps

\* Two clients are never logged in under one id at the same time.
OneSession ==
    \A c, d \in Conns : InSession(c) /\ InSession(d) /\ id[c] = id[d] => c = d

\* However file threads end: only the end of the file thread of one of them,
\* which makes its user Offline while its worker serves on, lets two clients be
\* logged in under one id.
OneFullSession ==
    \A c, d \in Conns :
        InSession(c) /\ InSession(d) /\ fileThread[c] /\ fileThread[d] /\ id[c] = id[d]
            => c = d

\* Once a message is in a message Vector, its addressee can get at it: the
\* Vector belongs to a listed User, or to the login that is replacing one.  The
\* only way to lose it is a client that vanishes in the middle of its login: the
\* old entry is gone by then, and the new one is never added.
MailKept ==
    \A v \in Conns : mail[v] # <<>> =>
        \E c \in Conns :
            /\ box[c] = v
            /\ c \in Listed \cup abandoned \/ pc[c] \in {"remove", "setId", "add"}

\* No message is displayed twice, although two sessions that follow each other
\* share the message Vector and the second may begin before the worker of the
\* first has noticed that its client is gone.
NoDoubleShow ==
    [][\A c \in Conns :
          pc[c] = "showReply" /\ pc'[c] = "cmd" /\ connected[c]
              => seen \cap ({box[c]} \X batch[c]) = {}]_vars

\* A message marked as read has been displayed, or a worker is about to
\* display it.
ReadMeansSeen ==
    \A v \in Conns : \A i \in DOMAIN mail[v] : mail[v][i].read =>
        \/ <<v, i>> \in seen
        \/ \E c \in Conns : /\ box[c] = v /\ i \in batch[c]
                            /\ pc[c] \in {"show", "mark", "showReply"}

\* When login dialogues do not overlap, everyone who typed an id gets into the
\* command loop or is told that the id is in use.
LoginSettles == \A c \in Conns : pc[c] = "online" ~> pc[c] \in {"cmd", "rejected"}

\* The id of a client that is gone can be used again: an entry of the client,
\* even one that its worker is still about to add, does not stay Online.
DeadClientReleased ==
    \A c \in Conns : ~connected[c] ~> [](c \in Listed => ~online[c])

-----------------------------------------------------------------------------
(* The inductive invariant behind the theorems of HiveProofs.              *)

\* A message Vector belongs to one id for ever: to nobody while its creator
\* has typed nothing, and then to the id its creator typed.
Ownership ==
    /\ \A c \in Conns : typed[c] = NoId => box[c] = c
    /\ \A c \in Conns : typed[box[c]] = typed[c]
    /\ \A v \in Conns : \A i \in DOMAIN mail[v] : mail[v][i].to = typed[v]

\* What add has been reached with.
ListedIds == \A c \in Listed : id[c] = typed[c] /\ typed[c] # NoId

\* What is known at the places of the worker thread of c.
Stage(c) ==
    /\ pc[c] = "login" => typed[c] = NoId
    /\ pc[c] \in LoginSteps => typed[c] # NoId
    /\ pc[c] = "add" => id[c] = typed[c]
    /\ pc[c] \in CommandSteps => id[c] \in Ids
    /\ pc[c] = "cmd" /\ connected[c] => id[c] \in Ids
    /\ pc[c] \in {"scan", "find"} => to[c] \in Ids
    /\ pc[c] = "deliver" => to[c] \in Ids /\ typed[target[c]] = to[c]
Stages == \A c \in Conns : Stage(c)

\* When c may be listed, and when it may be online.
Served(c) ==
    /\ online[c] => fileThread[c]
    /\ pc[c] = "kicked" => ~online[c]
    /\ c \in Listed => pc[c] \in {"cmd", "kicked", "end"} \cup CommandSteps
    /\ c \in Listed /\ pc[c] = "end" => ~online[c]
Service == \A c \in Conns : Served(c)

Inv == TypeOK /\ Ownership /\ ListedIds /\ Stages /\ Service

-----------------------------------------------------------------------------
(* What is invariant besides when login dialogues do not overlap.          *)

OneDialogue ==
    \A c, d \in Conns : pc[c] \in LoginSteps /\ pc[d] \in LoginSteps => c = d

\* What the loops of the login dialogue of c know: nobody else changes the list
\* meanwhile, the entries passed are not the ones looked for, and an earlier
\* entry of the id is only replaced when it is not Online.
Walked(c) ==
    /\ pc[c] \in LoginLoops =>
          it[c].at <= Len(users) /\ (it[c] # NoIter => it[c].mod = modCount)
    /\ pc[c] = "online" =>
          \A k \in 1 .. it[c].at : id[users[k]] = typed[c] => ~online[users[k]]
    /\ pc[c] \in {"before", "copy", "remove"} =>
          /\ \A k \in 1 .. Len(users) : id[users[k]] = typed[c] => ~online[users[k]]
          /\ \A k \in 1 .. it[c].at : id[users[k]] # typed[c]
    /\ pc[c] \in {"setId", "add"} =>
          \A k \in 1 .. Len(users) : id[users[k]] # typed[c]
Walks == \A c \in Conns : Walked(c)

SerialInv == Inv /\ OneDialogue /\ Walks /\ SingleEntry

\* A client that is connected and not turned away, and whose file thread runs,
\* is Online, and listed from the moment it may type commands.
Attended(c) ==
    connected[c] /\ fileThread[c] =>
        /\ pc[c] \in {"login", "cmd"} \cup LoginSteps \cup CommandSteps => online[c]
        /\ pc[c] \in {"cmd"} \cup CommandSteps => c \in Listed
Attendance == \A c \in Conns : Attended(c)

\* A file thread ends by the end of its stream or by a fault.
Accompanied ==
    \A c \in Conns : connected[c] => fileThread[c] \/ "fileError" \in Faults

SessionInv == SerialInv /\ Attendance /\ Accompanied

\* What "show" has collected is in the message Vector, marked as read but for
\* the last one, and has not been displayed if it can still be.
Collected(c) ==
    /\ batch[c] # {} => pc[c] \in {"show", "mark", "showReply"}
    /\ \A i \in batch[c] :
          /\ i \in DOMAIN Mailbox(c)
          /\ Mailbox(c)[i].read \/ (pc[c] = "mark" /\ i = it[c].at + 1)
    /\ connected[c] => \A i \in batch[c] : <<box[c], i>> \notin seen
SeenIsRead == \A e \in seen : e[2] \in DOMAIN mail[e[1]] /\ mail[e[1]][e[2]].read

ShowInv == SessionInv /\ (\A c \in Conns : Collected(c)) /\ SeenIsRead

\* Somebody has the message Vector v or is about to: the login that replaces
\* the entry of its id has taken it over before it removes the entry.
Held(v) ==
    \E c \in Conns :
        /\ box[c] = v
        /\ c \in Listed \cup abandoned \/ pc[c] \in {"remove", "setId", "add"}
Handed(c) ==
    /\ c \in abandoned => pc[c] \notin {"login"} \cup LoginSteps
    /\ pc[c] = "remove" =>
          \A k \in 1 .. Len(users) : id[users[k]] = typed[c] => box[users[k]] = box[c]
    /\ pc[c] = "deliver" =>
          Held(box[target[c]]) /\ pc[target[c]] \notin {"login"} \cup LoginSteps

KeptInv == SerialInv /\ (\A c \in Conns : Handed(c)) /\ MailKept
=============================================================================
