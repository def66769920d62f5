----------------------------- MODULE Experiment -----------------------------
(***************************************************************************)
(* The five simulation programs of the ns-3 project, from the command line *)
(* to the files they leave: wired-red, wired-stabilized-red, wired-ES-red, *)
(* wifi (task-a-high-rate) and lrwpan (task-a-low-rate).                   *)
(*                                                                         *)
(* Each names a directory, empties it, schedules handlers that append a    *)
(* sample to the files there and schedule themselves again, and runs the   *)
(* simulator until a stop event.  The programs share no state but the      *)
(* disk.  ns-3 itself (scheduler, applications, flow monitor, queue disc)  *)
(* is modelled as far as the programs rely on it.                          *)
(*                                                                         *)
(* Times are in tenths of a second.                                        *)
(***************************************************************************)
EXTENDS Integers, FiniteSets, SequencesExt

CONSTANTS
    Sessions,   \* what the user does, see Session
    SampleTimes \* bound: the times, apart from the first, at which the
                \* handlers are observed; the last one is after every stop
                \* event, and nothing is recorded from then on

Launches == 1 .. 2
Programs == {"wired-red", "wired-stabilized-red", "wired-ES-red", "wifi", "lrwpan"}
Wired == {"wired-red", "wired-stabilized-red", "wired-ES-red"}

\* A command line: the option for the number of nodes, if any, --queueDiscType,
\* --tracing, and whether every option is one the program knows.
NotGiven == -1
CommandLine == [program : Programs, nodes : Nat \cup {NotGiven},
                type : {"RED", "ARED", "other"}, tracing : BOOLEAN, known : BOOLEAN]

\* A user who starts programs, perhaps the second one before the first has
\* ended, on a machine where no shell may be started, or where a command that
\* is given to one may fail, with a bound on the packets sent.
Session == [lines : [Launches -> CommandLine], parallel : BOOLEAN, forkFails : BOOLEAN,
            commandsFail : BOOLEAN, packets : [Launches -> Nat]]

ASSUME ExperimentAssumption ==
    /\ Sessions \subseteq Session
    /\ IsFiniteSet(SampleTimes) /\ SampleTimes \subseteq Nat
    /\ \E t \in SampleTimes : t > 1000

Least(S) == CHOOSE x \in S : \A y \in S : x <= y
Greatest(S) == CHOOSE x \in S : \A y \in S : x >= y
If(condition, values) == IF condition THEN values ELSE {}

-----------------------------------------------------------------------------
(* What main of each program sets up.                                      *)

\* Defaults of the parameters that are part of the name.
RedParameters == [nodes |-> 30, rate |-> "650Mbps"]
SredParameters == [nodes |-> 30, rate |-> "650Mbps"]
ESRedParameters == [nodes |-> 10, rate |-> "650Mbps"]
WifiParameters == [nodes |-> 10, rate |-> "10Mbps", flows |-> 100, speed |-> 10]
LrWpanParameters == [nodes |-> 5, rate |-> "6000bps", flows |-> 100, range |-> 10]

Parameters(p) ==
    CASE p = "wired-red" -> RedParameters
      [] p = "wired-stabilized-red" -> SredParameters
      [] p = "wired-ES-red" -> ESRedParameters
      [] p = "wifi" -> WifiParameters
      [] p = "lrwpan" -> LrWpanParameters

\* exp_name is put together before the command line is parsed.
ExpName(p) == <<p, Parameters(p)>>
Names == {ExpName(p) : p \in Programs}

\* Mutant: the parameter has no default.
NodesWithoutDefault(line) == line.nodes

\* The wifi program has no option for the number of nodes.
Nodes(line) ==
    IF line.nodes = NotGiven \/ line.program = "wifi"
    THEN Parameters(line.program).nodes ELSE line.nodes

\* The devices of a router in the order in which they are created.  The clients
\* are on the right; GetDevice(0) gets the queue disc whose statistics are
\* traced, and the sensor network has none.
WiredTopology == [devices |-> <<"bottleneck", "leaves">>, traced |-> {"right"}]
WifiTopology == [devices |-> <<"bottleneck", "radio">>, traced |-> {"right"}]
LrWpanTopology == [devices |-> <<"bottleneck", "radio", "sixlowpan">>, traced |-> {}]

Topology(p) ==
    CASE p \in Wired -> WiredTopology [] p = "wifi" -> WifiTopology [] OTHER -> LrWpanTopology

TracedDiscOnPath(p) ==
    "right" \in Topology(p).traced /\ Topology(p).devices[1] = "bottleneck"

\* One client on each leaf on the right, for the sink on the leaf on the left.
WiredFlows(n) == n

\* Each sink node times each client node, row by row, until cur_flow_count has
\* reached num_flow, which ends both loops.
FlowLoops(n, num_flow) ==
    Cardinality({p \in (1 .. n) \X (1 .. n) :
                    n * (p[1] - 1) + p[2] <= Greatest({1, num_flow})})

Flows(line) ==
    IF line.program \in Wired THEN WiredFlows(Nodes(line))
    ELSE FlowLoops(Nodes(line), Parameters(line.program).flows)

Event(what, at) == [what |-> what, at |-> at]

\* Start and stop of the applications.
WiredApplications == <<Event("sinks start", 0), Event("sinks stop", 60),
                       Event("clients start", 10), Event("clients stop", 50)>>
WifiApplications == <<Event("sinks start", 10), Event("sinks stop", 65),
                      Event("clients start", 20), Event("clients stop", 60)>>
LrWpanApplications == <<Event("sinks start", 10), Event("sinks stop", 900),
                        Event("clients start", 20), Event("clients stop", 800)>>

\* Mutant: the simulation is not stopped.
WiredTracesForEver ==
    <<Event("TraceMetrics", 1), Event("TraceQueue", 1), Event("TraceQueueDrop", 1)>>

\* What main schedules: the first samples, and the end.
WiredTraces == <<Event("TraceMetrics", 1), Event("TraceQueue", 1),
                 Event("TraceQueueDrop", 1), Event("stop", 65)>>
WifiTraces == <<Event("stop", 65), Event("TraceMetrics", 22)>>
LrWpanTraces(tracing) ==
    IF tracing THEN <<Event("TraceMetrics", 1), Event("stop", 1000)>>
    ELSE <<Event("stop", 1000)>>

\* The applications are scheduled by the nodes, when the simulator runs.
Scheduled(line) ==
    CASE line.program \in Wired -> WiredTraces \o WiredApplications
      [] line.program = "wifi" -> WifiTraces \o WifiApplications
      [] line.program = "lrwpan" -> LrWpanTraces(line.tracing) \o LrWpanApplications

-----------------------------------------------------------------------------
VARIABLES
    session,    \* the user
    pc,         \* pc[r]: where main of launch r is
    flows,      \* flows[r]: number of clients that were installed
    now,        \* now[r]: Simulator::Now
    pending,    \* pending[r]: the scheduler's events, in the order they are due
    on,         \* on[r]: which applications run
    net,        \* net[r]: packets on their way, flow and queue statistics
    disk,       \* disk[n]: is there a directory n, the samples in its files,
                \* and who wrote flow.xml
    taken,      \* history: taken[r], the samples of r
    owner,      \* history: owner[n], the launch that last ran rm on n
    left,       \* history: left[n], the samples that this rm left there
    unnoticed,  \* history: unnoticed[r], the commands of r that failed
    overlapped  \* history: the directories of launches that ran at once

simulator == <<now, pending, on, net>>
histories == <<owner, left, unnoticed, overlapped>>
vars == <<session, pc, flows, simulator, disk, taken, histories>>

Nobody == 0
Absent == [exists |-> FALSE, samples |-> <<>>, xml |-> Nobody]
Ended == {"rejected", "failed", "done"}
line(r) == session.lines[r]
Dir(r) == ExpName(line(r).program)
Goto(r, label) == pc' = [pc EXCEPT ![r] = label]
Started(r) == pc[r] \notin {"off"} \cup Ended

\* Packets between a client and the bottleneck, and those that are behind it or
\* come from a sink; the flow monitor's sums, over the flows of both
\* directions; the traced queue disc's counters.
Quiet == [leaf |-> 0, core |-> 0, txPackets |-> 0, rxPackets |-> 0, lostPackets |-> 0,
          received |-> 0, reasons |-> {}]

-----------------------------------------------------------------------------
(* main.                                                                   *)

\* Mutant: the type is not looked at.
AnyType(r) == line(r).known

\* cmd.Parse ends the program when it meets an option it does not know; the
\* wifi program then looks at --queueDiscType.
Legal(r) == line(r).known /\ (line(r).program = "wifi" => line(r).type # "other")

Parse(r) ==
    /\ pc[r] = "off"
    /\ \A q \in Launches : q < r => pc[q] \in IF session.parallel THEN {"running"} \cup Ended
                                              ELSE Ended
    /\ Goto(r, IF Legal(r) THEN "parsed" ELSE "rejected")
    /\ overlapped' = overlapped \cup
          If(Legal(r) /\ \E q \in Launches : Started(q) /\ Dir(q) = Dir(r), {Dir(r)})
    /\ UNCHANGED <<session, flows, simulator, disk, taken, owner, left, unnoticed>>

\* Nodes, stacks, queue discs, sinks and clients.
Build(r) ==
    /\ pc[r] = "parsed"
    /\ flows' = [flows EXCEPT ![r] = Flows(line(r))]
    /\ Goto(r, "built")
    /\ UNCHANGED <<session, simulator, disk, taken, histories>>

\* rm leaves this of directory d when it fails: all, the directory without its
\* files, or, when it was only its status that was lost, nothing.
Leftovers(d) == {d, [d EXCEPT !.samples = <<>>, !.xml = Nobody], Absent}

\* Launch r goes on with what is left of its directory.
TakeOver(r, d) ==
    /\ Goto(r, "removed")
    /\ disk' = [disk EXCEPT ![Dir(r)] = d]
    /\ owner' = [owner EXCEPT ![Dir(r)] = r]
    /\ left' = [left EXCEPT ![Dir(r)] = d.samples]

\* main does not look at the status of a command that the shell could not
\* find or that failed.
Fails(r, command) ==
    /\ session.commandsFail
    /\ unnoticed' = [unnoticed EXCEPT ![r] = @ \cup {command}]

\* Mutant: rm -rf is left out.
KeepDirectory(r) ==
    /\ pc[r] = "built"
    /\ Goto(r, "removed")
    /\ owner' = [owner EXCEPT ![Dir(r)] = r]
    /\ left' = [left EXCEPT ![Dir(r)] = <<>>]
    /\ UNCHANGED <<session, flows, simulator, disk, taken, unnoticed, overlapped>>

\* system returns -1 when no shell can be started, and else the status.
RemoveDirectory(r) ==
    /\ pc[r] = "built"
    /\ \/ TakeOver(r, Absent) /\ unnoticed' = unnoticed
       \/ /\ Fails(r, "rm")
          /\ \E d \in Leftovers(disk[Dir(r)]) : TakeOver(r, d)
       \/ session.forkFails /\ Goto(r, "failed") /\ UNCHANGED <<disk, owner, left, unnoticed>>
    /\ UNCHANGED <<session, flows, simulator, taken, overlapped>>

\* A directory that is there stays.
MakeDirectory(r) ==
    /\ pc[r] = "removed"
    /\ \/ /\ Goto(r, "made")
          /\ disk' = [disk EXCEPT ![Dir(r)].exists = TRUE]
          /\ unnoticed' = unnoticed
       \/ Fails(r, "mkdir") /\ Goto(r, "made") /\ disk' = disk
       \/ session.forkFails /\ Goto(r, "failed") /\ UNCHANGED <<disk, unnoticed>>
    /\ UNCHANGED <<session, flows, simulator, taken, owner, left, overlapped>>

\* The scheduler keeps the events in the order of their times, and those of one
\* time in the order in which they were scheduled.
Insert(q, e) == InsertAt(q, Cardinality({i \in DOMAIN q : q[i].at <= e.at}) + 1, e)
Before(q, i) == {j \in DOMAIN q : q[j].at < q[i].at \/ (q[j].at = q[i].at /\ j < i)}
InOrder(q) == [k \in DOMAIN q |->
                  q[CHOOSE i \in DOMAIN q : Cardinality(Before(q, i)) = k - 1]]

Run(r) ==
    /\ pc[r] = "made"
    /\ pending' = [pending EXCEPT ![r] = InOrder(Scheduled(line(r)))]
    /\ Goto(r, "running")
    /\ UNCHANGED <<session, flows, now, on, net, disk, taken, histories>>

-----------------------------------------------------------------------------
(* The simulator and its handlers.                                         *)

\* A file is opened for appending for each sample, which fails unnoticed when
\* there is no directory.
Write(r, s) ==
    LET added == IF s.at < Greatest(SampleTimes) THEN <<s>> ELSE <<>>
    IN  /\ disk' = [disk EXCEPT ![Dir(r)].samples =
                                IF disk[Dir(r)].exists THEN @ \o added ELSE @]
        /\ taken' = [taken EXCEPT ![r] = @ \o added]

\* A sample: who took it, when, and which of the values printed are numbers
\* (the others are 0/0).
Sample(r, what, t, numbers) == [by |-> r, what |-> what, at |-> t, numbers |-> numbers]

\* Mutant: the ratios are relative to the losses.
RelativeToLosses(r) == net[r].lostPackets

\* What the two ratios are divided by.
Denominator(r) ==
    IF line(r).program = "lrwpan" THEN net[r].txPackets
    ELSE net[r].rxPackets + net[r].lostPackets

TraceMetrics(r, t) ==
    Write(r, Sample(r, "TraceMetrics", t,
        {"throughput"} \cup If(net[r].rxPackets > 0, {"delay"})
                       \cup If(Denominator(r) > 0, {"drop", "delivery"})))

TraceQueue(r, t) == Write(r, Sample(r, "TraceQueue", t, {"bufferOccupancy"}))

TraceQueueDrop(r, t) ==
    Write(r, Sample(r, "TraceQueueDrop", t, If(net[r].received > 0, {"dropRatio"})))

\* The next time at which the handler is observed.
Later(t) == Least({s \in SampleTimes : s > t} \cup {Greatest(SampleTimes)})

Handle(r, e) ==
    \/ /\ \/ e.what = "TraceMetrics" /\ TraceMetrics(r, e.at)
          \/ e.what = "TraceQueue" /\ TraceQueue(r, e.at)
          \/ e.what = "TraceQueueDrop" /\ TraceQueueDrop(r, e.at)
       /\ pending' = [pending EXCEPT ![r] = Insert(Tail(@), Event(e.what, Later(e.at)))]
       /\ UNCHANGED <<pc, on>>
    \/ /\ \/ e.what = "sinks start" /\ on' = [on EXCEPT ![r] = @ \cup {"sinks"}]
          \/ e.what = "sinks stop" /\ on' = [on EXCEPT ![r] = @ \ {"sinks"}]
          \/ e.what = "clients start" /\ on' = [on EXCEPT ![r] = @ \cup {"clients"}]
          \/ e.what = "clients stop" /\ on' = [on EXCEPT ![r] = @ \ {"clients"}]
       /\ pending' = [pending EXCEPT ![r] = Tail(@)]
       /\ UNCHANGED <<pc, disk, taken>>
    \/ /\ e.what = "stop"
       /\ Goto(r, "stopped")
       /\ pending' = [pending EXCEPT ![r] = Tail(@)]
       /\ UNCHANGED <<on, disk, taken>>

NextEvent(r) ==
    /\ pc[r] = "running"
    /\ pending[r] # <<>>
    /\ now' = [now EXCEPT ![r] = Head(pending[r]).at]
    /\ Handle(r, Head(pending[r]))
    /\ UNCHANGED <<session, flows, net, histories>>

\* A client sends a packet; its connection outlives it.
Transmit(r) ==
    /\ flows[r] > 0
    /\ "clients" \in on[r] \/ net[r].txPackets > 0
    /\ net[r].txPackets < session.packets[r]
    /\ net' = [net EXCEPT ![r].txPackets = @ + 1, ![r].leaf = @ + 1]

\* A packet reaches the router of the clients, whose queue disc, if it has one,
\* takes it or drops it.
Reach(r) ==
    /\ net[r].leaf > 0
    /\ LET seen == IF TracedDiscOnPath(line(r).program) THEN 1 ELSE 0
       IN  \/ net' = [net EXCEPT ![r].leaf = @ - 1, ![r].core = @ + 1,
                                 ![r].received = @ + seen]
           \/ /\ line(r).program # "lrwpan"
              /\ \E reason \in {"unforced", "forced", "internal"} :
                    net' = [net EXCEPT ![r].leaf = @ - 1, ![r].lostPackets = @ + 1,
                                       ![r].received = @ + seen,
                                       ![r].reasons = If(seen = 1, {reason}) \cup @]

\* A packet is lost elsewhere.
Lose(r) ==
    \/ net[r].leaf > 0 /\ net' = [net EXCEPT ![r].leaf = @ - 1, ![r].lostPackets = @ + 1]
    \/ net[r].core > 0 /\ net' = [net EXCEPT ![r].core = @ - 1, ![r].lostPackets = @ + 1]

Arrive(r) ==
    /\ net[r].core > 0
    /\ net' = [net EXCEPT ![r].core = @ - 1, ![r].rxPackets = @ + 1]

\* TCP answers at a sink.  The packet is of another flow, which the monitor
\* counts, too, and does not leave the clients' router by the traced disc.
Answer(r) ==
    /\ net[r].rxPackets > 0
    /\ net[r].txPackets < session.packets[r]
    /\ net' = [net EXCEPT ![r].txPackets = @ + 1, ![r].core = @ + 1]

Traffic(r) ==
    /\ pc[r] = "running"
    /\ Transmit(r) \/ Reach(r) \/ Lose(r) \/ Arrive(r) \/ Answer(r)
    /\ UNCHANGED <<session, pc, flows, now, pending, on, disk, taken, histories>>

\* What remains of the process: nothing.
Destroy(r) ==
    /\ now' = [now EXCEPT ![r] = 0]
    /\ pending' = [pending EXCEPT ![r] = <<>>]
    /\ on' = [on EXCEPT ![r] = {}]
    /\ net' = [net EXCEPT ![r] = Quiet]

\* flow.xml is written anew, if there is a directory.
SerializeToXmlFile(r) ==
    disk' = [disk EXCEPT ![Dir(r)].xml = IF disk[Dir(r)].exists THEN r ELSE @]

\* The wired programs only print.
WiredReport(r) ==
    /\ line(r).program \in Wired
    /\ Goto(r, "done")
    /\ disk' = disk

\* flow.xml, and then two checks of the queue disc's statistics.
WifiReport(r) ==
    /\ line(r).program = "wifi"
    /\ SerializeToXmlFile(r)
    /\ Goto(r, IF "unforced" \in net[r].reasons /\ "internal" \notin net[r].reasons
               THEN "done" ELSE "failed")

LrWpanReport(r) ==
    /\ line(r).program = "lrwpan"
    /\ SerializeToXmlFile(r)
    /\ Goto(r, "done")

Report(r) ==
    /\ pc[r] = "stopped"
    /\ WiredReport(r) \/ WifiReport(r) \/ LrWpanReport(r)
    /\ Destroy(r)
    /\ UNCHANGED <<session, flows, taken, histories>>

Init ==
    /\ session \in Sessions
    /\ pc = [r \in Launches |-> "off"]
    /\ flows = [r \in Launches |-> 0]
    /\ now = [r \in Launches |-> 0]
    /\ pending = [r \in Launches |-> <<>>]
    /\ on = [r \in Launches |-> {}]
    /\ net = [r \in Launches |-> Quiet]
    /\ disk = [n \in Names |-> Absent]
    /\ taken = [r \in Launches |-> <<>>]
    /\ owner = [n \in Names |-> Nobody]
    /\ left = [n \in Names |-> <<>>]
    /\ unnoticed = [r \in Launches |-> {}]
    /\ overlapped = {}

\* What a program does once it is started.
Program(r) ==
    \/ Build(r) \/ RemoveDirectory(r) \/ MakeDirectory(r) \/ Run(r)
    \/ NextEvent(r) \/ Report(r)

Next == \E r \in Launches : Parse(r) \/ Program(r) \/ Traffic(r)

Spec == Init /\ [][Next]_vars

\* A program that was started runs.
FairSpec == Spec /\ \A r \in Launches : WF_vars(Program(r))

-----------------------------------------------------------------------------
(* Properties.                                                             *)

Samples == [by : Launches, at : Nat, numbers : SUBSET {"throughput", "delay", "drop",
                "delivery", "bufferOccupancy", "dropRatio"},
            what : {"TraceMetrics", "TraceQueue", "TraceQueueDrop"}]
Directories == [exists : BOOLEAN, samples : Seq(Samples), xml : Launches \cup {Nobody}]

TypeOK ==
    /\ session \in Sessions
    /\ pc \in [Launches -> {"off", "parsed", "built", "removed", "made", "running",
                            "stopped"} \cup Ended]
    /\ flows \in [Launches -> Nat] /\ now \in [Launches -> Nat]
    /\ \A r \in Launches :
          /\ \A i \in DOMAIN pending[r] : pending[r][i].at \in Nat
          /\ on[r] \subseteq {"sinks", "clients"}
          /\ net[r].leaf + net[r].core + net[r].rxPackets + net[r].lostPackets
                = net[r].txPackets
          /\ taken[r] \in Seq(Samples)
    /\ \A n \in Names : disk[n] \in Directories

\* Unless two launches of one name ran at the same time, a directory is that of
\* the launch r that last ran rm on it: its files have all of r's samples, in
\* the order of time, behind what rm could not remove; they are there, unless
\* mkdir failed; they and flow.xml have nothing of earlier launches, unless rm
\* failed; and flow.xml is of r when r has come to its end.
ResultsComplete ==
    \A r \in Launches : owner[Dir(r)] = r /\ Dir(r) \notin overlapped =>
        LET d == disk[Dir(r)]
        IN  /\ d.exists => d.samples = left[Dir(r)] \o taken[r]
            /\ \A i, j \in DOMAIN taken[r] : i < j => taken[r][i].at <= taken[r][j].at
            /\ taken[r] # <<>> /\ "mkdir" \notin unnoticed[r] => d.exists
            /\ "rm" \notin unnoticed[r]
                  => left[Dir(r)] = <<>> /\ d.xml \in {Nobody, r}
            /\ d.exists /\ pc[r] = "done" /\ line(r).program \notin Wired => d.xml = r

\* The results of earlier launches are not touched by a program that is
\* called with options it does not take.
OnlyLegalLaunchesWrite ==
    [][\A n \in Names : disk'[n] # disk[n] =>
          \E r \in Launches : Dir(r) = n /\ pc[r] \notin Ended /\ line(r).known
              /\ (line(r).program = "wifi" => line(r).type \in {"RED", "ARED"})]_vars

\* A value that was a number once is a number in every later sample, and who
\* has a delay to print has ratios, too.
NumbersStay ==
    \A r \in Launches : \A i, j \in DOMAIN taken[r] :
        /\ i < j /\ taken[r][i].what = taken[r][j].what
              => taken[r][i].numbers \subseteq taken[r][j].numbers
        /\ "delay" \in taken[r][i].numbers => {"drop", "delivery"} \subseteq taken[r][i].numbers

\* Every launch comes to an end, although the handlers always schedule
\* themselves again.
LaunchesEnd == \A r \in Launches : pc[r] # "off" ~> pc[r] \in Ended
-----------------------------------------------------------------------------
(* The inductive invariant, part by part.                                  *)

Handlers == {"TraceMetrics", "TraceQueue", "TraceQueueDrop"}
Events == [what : Handlers \cup {"stop", "sinks start", "sinks stop", "clients start",
                                 "clients stop"},
           at : 0 .. Greatest(SampleTimes)]

\* In the order of time.
Ordered(q) == \A i, j \in DOMAIN q : i < j => q[i].at <= q[j].at

Simulating(r) == pc[r] \in {"running", "stopped"}
Owning(r) == pc[r] \in {"removed", "made", "running", "stopped"}

\* Who gets past the command line has a legal one.
Legality == \A r \in Launches : pc[r] \notin {"off", "rejected"} => Legal(r)

\* The scheduler is never behind the simulated time, and no sample ahead of it.
Clock(r) ==
    /\ now[r] \in Nat
    /\ pending[r] \in Seq(Events) /\ Ordered(pending[r])
    /\ \A i \in DOMAIN pending[r] : now[r] <= pending[r][i].at
    /\ taken[r] \in Seq(Samples) /\ Ordered(taken[r])
    /\ Simulating(r) => \A i \in DOMAIN taken[r] : taken[r][i].at <= now[r]
    /\ ~ Simulating(r) => now[r] = 0 /\ pending[r] = <<>>
    /\ pc[r] \in {"off", "parsed", "built", "removed", "made", "rejected"}
          => taken[r] = <<>>

Counters == [leaf : Nat, core : Nat, txPackets : Nat, rxPackets : Nat, lostPackets : Nat,
             received : Nat, reasons : SUBSET {"unforced", "forced", "internal"}]

\* Every packet that was sent is on its way, at its destination or lost.
Counts(r) ==
    /\ net[r] \in Counters
    /\ net[r].leaf + net[r].core + net[r].rxPackets + net[r].lostPackets
          = net[r].txPackets

\* The values that are numbers in a sample of this kind that is taken now.
NumbersNow(r, what) ==
    CASE what = "TraceMetrics" ->
            {"throughput"} \cup If(net[r].rxPackets > 0, {"delay"})
                           \cup If(Denominator(r) > 0, {"drop", "delivery"})
      [] what = "TraceQueue" -> {"bufferOccupancy"}
      [] what = "TraceQueueDrop" -> If(net[r].received > 0, {"dropRatio"})

\* No earlier sample has a number that one taken now would lack.
Printed(r) ==
    Simulating(r) => \A i \in DOMAIN taken[r] :
        taken[r][i].numbers \subseteq NumbersNow(r, taken[r][i].what)

\* The results of launch r, to which its directory belongs.
Stored(r) ==
    LET d == disk[Dir(r)]
    IN  /\ d.exists \/ pc[r] = "removed" => d.samples = left[Dir(r)] \o taken[r]
        /\ taken[r] # <<>> \/ pc[r] \in {"made", "running", "stopped"}
              => "mkdir" \in unnoticed[r] \/ d.exists
        /\ "rm" \notin unnoticed[r] => left[Dir(r)] = <<>> /\ d.xml \in {Nobody, r}
        /\ d.exists /\ pc[r] = "done" /\ line(r).program \notin Wired => d.xml = r

\* As long as no two launches of this name ran at once, a launch that has got
\* past rm has the directory to itself.
Directory(r) ==
    Dir(r) \notin overlapped =>
        /\ Started(r) => \A q \in Launches \ {r} : Dir(q) = Dir(r) => ~ Started(q)
        /\ Owning(r) => owner[Dir(r)] = r
        /\ owner[Dir(r)] = r => Stored(r)

Types ==
    /\ session \in Sessions
    /\ pc \in [Launches -> {"off", "parsed", "built", "removed", "made", "running",
                            "stopped"} \cup Ended]
    /\ flows \in [Launches -> Nat] /\ now \in [Launches -> Nat]
    /\ pending \in [Launches -> Seq(Events)]
    /\ on \in [Launches -> SUBSET {"sinks", "clients"}]
    /\ DOMAIN net = Launches
    /\ taken \in [Launches -> Seq(Samples)]
    /\ disk \in [Names -> Directories]
    /\ owner \in [Names -> Launches \cup {Nobody}]
    /\ left \in [Names -> Seq(Samples)]
    /\ unnoticed \in [Launches -> SUBSET {"rm", "mkdir"}]
    /\ overlapped \subseteq Names

Inv ==
    /\ Types
    /\ Legality
    /\ \A r \in Launches : Clock(r) /\ Counts(r) /\ Printed(r) /\ Directory(r)
    /\ NumbersStay
=============================================================================
