---------------------------- MODULE MCExperiment ----------------------------
(* Instances of Experiment for TLC.                                        *)
EXTENDS Experiment

Plain(p) == [program |-> p, nodes |-> NotGiven, type |-> "RED", tracing |-> TRUE,
             known |-> TRUE]
Twice(a, b) == [lines |-> <<a, b>>, parallel |-> FALSE, forkFails |-> FALSE,
                commandsFail |-> FALSE, packets |-> <<3, 2>>]

\* Two launches of one program with different parameters, of two programs, of
\* the wifi program with a bad option, of the sensor network with and without
\* samples and with other numbers of nodes; launches that overlap, of one
\* program and of two; a machine where no shell starts, and one where rm and
\* mkdir fail.
SomeSessions == {
    Twice(Plain("wired-red"), [Plain("wired-red") EXCEPT !.nodes = 20]),
    Twice(Plain("wired-stabilized-red"), [Plain("wired-ES-red") EXCEPT !.nodes = 0]),
    Twice(Plain("wifi"), [Plain("wifi") EXCEPT !.type = "other"]),
    Twice(Plain("lrwpan"), [Plain("lrwpan") EXCEPT !.nodes = 13]),
    Twice([Plain("lrwpan") EXCEPT !.tracing = FALSE], [Plain("wifi") EXCEPT !.known = FALSE]),
    [Twice(Plain("lrwpan"), [Plain("lrwpan") EXCEPT !.nodes = 3])
        EXCEPT !.parallel = TRUE, !.packets = <<1, 0>>],
    [Twice(Plain("wifi"), Plain("lrwpan")) EXCEPT !.parallel = TRUE, !.packets = <<1, 0>>],
    [Twice([Plain("wifi") EXCEPT !.type = "ARED"], Plain("wifi"))
        EXCEPT !.forkFails = TRUE],
    [Twice(Plain("lrwpan"), Plain("lrwpan"))
        EXCEPT !.commandsFail = TRUE, !.packets = <<1, 0>>],
    [Twice(Plain("wifi"), Plain("wifi"))
        EXCEPT !.commandsFail = TRUE, !.forkFails = TRUE, !.packets = <<1, 1>>] }

SomeTimes == {12, 55, 1200}
=============================================================================
