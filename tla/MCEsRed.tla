------------------------------ MODULE MCEsRed -------------------------------
(* Instances of EsRed for TLC.                                             *)
EXTENDS EsRed

Plain(unit, max, mode) ==
    [unit |-> unit, max |-> max, mode |-> mode, pMax |-> 15, pOverwrite |-> 25,
     filters |-> 0, classes |-> 0, queues |-> 0]

\* The attributes of wired-esred-simulation in both units, the full mode with a
\* filter, and a disc that is refused.
SomeConfigs == {
    Plain("bytes", 6, 1),
    Plain("packets", 2, 1),
    [Plain("bytes", 6, 2) EXCEPT !.filters = 1],
    [Plain("bytes", 6, 1) EXCEPT !.queues = 2] }
=============================================================================
