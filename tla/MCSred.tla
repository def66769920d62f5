------------------------------- MODULE MCSred -------------------------------
(* Instances of Sred for TLC.                                              *)
EXTENDS Sred

Plain(unit, max, mode) ==
    [unit |-> unit, max |-> max, mode |-> mode, pMax |-> 15, pOverwrite |-> 25,
     filters |-> 0, classes |-> 0, queues |-> 0]

\* The attributes of the simulations in both units and modes, a disc with a
\* filter whose drops may be certain, one that never overwrites, one that
\* always does, in a mode that does not exist, and one that is refused.
SomeConfigs == {
    Plain("bytes", 6, 1),
    Plain("bytes", 6, 2),
    Plain("packets", 2, 1),
    [Plain("bytes", 5, 1) EXCEPT !.pMax = 100, !.filters = 1],
    [Plain("bytes", 5, 2) EXCEPT !.pOverwrite = 0, !.queues = 1],
    [Plain("packets", 3, 0) EXCEPT !.pOverwrite = 100],
    [Plain("bytes", 6, 1) EXCEPT !.classes = 1] }

PacketConfigs == {Plain("packets", 2, 1)}
=============================================================================
