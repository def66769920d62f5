------------------------------ MODULE MCBuffer ------------------------------
(* Instances of Buffer for TLC.                                            *)
EXTENDS Buffer

\* A chunk of which three fit, one of which two do not fit, and the negative one.
SomeDraws == {30000, 51190, MinInt}
=============================================================================
