------------------------------- MODULE MCHive -------------------------------
(* Instances of Hive for TLC.                                              *)
EXTENDS Hive

\* Connections are interchangeable: they start alike and no definition
\* chooses among them.  Used only in runs without liveness properties.
ConnSymmetry == Permutations(Conns)
=============================================================================
