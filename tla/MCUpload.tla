------------------------------ MODULE MCUpload ------------------------------
(* Instances of Upload for TLC; the configurations choose the faults.      *)
EXTENDS Upload
=============================================================================
