---------------------------- MODULE MCSystemScan ----------------------------
(* All processes, or the one with a certain pid. *)
EXTENDS SystemScan

MCOptions == {[all |-> TRUE, pid |-> 0], [all |-> FALSE, pid |-> 1]}
=============================================================================
