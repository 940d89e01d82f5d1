---------------------------- MODULE MCSlaMonitor ----------------------------
(* Instances of SlaMonitor for TLC. *)
EXTENDS SlaMonitor, TLC

CONSTANTS t1, t2, admin, p1, p2

MonitorSymmetry == Permutations({t1, t2}) \cup Permutations({p1, p2})

=============================================================================
