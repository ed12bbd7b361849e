---------------------------- MODULE MCDownloadRuns ----------------------------
(* The calls of the runs of DownloadRuns, and the capacities of its gates.  *)
EXTENDS DownloadRuns, TLC

CONSTANTS r1, r2, r3

OnePermit == [g \in Gates |-> 1]
TwoAtOnce == [g \in Gates |-> 2]

Calls(a, b, c) == (r1 :> a) @@ (r2 :> b) @@ (r3 :> c)

SomeMixes ==
  {[calls |-> Calls("download", "download", None), exits |-> FALSE],
   [calls |-> Calls("download", "plain", None), exits |-> TRUE],
   [calls |-> Calls("probe", "probe", "plain"), exits |-> FALSE],
   [calls |-> Calls("plain", "plain", "plain"), exits |-> FALSE]}
=============================================================================
