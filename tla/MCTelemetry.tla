---------------------------- MODULE MCTelemetry ----------------------------
(***************************************************************************)
(* Two runs.  One outcome is an approval at once, the other a rejection    *)
(* with the same class found twice.                                        *)
(***************************************************************************)
EXTENDS Telemetry

CONSTANTS r1, r2, c1

MCRuns == {r1, r2}
MCClasses == {c1}

Approved ==
  [approved |-> TRUE, iterations |-> 1, latency |-> 2, risk |-> 0, findings |-> << >>]
Rejected ==
  [approved |-> FALSE, iterations |-> 3, latency |-> 9, risk |-> 9, findings |-> << c1, c1 >>]

MCOutcomes == {Approved, Rejected}
=============================================================================
