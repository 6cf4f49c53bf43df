---------------------------- MODULE MCSupervisor ----------------------------
(* Model values for checking Supervisor with TLC: enough pids for every    *)
(* program that can be alive at once, and one more.                        *)
EXTENDS Supervisor, TLC

CONSTANTS p1, p2, p3, p4

MCPids == {p1, p2, p3, p4}
=============================================================================
