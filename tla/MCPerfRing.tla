----------------------------- MODULE MCPerfRing ------------------------------
(* PerfRing for TLC. *)
EXTENDS PerfRing

TwoRings   == {0, 1}
AllSizes   == {3, 5}
AllKinds   == {"SAMPLE", "BAD"}
=============================================================================
