----------------------------- MODULE MCCapture ------------------------------
(* Capture for TLC. *)
EXTENDS Capture, TLC

SerialFaults    == {"fs", "create", "load", "attach", "reply"}
DeviceSymmetry  == Permutations(Objs) \cup Permutations(Captures)
=============================================================================
