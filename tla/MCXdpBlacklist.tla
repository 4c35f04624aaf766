--------------------------- MODULE MCXdpBlacklist ---------------------------
(* XdpBlacklist for TLC. *)
EXTENDS XdpBlacklist, TLC

Ipv4(n, proto, src, q) ==
  [len |-> n, types |-> <<"IP", "OTHER", "OTHER">>, proto |-> proto, src |-> src, dport |-> q]

AnySrc == CHOOSE s \in Srcs : TRUE
LastPort == 65535
OtherPort == 22

\* A whole frame from every source.
TcpFrames == {Ipv4(60, "TCP", s, LastPort) : s \in Srcs}
\* The ways a run ends early: no L2, no L3, no L4, another protocol.
ShortFrames == {Ipv4(n, "TCP", AnySrc, LastPort) : n \in {13, 33, 53}}
               \cup {Ipv4(60, "ICMP", AnySrc, LastPort)}
AllFrames == TcpFrames \cup ShortFrames
NoFrames  == {}

Op(act, s, q, p) == [act |-> {act}, src |-> s, port |-> q, proto |-> p]
AddDel   == {"ADD", "DEL"}
TcpOps   == {Op(a, NoSrc, LastPort, "TCP") : a \in AddDel}
PortOps  == {Op(a, NoSrc, LastPort, p) : a \in AddDel, p \in Protos}
\* A change of another port, which may overlap one of LastPort.
OtherOps == {Op("ADD", NoSrc, OtherPort, "TCP")}
AddOps   == {Op("ADD", NoSrc, LastPort, p) : p \in Protos}
SrcOps   == {Op(a, AnySrc, 0, "TCP") : a \in AddDel} \cup {Op("ADD", s, 0, "TCP") : s \in Srcs}
BothOps  == {Op(a, AnySrc, LastPort, "TCP") : a \in AddDel}
\* Both actions, nothing to act on, bad addresses and ports.
BadOps   == {[act |-> AddDel, src |-> AnySrc, port |-> LastPort, proto |-> "TCP"],
             Op("DEL", NoSrc, 0, "TCP"), Op("ADD", BadSrc, 65536, "UDP"),
             Op("ADD", BadSrc, LastPort, "TCP"), Op("DEL", NoSrc, -1, "UDP")}

EveryOp    == SrcOps \cup PortOps \cup OtherOps \cup BothOps \cup BadOps
CountOps   == SrcOps \cup TcpOps \cup {Op("DEL", NoSrc, LastPort, "UDP")}

ContentionSymmetry == Permutations(CPUs) \cup Permutations(Tools)
=============================================================================
