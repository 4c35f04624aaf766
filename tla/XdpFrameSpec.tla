---------------------------- MODULE XdpFrameSpec ----------------------------
(***************************************************************************)
(* What a run of xdp_program promises about one frame, stated without the  *)
(* order in which the code looks at it, and a machine that meets every     *)
(* frame with every rule set: rules are added one at a time to an empty    *)
(* blacklist, and the frame is classified under each.                      *)
(***************************************************************************)
EXTENDS XdpFrame

CONSTANTS Lens, Srcs, Ports      \* the frames: Frame(Lens, Srcs, Ports)

ASSUME FrameAssumption == Lens \subseteq Nat /\ Ports \subseteq 0..MaxPort

VARIABLES frame, sources, blocked
vars == <<frame, sources, blocked>>

Init == /\ frame \in Frame(Lens, Srcs, Ports)
        /\ sources = {}
        /\ blocked = {}

BlockSource == /\ sources' \in {sources \cup {s} : s \in Srcs \ sources}
               /\ UNCHANGED <<frame, blocked>>

BlockPort == /\ blocked' \in {blocked \cup {r} : r \in (Protos \X Ports) \ blocked}
             /\ UNCHANGED <<frame, sources>>

Next == BlockSource \/ BlockPort
Spec == Init /\ [][Next]_vars

-----------------------------------------------------------------------------
(* The reference: zero, one or two VLAN tags, then an IPv4 header that is  *)
(* there as a whole, then a TCP or UDP header that is there as a whole.    *)

VlanTags(f) == CHOOSE n \in 0..2 :
                 /\ \A i \in 1..n : IsVlanType(f.types[i])
                 /\ n = 2 \/ ~IsVlanType(f.types[n + 1])
L3(f)       == EthHlen + VlanTags(f) * VlanHlen
IsIpv4(f)   == L3(f) <= f.len /\ f.types[VlanTags(f) + 1] = "IP"
HasIp(f)    == IsIpv4(f) /\ f.len >= L3(f) + IpHlen
HasL4(f)    == HasIp(f) /\ f.proto \in Protos /\ f.len >= L3(f) + IpHlen + L4Hlen[f.proto]

SourceRuleHits(f) == HasIp(f) /\ f.src \in sources
PortRuleHits(f)   == HasL4(f) /\ <<f.proto, f.dport>> \in blocked
Truncated(f)      == \/ IsIpv4(f) /\ ~HasIp(f)
                     \/ HasIp(f) /\ f.proto \in Protos /\ ~HasL4(f)

\* No function looks beyond data_end: what the kernel's verifier demands of
\* the bound checks in parse_eth, parse_ipv4 and parse_port.
ReadsInBounds == Classify(frame, sources, blocked).reach <= frame.len

\* The verdict is exactly the policy: DROP when a rule matches, ABORTED when
\* a header the program needs is cut short and no source rule settled it,
\* PASS for all else (other protocols, a third VLAN tag, 802.3 lengths).
VerdictIsPolicy ==
  Verdict(frame, sources, blocked) =
    IF SourceRuleHits(frame) \/ PortRuleHits(frame) THEN "DROP"
    ELSE IF Truncated(frame) THEN "ABORTED"
    ELSE "PASS"
=============================================================================
