--------------------------- MODULE XdpFrame_proofs ---------------------------
(***************************************************************************)
(* Theorems about the classification of a frame, for every length of the   *)
(* frame, every set of addresses and ports and every set of rules.         *)
(***************************************************************************)
EXTENDS XdpFrameSpec, TLAPS

\* The walk over the tags, case by case of how many there are.
LEMMA VlanTagsCases ==
  ASSUME NEW f
  PROVE  /\ VlanTags(f) \in 0..2
         /\ ~IsVlanType(f.types[1]) => VlanTags(f) = 0
         /\ IsVlanType(f.types[1]) /\ ~IsVlanType(f.types[2]) => VlanTags(f) = 1
         /\ IsVlanType(f.types[1]) /\ IsVlanType(f.types[2]) => VlanTags(f) = 2
<1> DEFINE P(n) == /\ \A i \in 1..n : IsVlanType(f.types[i])
                   /\ n = 2 \/ ~IsVlanType(f.types[n + 1])
<1>1. \E n \in 0..2 : P(n)
  <2>1. CASE ~IsVlanType(f.types[1])
    <3>1. P(0)
      BY <2>1
    <3> QED BY <3>1
  <2>2. CASE IsVlanType(f.types[1]) /\ ~IsVlanType(f.types[2])
    <3>1. P(1)
      BY <2>2
    <3> QED BY <3>1
  <2>3. CASE IsVlanType(f.types[1]) /\ IsVlanType(f.types[2])
    <3>1. P(2)
      BY <2>3
    <3> QED BY <3>1
  <2> QED BY <2>1, <2>2, <2>3
<1>2. VlanTags(f) = CHOOSE n \in 0..2 : P(n)
  BY DEF VlanTags
<1> HIDE DEF P
<1>3. VlanTags(f) \in 0..2 /\ P(VlanTags(f))
  BY <1>1, <1>2
<1>4. VlanTags(f) \in {0, 1, 2}
  BY <1>3
<1>5. /\ VlanTags(f) = 0 => ~IsVlanType(f.types[1])
      /\ VlanTags(f) = 1 => IsVlanType(f.types[1]) /\ ~IsVlanType(f.types[2])
      /\ VlanTags(f) = 2 => IsVlanType(f.types[1]) /\ IsVlanType(f.types[2])
  <2>1. VlanTags(f) = 0 => ~IsVlanType(f.types[1])
    BY <1>3 DEF P
  <2>2. VlanTags(f) = 1 => IsVlanType(f.types[1]) /\ ~IsVlanType(f.types[2])
    BY <1>3 DEF P
  <2>3. VlanTags(f) = 2 => IsVlanType(f.types[1]) /\ IsVlanType(f.types[2])
    BY <1>3 DEF P
  <2> QED BY <2>1, <2>2, <2>3
<1> QED BY <1>3, <1>4, <1>5

\* parse_eth reads what it has checked, ends at layer 3 when it succeeds, and
\* fails on frames only that hold no IPv4 header.
LEMMA ParseEthMeans ==
  ASSUME NEW f, f.len \in Nat
  PROVE  /\ ParseEth(f).ok => /\ L3(f) <= f.len
                              /\ ParseEth(f).l3 = L3(f)
                              /\ ParseEth(f).reach = L3(f)
                              /\ ParseEth(f).proto = f.types[VlanTags(f) + 1]
         /\ ~ParseEth(f).ok => /\ ParseEth(f).reach <= f.len
                               /\ ~IsIpv4(f)
         /\ ParseEth(f).ok \in BOOLEAN
         /\ L3(f) \in Nat
<1> DEFINE one == OuterHeader(f)
           two == StepVlan(f, one)
<1> USE DEF EthHlen, VlanHlen, ParseFailed, L3, IsIpv4
<1>1. CASE 14 > f.len \/ f.types[1] = "802.3"
  <2>1. ~one.ok /\ one.ok \in BOOLEAN /\ one.reach <= f.len
    BY <1>1 DEF OuterHeader
  <2>2. ParseEth(f) = one
    BY <2>1 DEF ParseEth, StepVlan
  <2>3. ~IsIpv4(f) /\ L3(f) \in Nat
    <3>1. VlanTags(f) \in 0..2
      BY VlanTagsCases
    <3>2. CASE 14 > f.len
      BY <3>1, <3>2
    <3>3. CASE f.types[1] = "802.3"
      <4>1. VlanTags(f) = 0
        BY <3>3, VlanTagsCases DEF IsVlanType
      <4> QED BY <3>3, <4>1
    <3> QED BY <1>1, <3>1, <3>2, <3>3
  <2> QED BY <2>1, <2>2, <2>3
<1>2. CASE 14 <= f.len /\ f.types[1] # "802.3"
  <2>1. one = [ok |-> TRUE, proto |-> f.types[1], l3 |-> 14, reach |-> 14]
    BY <1>2 DEF OuterHeader
  <2>2. CASE ~IsVlanType(f.types[1])
    <3>1. ParseEth(f) = one
      BY <2>1, <2>2 DEF ParseEth, StepVlan
    <3>2. VlanTags(f) = 0
      BY <2>2, VlanTagsCases
    <3> QED BY <1>2, <2>1, <3>1, <3>2
  <2>3. CASE IsVlanType(f.types[1]) /\ 18 > f.len
    <3>1. two = [ok |-> FALSE, proto |-> "OTHER", l3 |-> 0, reach |-> 14]
      BY <2>1, <2>3 DEF StepVlan
    <3>2. ParseEth(f) = two
      BY <3>1 DEF ParseEth, StepVlan
    <3>3. VlanTags(f) \in {1, 2}
      BY <2>3, VlanTagsCases
    <3> QED BY <1>2, <2>3, <3>1, <3>2, <3>3
  <2>4. CASE IsVlanType(f.types[1]) /\ 18 <= f.len
    <3>1. two = [ok |-> TRUE, proto |-> f.types[2], l3 |-> 18, reach |-> 18]
      BY <2>1, <2>4 DEF StepVlan
    <3>2. CASE ~IsVlanType(f.types[2])
      <4>1. ParseEth(f) = two
        BY <3>1, <3>2 DEF ParseEth, StepVlan
      <4>2. VlanTags(f) = 1
        BY <2>4, <3>2, VlanTagsCases
      <4> QED BY <2>4, <3>1, <4>1, <4>2
    <3>3. CASE IsVlanType(f.types[2])
      <4>1. VlanTags(f) = 2
        BY <2>4, <3>3, VlanTagsCases
      <4> DEFINE inner == [ok |-> TRUE, proto |-> f.types[2], l3 |-> 18, reach |-> 18]
      <4>2. ParseEth(f) = StepVlan(f, inner)
        BY <3>1 DEF ParseEth
      <4>3. CASE 22 > f.len
        <5>1. ParseEth(f) = [ok |-> FALSE, proto |-> "OTHER", l3 |-> 0, reach |-> 18]
          BY ONLY <3>3, <4>2, <4>3 DEF StepVlan
        <5> QED BY <2>4, <4>1, <4>3, <5>1
      <4>4. CASE 22 <= f.len
        <5>1. ParseEth(f) = [ok |-> TRUE, proto |-> f.types[3], l3 |-> 22, reach |-> 22]
          <6>1. StepVlan(f, inner) = [ok |-> TRUE, proto |-> f.types[((22 - 14) \div 4) + 1],
                                      l3 |-> 22, reach |-> 22]
            BY ONLY f.len \in Nat, <3>3, <4>4 DEF StepVlan
          <6> QED BY ONLY <4>2, <6>1
        <5> QED BY <4>1, <4>4, <5>1
      <4> QED BY <4>3, <4>4
    <3> QED BY <3>2, <3>3
  <2> QED BY <1>2, <2>2, <2>3, <2>4
<1> QED BY <1>1, <1>2

\* The length is all that the type of a frame is needed for.
FrameInv == frame.len \in Nat

LEMMA FrameTyped == Spec => []FrameInv
<1>1. Init => FrameInv
  BY FrameAssumption DEF Init, Frame, FrameInv
<1>2. FrameInv /\ [Next]_vars => FrameInv'
  BY DEF FrameInv, Next, BlockSource, BlockPort, vars
<1> QED BY <1>1, <1>2, PTL DEF Spec

LEMMA BoundsKept == FrameInv => ReadsInBounds
<1> SUFFICES ASSUME FrameInv PROVE Classify(frame, sources, blocked).reach <= frame.len
  BY DEF ReadsInBounds
<1> DEFINE eth == ParseEth(frame)
<1>1. /\ eth.ok => eth.reach <= frame.len /\ eth.l3 = L3(frame) /\ L3(frame) <= frame.len
      /\ ~eth.ok => eth.reach <= frame.len
      /\ L3(frame) \in Nat
  BY ParseEthMeans DEF FrameInv
<1>2. CASE ~eth.ok \/ eth.proto # "IP"
  BY <1>1, <1>2 DEF Classify
<1>3. CASE eth.ok /\ eth.proto = "IP"
  <2>1. Classify(frame, sources, blocked) = ParseIpv4(frame, L3(frame), sources, blocked)
    BY <1>1, <1>3 DEF Classify
  <2>2. frame.len \in Nat /\ L3(frame) \in Nat /\ L3(frame) <= frame.len
    BY <1>1, <1>3 DEF FrameInv
  <2> HIDE DEF eth
  <2>3. CASE ~IpHeaderFits(frame, L3(frame))
    BY <2>1, <2>2, <2>3 DEF ParseIpv4
  <2>4. CASE IpHeaderFits(frame, L3(frame)) /\ frame.src \in sources
    BY <2>1, <2>2, <2>4 DEF ParseIpv4, IpHeaderFits, IpHlen
  <2>5. CASE IpHeaderFits(frame, L3(frame)) /\ frame.src \notin sources
    <3>1. Classify(frame, sources, blocked) = ParsePort(frame, L3(frame), blocked)
      BY <2>1, <2>5 DEF ParseIpv4
    <3> QED BY <2>2, <2>5, <3>1 DEF ParsePort, IpHeaderFits, IpHlen, L4HeaderFits, L4Hlen, Protos
  <2> QED BY <2>3, <2>4, <2>5
<1> QED BY <1>2, <1>3

LEMMA PolicyKept == FrameInv => VerdictIsPolicy
<1> SUFFICES ASSUME FrameInv PROVE VerdictIsPolicy
  OBVIOUS
<1> DEFINE eth == ParseEth(frame)
<1>1. /\ eth.ok \in BOOLEAN
      /\ eth.ok => /\ eth.l3 = L3(frame) /\ L3(frame) <= frame.len
                   /\ eth.proto = frame.types[VlanTags(frame) + 1]
      /\ ~eth.ok => ~IsIpv4(frame)
      /\ L3(frame) \in Nat
  BY ParseEthMeans DEF FrameInv
<1>2. CASE ~eth.ok \/ eth.proto # "IP"
  <2>1. ~IsIpv4(frame)
    BY <1>1, <1>2 DEF IsIpv4
  <2>2. Verdict(frame, sources, blocked) = "PASS"
    BY <1>2 DEF Verdict, Classify
  <2> QED BY <2>1, <2>2 DEF VerdictIsPolicy, SourceRuleHits, PortRuleHits, Truncated, HasIp, HasL4
<1>3. CASE eth.ok /\ eth.proto = "IP"
  <2>1. IsIpv4(frame)
    BY <1>1, <1>3 DEF IsIpv4
  <2>2. Verdict(frame, sources, blocked) = ParseIpv4(frame, L3(frame), sources, blocked).action
    BY <1>1, <1>3 DEF Verdict, Classify
  <2>3. HasIp(frame) <=> IpHeaderFits(frame, L3(frame))
    BY <1>1, <2>1 DEF HasIp, IpHeaderFits, FrameInv, IpHlen
  <2>4. HasL4(frame) <=> /\ IpHeaderFits(frame, L3(frame)) /\ frame.proto \in Protos
                         /\ L4HeaderFits(frame, L3(frame))
    BY <1>1, <2>3 DEF HasL4, L4HeaderFits, FrameInv, IpHlen, L4Hlen, Protos
  <2> HIDE DEF eth
  <2>5. CASE ~IpHeaderFits(frame, L3(frame))
    BY <2>1, <2>2, <2>3, <2>4, <2>5
    DEF VerdictIsPolicy, ParseIpv4, SourceRuleHits, PortRuleHits, Truncated
  <2>6. CASE IpHeaderFits(frame, L3(frame)) /\ frame.src \in sources
    BY <2>2, <2>3, <2>6 DEF VerdictIsPolicy, ParseIpv4, SourceRuleHits
  <2>7. CASE IpHeaderFits(frame, L3(frame)) /\ frame.src \notin sources
    <3>1. Verdict(frame, sources, blocked) = ParsePort(frame, L3(frame), blocked).action
      BY <2>2, <2>7 DEF ParseIpv4
    <3> QED BY <2>1, <2>3, <2>4, <2>7, <3>1
            DEF VerdictIsPolicy, ParsePort, SourceRuleHits, PortRuleHits, Truncated
  <2> QED BY <2>5, <2>6, <2>7
<1> QED BY <1>1, <1>2, <1>3

-----------------------------------------------------------------------------
\* However short the frame is cut and whatever its EtherTypes say, nothing
\* beyond data_end is read.
THEOREM ReadsStayInBounds == Spec => []ReadsInBounds
BY FrameTyped, BoundsKept, PTL

\* xdp_program's nested checks come to the policy as stated without them.
THEOREM VerdictsFollowPolicy == Spec => []VerdictIsPolicy
BY FrameTyped, PolicyKept, PTL
=============================================================================
