------------------------------ MODULE XdpFrame ------------------------------
(***************************************************************************)
(* What xdp_ddos01_blacklist_kern.c reads out of one frame.  A frame is    *)
(* abstracted to what the program can tell apart:                          *)
(*   len    the bytes between data and data_end;                           *)
(*   types  the 16-bit words at the three places an EtherType may stand    *)
(*          (bytes 12, 16 and 20);                                         *)
(*   proto  the byte the IP header calls protocol;                         *)
(*   src    its source address;                                            *)
(*   dport  the 16-bit word 22 bytes after the start of layer 3: the code  *)
(*          takes it for the destination port whatever the header's length *)
(*          field and its fragment offset say.                             *)
(* A field that lies beyond len has a value nobody may look at: reach is   *)
(* the number of bytes of the frame a function has dereferenced.           *)
(***************************************************************************)
EXTENDS Naturals

Protos  == {"TCP", "UDP"}
Actions == {"ABORTED", "DROP", "PASS", "TX"}

\* "802.3" stands for every value below ETH_P_802_3_MIN.
EtherTypes == {"IP", "8021Q", "8021AD", "802.3", "OTHER"}
IpProtos   == Protos \cup {"ICMP"}

EthHlen  == 14
VlanHlen == 4
IpHlen   == 20
L4Hlen   == [p \in Protos |-> IF p = "TCP" THEN 20 ELSE 8]

MaxPort  == 65535

Frame(Lens, Srcs, Ports) ==
  [len : Lens, types : [1..3 -> EtherTypes], proto : IpProtos,
   src : Srcs, dport : Ports]

IsVlanType(type) == type \in {"8021Q", "8021AD"}

-----------------------------------------------------------------------------
(***************************************************************************)
(* parse_eth: at most two VLAN tags are stepped over, each after a bound   *)
(* check; a third tag is left to the caller as an unknown protocol.        *)
(***************************************************************************)
ParseFailed(reach) == [ok |-> FALSE, proto |-> "OTHER", l3 |-> 0, reach |-> reach]

StepVlan(f, eth) ==
  IF ~eth.ok \/ ~IsVlanType(eth.proto) THEN eth
  ELSE IF eth.l3 + VlanHlen > f.len THEN ParseFailed(eth.reach)
  ELSE LET l3 == eth.l3 + VlanHlen
       IN  [ok |-> TRUE, proto |-> f.types[((l3 - EthHlen) \div VlanHlen) + 1],
            l3 |-> l3, reach |-> l3]

OuterHeader(f) ==
  IF EthHlen > f.len THEN ParseFailed(0)
  ELSE IF f.types[1] = "802.3" THEN ParseFailed(EthHlen)
  ELSE [ok |-> TRUE, proto |-> f.types[1], l3 |-> EthHlen, reach |-> EthHlen]

\* Mutant: the second tag is taken for the protocol.
ParseEthOneTag(f) == StepVlan(f, OuterHeader(f))

ParseEth(f) == StepVlan(f, StepVlan(f, OuterHeader(f)))

(***************************************************************************)
(* The bound checks of parse_ipv4 and parse_port.                          *)
(***************************************************************************)
IpHeaderFits(f, l3) == l3 + IpHlen <= f.len
\* Mutant: the transport header is read unchecked.
L4HeaderUnchecked(f, l3) == f.proto \in Protos
L4HeaderFits(f, l3) == l3 + IpHlen + L4Hlen[f.proto] <= f.len

(***************************************************************************)
(* The rest of a run, once parse_eth succeeded, against a blacklist of     *)
(* sources and the set of pairs <<protocol, port>> that are blocked.       *)
(***************************************************************************)
ParsePort(f, l3, blocked) ==
  LET ip == l3 + IpHlen
  IN  IF f.proto \notin Protos THEN [action |-> "PASS", reach |-> ip]
      ELSE IF ~L4HeaderFits(f, l3) THEN [action |-> "ABORTED", reach |-> ip]
      ELSE [action |-> IF <<f.proto, f.dport>> \in blocked THEN "DROP" ELSE "PASS",
            reach  |-> ip + 4]

ParseIpv4(f, l3, sources, blocked) ==
  IF ~IpHeaderFits(f, l3) THEN [action |-> "ABORTED", reach |-> l3]
  ELSE IF f.src \in sources THEN [action |-> "DROP", reach |-> l3 + IpHlen]
  ELSE ParsePort(f, l3, blocked)

(***************************************************************************)
(* xdp_program as a function of the frame and of the maps it would see if  *)
(* they stood still.                                                       *)
(***************************************************************************)
Classify(f, sources, blocked) ==
  LET eth == ParseEth(f)
  IN  IF ~eth.ok THEN [action |-> "PASS", reach |-> eth.reach]
      ELSE IF eth.proto # "IP" THEN [action |-> "PASS", reach |-> eth.reach]
      ELSE ParseIpv4(f, eth.l3, sources, blocked)

Verdict(f, sources, blocked) == Classify(f, sources, blocked).action
=============================================================================
