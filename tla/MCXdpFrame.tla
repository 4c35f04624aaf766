----------------------------- MODULE MCXdpFrame -----------------------------
(* XdpFrameSpec and Libraries for TLC, two machines that share nothing:    *)
(* the initial state says which of them moves.                             *)
EXTENDS XdpFrameSpec, Libraries

\* Every length at which a bound check may flip, for zero, one and two VLAN
\* tags and either transport header, and its neighbour on the other side.
MCLens == LET ends == {EthHlen + n * VlanHlen + extra :
                         n \in 0..2, extra \in {0, IpHlen, IpHlen + 8, IpHlen + 20}}
          IN  ends \cup {e - 1 : e \in ends}

SomeFrame == CHOOSE f \in Frame({0}, {CHOOSE s \in Srcs : TRUE}, Ports) : TRUE

MCInit == \/ Init /\ part = "frame" /\ items = <<>>
          \/ LibInit /\ frame = SomeFrame /\ sources = {} /\ blocked = {}
MCNext == \/ part = "frame" /\ Next /\ UNCHANGED libVars
          \/ part # "frame" /\ LibNext /\ UNCHANGED vars
MCSpec == MCInit /\ [][MCNext]_<<vars, libVars>>

-----------------------------------------------------------------------------
MCPart == {"cmdline", "user", "symbols", "sections", "ksyms", "attributes", "types"}
MCMaxItems == [cmdline |-> 4, user |-> 4, symbols |-> 4, sections |-> 3, ksyms |-> 6,
               attributes |-> 3, types |-> 4]

Opt(name, arg) == [name |-> name, arg |-> arg]
MCOptions == {Opt(n, "") : n \in {"add", "del", "stats", "list", "bad"}}
             \cup {Opt("ip", a) : a \in {"s1", LongSrc}} \cup {Opt("sec", 5)}
             \cup {Opt("udp-dport", p) : p \in {0, 53}} \cup {Opt("tcp-dport", 80)}
MCUserOptions == {Opt(n, "") : n \in {"remove", "skb-mode", "quiet", "bad"}}
                 \cup {Opt("dev", a) : a \in {"eth0", "eth1", "ghost", LongDev}}
                 \cup {Opt("owner", a) : a \in {"root", "nobody"}}

\* Symbols of four definitions and of a function; three maps fill the table.
MCSymbols == {[shndx |-> 2, value |-> v] : v \in 0..3} \cup {[shndx |-> 3, value |-> 1]}

Rel(i, s) == [insn |-> i, sym |-> s]
MCSections ==
  {[kind |-> "rel", info |-> p, rels |-> r] :
     p \in {3, 4}, r \in {<<a>> : a \in {Rel(i, s) : i \in 1..3, s \in 1..4}}
                         \cup {<<Rel(1, 1), Rel(3, 3)>>, <<Rel(2, 1), Rel(3, 1)>>,
                               <<Rel(1, 2), Rel(3, 3)>>, <<Rel(1, 2), Rel(1, 1)>>, <<Rel(1, 4), Rel(3, 3)>>}}
  \cup {[kind |-> "prog", named |-> n, insns |-> <<TRUE, TRUE, TRUE>>] : n \in BOOLEAN}
  \cup {[kind |-> "version", valid |-> v] : v \in BOOLEAN} \cup {[kind |-> "unread"]}

MCAttributes ==
  {[len |-> n, type |-> t, nul |-> z] :
     n \in {0, 3, 4, 5, 8, 12}, t \in {"MSG", "OFFS"}, z \in BOOLEAN}
  \cup {[len |-> n, type |-> t, nul |-> TRUE] : n \in {4, 9}, t \in {"COOKIE", "later"}}

Type(kind, size, type, nelems) == [kind |-> kind, size |-> size, type |-> type, nelems |-> nelems]
MCTypes == {Type("INT", n, 0, 0) : n \in {0, 4}} \cup {Type("PTR", 0, 0, 0)}
           \cup {Type("TYPEDEF", 0, t, 0) : t \in {1, 2}}
           \cup {Type("ARRAY", 0, t, n) : t \in 1..3, n \in {0, 3, 7}}
           \cup {Type("FWD", 0, 0, 0), Type("FUNC", 0, 0, 0)}
=============================================================================
