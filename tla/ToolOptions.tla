----------------------------- MODULE ToolOptions -----------------------------
(***************************************************************************)
(* From a command line to what main does, for both tools of the blacklist. *)
(* A line is a sequence of options [name, arg] in the order getopt_long    *)
(* returns them; a name stands for the case it leads to: "bad" for what    *)
(* getopt_long refuses and for -d, which is in the option string of the    *)
(* command line tool and has no case.  --del and --list have no short form.*)
(***************************************************************************)
EXTENDS Integers, Sequences, SequencesExt

CONSTANTS
  NoSrc,       \* no --ip
  LongSrc,     \* an argument of --ip of STR_MAX characters or more
  LongDev,     \* an argument of --dev of IF_NAMESIZE characters or more
  KnownDevs,   \* devices if_nametoindex knows
  KnownUsers   \* users getpwnam knows

-----------------------------------------------------------------------------
(***************************************************************************)
(* xdp_ddos01_blacklist_cmdline                                            *)
(***************************************************************************)
Unparsed == [act |-> {}, src |-> NoSrc, port |-> 0, proto |-> "TCP", filter |-> "TCP",
             stats |-> FALSE, interval |-> 1, list |-> FALSE, usage |-> FALSE]

\* Mutant: case 'u' ends with a break.
TakePortBreak(p, o) ==
  IF o.name = "udp-dport" THEN [p EXCEPT !.proto = "UDP", !.filter = "UDP"]
  ELSE [p EXCEPT !.port = o.arg]
\* case 'u' falls through to case 't', which leaves proto and filter alone.
TakePort(p, o) ==
  LET q == IF o.name = "udp-dport" THEN [p EXCEPT !.proto = "UDP", !.filter = "UDP"] ELSE p
  IN  [q EXCEPT !.port = o.arg]

Take(p, o) ==
  IF p.usage THEN p                        \* main has returned
  ELSE CASE o.name = "add"   -> [p EXCEPT !.act = @ \cup {"ADD"}]
         [] o.name = "del"   -> [p EXCEPT !.act = @ \cup {"DEL"}]
         [] o.name = "ip"    -> IF o.arg = LongSrc THEN [p EXCEPT !.usage = TRUE]
                                ELSE [p EXCEPT !.src = o.arg]
         [] o.name \in {"udp-dport", "tcp-dport"} -> TakePort(p, o)
         [] o.name = "stats" -> [p EXCEPT !.stats = TRUE]
         [] o.name = "sec"   -> [p EXCEPT !.stats = TRUE, !.interval = o.arg]
         [] o.name = "list"  -> [p EXCEPT !.list = TRUE]
         [] OTHER            -> [p EXCEPT !.usage = TRUE]

\* What main goes on to: the calls it makes, in order, or only usage().  extra: an
\* argument that is no option, which only a line without an action looks at.
CmdMain(line, extra) ==
  LET p == FoldLeft(Take, Unparsed, line)
      modify == (IF p.src # NoSrc THEN <<[call |-> "blacklist_modify", src |-> p.src, act |-> p.act]>>
                 ELSE <<>>) \o
                (IF p.port # 0 THEN <<[call |-> "blacklist_port_modify", port |-> p.port,
                                       act |-> p.act, proto |-> p.proto, counter |-> p.filter]>>
                 ELSE <<>>)
      usage  == <<[call |-> "usage"]>>
  IN  IF p.usage THEN usage
      ELSE IF p.act # {} THEN IF modify = <<>> THEN usage ELSE modify
      ELSE IF extra THEN usage
      ELSE (IF p.list THEN <<[call |-> "list"]>> ELSE <<>>) \o
           (IF p.stats THEN <<[call |-> "stats_poll", interval |-> p.interval]>> ELSE <<>>)

-----------------------------------------------------------------------------
(***************************************************************************)
(* xdp_ddos01_blacklist_user; the packet capture tool parses a part of it. *)
(***************************************************************************)
NoDev == [remove |-> FALSE, owner |-> "unchanged", dev |-> "none", skb |-> FALSE, usage |-> FALSE]

\* Mutant: an unknown device is reported and parsing goes on.
TakeDevAnyway(p, o) == IF o.arg = LongDev THEN [p EXCEPT !.usage = TRUE] ELSE [p EXCEPT !.dev = o.arg]
TakeDev(p, o) == IF o.arg \in KnownDevs THEN [p EXCEPT !.dev = o.arg] ELSE [p EXCEPT !.usage = TRUE]

TakeUser(p, o) ==
  IF p.usage THEN p
  ELSE CASE o.name = "quiet"    -> p
         [] o.name = "remove"   -> [p EXCEPT !.remove = TRUE]
         [] o.name = "owner"    -> IF o.arg \in KnownUsers THEN [p EXCEPT !.owner = o.arg]
                                   ELSE [p EXCEPT !.usage = TRUE]
         [] o.name = "dev"      -> TakeDev(p, o)
         [] o.name = "skb-mode" -> [p EXCEPT !.skb = TRUE]
         [] OTHER               -> [p EXCEPT !.usage = TRUE]

UserMain(line) ==
  LET p == FoldLeft(TakeUser, NoDev, line)
  IN  IF p.usage \/ p.dev = "none" THEN [call |-> "usage"]
      ELSE [call |-> IF p.remove THEN "remove_xdp_program" ELSE "load",
            dev |-> p.dev, skb |-> p.skb, owner |-> IF p.remove THEN "unchanged" ELSE p.owner]
=============================================================================
