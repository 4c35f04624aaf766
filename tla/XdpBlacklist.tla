---------------------------- MODULE XdpBlacklist ----------------------------
(***************************************************************************)
(* The XDP blacklist at work: on every CPU xdp_program classifies frames   *)
(* against maps that invocations of xdp_ddos01_blacklist_cmdline change    *)
(* while it runs.  Nothing synchronises the two sides but the kernel's map *)
(* operations, of which                                                    *)
(*  - a lookup in the hash map returns a pointer that stays valid until    *)
(*    the run ends, even when the element is unlinked in between;          *)
(*  - a lookup or an update of a per-CPU array from user space copies one  *)
(*    CPU's slot at a time.                                                *)
(* Each action below is one such access, with the computation around it.   *)
(***************************************************************************)
EXTENDS XdpFrame, FiniteSets, FiniteSetsExt

CONSTANTS
  CPUs,         \* the possible CPUs
  Tools,        \* invocations of the command line tool that may overlap
  Srcs,         \* IPv4 source addresses
  Ports,        \* destination ports
  Frames,       \* the frames the device may deliver
  NoFrame,      \* what an idle CPU has in hand
  NoSrc,        \* no --ip option
  BadSrc,       \* an --ip argument inet_pton refuses
  Ops,          \* the command lines: --add, --del or both; --ip; a port; its option
  Conflicts,    \* may overlapping invocations name the same port?
  MaxEntries,   \* max_entries of the hash map
  DropModulus,  \* the drop counters' range: the program adds to them through a u32 *
  MaxRuns,      \* bound: frames each CPU receives
  MaxOps        \* bound: command lines each tool process runs

ASSUME SetsAssumption ==
  /\ IsFiniteSet(CPUs) /\ CPUs # {}
  /\ IsFiniteSet(Tools)
  /\ IsFiniteSet(Srcs) /\ NoSrc \notin Srcs /\ BadSrc \notin Srcs
  /\ Ports \subseteq 0..MaxPort
ASSUME FramesAssumption ==
  /\ Frames \subseteq Frame(Nat, Srcs, Ports)
  /\ NoFrame \notin Frames
ASSUME OpsAssumption ==
  /\ Ops \subseteq [act : SUBSET {"ADD", "DEL"}, src : Srcs \cup {NoSrc, BadSrc},
                    port : Ports \cup {0, MaxPort + 1, -1}, proto : Protos]
  /\ \A o \in Ops : o.act # {}
  /\ Conflicts \in BOOLEAN
ASSUME BoundsAssumption ==
  /\ MaxEntries \in Nat
  /\ DropModulus \in Nat \ {0}
  /\ MaxRuns \in Nat
  /\ MaxOps \in Nat

VARIABLES
  \* the maps
  present,   \* keys of blacklist
  hits,      \* hits[s][c]: CPU c's copy of the value of key s; 0 when absent
  flags,     \* flags[c][q]: CPU c's slot q of port_blacklist
  drops,     \* drops[p][c][q]: the same of port_blacklist_drop_count_{tcp,udp}
  verdicts,  \* verdicts[c][a]: the same of verdict_cnt
  \* the program, on each CPU
  pc, frame, action,
  tmp,       \* the counter value read by *drops += 1 and not yet written back
  orphans,   \* CPUs that hold a blacklist element which is unlinked by now
  runs,      \* frames received, for MaxRuns
  \* the tools
  tpc, op, res,
  curr,      \* curr[t][c]: curr_values of blacklist_port_modify
  todo,      \* CPUs whose slot the map operation under way has yet to copy
  ops,       \* command lines run, for MaxOps
  \* history: no guard reads these
  matched,   \* lookups that found an element, since the element was inserted
  dropped,   \* frames a port rule dropped
  cleared,   \* pairs <<protocol, port>> whose counter a --del has set out to clear
  ruled,     \* ruled[q]: the rules the port updates finished so far add up to
  would,     \* verdicts on the frame in hand that some instant of the run justifies
  overlap    \* invocations under way during the run: none, one, or more (2)

maps    == <<present, hits, flags, drops, verdicts>>
program == <<pc, frame, action, tmp, orphans, runs>>
tools   == <<tpc, op, res, curr, todo, ops>>
history == <<matched, dropped, cleared, ruled, would, overlap>>
vars    == <<maps, program, tools, history>>

NoOp == [act |-> {"ADD"}, src |-> NoSrc, port |-> 0, proto |-> "TCP"]

Init ==
  /\ present  = {}
  /\ hits     = [s \in Srcs |-> [c \in CPUs |-> 0]]
  /\ flags    = [c \in CPUs |-> [q \in Ports |-> {}]]
  /\ drops    = [p \in Protos |-> [c \in CPUs |-> [q \in Ports |-> 0]]]
  /\ verdicts = [c \in CPUs |-> [a \in Actions |-> 0]]
  /\ pc       = [c \in CPUs |-> "idle"]
  /\ frame    = [c \in CPUs |-> NoFrame]
  /\ action   = [c \in CPUs |-> "PASS"]
  /\ tmp      = [c \in CPUs |-> 0]
  /\ orphans  = {}
  /\ runs     = [c \in CPUs |-> 0]
  /\ tpc      = [t \in Tools |-> "idle"]
  /\ op       = [t \in Tools |-> NoOp]
  /\ res      = [t \in Tools |-> "OK"]
  /\ curr     = [t \in Tools |-> [c \in CPUs |-> {}]]
  /\ todo     = [t \in Tools |-> {}]
  /\ ops      = [t \in Tools |-> 0]
  /\ matched  = [s \in Srcs |-> [c \in CPUs |-> 0]]
  /\ dropped  = [p \in Protos |-> [c \in CPUs |-> [q \in Ports |-> 0]]]
  /\ cleared  = {}
  /\ ruled    = [q \in Ports |-> {}]
  /\ would    = [c \in CPUs |-> {}]
  /\ overlap  = [c \in CPUs |-> 0]

\* The port rules as the program on c would find them in slots fl.
Blocked(fl, c) == {r \in Protos \X Ports : r[1] \in fl[c][r[2]]}

\* An invocation whose effects may still come.
Busy(t) == tpc[t] \notin {"idle", "exit"}
AtMostTwo(n) == IF n > 2 THEN 2 ELSE n

-----------------------------------------------------------------------------
(***************************************************************************)
(* xdp_program on CPU c.  Parsing touches the frame alone, so it takes     *)
(* place together with the map access before it.                           *)
(***************************************************************************)

\* parse_eth fails: XDP_PASS, and verdict_cnt is not told.
SkipFrame(c) ==
  /\ pc[c] = "idle" /\ runs[c] < MaxRuns
  /\ \E f \in Frames : ~ParseEth(f).ok
  /\ runs' = [runs EXCEPT ![c] = @ + 1]
  /\ UNCHANGED <<maps, pc, frame, action, tmp, orphans, tools, history>>

Receive(c) ==
  /\ pc[c] = "idle" /\ runs[c] < MaxRuns
  /\ \E f \in Frames :
       LET eth    == ParseEth(f)
           isIpv4 == eth.proto = "IP"
           fits   == IpHeaderFits(f, eth.l3)
       IN  /\ eth.ok
           /\ frame'  = [frame EXCEPT ![c] = f]
           /\ pc'     = [pc EXCEPT ![c] = IF isIpv4 /\ fits THEN "source" ELSE "stats"]
           /\ action' = [action EXCEPT ![c] = IF isIpv4 /\ ~fits THEN "ABORTED" ELSE "PASS"]
           /\ would'  = [would EXCEPT ![c] = {Verdict(f, present, Blocked(flags, c))}]
  /\ runs'    = [runs EXCEPT ![c] = @ + 1]
  /\ overlap' = [overlap EXCEPT ![c] = AtMostTwo(Cardinality({t \in Tools : Busy(t)}))]
  /\ UNCHANGED <<maps, tmp, orphans, tools, matched, dropped, cleared, ruled>>

\* bpf_map_lookup_elem(&blacklist, &ip_src)
SourceFound(c) ==
  /\ pc[c] = "source" /\ frame[c].src \in present
  /\ pc'      = [pc EXCEPT ![c] = "hit"]
  /\ matched' = [matched EXCEPT ![frame[c].src][c] = @ + 1]
  /\ UNCHANGED <<maps, frame, action, tmp, orphans, runs, tools,
                 dropped, cleared, ruled, would, overlap>>

SourceNotFound(c) ==
  LET f     == frame[c]
      hasL4 == f.proto \in Protos
      fits  == hasL4 /\ L4HeaderFits(f, ParseEth(f).l3)
  IN  /\ pc[c] = "source" /\ f.src \notin present
      /\ pc'     = [pc EXCEPT ![c] = IF fits THEN "port" ELSE "stats"]
      /\ action' = [action EXCEPT ![c] = IF hasL4 /\ ~fits THEN "ABORTED" ELSE "PASS"]
      /\ UNCHANGED <<maps, frame, tmp, orphans, runs, tools, history>>

\* *value += 1 on the blacklist element.  No other CPU and no user of the map
\* writes this copy of it, so load and store need no steps of their own.
\* Mutant: no return after the increment, the port is looked up as well.
CountHitFallThrough(c) ==
  /\ pc[c] = "hit"
  /\ hits' = IF c \in orphans THEN hits
             ELSE [hits EXCEPT ![frame[c].src][c] = @ + 1]
  /\ orphans' = orphans \ {c}
  /\ pc'      = [pc EXCEPT ![c] = "port"]
  /\ UNCHANGED <<present, flags, drops, verdicts, frame, action, tmp, runs, tools, history>>

CountHit(c) ==
  /\ pc[c] = "hit"
  /\ hits' = IF c \in orphans THEN hits
             ELSE [hits EXCEPT ![frame[c].src][c] = @ + 1]
  /\ orphans' = orphans \ {c}
  /\ pc'      = [pc EXCEPT ![c] = "stats"]
  /\ action'  = [action EXCEPT ![c] = "DROP"]
  /\ UNCHANGED <<present, flags, drops, verdicts, frame, tmp, runs, tools, history>>

\* bpf_map_lookup_elem(&port_blacklist, &dport_idx) and the test of the bit
\* Mutant: the bit of the other filter is tested.
PortRuleOther(c) == Protos \ {frame[c].proto} \subseteq flags[c][frame[c].dport]
PortRule(c) == frame[c].proto \in flags[c][frame[c].dport]

LookupPort(c) ==
  /\ pc[c] = "port"
  /\ pc'     = [pc EXCEPT ![c] = IF PortRule(c) THEN "load" ELSE "stats"]
  /\ action' = [action EXCEPT ![c] = IF PortRule(c) THEN "DROP" ELSE "PASS"]
  /\ UNCHANGED <<maps, frame, tmp, orphans, runs, tools, history>>

\* *drops += 1: the tool writes this counter too, between load and store.
LoadDrops(c) ==
  /\ pc[c] = "load"
  /\ tmp' = [tmp EXCEPT ![c] = drops[frame[c].proto][c][frame[c].dport]]
  /\ pc'  = [pc EXCEPT ![c] = "store"]
  /\ UNCHANGED <<maps, frame, action, orphans, runs, tools, history>>

StoreDrops(c) ==
  /\ pc[c] = "store"
  /\ drops'   = [drops EXCEPT ![frame[c].proto][c][frame[c].dport] = (tmp[c] + 1) % DropModulus]
  /\ dropped' = [dropped EXCEPT ![frame[c].proto][c][frame[c].dport] = @ + 1]
  /\ tmp'     = [tmp EXCEPT ![c] = 0]
  /\ pc'      = [pc EXCEPT ![c] = "stats"]
  /\ UNCHANGED <<present, hits, flags, verdicts, frame, action, orphans, runs, tools,
                 matched, cleared, ruled, would, overlap>>

\* stats_action_verdict, and the end of the run
CountVerdict(c) ==
  /\ pc[c] = "stats"
  /\ verdicts' = [verdicts EXCEPT ![c][action[c]] = @ + 1]
  /\ pc'       = [pc EXCEPT ![c] = "idle"]
  /\ frame'    = [frame EXCEPT ![c] = NoFrame]
  /\ action'   = [action EXCEPT ![c] = "PASS"]
  /\ would'    = [would EXCEPT ![c] = {}]
  /\ overlap'  = [overlap EXCEPT ![c] = 0]
  /\ UNCHANGED <<present, hits, flags, drops, tmp, orphans, runs, tools,
                 matched, dropped, cleared, ruled>>

-----------------------------------------------------------------------------
(***************************************************************************)
(* main of the command line tool, from the parsed options on.  The maps it *)
(* opens are the pinned ones: a tool that finds no file never gets here.   *)
(***************************************************************************)

\* What a map change does to the history of the runs still undecided.
NowAlso(pr, fl) ==
  would' = [c \in CPUs |-> IF pc[c] \notin {"source", "port"} THEN would[c]
                           ELSE would[c] \cup {Verdict(frame[c], pr, Blocked(fl, c))}]

SamePort(t, o) == \E u \in Tools \ {t} : tpc[u] # "idle" /\ op[u].port = o.port

Start(t) ==
  /\ tpc[t] = "idle" /\ ops[t] < MaxOps
  /\ \E o \in Ops :
       /\ Conflicts \/ o.port = 0 \/ ~SamePort(t, o)
       /\ op'  = [op EXCEPT ![t] = o]
       /\ tpc' = [tpc EXCEPT ![t] = IF o.src # NoSrc THEN "source"
                                    ELSE IF o.port # 0 THEN "port" ELSE "exit"]
       /\ res' = [res EXCEPT ![t] = IF o.src = NoSrc /\ o.port = 0
                                    THEN "FAIL_OPTION" ELSE "OK"]
  /\ ops'     = [ops EXCEPT ![t] = @ + 1]
  /\ overlap' = [c \in CPUs |-> IF pc[c] = "idle" THEN 0 ELSE AtMostTwo(overlap[c] + 1)]
  /\ UNCHANGED <<maps, program, curr, todo, matched, dropped, cleared, ruled, would>>

\* main goes on to the port whatever blacklist_modify returned.
\* Mutant: a source that could not be changed is tried again.
SourceDoneRetry(t, code) ==
  /\ res' = [res EXCEPT ![t] = code]
  /\ tpc' = [tpc EXCEPT ![t] = IF code # "OK" THEN @
                               ELSE IF op[t].port # 0 THEN "port" ELSE "exit"]
  /\ UNCHANGED <<op, curr, todo, ops>>
SourceDone(t, code) ==
  /\ res' = [res EXCEPT ![t] = code]
  /\ tpc' = [tpc EXCEPT ![t] = IF op[t].port # 0 THEN "port" ELSE "exit"]
  /\ UNCHANGED <<op, curr, todo, ops>>

SourceUnchanged == UNCHANGED <<maps, program, history>>

\* blacklist_modify, in the order of its checks
RefuseSource(t) ==
  /\ tpc[t] = "source"
  /\ \/ /\ op[t].src = BadSrc
        /\ SourceDone(t, "FAIL_IP")
     \/ /\ op[t].src # BadSrc /\ op[t].act = {"ADD", "DEL"}
        /\ SourceDone(t, "FAIL_OPTION")
  /\ SourceUnchanged

\* bpf_map_update_elem(fd, &key, values, BPF_NOEXIST), values all zero
\* Mutant: BPF_ANY.
InsertSourceAny(s) ==
  /\ present' = present \cup {s}
  /\ hits'    = [hits EXCEPT ![s] = [c \in CPUs |-> 0]]

InsertSource(s) ==
  IF s \in present
  THEN UNCHANGED <<present, hits>>
  ELSE /\ present' = present \cup {s}
       /\ hits'    = [hits EXCEPT ![s] = [c \in CPUs |-> 0]]

\* Mutant: errno 17 is passed on.
InsertCodeRaw(s) ==
  IF s \in present THEN "EEXIST"
  ELSE IF Cardinality(present) >= MaxEntries THEN "FAIL_MAP_KEY" ELSE "OK"

InsertCode(s) ==
  IF s \in present THEN "OK"                                  \* EEXIST
  ELSE IF Cardinality(present) >= MaxEntries THEN "FAIL_MAP_KEY" ELSE "OK"

AddSource(t) ==
  LET s == op[t].src
  IN  /\ tpc[t] = "source" /\ s \in Srcs /\ op[t].act = {"ADD"}
      /\ SourceDone(t, InsertCode(s))
      /\ IF InsertCode(s) = "OK" THEN InsertSource(s) ELSE UNCHANGED <<present, hits>>
      /\ matched' = IF present' = present THEN matched
                    ELSE [matched EXCEPT ![s] = [c \in CPUs |-> 0]]
      /\ NowAlso(present', flags)
      /\ UNCHANGED <<flags, drops, verdicts, program, dropped, cleared, ruled, overlap>>

\* bpf_map_delete_elem: a program that looked the element up keeps it.
DeleteSource(t) ==
  LET s == op[t].src
  IN  /\ tpc[t] = "source" /\ s \in Srcs /\ op[t].act = {"DEL"}
      /\ SourceDone(t, IF s \in present THEN "OK" ELSE "FAIL_MAP_KEY")
      /\ present' = present \ {s}
      /\ hits'    = [hits EXCEPT ![s] = [c \in CPUs |-> 0]]
      /\ matched' = [matched EXCEPT ![s] = [c \in CPUs |-> 0]]
      /\ orphans' = orphans \cup {c \in CPUs : pc[c] = "hit" /\ frame[c].src = s}
      /\ NowAlso(present', flags)
      /\ UNCHANGED <<flags, drops, verdicts, pc, frame, action, tmp, runs,
                     dropped, cleared, ruled, overlap>>

\* blacklist_port_modify, up to its first access to a map.  A negative port
\* becomes a key far out of range: the failed lookup is only printed, the
\* update fails.
PortCode(o) ==
  IF o.act = {"ADD", "DEL"} THEN "FAIL_OPTION"
  ELSE IF o.port > MaxPort THEN "FAIL_PORT"
  ELSE IF o.port < 0 THEN "FAIL_MAP_KEY"
  ELSE "OK"

CheckPort(t) ==
  LET code == PortCode(op[t])
  IN  /\ tpc[t] = "port"
      /\ res'  = [res EXCEPT ![t] = code]
      /\ tpc'  = [tpc EXCEPT ![t] = IF code = "OK" THEN "read" ELSE "exit"]
      /\ todo' = [todo EXCEPT ![t] = IF code = "OK" THEN CPUs ELSE {}]
      /\ UNCHANGED <<maps, program, op, curr, ops, history>>

\* One CPU's part of the map operation t is in; next is the step after it.
\* The kernel visits the CPUs in a fixed order, which nothing here relies on:
\* the model lets them come in any.
Copied(t, c, next) ==
  /\ todo' = [todo EXCEPT ![t] = IF @ # {c} THEN @ \ {c}
                                 ELSE IF next = "exit" THEN {} ELSE CPUs]
  /\ tpc'  = [tpc EXCEPT ![t] = IF todo[t] = {c} THEN next ELSE @]

\* bpf_map_lookup_elem(fd, &key, curr_values)
\* Mutant: the lookup fails, which is printed, and the update goes ahead.
ReadPortFailed(t, c) ==
  /\ tpc[t] = "read" /\ c \in todo[t]
  /\ Copied(t, c, "write")
  /\ UNCHANGED <<maps, program, op, res, curr, ops, history>>
\* Mutant: one value is read and not one per CPU.
ReadPortOne(t, c) ==
  /\ tpc[t] = "read" /\ c \in todo[t]
  /\ curr' = [curr EXCEPT ![t][c] = IF c = CHOOSE d \in CPUs : TRUE
                                    THEN flags[c][op[t].port] ELSE {}]
  /\ Copied(t, c, "write")
  /\ UNCHANGED <<maps, program, op, res, ops, history>>
ReadPort(t, c) ==
  /\ tpc[t] = "read" /\ c \in todo[t]
  /\ curr' = [curr EXCEPT ![t][c] = flags[c][op[t].port]]
  /\ Copied(t, c, "write")
  /\ UNCHANGED <<maps, program, op, res, ops, history>>

\* curr_values[i] |= value, or &= ~value
Modified(o, bits) == IF o.act = {"ADD"} THEN bits \cup {o.proto} ELSE bits \ {o.proto}

\* bpf_map_update_elem(fd, &key, &curr_values, BPF_EXIST)
WritePort(t, c) ==
  LET o    == op[t]
      last == todo[t] = {c}
  IN  /\ tpc[t] = "write" /\ c \in todo[t]
      /\ flags' = [flags EXCEPT ![c][o.port] = Modified(o, curr[t][c])]
      /\ Copied(t, c, IF o.act = {"DEL"} THEN "clear" ELSE "exit")
      /\ curr'  = [curr EXCEPT ![t][c] = {}]
      /\ ruled' = IF last THEN [ruled EXCEPT ![o.port] = Modified(o, @)] ELSE ruled
      /\ cleared' = IF last /\ o.act = {"DEL"} THEN cleared \cup {<<o.proto, o.port>>}
                    ELSE cleared
      /\ NowAlso(present, flags')
      /\ UNCHANGED <<present, hits, drops, verdicts, program, op, res, ops,
                     matched, dropped, overlap>>

\* bpf_map_update_elem(countfd, &key, &stat_values, BPF_EXIST)
\* Mutant: the counters of the other filter are cleared.
ClearCountTcp(t, c) ==
  /\ tpc[t] = "clear" /\ c \in todo[t]
  /\ drops' = [drops EXCEPT !["TCP"][c][op[t].port] = 0]
  /\ Copied(t, c, "exit")
  /\ UNCHANGED <<present, hits, flags, verdicts, program, op, res, curr, ops, history>>
ClearCount(t, c) ==
  /\ tpc[t] = "clear" /\ c \in todo[t]
  /\ drops' = [drops EXCEPT ![op[t].proto][c][op[t].port] = 0]
  /\ Copied(t, c, "exit")
  /\ UNCHANGED <<present, hits, flags, verdicts, program, op, res, curr, ops, history>>

Exit(t) ==
  /\ tpc[t] = "exit"
  /\ tpc' = [tpc EXCEPT ![t] = "idle"]
  /\ op'  = [op EXCEPT ![t] = NoOp]
  /\ res' = [res EXCEPT ![t] = "OK"]
  /\ UNCHANGED <<maps, program, curr, todo, ops, history>>

-----------------------------------------------------------------------------
RunStep(c) == \/ SourceFound(c) \/ SourceNotFound(c) \/ CountHit(c)
              \/ LookupPort(c) \/ LoadDrops(c) \/ StoreDrops(c) \/ CountVerdict(c)

ToolStep(t) == \/ RefuseSource(t) \/ AddSource(t) \/ DeleteSource(t) \/ CheckPort(t)
               \/ \E c \in CPUs : ReadPort(t, c) \/ WritePort(t, c) \/ ClearCount(t, c)
               \/ Exit(t)

Next == \/ \E c \in CPUs : SkipFrame(c) \/ Receive(c) \/ RunStep(c)
        \/ \E t \in Tools : Start(t) \/ ToolStep(t)

Spec == Init /\ [][Next]_vars

\* The kernel runs a loaded program to its end, and the operating system
\* schedules every tool.  Frames and command lines need never come.
Fairness == /\ \A c \in CPUs : WF_vars(RunStep(c))
            /\ \A t \in Tools : WF_vars(ToolStep(t))

FairSpec == Spec /\ Fairness

-----------------------------------------------------------------------------
(***************************************************************************)
(* Properties.                                                             *)
(***************************************************************************)

MapsTypeOK ==
  /\ present \subseteq Srcs
  /\ hits \in [Srcs -> [CPUs -> Nat]]
  /\ flags \in [CPUs -> [Ports -> SUBSET Protos]]
  /\ drops \in [Protos -> [CPUs -> [Ports -> 0..(DropModulus - 1)]]]
  /\ verdicts \in [CPUs -> [Actions -> Nat]]

ProgramTypeOK ==
  /\ pc \in [CPUs -> {"idle", "source", "hit", "port", "load", "store", "stats"}]
  /\ frame \in [CPUs -> Frames \cup {NoFrame}]
  /\ action \in [CPUs -> Actions]
  /\ tmp \in [CPUs -> 0..(DropModulus - 1)]
  /\ orphans \subseteq CPUs
  /\ runs \in [CPUs -> Nat]

ToolsTypeOK ==
  /\ tpc \in [Tools -> {"idle", "source", "port", "read", "write", "clear", "exit"}]
  /\ op \in [Tools -> Ops \cup {NoOp}]
  /\ res \in [Tools -> {"OK", "FAIL_OPTION", "FAIL_IP", "FAIL_PORT", "FAIL_MAP_KEY"}]
  /\ curr \in [Tools -> [CPUs -> SUBSET Protos]]
  /\ todo \in [Tools -> SUBSET CPUs]
  /\ ops \in [Tools -> Nat]

HistoryTypeOK ==
  /\ matched \in [Srcs -> [CPUs -> Nat]]
  /\ dropped \in [Protos -> [CPUs -> [Ports -> Nat]]]
  /\ cleared \subseteq Protos \X Ports
  /\ ruled \in [Ports -> SUBSET Protos]
  /\ would \in [CPUs -> SUBSET Actions]
  /\ overlap \in [CPUs -> 0..2]

\* Every variable keeps to its range: slots are sets of known filters, counters
\* stay below the wrap, exit codes are those of common.h.
TypeOK == MapsTypeOK /\ ProgramTypeOK /\ ToolsTypeOK /\ HistoryTypeOK

\* The count shown for a blacklisted source is the number of its frames
\* dropped since it was added, CPU by CPU, whatever is added again or deleted
\* meanwhile: the per-CPU value needs no atomic add (kern.c:245) because an
\* --add of a source already there leaves its element alone.
Counting(s, c) == pc[c] = "hit" /\ frame[c].src = s /\ c \notin orphans
BlacklistCountExact ==
  \A s \in Srcs, c \in CPUs :
    matched[s][c] = hits[s][c] + (IF Counting(s, c) THEN 1 ELSE 0)

\* A port's counter never shows more drops than there were, and until some
\* --del sets out to clear it shows all of them, up to the wrap of the u32 the
\* program increments: no other rule's drops are booked on it and no other
\* rule's --del clears it.
DropCountSound ==
  \A p \in Protos, c \in CPUs, q \in Ports :
    /\ drops[p][c][q] <= dropped[p][c][q]
    /\ <<p, q>> \notin cleared => drops[p][c][q] = dropped[p][c][q] % DropModulus

\* On every CPU the counters of the rules together never exceed the verdict
\* counter for XDP_DROP and the one drop it has yet to be told of.
DropsInHand(c) == IF pc[c] = "stats" /\ action[c] = "DROP" THEN 1 ELSE 0
RuleCountsWithinDrops ==
  \A c \in CPUs :
    SumFunction([s \in Srcs |-> hits[s][c]])
      + SumFunction([r \in Protos \X Ports |-> drops[r[1]][c][r[2]]])
        <= verdicts[c]["DROP"] + DropsInHand(c)

\* The program consults two maps without a lock.  Still, as long as one
\* invocation at most overlaps the run, its verdict is one that the rules of
\* some instant of the run call for.
VerdictJustified ==
  \A c \in CPUs : pc[c] = "stats" /\ overlap[c] <= 1 => action[c] \in would[c]

\* While no invocation is between its lookup and the last write of its update
\* of a port, every CPU has exactly the rules for it that the updates add up to.
InPortUpdate(t, q) == tpc[t] \in {"read", "write"} /\ op[t].port = q
PortRulesAddUp ==
  \A q \in Ports : (\A t \in Tools : ~InPortUpdate(t, q))
                     => \A c \in CPUs : flags[c][q] = ruled[q]

\* A step changes at most one rule of one port on one CPU, and only the rule
\* an invocation is changing there: the read-modify-write of the slot neither
\* brings back nor takes away the other protocol's bit.
OnlyOwnRule ==
  [][\A c \in CPUs, q \in Ports :
       flags'[c][q] # flags[c][q] =>
         \E t \in Tools : /\ tpc[t] = "write" /\ op[t].port = q
                          /\ flags'[c][q] = Modified(op[t], flags[c][q])]_vars

\* Every command line finishes, however long the CPUs keep receiving.
EveryCallReturns == \A t \in Tools : tpc[t] # "idle" ~> tpc[t] = "idle"

\* When the command lines have stopped coming, all CPUs end up with the same
\* port rules, if no two that overlapped named the same port.
CpusConverge == <>[](\A c, d \in CPUs : flags[c] = flags[d])

-----------------------------------------------------------------------------
(***************************************************************************)
(* What the source says, and the code does not keep.                       *)
(***************************************************************************)

\* "clear stats on delete" (common.h:184): a --del that succeeded, with no
\* other invocation and no frame on its way, leaves the rule's counter at zero.
StatsClearedOnDelete ==
  \A t \in Tools :
    /\ tpc[t] = "exit" /\ res[t] = "OK" /\ op[t].act = {"DEL"} /\ op[t].port # 0
    /\ \A u \in Tools \ {t} : tpc[u] = "idle"
    /\ \A c \in CPUs : pc[c] = "idle"
    => \A c \in CPUs : drops[op[t].proto][c][op[t].port] = 0

\* "add action set bit" (common.h:159): when an --add has written its last slot
\* the bit is set on every CPU, if nobody ran a --del.
AddSetsBit ==
  (\A t \in Tools : ~Busy(t)) => \A q \in Ports, c \in CPUs : ruled[q] \subseteq flags[c][q]
=============================================================================
