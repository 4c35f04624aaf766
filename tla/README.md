# A verification development for the XDP blacklist on Android

The repository ports an XDP program to Android: a program that runs in the
network driver, on every CPU, and drops frames by source address and by
destination port; a loader that puts it there; and a command line tool that
changes its rules while it runs. The code modelled is
`src/src/xdp_example/ddos` (called `ddos/` below) and the packet capture tool of
`src/notes/ljy/example/files`, whose other files are earlier copies of `ddos/`.

Contents: 1 inventory, 2 plan, 3 modules and how they correspond to the code,
4 runs, 5 fairness, 6 proofs, 7 what is only model-checked, 8 what is not
modelled.

## 1. Inventory

### The parts and their state

| Part | Files | State | Operations |
|---|---|---|---|
| Kernel program | `xdp_ddos01_blacklist_kern.c` | per run: frame, pointers into maps, action | `parse_eth`, `parse_ipv4`, `parse_port`, `stats_action_verdict` |
| Maps | declared in the same file | `blacklist` (per-CPU hash), `port_blacklist`, two drop counters, `verdict_cnt` (per-CPU arrays) | the kernel's lookup, update, delete, get_next_key, pin |
| Command line tool | `..._cmdline.c`, `..._common.h` | options, `curr_values`, exit code | `blacklist_modify`, `blacklist_port_modify`, listing, `stats_poll` |
| Loader | `..._user.c`, `bpf_load.c` | `map_fd`, `maps_marked_for_export`, pin files, the device's program | create or reuse maps, load, pin, attach, `--remove` |
| libbpf copy | `tools/lib/bpf/*.c` | objects, their maps, programs and descriptors; BTF type table; a perf ring's tail | open, load, unload, pin, close; parse; read records |
| Packet capture | `xdp_tcpdump_*.c` (notes) | the device's program, signal handlers, rings, pollfds, pcap file | start, poll and read every CPU's ring, end by a signal |

### How they interact

* The program and the tools share the maps and nothing else. There is no lock:
  a hash element stays readable (RCU) for a run that looked it up, even after it
  was deleted; a per-CPU value read or written from user space is copied CPU by
  CPU; `*drops += 1` in the program is a load and a store.
* The loader and the tools meet in the pin files: the tool opens the maps by
  name, so its rules reach the program only if the program was loaded against
  the very maps the files stand for.
* The loader and the captures meet on the device, which has room for one XDP
  program: each replaces what is there, and each detaches what is there.
* Several invocations of either tool may overlap, and may be killed at any point.
* `bpf_load.c`, `btf.c`, `nlattr.c` and the parsing of options run in one process
  on data they are handed; what can go wrong there is arithmetic and order.

### What is hard, and the properties that make a part correct

* *Program*: reads only inside the frame; its verdict is the policy; with the
  maps changing under it, its verdict is one that some instant of the run calls
  for (`ReadsInBounds`, `VerdictIsPolicy`, `VerdictJustified`).
* *Counters*: none is lost, doubled or booked on the wrong rule, whatever is
  deleted, inserted again or cleared meanwhile (`BlacklistCountExact`,
  `DropCountSound`, `RuleCountsWithinDrops`).
* *Rules*: an update changes its own rule on all CPUs and no other
  (`PortRulesAddUp`, `OnlyOwnRule`, `CpusConverge`), every command line ends
  (`EveryCallReturns`), and all of them together are the abstract rule table
  (`ImplementsRuleTable`).
* *Readers*: a listing misses no source that stays, repeats none without cause
  and ends (`ListingFaithful`, `ListingEnds`); a sum over counting CPUs never falls
  behind the one before (`StatsBracketed`).
* *Loader*: program and files agree through crashes, failures and captures
  (`BlacklistIsManaged`), a reload keeps the rules (`ReloadKeepsRules`), late runs
  share the maps of the first (`LateRunsShare`).
* *Command lines*: the calls a line leads to do not depend on accidents of its
  order, and a line refused anywhere does nothing (`CommandLineMeans`,
  `LoaderLineMeans`).
* *ELF loading*: the loader's map numbers are the file's (`MapTableMatchesFile`); a
  reference reaches no map its relocations do not name, unless one of them names a
  symbol of another section that has a map's offset for its value, which the code
  takes for the map (`RelocationsRight`, section 8); the symbol search finds the
  right symbol (`KsymFound`).
* *libbpf's objects*: every descriptor belongs to one object and is closed once,
  whatever fails (`FdsAccounted`, `AllOrNothing`); a program works on the maps
  its relocations name (`ProgramsUseOwnMaps`), pinned or not
  (`PinnedTogether`); a failed open is recognised as one
  (`OpenGivesObjectOrError`, which fails).
* *Capture*: records come out of a ring once, whole and in order
  (`RingIsQueue`), into a buffer that holds them (`CopyFits`), what is published
  while the poller is busy is announced again (`NoWakeUpLost`), and every ring gets
  its turn (`EveryRingDrained`); a capture leaves its program behind only on
  the ways that do not detach (`SnifferHasOwner`), and closes its file once per
  signal (`PcapClosedPerSignal`).
* *BTF, netlink*: `BtfTableFits`, `ResolveSizeExact`, `NlaIndexed`.

`PROJECT.json` lists the hazards one by one, each at its line.

## 2. Plan

Done, in this order: first what carries the system's purpose, then what surrounds
it, then the libraries under it.

1. `XdpFrame`, `XdpFrameSpec`: classification of a frame as operators, against a
   policy written independently of the code's order of tests.
2. `XdpBlacklist`: program and tools on shared maps; builds on `XdpFrame`.
3. `Loader`: life and death of maps and program.
4. `XdpBlacklist_proofs`: type correctness, both counter invariants, and the two
   theorems on port rules.
5. `PerfQueue`, `PerfRing`: a queue of records per CPU, and the ring, libbpf's
   reader and the poller that implement it.
6. `BpfObject`: libbpf's open, load, unload, set_prep, pin and close with partial
   failures; who owns which descriptor.
7. `RuleTable`, `XdpRules`: what the tool promises about the rules, and that
   `XdpBlacklist` implements it, liveness included.
8. `XdpReaders`: `--list` and `--stats` beside everything in 2.
9. `Capture`: the capture tool's start, signals and end, composed with `Loader`.
10. `ToolOptions`, `BpfLoadFile`, `Netlink`, `BtfTypes`: the sequential parts as
    operators; `Libraries` says what each of them promises.

11. `XdpFrame_proofs`, `Capture_proofs`, `PerfRing_proofs`, `BpfObject_proofs`,
    `ToolInputs_proofs`, `LibbpfInputs_proofs`, over the lemmas of `FoldLemmas`; and
    in `XdpBlacklist_proofs` the refinement of 7, the verdicts and the readers of 8:
    every safety property of 1 to 10, for all values of the constants.

Left is what the prover cannot reach: the liveness properties stay with TLC.

## 3. Modules

### XdpFrame, XdpFrameSpec, MCXdpFrame

A frame is a record of what the program can tell apart: its length, the words at
the three places of an EtherType, protocol, source and destination port. The
operators keep the code's names (`ParseEth`, `ParseIpv4`, `ParsePort`); each
returns its verdict and `reach`, the bytes it has dereferenced. `dport` is the
word 22 bytes into layer 3, because the code does not look at the IP header's
length or at fragment offsets. `XdpFrameSpec` is a machine that starts with any
frame and no rule and adds rules one at a time, and it states the policy.

### XdpBlacklist, MCXdpBlacklist

| Variables | Code |
|---|---|
| `present`, `hits` | keys and per-CPU values of `blacklist` |
| `flags`, `drops`, `verdicts` | slots of `port_blacklist`, of the two drop counters, of `verdict_cnt` |
| `pc`, `frame`, `action`, `tmp`, `orphans` | a run: where it stands, its frame, its verdict, the counter value in its register, whether the element it holds is unlinked |
| `tpc`, `op`, `res`, `curr`, `todo` | an invocation: where it stands, its options, exit code, `curr_values`, the CPUs the map operation has yet to copy |
| `matched`, `dropped`, `cleared`, `ruled`, `would`, `overlap` | history: what has happened so far; no guard reads it |

| Actions | Code |
|---|---|
| `SkipFrame`, `Receive` | `xdp_program` up to its first map access |
| `SourceFound`, `SourceNotFound`, `CountHit` | `parse_ipv4`: lookup; `*value += 1` |
| `LookupPort`, `LoadDrops`, `StoreDrops` | `parse_port`: lookup and test; the two halves of `*drops += 1` |
| `CountVerdict` | `stats_action_verdict` and the end of the run |
| `Start`, `Exit` | `main` from the parsed options; return |
| `RefuseSource`, `AddSource`, `DeleteSource` | `blacklist_modify` |
| `CheckPort`, `ReadPort`, `WritePort`, `ClearCount` | `blacklist_port_modify`: checks, lookup, update, clearing; the last three one CPU at a time |

Abstractions. The kernel copies per-CPU values in CPU order; the model allows any
order, which covers it. `*value += 1` on a hash element is one step, because
nothing else writes that CPU's copy of that element. What a run does to an
element that was unlinked is invisible, so `orphans` only remembers it. `main`
stores the port's result over the source's (`SourceDone`, then `CheckPort`), so
a bad address together with a good port exits with 0. A failed lookup in
`blacklist_port_modify` is printed only; it fails for a key out of range, and
then the update fails too (`PortCode`). `NoOp`, `Srcs`, `Ops` are the options
after `getopt_long`; `NoSrc` is no `--ip`, `BadSrc` one that `inet_pton` refuses.
Running out of memory in an insertion gives the code of a full map.

`DropModulus` stands for 2^32: the program adds to the drop counters through a
`u32 *`. `Conflicts` says whether overlapping invocations may name one port. With
FALSE a tool process starts on a port only when no other is under way there, the
discipline the code asks of its users without saying so; the properties that
need it are checked with FALSE, and `lost_update` shows why they need it.

### RuleTable, XdpRules

`RuleTable` has no slots to copy and no code between a lookup and an update: a set
of sources, a table of rules per CPU, and for each tool the change it is
spreading, which comes to every CPU once, in one step. `XdpRules` maps
`XdpBlacklist` to it: `present` is the set, `flags` the tables, and a tool between
its lookup and its last write is spreading the rule its options name, with the
CPUs in `todo` left to reach. A refused line, a lookup, a clearing of counters
and all of the kernel program's steps are stutters. The refinement needs
`~Conflicts`: with it, writing a whole slot back would change two rules.

### XdpReaders, MCXdpReaders

`XdpReaders` extends `XdpBlacklist` by one invocation that reads.

| Variables | Code |
|---|---|
| `ahead` | pairs of elements, the first before the second in a walk over the hash map's buckets; a new element is the first of its bucket |
| `rpc`, `prev_key`, `listed` | `blacklist_list_all_ipv4`: where it stands, its cursor, what it has printed |
| `key`, `left`, `sum`, `record`, `prev` | `stats_poll`: the action it sums, CPUs still to add, the sum, this round's and the last round's counters |
| `stayed`, `lost`, `again`, `before`, `low` | history |

`GetNextKey` is `bpf_map_get_next_key` as the kernel implements it: from a key that
is not there it starts over. `SumCounter` reads one CPU's slot at a time, while
the others count. The kernel program's and the tools' steps carry the reader's
along (`Beside`).

### ToolOptions, BpfLoadFile, Netlink, BtfTypes, Libraries

Functions with no state of their own. `ToolOptions` takes a command line, as the
options `getopt_long` returns one by one, to the calls `main` makes; `-u` falls
through to `-t` as in the code, and behind an option that is refused nothing
changes any more, since `main` has returned. `BpfLoadFile` is `bpf_load.c` on a
file given as its sections: `Offsets` is what `load_elf_maps_section` makes of
the symbol table, the values of the maps' symbols in the order of `qsort`
(`ValuesBy`, which takes the order as a key); `Relocated` is the relocation sections one after the other with the
`continue` behind one that fails; `KsymSearch` is the binary search, whose range is
the argument of a recursive function and whose differences pass through an int
(`IntHalf` is INT_MAX + 1). `Netlink` lays attributes out by their lengths;
`NlaParse` walks them as `nla_parse` does, and `AttrRoom` is the length
`nla_dump_errormsg` hands it, which is the header of the message too large.
`BtfTypes` is the type table (`AddType`) and `btf__resolve_size`, with products
modulo `UintMax` + 1.

`Libraries` is a machine that hands one of them an input that grows item by item,
so that every input up to a length is a state, and states for each a property
written without its loop. `MCXdpFrame` joins it with `XdpFrameSpec`: an initial
state decides which of the two moves.

### Loader, MCLoader

| Variables | Code |
|---|---|
| `pinned` | files under `/sys/fs/bpf`, as the map each stands for |
| `attached` | the program on each device, as the maps it was loaded against |
| `lpc`, `idx`, `iface`, `map_fd`, `marked`, `code` | a run of the loader: where it stands, loop variable, `--dev`, `map_fd`, `maps_marked_for_export`, exit code |
| `shared` | history: all files were there when the run began, and none was removed since |

`GetMap` and `CreateMap` are `pre_load_maps_via_fs` and `load_maps` for one map,
`FailEarly` the errors up to loading, `LoadProg` relocation and loading, `Export`
one turn of `export_maps`, `Attach` and `Detach` `set_link_xdp_fd`, `Unlink` one
turn of `remove_xdp_program`, `Vanish` the end of a process, killed or not.
`Faults` chooses the system calls that may fail.

### Capture, MCCapture

`Capture` extends `Loader`: its steps are the loader's, with the captures'
variables unchanged, and the captures' own.

| Variables | Code |
|---|---|
| `cpc`, `ifindex` | where a capture stands; its `--dev` |
| `handled`, `caught` | signals whose handler is installed; those whose handler runs |
| `closed` | calls of `pcap_dump_close` |
| `stray` | history: it ended after attaching and without detaching |

| Actions | Code |
|---|---|
| `Prepare`, `AttachSniffer`, `InstallHandler`, `SetUpRings` | `main` up to the poller |
| `Signal` | SIGINT or SIGTERM, at any moment; without a handler it ends the process |
| `HandlerDetach`, `HandlerClose`, `HandlerExit` | `exit_sig_handler` |
| `Kill` | SIGKILL |

`signal` masks a signal while its own handler runs and not the other one, so the
second handler may begin anywhere in the first and, since it exits, the first is
never resumed: `cpc` is the position of the innermost. `exit_sig_handler` passes
-1 for the program to the device it was started on, whichever program it has by then:
`HandlerDetach` sets it to `None` unconditionally. A device is shared with the
loader's blacklist, whose tool then finds its program gone; no document promises
otherwise, so `BlacklistIsManaged` speaks of what is attached.

### PerfQueue, PerfRing, MCPerfRing

`PerfQueue` says what the callback of `bpf_perf_event_read_simple` may rely on:
per ring, records are appended whole and handed over from the front.

| Variables | Code |
|---|---|
| `mem`, `head`, `tail` | the words of a ring's pages, `data_head`, `data_tail` |
| `lost`, `ready`, `waking` | kernel: records lost and not reported, the mark `poll` reads and clears, CPUs between publishing and marking |
| `pc`, `revents`, `ring` | the poller: where it stands, descriptors reported and not visited, the ring it is at |
| `begin`, `end`, `dataTail`, `bufLen`, `buf` | locals of the reader; `*buf_len`, and what is really allocated at `*buf` |
| `out`, `seen`, `broken`, `oom` | history: records output, records accepted, rings where reading broke off, whether `malloc` failed |

| Actions | Code |
|---|---|
| `Output`, `Wake` | `_xdp_prog0` (`xdp_tcpdump_kern.c`) and the kernel's half |
| `Poll` | `poll` in `pcap_perf_event_poller`; a time-out changes nothing |
| `Enter` | the reader up to its loop: both positions are read once |
| `HandOver`, `MallocFails`, `Overrun` | a turn of the loop: copy a record that wraps, advance, call back |
| `StoreTail` | behind the loop; on a refusal also the poller's `break` |

Abstractions. The unit of memory is the 8 byte word to which the kernel rounds
records. A word in `mem` is a record and an index into it, so a torn record, or
one overwritten while it is read, shows as words that are not that record's; the
real code takes a size from such a word as the model does. A `BAD` record, one
without the cookie, is refused by `perf_event_process` and by no shipped program
output; it stands for any callback that does not return `CONT`. The reader does
not wait for frames, and the kernel never for the reader: a full ring loses
records, and a `LOST` report precedes the next one that fits. `tail` is read
again by the kernel at each output, as late as possible; an older value would
only lose more.

### BpfObject, MCBpfObject

| Variables | Code |
|---|---|
| `fdTable` | descriptors of the process and what they are open on |
| `obj` | `struct bpf_object` by handle: `loaded`, the maps' `fd`, the instructions' `imm`, the programs' `preprocessor` and `instances.fds` |
| `call` | the call under way and its loop variables |
| `dirs`, `pins` | the BPF file system |
| `calls` | number of calls so far, which tells maps made in different loads apart |

| Actions | Code |
|---|---|
| `Open`, `OpenNotElf`, `OpenBadStrtab` | `bpf_object__open` and the two failures that leave something behind |
| `ProgLoad` | `bpf_prog_load_xattr` |
| `SetPrep` | `bpf_program__set_prep`, for two instances |
| `Load`, `BeginLoad`, `CreateMap`, `Relocate`, `LoadInstance`, `EndLoad`, `FailLoad` | `bpf_object__load`, one step per thing created; its way out |
| `Pin`, `PinNext`, `EndPin` | `bpf_object__pin`, one step per file; its end, early or not |
| `Unload`, `Close` | `bpf_object__unload`, `bpf_object__close` |
| `RemoveDir`, `Kill` | what happens around the process |

Abstractions. A file is what the code finds in it: maps by offset, in the order
of the symbol table, which `Sorted` puts in the order of `qsort`; sections with
code and the offsets their relocations name. The descriptors a load creates have
the lowest free numbers, so a stale one soon is somebody else's. A map carries
its offset and the call that created it, a program in the kernel the maps its
instructions' descriptors were open on when it was loaded. A call that fails and
leaves nothing is no step: nobody could tell. `OpenBadStrtab` leaves a
`Garbage` handle, which the process may keep but not use: using it is
undefined, and `Kill` covers it. `bpf_object__pin` reaches `.text`, which
`bpf_object__load` skips, so for an object with a `.text` section it pins all
maps and then always fails; the model has this (`WithText`).

## 4. Runs

| Run | Question | Bounds |
|---|---|---|
| `frame` | Is the verdict the policy, within bounds, for every frame? And are the sequential parts right for every short input? | lengths at and just below every bound check for 0, 1, 2 tags and both transports; all words at the EtherType places; 2 sources, 1 port: all rule sets. Command lines, symbol tables and type sections of up to 4 items, 3 sections behind the maps, 6 kernel symbols, 3 attributes |
| `rules` | Do verdicts and slots stay right while rules change? | 2 CPUs, 2 tools, 1 frame per CPU, 1 command line each; every kind of line on one port, `--add` of TCP on a second, so that updates of two ports overlap; `MaxEntries` 1, 2 sources: the map gets full |
| `counts` | Do counters stay right? | 2 CPUs with 2 frames each, 2 tools that may collide, 1 source, 1 port; counters wrap at 2 |
| `converge` | Do command lines and listings end, do CPUs agree, are readings right, and do the tools implement the rule table? | 2 CPUs, 2 tools, 2 ports, both protocols, 3 sources in 2 buckets with room for 2; 4 command lines beside a listing, 2 beside traffic or beside each other; 2 rounds of statistics |
| `stats_cleared` | Does `--del` clear the counter? No. | 1 CPU, 1 tool with 2 command lines |
| `lost_update` | Does `--add` set its bit? Not if two overlap. | 1 CPU, 2 tools |
| `device` | Do files and program agree through crashes, and who leaves a program behind? | 3 maps, 1 device, loaders one at a time and any number of them, 2 captures, signals and kills anywhere, failing calls |
| `loader_overlap` | Do runs that begin late share the maps? | 2 runs at a time, 2 maps, all faults but an unreadable file, `--remove` |
| `ring` | Is every ring a queue, is no wake-up lost, and is every ring read? | 2 rings of 8 words, samples of 3 and 5 words, reports of 1, 5 frames |
| `object` | Who owns which descriptor, whatever fails? | 2 handles, 7 descriptors, 4 kinds of files, 1 directory, 6 calls |
| `open_error` | Is a failed open recognised? Not always. | as `object`, 2 calls |
| `loader_exit` | Does EXIT_OK mean that the tool reaches the program? Not if two overlap. | 2 runs, no faults |

Why the bounds are enough. Two CPUs let one be read or written before the
other; a third adds no new pair. Two tools make every race between invocations
there is in pairs, and the pairwise ones are those the code could lose. Lines on two ports in `rules` may overlap, on one port they may not
(`Conflicts`). One frame
per CPU meets every moment of every update in `rules`; a second one, in `counts`,
lets a counter be loaded, cleared and stored again and lets the wrap happen. In
`counts` a `DropModulus` of 2 wraps on the second drop. The loader's runs have no
bound on their number: object names are reused once nothing refers to an object,
and a run, the files and one device refer to at most three per map (four with two
runs), so `Objs` never runs out; that the model has no deadlock confirms it. The
loops over maps need a first, a last and one boundary between done and not done,
so two maps do where five would be too many states.

In `converge`, command lines, traffic, the listing and the statistics do not all
meet in one behaviour: `Inputs` of `MCXdpReaders` lets up to four command lines of
one tool come around a listing, two around traffic, one each of two tools
overlap, and the statistics see traffic alone. What is kept apart shares no
state: a listing reads `blacklist`'s keys, which traffic never changes, the
statistics read `verdict_cnt`, which no tool writes, and traffic beside two
overlapping tools is the subject of `rules`. Four lines on three sources in a map
for two let the element under the cursor be deleted, another take its place,
and it be added again. In `device` three maps have a first, a middle and a last
one, and two captures on one device let each be the one that attached, the one
replaced, and the one whose handler detaches the other's program.

In `frame`, the constants of the sequential parts are small so that their edges
are within reach: a table of 3 maps and one of 4 types, which grows by 3 and is
then full, `IntHalf` 8, an int of 4 bits, under addresses of up to 15, `UintMax` 15 under array
lengths of up to 7 so that two lengths overflow and a zero hides it, attributes
shorter than, equal to and longer than their header and not aligned.

In `ring`, the kernel keeps one of a ring's 8 words back, so two samples of 3 words
lie on a ring together, and a third finds room as soon as one of them is consumed.
One may be published while another is read: between `poll` and the reader's look
at `data_head`, and between that and the store of `data_tail`. A sample of 3 words
and one of 5 end exactly at the end of the ring, two of 5 or three of 3 wrap, and 5
frames on two rings are enough for a loss, its report behind the reader's back, a
failed `malloc` and the next wrapped record. That each of these cases is reached was
confirmed with an invariant that denies it, which TLC refutes. In
`object`, six calls allow two objects to be loaded, pinned, killed, loaded and
pinned again; seven descriptors are used up by two loads, so that running out is
met at every step.

`VerdictJustified` is limited to runs that at most one invocation overlaps. With
two, a source rule removed and a port rule added between the two lookups let a
frame pass that either rule set alone would have dropped or passed at another
instant; nothing in the code promises more.

`device` leaves out three of the loader's faults: a pin file that is there and
cannot be opened, failing to pin, and failing to detach. Each splits the program
from its files even without overlap, because the loader drops the result of the
call. `loader_overlap` includes the last two. The captures' faults are all
included; that detaching may fail in the handler is why `stray` is needed.

The violations are the code's: `stats_cleared` (a store over the cleared
counter), `lost_update` (read-modify-write without a lock), `loader_exit` (a
failed pin ignored), `open_error` (a missing minus sign). Each is described in `PROJECT.json` under findings.

`CHECK_DEADLOCK FALSE` stands where the machine really stops: all frames received
and all command lines run (`MaxRuns`, `MaxOps`), or all rules added
(`XdpFrameSpec`), the input as long as it gets (`MaxItems`), all frames sent (`MaxFrames`) or all calls made (`MaxCalls`).
The loader's runs check for deadlock, which in `device` is also the end of both
captures beside a loader that may always run again.

Symmetry is used for CPUs and tools in `rules` and `counts`, and for map objects
and loader runs, for captures in `device` and for handles in `object`; no liveness property is checked under it.

## 5. Fairness

`FairSpec` has weak fairness for each CPU's run and for each tool. A loaded XDP
program cannot be preempted for good: the verifier has shown it to end and the
kernel runs it to its end. A tool is an ordinary process, which the operating
system schedules; its loops over CPUs are bounded. Neither the arrival of frames
nor that of command lines is fair. `PerfRing` assumes the same of the capture
process and of a CPU between publishing a record and marking its descriptor.
`ReadersFairness` adds the listing, an ordinary process as well; it ends because
the command lines that disturb it do. The statistics never end and need none.
`RuleTable`'s fairness, that a change under way comes to every CPU, is a
consequence: `ImplementsRuleTable` includes it.
`EveryRingDrained` then says how far a refused record reaches: the poller's
`break` skips the rings behind it, for ever if it is not consumed, and never
those in front.

## 6. Proofs

`XdpBlacklist_proofs` proves for all values of the constants that meet the
assumptions of `XdpBlacklist` (finite sets of CPUs and tools, ports within the
key range, known sentinels, any counter width):

* `TypeCorrect`: `Spec => []TypeOK`. `TypeOK` alone is not inductive: a store
  needs that a run past `parse_ipv4` has a frame whose protocol and port index a
  counter, and a tool past its checks a port that is a key and a single action.
  `TypeInv` adds these facts (`RunInv`, `ToolInv`).
* `HitCountsExact`: `Spec => []BlacklistCountExact`. `HitInv` adds that an
  element a run is about to count is present unless the run is in `orphans`;
  without it a deletion and a second insertion between lookup and increment would
  break the step.
* `DropCountsSound`: `Spec => []DropCountSound`. `DropInv` adds what a run holds
  between load and store: never more than the drops so far, and exactly them
  modulo the width unless a `--del` has set out to clear the counter; and that a
  tool which is clearing has put its pair in `cleared`. The arithmetic of the wrap
  is in the lemmas `DivUnique`, `ModAtMost` and `ModSucc`.
* `PortRulesCorrect` (`Spec => []PortRulesAddUp`) and `RulesChangeAlone`
  (`Spec => OnlyOwnRule`), both under `~Conflicts`: no two invocations that
  overlap name the same port. `PortRulesAddUp` speaks only of ports nobody is
  updating, so it is not inductive. `PortInv` adds `AloneOnPort` (two invocations
  under way are about different ports), what a tool knows while it copies the
  slots (every slot still equals `ruled`, the copied ones are in its array) and
  what holds while the kernel stores them (the slots not yet stored are
  untouched and were read correctly, the stored ones are `ruled` with this
  one rule changed). Without the assumption both fail: run `lost_update`.
* `CountsWithinDrops`: `Spec => []RuleCountsWithinDrops`. The counters of a CPU are
  added up over sources and over pairs of protocol and port, and what is compared
  with the verdicts is not the drop counters, which a late store can set back to
  a value that was cleared, but `dropped`, which only grows and bounds them
  (`DropInv`). `CountInv` says that hits and `dropped` together are at most the
  verdicts and the run that has yet to count its own (`Booked`, `Told`).
* `RulesRefineTable`: `Spec => RT!SafeSpec` under `~Conflicts`, the safety part of
  `ImplementsRuleTable`. Every action of `XdpBlacklist` has a lemma that names the
  action of `RuleTable` it is, or that it is a stutter. `PortInv` is what makes
  `WritePort` a step of the table: the value stored on a CPU is the rule that was
  there with this tool's change, because the slot is untouched since it was read.
* `VerdictsJustified`: `Spec => []VerdictJustified`, without any assumption about
  the ports that invocations name. `would`, the verdicts the rules have called for
  since the frame came in, is not enough to know at the second lookup: the program
  has decided that the source is not on the list and does not look again.
  `AdderOnly` is the missing part: if the source is there by now, the one
  invocation that overlaps has added it, `blacklist_modify` comes before
  `blacklist_port_modify`, the same `--add` can only add port rules, and the slots
  it stores were read during the run (`FreshCopy`). `CountsOverlap` ties the number
  of overlapping invocations to those that are under way, `NowJustified` keeps
  `would` up to date until the decision, and `FrameOK` carries what the checks
  have found of the frame.
* `ListingsFaithful`: `ReadersSpec => []ListingFaithful`, for any sources in any
  buckets, beside any command lines. `ListInv` has the order of the elements
  (`OrderOK`: linear, bucket by bucket) and the two halves of the claim while a
  listing is under way: what has been there all along and is not printed is
  behind the cursor, or in its bucket or a later one once its element is gone
  (`StillToCome`), so the end of the walk, or starting over, cannot miss it; and
  until the cursor's element is deleted, what was printed is not behind it, even
  if it was deleted and added again (`NothingTwice`: the first place of a bucket
  is no later than the cursor).
* `StatisticsBracketed`: `ReadersSpec => []StatsBracketed`, for any number of CPUs.
  `PollInv` says that the sum so far and the slots still to come, as they are now,
  lie between the total at the beginning of the reading and the total now.

Each proof has one step per action of `Next`, grouped where actions leave the
variables of an invariant alone, and lemmas for frames (`FrameFields`), command
lines (`OpFields`), the counting of busy tools (`BusyCount`) and the slot-wise
copies (`CopiedStep`).

`XdpFrame_proofs` proves `ReadsStayInBounds` and `VerdictsFollowPolicy` for frames
of any length. The invariant is that the length is
a natural number; the proof is the case distinction over the number of tags
(`VlanTagsCases`, `ParseEthMeans`), the transports and the bound checks.

`Capture_proofs` first proves of `Loader`, for any number of maps, devices and
overlapping runs:

* `TypeCorrect`. `LoaderInv` adds that loops start at 0 and that a run past a map
  has an object for it (`Filled`), without which the program to load could lack
  one. Its lemmas leave open what else is attached to a device, so that `Capture`
  can use them.
* `LateRunsAttachPins`, `Spec => []LateRunsShare`, if opening a pin file that is
  there does not fail (`"get" \notin Faults`; with it the loader makes a map of
  its own beside the file, and the property is false). `Sharing` says that a run
  that began with all files there has the pinned objects so far, and that all
  files are still there: nobody pins over one, and a `--remove` ends the claim.

and then of `Capture`, for any number of captures, loaders and devices:

* `DeviceTypeCorrect`, `SniffersAccountedFor` and `ClosedOncePerSignal`.
  `CaptureInv` is `LoaderInv` with the captures' programs allowed on devices, that a
  capture's program is on its own device only (`Owned`), and that a handler on
  its way to `pcap_close` has one signal in hand (`ClosedInTurn`).
* `AttachedMeansManaged` and `ReloadsKeepRules`, under `Serial`: one loader at a
  time, one device, and opening, pinning and detaching do not fail. TLC finds a
  counterexample without any one of the three. `Ready` says stage by stage
  which of a run's objects are the pinned ones and which it has yet to pin; the
  last of these parts, that nothing is attached while files are unlinked, is why
  detaching may not fail.

`PerfRing_proofs`, for any number of rings, any size of a ring and all record
sizes that fit in it:

* `RingsAreQueues`, `Spec => RingIsQueue`: `PerfRing` implements `PerfQueue`; on the
  way, `PositionsStayInside`, `Spec => []TypeOK`. `RingOK` says that the words
  between the consumer's and the producer's position are the records that were
  output and not consumed, one behind the other (`Laid`). Which word begins a
  record cannot be read off the ring's positions when `tail` has yet to be
  stored, so the invariant asks for a sequence `start` of the positions of all
  records ever output; the reader's `dataTail` is the one behind the records it
  has seen, and its `end` is some later one. The lemmas about positions modulo the
  ring's size (`ModUnique`, `ModAdd`, `ModBack`) and about writing a record into
  words and reading them back (`Extend`, `StoredTwice`) carry the arithmetic.
* `CopiesFit`, `Spec => []CopyFits`, from `BufferInv`: until an allocation fails,
  the buffer has the size `*buf_len` says.
* `WakeUpsKept`, `Spec => []NoWakeUpLost`, the safety half of `EveryRingDrained`: fairness
  alone is missing for the rest. `NoWakeUpLost` is not inductive, since the ring
  being read is no longer in `revents` and, with the mark taken back, nothing
  announces it. `WakeOK` adds that what was published behind the `data_head` the
  reader looked at is announced (`Announced`), so storing a `data_tail` up to there
  leaves nothing unannounced, and that the reader stops short of there only
  where reading broke off.

`BpfObject_proofs`, for any files, handles, descriptors and directories:
`ObjectsTypeCorrect`, `DescriptorsAccounted`, `ProgramsOnOwnMaps`, `LoadsAreWhole` and
`PinsAreWhole`, the five invariants of run `object`, from one inductive invariant
`IInv`:

* `TypeInv`, with `Resolves` for the file of every object.
* For each object (`Sound`): its descriptors are open on what they stand for
  (`OnRight`); its programs were given its maps' descriptors (`Linked`); and either
  nobody loads it and it is untouched, emptied or complete (`Settled`), or it is at
  some stage of a load (`Stage`): the maps before the loop's position were made
  by this call (`Fresh`), the instructions have their descriptors, the slots from
  the position on are empty, and every section passed that is not `.text` has
  programs. `FdsAccounted` alone does not survive `LoadInstance`, which would
  overwrite a slot, unless the slot is known to be empty.
* No two objects remember one descriptor, and every descriptor that is open, but
  those of refused files, is remembered (`OwnerInv`). That closing one object
  leaves the others alone is this and `OnRight` together (`OneChanges`).
* While an object is pinned, the files of its maps the loop has passed are there
  unless the directory was removed (`PinInv`). `PinnedTogether` follows at the step
  that pins a program, by `Linked`.

That a relocation finds its map in the sorted table (`SortedHas`) needs that a
table of any length can be put in order (`AllSortable`), by induction.

`ToolInputs_proofs` and `LibbpfInputs_proofs` prove the properties of `Libraries`, for
inputs of any length and any values of the constants that meet the assumptions of
`Libraries` (`OptionsAssumption`, `ElfAssumption`, `NetlinkAssumption`,
`BtfAssumption`: what kind of value an option, a section, an attribute or a type
is, and that sizes are positive). That the input is made of such items is one
invariant (`ItemsInv`); the rest is about the operators. A loop of the code is a
fold, and each is reasoned about alike: `LeftExists` gives the sequence `r` of its
states, `r[i]` after i items (`ParsedBy`, `AttrsParsedBy`, `TypesAddedBy` and the
other operators in `By` say so), and what `r[i]` satisfies is proved by induction
over i, as a loop invariant would be.

* `CommandLinesMean` and `LoaderLinesMean`. `Agrees` and `UserAgrees` say of each
  field what the options so far make of it: the argument of the last option of a
  kind, whether one of a kind was there, whether one was refused.
* `MapsInOrder`, `LibSpec => []MapTableMatchesFile`. That the values can be put in
  order at all is `AllSortable`; that the k-th in order is the k-th multiple of the
  definitions' size, when they are a permutation of these, is `InOrderIsCounting`.
* `ReferencesRight`, `LibSpec => []RelocationsRight`, is two loops, one in the other;
  a value that is a map's offset names the map only with the symbol's section, and
  the theorem needs that no relocation of the instruction is mistaken in this.
  `Wired` says of a set of relocations looked at so far that every descriptor
  given has one of them behind it, and every reference without one a bad one.
* `SymbolsFound`, `LibSpec => []KsymFound`. The search is a recursive function on
  ranges; that there is such a function is proved by induction over the length of
  the range (`Settled`), and that a turn keeps the key's place in the range
  (`Within`) from `NearDifference`: two addresses in half an int's range are
  compared rightly.
* `AttributesIndexed`, `LibSpec => []NlaIndexed`. `ParsedAt` says where the attributes
  passed are and that the message remembered is one of them; places only grow.
* `TableFits`, `LibSpec => []BtfTableFits`. Every state of the table is in `SoundTables`:
  its entries are the numbers up to `nr_types`, below the memory's size; void is
  there as soon as any type is.
* `SizesExact`, `LibSpec => []ResolveSizeExact`. The run of `btf__resolve_size` follows
  the chain of types (`Follows`), its `nelems` are the product of the lengths passed
  (`Counts`), and a product that is over `UintMax` once without its zeros stays
  over it.

`FoldLemmas` has what these need and the provers lack: induction over numbers
(`NatInduct`, from `WFMin` of `WellFoundedInduction` by the least counterexample),
least and greatest elements of sets (`MinOf`, `MaxOf`), that the recursive
functions behind the folds of the community modules exist (`FoldExists`,
`LeftExists`), how a sum over a finite set changes with one of its terms (`SumNat`,
`SumWithout`, `SumAtMost`, `SumChanged`), and that numbers can be sorted. Folds take
an operator, which the provers cannot instantiate, so the lemmas are about
functions and each use says which function its operator is.

## 7. Model-checked only

* Liveness (`EveryCallReturns`, `CpusConverge`, `ListingEnds`, `EveryRingDrained`,
  and the fairness half of `ImplementsRuleTable`): neither `ENABLED` nor fairness is
  within the prover's reach.
* The four violations are what TLC finds, and not theorems.

## 8. Not modelled

* The kernel's verifier, JIT and driver hooks; IPv6 and ARP, which the program
  passes on. What of the kernel matters here is modelled as external.
* In the command line tool: the listing of ports (`cmdline.c:374-381` and what it calls), which reads one value per CPU
  of each counter map into a single integer (`cmdline.c:257`), so what it prints,
  and what it overwrites, is not defined by the source; the conversion of strings
  to numbers; the output.
* In the loader: `chown_maps`. In `bpf_load.c`: attaching to kprobes, tracepoints,
  sockets and cgroups, and `read_trace_pipe`, which this program has no use for.
* In libbpf: `bpf_map__pin` and `bpf_program__pin` called on their own, objects
  opened from a buffer, calls into `.text`, private pointers and accessors; in
  `btf.c` the checks of header and strings and the search by name; in `bpf.c` the
  wrappers nothing here calls. A wrapper fills in a structure and makes one system
  call, and the models have the call.
* `xdp_drop` and `xdp_kern`, of one statement each.
* The netd sources quoted in the notes: nothing in the repository builds them, and
  the process that owns their maps, without which their behaviour is not
  determined, is not in it.
* Vendored kernel headers, build files, documents, and the copies of `ddos/` in
  the notes. Most of the repository's lines are such headers, twice, and such
  copies; the modules name each piece of code once.

Two remarks on relocations. `parse_relo_and_apply` (`bpf_load.c:324`) compares a map's
offset with `st_value` and never looks at the symbol's section, although
`bpf_load.h:44` speaks of "relocations for BPF maps": a relocation that names a
function or a variable whose value is a map's offset, as the first function of any
section has with the first map, makes its instruction load that map's descriptor.
`ProgramFile` has such a function, and `RelocationsRight` states the mistake as its one
exception (`mistaken`). The blacklist program gives no occasion for it: its helpers
are inline, and its only data besides the maps, the license, is named by no
instruction. libbpf tests the section
(`libbpf.c:969`); `BpfObject` has relocations as offsets among the maps, so it cannot
express a symbol of `.text` that passes this test and has a map's offset.

Remarks on the code that no property is about. `btf.c:117` tests `type_off & 0x02`
under a message that speaks of an alignment of four; the kernel, asked first,
refuses such a section. `ksym_cmp` sorts through an int, as `ksym_search` compares
(`KsymFound` has the condition under which that is harmless). The usage texts
list short forms of options that the option strings lack, and `-d` of the command
line tool is in its option string and has no case. When `elf_begin` fails,
`bpf_object__elf_finish` (`libbpf.c:482`) returns before it closes the file's
descriptor: `OpenNotElf` has it, and `FdsAccounted` allows for it.
