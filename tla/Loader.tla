------------------------------- MODULE Loader -------------------------------
(***************************************************************************)
(* xdp_ddos01_blacklist_user: how the program and its maps come to life.   *)
(* Each run of the loader takes the maps that are pinned in /sys/fs/bpf,   *)
(* creates the others, loads the program against them, pins what it has    *)
(* created and attaches the program to a device; a run with --remove       *)
(* detaches the program and unlinks the pins.  Runs may overlap, may be    *)
(* killed between any two system calls, and system calls may fail.         *)
(*                                                                         *)
(* A map object is what a file descriptor, a pin or a loaded program       *)
(* refers to; the kernel frees it with its last reference.  Objects are    *)
(* named per map index: o as map 0 and o as map 1 are two objects.  A      *)
(* program is the function from map index to the object it was loaded      *)
(* against.  The two rules main adds "as a test" after attaching are       *)
(* command lines of XdpBlacklist and touch nothing here.                   *)
(***************************************************************************)
EXTENDS Integers

CONSTANTS
  NR_MAPS,    \* the maps of the program
  Ifaces,     \* network devices
  Loaders,    \* runs of the loader that may overlap
  Objs,       \* names for the objects of one map index, enough for a new one
  None,       \* no object, no program
  Faults,     \* the system calls that may fail, of FaultKinds
  Crashes,    \* may a run be killed?
  Removals    \* may a run be given --remove?

\* "fs": the pin path is no BPF file system.  "get": bpf_obj_get fails on a file
\* that is there.  "attach" and "detach": the kernel refuses; "reply": it attaches,
\* but set_link_xdp_fd cannot tell (recv failed, or nlmsg_pid is not getpid()).
FaultKinds == {"fs", "get", "create", "load", "pin", "attach", "detach", "reply"}

ASSUME LoaderAssumption ==
  /\ NR_MAPS \in Nat \ {0}
  /\ None \notin Objs
  /\ Faults \subseteq FaultKinds
  /\ Crashes \in BOOLEAN /\ Removals \in BOOLEAN

Maps  == 0..(NR_MAPS - 1)
Progs == [Maps -> Objs]

VARIABLES
  pinned,    \* pinned[m]: the object behind the export file of map m
  attached,  \* attached[i]: the program on device i
  lpc,       \* what each run does next
  idx,       \* the map its loop has come to
  iface,     \* its --dev
  map_fd,    \* map_fd[l][m]: the object run l holds for map m
  marked,    \* maps_marked_for_export
  code,      \* exit code
  shared     \* history: all pins were there when the run began, and stayed

vars == <<pinned, attached, lpc, idx, iface, map_fd, marked, code, shared>>
priv == <<iface, map_fd, marked>>

Nothing == [m \in Maps |-> None]

Init ==
  /\ pinned   = Nothing
  /\ attached = [i \in Ifaces |-> None]
  /\ lpc      = [l \in Loaders |-> "idle"]
  /\ idx      = [l \in Loaders |-> 0]
  /\ iface   \in [Loaders -> Ifaces]
  /\ map_fd   = [l \in Loaders |-> Nothing]
  /\ marked   = [l \in Loaders |-> {}]
  /\ code     = [l \in Loaders |-> "OK"]
  /\ shared   = [l \in Loaders |-> FALSE]

\* The objects of index m some pin, program or descriptor refers to.
InUse(m) == {pinned[m]} \cup {map_fd[l][m] : l \in Loaders}
            \cup {attached[i][m] : i \in {j \in Ifaces : attached[j] # None}}

MayFail(kind) == kind \in Faults
Goto(l, next) == lpc' = [lpc EXCEPT ![l] = next]
\* The loop variable moves on; past the last map the run goes to next.
\* Mutant: the loop runs up to NR_MAPS.
AdvanceFar(l, next) ==
  /\ idx' = [idx EXCEPT ![l] = IF @ = NR_MAPS THEN 0 ELSE @ + 1]
  /\ lpc' = [lpc EXCEPT ![l] = IF idx[l] = NR_MAPS THEN next ELSE @]
Advance(l, next) ==
  /\ idx' = [idx EXCEPT ![l] = (@ + 1) % NR_MAPS]
  /\ lpc' = [lpc EXCEPT ![l] = IF idx[l] = NR_MAPS - 1 THEN next ELSE @]

\* main returns: the process and its descriptors go.
Leave(l, c) ==
  /\ Goto(l, "exit")
  /\ code' = [code EXCEPT ![l] = c]
  /\ idx'  = [idx EXCEPT ![l] = 0]

-----------------------------------------------------------------------------
Begin(l) ==
  /\ lpc[l] = "idle"
  /\ \E i \in Ifaces : iface' = [iface EXCEPT ![l] = i]
  /\ \/ Goto(l, "maps")
     \/ Removals /\ Goto(l, "detach")
  /\ shared' = [shared EXCEPT ![l] = \A m \in Maps : pinned[m] # None]
  /\ UNCHANGED <<pinned, attached, idx, map_fd, marked, code>>

\* pre_load_maps_via_fs for map idx[l], then bpf_create_map_node if it found
\* no file.  A descriptor for a new map is as yet this run's alone.
GetMap(l) ==
  /\ lpc[l] = "maps" /\ pinned[idx[l]] # None
  /\ map_fd' = [map_fd EXCEPT ![l][idx[l]] = pinned[idx[l]]]
  /\ Advance(l, "prog")
  /\ UNCHANGED <<pinned, attached, iface, marked, code, shared>>

\* Mutant: the callback's descriptor does not keep load_maps from creating.
CreateMapAlways(l) ==
  /\ lpc[l] = "maps"
  /\ \E o \in Objs \ InUse(idx[l]) : map_fd' = [map_fd EXCEPT ![l][idx[l]] = o]
  /\ marked' = [marked EXCEPT ![l] = @ \cup {idx[l]}]
  /\ Advance(l, "prog")
  /\ UNCHANGED <<pinned, attached, iface, code, shared>>

CreateMap(l) ==
  /\ lpc[l] = "maps" /\ (pinned[idx[l]] = None \/ MayFail("get"))
  /\ \E o \in Objs \ InUse(idx[l]) : map_fd' = [map_fd EXCEPT ![l][idx[l]] = o]
  /\ marked' = [marked EXCEPT ![l] = @ \cup {idx[l]}]
  /\ Advance(l, "prog")
  /\ UNCHANGED <<pinned, attached, iface, code, shared>>

\* Errors before anything of the run is visible outside it.
FailEarly(l) ==
  /\ \/ /\ lpc[l] = "maps" /\ MayFail("fs")
        /\ Leave(l, "FAIL_MAP_FS")
     \/ /\ lpc[l] = "maps" /\ MayFail("create")
        /\ (pinned[idx[l]] = None \/ MayFail("get"))
        /\ Leave(l, "FAIL")
     \/ /\ lpc[l] = "prog" /\ MayFail("load")
        /\ Leave(l, "FAIL")
  /\ UNCHANGED <<pinned, attached, iface, map_fd, marked, shared>>

\* The program's references to maps are resolved to the descriptors: the
\* loaded program is map_fd[l].
LoadProg(l) ==
  /\ lpc[l] = "prog"
  /\ Goto(l, "export")
  /\ UNCHANGED <<pinned, attached, idx, priv, code, shared>>

\* export_maps: bpf_obj_pin fails where there is a file; main is not told.
\* Mutant: a file that is there is replaced.
PinnableOver(l, m) == m \in marked[l]
Pinnable(l, m) == m \in marked[l] /\ pinned[m] = None

Export(l) ==
  /\ lpc[l] = "export"
  /\ \/ Pinnable(l, idx[l]) /\ pinned' = [pinned EXCEPT ![idx[l]] = map_fd[l][idx[l]]]
     \/ (~Pinnable(l, idx[l]) \/ MayFail("pin")) /\ UNCHANGED pinned
  /\ Advance(l, "attach")
  /\ UNCHANGED <<attached, priv, code, shared>>

\* set_link_xdp_fd replaces whatever program the device had.
SetLink(l, prog) == attached' = [attached EXCEPT ![iface[l]] = prog]

Attach(l) ==
  /\ lpc[l] = "attach"
  /\ \/ SetLink(l, map_fd[l]) /\ Leave(l, "OK")
     \/ MayFail("reply") /\ SetLink(l, map_fd[l]) /\ Leave(l, "FAIL_XDP")
     \/ MayFail("attach") /\ UNCHANGED attached /\ Leave(l, "FAIL_XDP")
  /\ UNCHANGED <<pinned, priv, shared>>

\* remove_xdp_program: the result of set_link_xdp_fd is not looked at.
\* Mutant: the device is not detached (ifindex > -1 read as false).
DetachNothing(l) ==
  /\ lpc[l] = "detach"
  /\ Goto(l, "unlink")
  /\ UNCHANGED <<pinned, attached, idx, priv, code, shared>>

Detach(l) ==
  /\ lpc[l] = "detach"
  /\ \/ SetLink(l, None)
     \/ MayFail("detach") /\ UNCHANGED attached
  /\ Goto(l, "unlink")
  /\ UNCHANGED <<pinned, idx, priv, code, shared>>

Unlink(l) ==
  /\ lpc[l] = "unlink"
  /\ pinned' = [pinned EXCEPT ![idx[l]] = None]
  /\ IF idx[l] = NR_MAPS - 1 THEN Leave(l, "OK")
                             ELSE Advance(l, "exit") /\ UNCHANGED code
  /\ shared' = [k \in Loaders |-> FALSE]
  /\ UNCHANGED <<attached, priv>>

\* The process is gone, by return from main or killed; only pins and attached
\* programs keep objects.
Vanish(l) ==
  /\ \/ lpc[l] = "exit"
     \/ Crashes /\ lpc[l] # "idle"
  /\ Goto(l, "idle")
  /\ idx'    = [idx EXCEPT ![l] = 0]
  /\ map_fd' = [map_fd EXCEPT ![l] = Nothing]
  /\ marked' = [marked EXCEPT ![l] = {}]
  /\ code'   = [code EXCEPT ![l] = "OK"]
  /\ shared' = [shared EXCEPT ![l] = FALSE]
  /\ UNCHANGED <<pinned, attached, iface>>

Step(l) == \/ GetMap(l) \/ CreateMap(l) \/ FailEarly(l) \/ LoadProg(l) \/ Export(l)
           \/ Attach(l) \/ Detach(l) \/ Unlink(l) \/ Vanish(l)

Next == \E l \in Loaders : Begin(l) \/ Step(l)

Spec == Init /\ [][Next]_vars

-----------------------------------------------------------------------------
(***************************************************************************)
(* Properties.                                                             *)
(***************************************************************************)
TypeOK ==
  /\ pinned \in [Maps -> Objs \cup {None}]
  /\ attached \in [Ifaces -> Progs \cup {None}]
  /\ lpc \in [Loaders -> {"idle", "maps", "prog", "export", "attach",
                          "detach", "unlink", "exit"}]
  /\ idx \in [Loaders -> Maps]
  /\ iface \in [Loaders -> Ifaces]
  /\ map_fd \in [Loaders -> [Maps -> Objs \cup {None}]]
  /\ marked \in [Loaders -> SUBSET Maps]
  /\ code \in [Loaders -> {"OK", "FAIL", "FAIL_MAP_FS", "FAIL_XDP"}]
  /\ shared \in [Loaders -> BOOLEAN]

\* The tool reaches the maps of the program on i through the export files.
Managed(i) == attached[i] = pinned

\* Of runs that overlap in any way, one that began when all the files were
\* there attaches a program that has their maps, unless a --remove came between.
LateRunsShare ==
  \A l \in Loaders : shared[l] /\ lpc[l] \in {"prog", "export", "attach"} => map_fd[l] = pinned

-----------------------------------------------------------------------------
(***************************************************************************)
(* What the source says, and the code does not keep.                       *)
(***************************************************************************)

\* "Use the cmdline tool for add/removing source IPs" (user.c:8): a run that
\* exits with EXIT_OK leaves a program the tool's files belong to.
ExitOkMeansManaged ==
  \A l \in Loaders : lpc[l] = "exit" /\ code[l] = "OK" /\ attached[iface[l]] # None
                     => Managed(iface[l])
=============================================================================
