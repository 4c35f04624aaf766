------------------------------- MODULE Capture ------------------------------
(***************************************************************************)
(* xdp_tcpdump from its start to its end, on devices the blacklist's       *)
(* loader uses as well.  A capture loads a program of its own, attaches it *)
(* in the place of whatever the device had, installs a handler that        *)
(* detaches whatever the device has, and polls its rings until a signal    *)
(* ends it.  A signal before the handler is installed, a kill, an assert   *)
(* that fails and every late error end it without detaching.  The handler  *)
(* masks its own signal alone: the other one may run it again.             *)
(*                                                                         *)
(* What the poller does with the rings is the subject of PerfRing.         *)
(***************************************************************************)
EXTENDS Loader, FiniteSets

CONSTANTS
  Captures,      \* runs of xdp_tcpdump
  CaptureFaults  \* the calls of a capture that may fail

CaptureFaultKinds == {"load", "dump", "attach", "reply", "setup", "detach"}

ASSUME CaptureAssumption ==
  /\ Captures \cap (Objs \cup {None}) = {}
  /\ CaptureFaults \subseteq CaptureFaultKinds

Signals == {"INT", "TERM"}
\* A capture's program: a function like the others, whose object is its own.
Sniffer(p) == [m \in Maps |-> p]

ASSUME NoneAssumption == None \notin Progs \cup {Sniffer(p) : p \in Captures}

VARIABLES
  cpc,      \* what each capture does next
  ifindex,  \* its --dev
  handled,  \* signals its handler is installed for
  caught,   \* signals whose handler runs, the innermost one going on
  closed,   \* calls of pcap_dump_close
  stray     \* history: it ended after attaching and without detaching

cvars == <<cpc, ifindex, handled, caught, closed, stray>>

CaptureInit ==
  /\ Init
  /\ cpc     = [p \in Captures |-> "start"]
  /\ ifindex \in [Captures -> Ifaces]
  /\ handled = [p \in Captures |-> {}]
  /\ caught  = [p \in Captures |-> {}]
  /\ closed  = [p \in Captures |-> 0]
  /\ stray   = {}

CGoto(p, next) == cpc' = [cpc EXCEPT ![p] = next]
CMayFail(kind) == kind \in CaptureFaults
\* bpf_set_link_xdp_fd with no XDP_FLAGS_UPDATE_IF_NOEXIST
SetXdp(p, prog) == attached' = [attached EXCEPT ![ifindex[p]] = prog]

\* Where a capture has attached its program and not yet detached it.
Attached == {"signal", "setup", "poll", "detach"}

DeviceUnchanged == UNCHANGED vars
OnDevice        == UNCHANGED <<pinned, lpc, idx, iface, map_fd, marked, code, shared>>

\* The process is gone, and all it had but the program on the device.
Forget(p) ==
  /\ handled' = [handled EXCEPT ![p] = {}]
  /\ caught'  = [caught EXCEPT ![p] = {}]
  /\ closed'  = [closed EXCEPT ![p] = 0]
GoneQuietly(p) == CGoto(p, "gone") /\ Forget(p) /\ UNCHANGED stray
GoneAstray(p)  ==
  /\ CGoto(p, "gone") /\ Forget(p)
  /\ stray' = IF cpc[p] \in Attached THEN stray \cup {p} ELSE stray

GoesOn(p, next) == CGoto(p, next) /\ UNCHANGED <<handled, caught, closed, stray>>

-----------------------------------------------------------------------------
\* bpf_prog_load_xattr and pcap_dump_open
Prepare(p) ==
  /\ \/ cpc[p] = "start" /\ GoesOn(p, "dump")
     \/ cpc[p] = "dump" /\ GoesOn(p, "attach")
     \/ cpc[p] = "start" /\ CMayFail("load") /\ GoneQuietly(p)
     \/ cpc[p] = "dump" /\ CMayFail("dump") /\ GoneQuietly(p)
  /\ DeviceUnchanged /\ UNCHANGED ifindex

AttachSniffer(p) ==
  /\ cpc[p] = "attach"
  /\ \/ SetXdp(p, Sniffer(p)) /\ GoesOn(p, "signal")
     \/ /\ CMayFail("reply")
        /\ SetXdp(p, Sniffer(p)) /\ CGoto(p, "gone") /\ Forget(p) /\ stray' = stray \cup {p}
     \/ CMayFail("attach") /\ UNCHANGED attached /\ GoneQuietly(p)
  /\ OnDevice /\ UNCHANGED ifindex

\* signal(SIGINT, exit_sig_handler), then SIGTERM
InstallHandler(p) ==
  /\ cpc[p] = "signal"
  /\ handled' = [handled EXCEPT ![p] = IF @ = {} THEN {"INT"} ELSE Signals]
  /\ CGoto(p, IF handled[p] = {} THEN "signal" ELSE "setup")
  /\ DeviceUnchanged /\ UNCHANGED <<ifindex, caught, closed, stray>>

\* setup_bpf_perf_event asserts; after a failing mmap or calloc main returns:
\* none of them detaches.
SetUpRings(p) ==
  /\ cpc[p] = "setup"
  /\ GoesOn(p, "poll") \/ (CMayFail("setup") /\ GoneAstray(p))
  /\ DeviceUnchanged /\ UNCHANGED ifindex

\* A signal comes: its handler runs, unless it runs already, or there is none
\* and the process ends.
\* Mutant: signal() with SysV semantics, which does not mask.
SigmaskNone(p) == {}
Sigmask(p) == caught[p]

Signal(p) ==
  /\ cpc[p] \notin {"start", "gone"}
  /\ \E s \in Signals \ Sigmask(p) :
       \/ /\ s \in handled[p]
          /\ CGoto(p, "detach")
          /\ caught' = [caught EXCEPT ![p] = @ \cup {s}]
          /\ UNCHANGED <<handled, closed, stray>>
       \/ s \notin handled[p] /\ GoneAstray(p)
  /\ DeviceUnchanged /\ UNCHANGED ifindex

\* exit_sig_handler
\* Mutant: ifindex > -1 read as false.
HandlerDetachNothing(p) ==
  /\ cpc[p] = "detach"
  /\ GoesOn(p, "close")
  /\ DeviceUnchanged /\ UNCHANGED ifindex
HandlerDetach(p) ==
  /\ cpc[p] = "detach"
  /\ \/ SetXdp(p, None) /\ UNCHANGED stray
     \/ CMayFail("detach") /\ UNCHANGED attached /\ stray' = stray \cup {p}
  /\ CGoto(p, "close")
  /\ OnDevice /\ UNCHANGED <<ifindex, handled, caught, closed>>

\* global_pcap_dumper keeps its value.
HandlerClose(p) ==
  /\ cpc[p] = "close"
  /\ closed' = [closed EXCEPT ![p] = @ + 1]
  /\ CGoto(p, "exit")
  /\ DeviceUnchanged /\ UNCHANGED <<ifindex, handled, caught, stray>>

HandlerExit(p) ==
  /\ cpc[p] = "exit"
  /\ GoneQuietly(p)
  /\ DeviceUnchanged /\ UNCHANGED ifindex

\* SIGKILL
Kill(p) ==
  /\ Crashes /\ cpc[p] \notin {"start", "gone"}
  /\ GoneAstray(p)
  /\ DeviceUnchanged /\ UNCHANGED ifindex

CaptureStep(p) ==
  \/ Prepare(p) \/ AttachSniffer(p) \/ InstallHandler(p) \/ SetUpRings(p)
  \/ HandlerDetach(p) \/ HandlerClose(p) \/ HandlerExit(p)

CaptureNext == \/ Next /\ UNCHANGED cvars
               \/ \E p \in Captures : CaptureStep(p) \/ Signal(p) \/ Kill(p)

CaptureSpec == CaptureInit /\ [][CaptureNext]_<<vars, cvars>>

-----------------------------------------------------------------------------
(***************************************************************************)
(* Properties.                                                             *)
(***************************************************************************)
DeviceTypeOK ==
  /\ pinned \in [Maps -> Objs \cup {None}]
  /\ attached \in [Ifaces -> Progs \cup {None} \cup {Sniffer(p) : p \in Captures}]
  /\ cpc \in [Captures -> {"start", "dump", "attach", "signal", "setup", "poll",
                           "detach", "close", "exit", "gone"}]
  /\ ifindex \in [Captures -> Ifaces]
  /\ handled \in [Captures -> SUBSET Signals]
  /\ caught \in [Captures -> SUBSET Signals]
  /\ closed \in [Captures -> 0..2]
  /\ stray \subseteq Captures

\* A capture's program is on a device only while the capture runs, or when it
\* ended in one of the ways the handler (tcpdump_user.c:66) is not reached or
\* detaching failed: a handler that another one interrupts, a second capture
\* and the loader do not leave it there.
SnifferHasOwner ==
  \A i \in Ifaces, p \in Captures :
    attached[i] = Sniffer(p) => cpc[p] \in Attached \/ p \in stray

\* The pcap file is closed once for every signal that was caught: twice, which
\* is once too often, only when both came.
PcapClosedPerSignal == \A p \in Captures : closed[p] <= Cardinality(caught[p])

\* Captures come and go on the devices and loaders run, one after the other,
\* are killed anywhere and fail to create, load or attach: a blacklist program
\* that is attached has the maps the command line tool opens.
BlacklistIsManaged == \A i \in Ifaces : attached[i] \in Progs => Managed(i)

\* A program the tool can reach gives way to none, to a capture's or to one with
\* the same maps: no reload swaps the rules (user.c:208).  What breaks this is
\* an export file that is there and cannot be opened, which the runs leave out.
ReloadKeepsRules ==
  [][\A i \in Ifaces : {attached[i], attached'[i]} \subseteq Progs /\ Managed(i)
                       => attached'[i] = attached[i]]_vars
=============================================================================
