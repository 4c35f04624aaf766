--------------------------- MODULE Capture_proofs ---------------------------
(***************************************************************************)
(* Theorems about Loader and Capture: any number of captures and of        *)
(* overlapping loader runs, of maps and of devices, with or without        *)
(* removals, signals, kills and failing calls anywhere.                    *)
(***************************************************************************)
EXTENDS Capture, FiniteSetTheorems, TLAPS

-----------------------------------------------------------------------------
(***************************************************************************)
(* The loader.  The lemmas about the type leave open what else may be      *)
(* attached to a device: Capture attaches programs of its own.             *)
(***************************************************************************)
LoaderPcs == {"idle", "maps", "prog", "export", "attach", "detach", "unlink", "exit"}

\* TypeOK, with the values of attached from S.
TypeOver(S) ==
  /\ pinned \in [Maps -> Objs \cup {None}]
  /\ attached \in [Ifaces -> S]
  /\ lpc \in [Loaders -> LoaderPcs]
  /\ idx \in [Loaders -> Maps]
  /\ iface \in [Loaders -> Ifaces]
  /\ map_fd \in [Loaders -> [Maps -> Objs \cup {None}]]
  /\ marked \in [Loaders -> SUBSET Maps]
  /\ code \in [Loaders -> {"OK", "FAIL", "FAIL_MAP_FS", "FAIL_XDP"}]
  /\ shared \in [Loaders -> BOOLEAN]

\* A loop over the maps starts at the first one; the loop that takes or creates
\* maps has an object for each map before the one it has come to.
Filled(l) == /\ lpc[l] \notin {"maps", "export", "unlink"} => idx[l] = 0
             /\ lpc[l] = "maps" => \A m \in Maps : m < idx[l] => map_fd[l][m] \in Objs
             /\ lpc[l] \in {"prog", "export", "attach"} => map_fd[l] \in Progs

LoaderInv(S) == TypeOver(S) /\ \A l \in Loaders : Filled(l)

-----------------------------------------------------------------------------
LEMMA MapsBounds == /\ 0 \in Maps /\ NR_MAPS - 1 \in Maps
                    /\ \A m \in Maps : m \in Nat /\ m <= NR_MAPS - 1
                    /\ \A m, n \in Maps : m < n + 1 => m < n \/ m = n
BY LoaderAssumption DEF Maps

\* The loop over the maps: it moves on by one, or ends after the last.
LEMMA AdvanceStep ==
  ASSUME NEW l \in Loaders, NEW next \in LoaderPcs,
         lpc \in [Loaders -> LoaderPcs], idx \in [Loaders -> Maps], Advance(l, next)
  PROVE  /\ lpc' \in [Loaders -> LoaderPcs] /\ idx' \in [Loaders -> Maps]
         /\ \A k \in Loaders \ {l} : lpc'[k] = lpc[k] /\ idx'[k] = idx[k]
         /\ idx[l] = NR_MAPS - 1 => lpc'[l] = next /\ idx'[l] = 0
         /\ idx[l] # NR_MAPS - 1 => lpc'[l] = lpc[l] /\ idx'[l] = idx[l] + 1
<1>1. idx[l] \in 0..(NR_MAPS - 1) /\ NR_MAPS \in Nat \ {0}
  BY LoaderAssumption DEF Maps
<1>2. (idx[l] + 1) % NR_MAPS = IF idx[l] = NR_MAPS - 1 THEN 0 ELSE idx[l] + 1
  <2>1. CASE idx[l] = NR_MAPS - 1
    <3>1. idx[l] + 1 = NR_MAPS
      BY <1>1, <2>1
    <3>2. NR_MAPS % NR_MAPS = 0
      BY <1>1
    <3> QED BY <2>1, <3>1, <3>2
  <2>2. CASE idx[l] # NR_MAPS - 1
    <3>1. idx[l] + 1 \in 0..(NR_MAPS - 1)
      BY <1>1, <2>2
    <3>2. \A n \in 0..(NR_MAPS - 1) : n % NR_MAPS = n
      BY <1>1
    <3> QED BY <2>2, <3>1, <3>2
  <2> QED BY <2>1, <2>2
<1>3. idx' = [idx EXCEPT ![l] = IF idx[l] = NR_MAPS - 1 THEN 0 ELSE idx[l] + 1]
  BY <1>2 DEF Advance
<1>4. lpc' = [lpc EXCEPT ![l] = IF idx[l] = NR_MAPS - 1 THEN next ELSE lpc[l]]
  BY DEF Advance
<1>5. (IF idx[l] = NR_MAPS - 1 THEN 0 ELSE idx[l] + 1) \in Maps
  BY <1>1 DEF Maps
<1> QED BY <1>3, <1>4, <1>5

\* An object of the maps no one refers to is neither the pinned one nor None.
LEMMA NewObject ==
  ASSUME NEW m \in Maps, NEW o \in Objs \ InUse(m)
  PROVE  o \in Objs /\ o # pinned[m]
BY DEF InUse

LEMMA InitLoaderInv ==
  ASSUME Init
  PROVE  LoaderInv(Progs \cup {None})
<1>1. 0 \in Maps
  BY MapsBounds
<1>2. TypeOver(Progs \cup {None})
  BY <1>1 DEF Init, TypeOver, Nothing, LoaderPcs
<1>3. \A l \in Loaders : Filled(l)
  BY DEF Init, Filled
<1> QED BY <1>2, <1>3 DEF LoaderInv

\* A run's step leaves the other runs' progress and descriptors alone.
LEMMA OtherRuns ==
  ASSUME NEW S, TypeOver(S), NEW l \in Loaders, Begin(l) \/ Step(l)
  PROVE  \A k \in Loaders \ {l} :
           /\ lpc'[k] = lpc[k] /\ idx'[k] = idx[k] /\ iface'[k] = iface[k]
           /\ map_fd'[k] = map_fd[k] /\ marked'[k] = marked[k]
BY DEF Step, Begin, GetMap, CreateMap, FailEarly, LoadProg, Export, Attach, Detach, Unlink, Vanish,
   Advance, Leave, Goto, TypeOver, priv

LEMMA StepLoaderInv ==
  ASSUME NEW S, Progs \cup {None} \subseteq S, LoaderInv(S),
         NEW l \in Loaders, Begin(l) \/ Step(l)
  PROVE  LoaderInv(S)'
<1> SUFFICES TypeOver(S)' /\ Filled(l)'
  <2>1. \A k \in Loaders \ {l} : Filled(k)'
    BY OtherRuns DEF LoaderInv, Filled
  <2> QED BY <2>1 DEF LoaderInv
<1> USE DEF LoaderInv, TypeOver
<1>1. CASE Begin(l)
  <2>1. TypeOver(S)'
    BY <1>1 DEF Begin, Goto, LoaderPcs
  <2>2. lpc'[l] \in {"maps", "detach"} /\ idx'[l] = 0
    BY <1>1 DEF Begin, Goto, Filled
  <2> QED BY <2>1, <2>2, MapsBounds DEF Filled
<1>2. CASE GetMap(l)
  <2>1. Advance(l, "prog") /\ "prog" \in LoaderPcs
    BY <1>2 DEF GetMap, LoaderPcs
  <2>2. /\ lpc' \in [Loaders -> LoaderPcs] /\ idx' \in [Loaders -> Maps]
        /\ idx[l] = NR_MAPS - 1 => lpc'[l] = "prog" /\ idx'[l] = 0
        /\ idx[l] # NR_MAPS - 1 => lpc'[l] = lpc[l] /\ idx'[l] = idx[l] + 1
    BY <2>1, AdvanceStep
  <2>3. /\ map_fd'[l] = [map_fd[l] EXCEPT ![idx[l]] = pinned[idx[l]]]
        /\ pinned[idx[l]] \in Objs /\ idx[l] \in Maps /\ lpc[l] = "maps"
    BY <1>2 DEF GetMap
  <2>4. \A m \in Maps : m < idx[l] + 1 => map_fd'[l][m] \in Objs
    <3>1. \A m \in Maps : m < idx[l] => map_fd[l][m] \in Objs
      BY <2>3 DEF Filled
    <3> QED BY <2>3, <3>1, MapsBounds
  <2>5. Filled(l)'
    BY <2>2, <2>3, <2>4, MapsBounds DEF Filled, Progs
  <2>6. TypeOver(S)'
    BY <1>2, <2>2 DEF GetMap
  <2> QED BY <2>5, <2>6
<1>3. CASE CreateMap(l)
  <2>1. Advance(l, "prog") /\ "prog" \in LoaderPcs
    BY <1>3 DEF CreateMap, LoaderPcs
  <2>2. /\ lpc' \in [Loaders -> LoaderPcs] /\ idx' \in [Loaders -> Maps]
        /\ idx[l] = NR_MAPS - 1 => lpc'[l] = "prog" /\ idx'[l] = 0
        /\ idx[l] # NR_MAPS - 1 => lpc'[l] = lpc[l] /\ idx'[l] = idx[l] + 1
    BY <2>1, AdvanceStep
  <2>3. PICK o \in Objs : map_fd' = [map_fd EXCEPT ![l][idx[l]] = o]
    BY <1>3 DEF CreateMap
  <2>4. \A m \in Maps : m < idx[l] + 1 => map_fd'[l][m] \in Objs
    <3>1. \A m \in Maps : m < idx[l] => map_fd[l][m] \in Objs
      BY <1>3 DEF Filled, CreateMap
    <3>2. map_fd'[l] = [map_fd[l] EXCEPT ![idx[l]] = o] /\ idx[l] \in Maps
      BY <2>3
    <3> QED BY <3>1, <3>2, MapsBounds
  <2>5. Filled(l)'
    BY <2>2, <2>3, <2>4, MapsBounds, <1>3 DEF Filled, Progs, CreateMap
  <2>6. TypeOver(S)'
    <3>1. marked' \in [Loaders -> SUBSET Maps]
      BY <1>3 DEF CreateMap
    <3>2. map_fd' \in [Loaders -> [Maps -> Objs \cup {None}]]
      BY <2>3
    <3>3. UNCHANGED <<pinned, attached, iface, code, shared>>
      BY <1>3 DEF CreateMap
    <3> QED BY <2>2, <3>1, <3>2, <3>3
  <2> QED BY <2>5, <2>6
<1>4. CASE FailEarly(l)
  <2>1. PICK c \in {"FAIL", "FAIL_MAP_FS"} : Leave(l, c)
    BY <1>4 DEF FailEarly
  <2>2. TypeOver(S)'
    BY <1>4, <2>1, MapsBounds DEF FailEarly, Leave, Goto, LoaderPcs
  <2>3. Filled(l)'
    BY <2>1 DEF Leave, Goto, Filled
  <2> QED BY <2>2, <2>3
<1>5. CASE LoadProg(l)
  BY <1>5 DEF LoadProg, Goto, LoaderPcs, Filled, priv
<1>6. CASE Export(l)
  <2>1. Advance(l, "attach") /\ "attach" \in LoaderPcs
    BY <1>6 DEF Export, LoaderPcs
  <2>2. /\ lpc' \in [Loaders -> LoaderPcs] /\ idx' \in [Loaders -> Maps]
        /\ idx[l] = NR_MAPS - 1 => lpc'[l] = "attach" /\ idx'[l] = 0
        /\ idx[l] # NR_MAPS - 1 => lpc'[l] = lpc[l] /\ idx'[l] = idx[l] + 1
    BY <2>1, AdvanceStep
  <2>3. lpc[l] = "export" /\ UNCHANGED <<attached, iface, map_fd, marked, code, shared>>
    BY <1>6 DEF Export, priv
  <2>4. pinned' \in [Maps -> Objs \cup {None}]
    BY <1>6 DEF Export
  <2>5. Filled(l)'
    BY <2>2, <2>3 DEF Filled
  <2>6. TypeOver(S)'
    BY <2>2, <2>3, <2>4
  <2> QED BY <2>5, <2>6
<1>7. CASE Attach(l)
  <2>1. map_fd[l] \in S
    BY <1>7 DEF Attach, Filled
  <2>2. PICK c \in {"OK", "FAIL_XDP"} : Leave(l, c)
    BY <1>7 DEF Attach
  <2>3. attached' \in [Ifaces -> S]
    BY <1>7, <2>1 DEF Attach, SetLink
  <2>4. TypeOver(S)'
    BY <1>7, <2>2, <2>3, MapsBounds DEF Attach, Leave, Goto, LoaderPcs, priv
  <2>5. Filled(l)'
    BY <2>2 DEF Leave, Goto, Filled
  <2> QED BY <2>4, <2>5
<1>8. CASE Detach(l)
  <2>1. None \in S
    OBVIOUS
  <2> QED BY <1>8, <2>1 DEF Detach, SetLink, Goto, LoaderPcs, Filled, priv
<1>9. CASE Unlink(l)
  <2>1. /\ pinned' = [pinned EXCEPT ![idx[l]] = None] /\ lpc[l] = "unlink"
        /\ shared' = [k \in Loaders |-> FALSE]
        /\ UNCHANGED <<attached, iface, map_fd, marked>>
    BY <1>9 DEF Unlink, priv
  <2>2. CASE idx[l] = NR_MAPS - 1
    <3>1. Leave(l, "OK")
      BY <1>9, <2>2 DEF Unlink
    <3>2. TypeOver(S)'
      BY <2>1, <3>1, MapsBounds DEF Leave, Goto, LoaderPcs
    <3>3. Filled(l)'
      BY <3>1 DEF Leave, Goto, Filled
    <3> QED BY <3>2, <3>3
  <2>3. CASE idx[l] # NR_MAPS - 1
    <3>1. Advance(l, "exit") /\ "exit" \in LoaderPcs /\ code' = code
      BY <1>9, <2>3 DEF Unlink, LoaderPcs
    <3>2. /\ lpc' \in [Loaders -> LoaderPcs] /\ idx' \in [Loaders -> Maps]
          /\ lpc'[l] = lpc[l]
      BY <2>3, <3>1, AdvanceStep
    <3> QED BY <2>1, <3>1, <3>2 DEF Filled
  <2> QED BY <2>2, <2>3
<1>10. CASE Vanish(l)
  BY <1>10, MapsBounds DEF Vanish, Goto, Nothing, LoaderPcs, Filled
<1> QED
  BY <1>1, <1>2, <1>3, <1>4, <1>5, <1>6, <1>7, <1>8, <1>9, <1>10 DEF Step

LEMMA NextLoaderInv ==
  ASSUME NEW S, Progs \cup {None} \subseteq S, LoaderInv(S), [Next]_vars
  PROVE  LoaderInv(S)'
<1>1. CASE UNCHANGED vars
  BY <1>1 DEF vars, LoaderInv, TypeOver, Filled
<1> QED BY <1>1, StepLoaderInv DEF Next

LEMMA LoaderInvariant == Spec => []LoaderInv(Progs \cup {None})
<1>1. LoaderInv(Progs \cup {None}) /\ [Next]_vars => LoaderInv(Progs \cup {None})'
  BY NextLoaderInv
<1> QED BY <1>1, InitLoaderInv, PTL DEF Spec

\* Descriptors, pins and attached programs are objects of their kind, loops
\* stay below NR_MAPS, and no program is attached that lacks a map.
THEOREM TypeCorrect == Spec => []TypeOK
<1>1. LoaderInv(Progs \cup {None}) => TypeOK
  BY DEF LoaderInv, TypeOver, TypeOK, LoaderPcs
<1> QED BY <1>1, LoaderInvariant, PTL

-----------------------------------------------------------------------------
(***************************************************************************)
(* Runs that began when every map was pinned.  Nobody can pin over a file  *)
(* that is there, so until a --remove unlinks one, what the run finds is   *)
(* what it attaches.                                                       *)
(***************************************************************************)
Sharing(l) == shared[l] =>
  /\ \A m \in Maps : pinned[m] # None
  /\ lpc[l] = "maps" => \A m \in Maps : m < idx[l] => map_fd[l][m] = pinned[m]
  /\ lpc[l] \in {"prog", "export", "attach"} => map_fd[l] = pinned

SharedInv == \A l \in Loaders : Sharing(l)

\* A step that pins nothing over an existing file and is not this run's.
LEMMA OthersKeepSharing ==
  ASSUME NEW l \in Loaders, Sharing(l), pinned' = pinned \/ ~shared'[l], shared'[l] => shared[l],
         lpc'[l] = lpc[l], idx'[l] = idx[l], map_fd'[l] = map_fd[l]
  PROVE  Sharing(l)'
BY DEF Sharing

LEMMA StepSharedInv ==
  ASSUME "get" \notin Faults, LoaderInv(Progs \cup {None}), SharedInv,
         NEW l \in Loaders, Begin(l) \/ Step(l)
  PROVE  SharedInv'
<1> DEFINE S == Progs \cup {None}
<1>0. TypeOver(S) /\ Filled(l)
  BY DEF LoaderInv
<1> HIDE DEF S
<1>1. \A k \in Loaders : (\E m \in Maps : pinned[m] = None) => ~shared[k]
  BY DEF SharedInv, Sharing
<1>2. \A k \in Loaders \ {l} : shared'[k] => shared[k]
  BY <1>0 DEF TypeOver, Step, Begin, GetMap, CreateMap, FailEarly, LoadProg, Export, Attach, Detach,
     Unlink, Vanish
<1>3. pinned' = pinned \/ \A k \in Loaders : ~shared'[k]
  <2>1. CASE Export(l)
    <3>1. idx[l] \in Maps
      BY <1>0 DEF TypeOver
    <3>2. shared' = shared
      BY <2>1 DEF Export
    <3> QED BY <1>1, <2>1, <3>1, <3>2 DEF Export, Pinnable
  <2>2. CASE Unlink(l)
    BY <2>2 DEF Unlink
  <2>3. CASE ~Export(l) /\ ~Unlink(l)
    BY <2>3 DEF Step, Begin, GetMap, CreateMap, FailEarly, LoadProg, Attach, Detach, Vanish
  <2> QED BY <2>1, <2>2, <2>3
<1>4. ASSUME NEW k \in Loaders \ {l} PROVE Sharing(k)'
  BY <1>0, <1>2, <1>3, OtherRuns, OthersKeepSharing DEF SharedInv
<1>5. Sharing(l)'
  <2> SUFFICES ASSUME shared'[l] PROVE Sharing(l)'
    BY DEF Sharing
  <2> USE <1>0 DEF TypeOver
  <2>1. pinned' = pinned
    BY <1>3
  <2>2. CASE Begin(l)
    <3>1. /\ lpc'[l] \in {"maps", "detach"} /\ idx'[l] = idx[l] /\ lpc[l] = "idle"
          /\ \A m \in Maps : pinned[m] # None
      BY <2>2 DEF Begin, Goto
    <3>2. idx[l] = 0
      BY <3>1 DEF Filled
    <3>3. \A m \in Maps : ~(m < idx'[l])
      BY <3>1, <3>2, MapsBounds
    <3> QED BY ONLY <2>1, <3>1, <3>3 DEF Sharing
  <2>3. CASE GetMap(l)
    <3>1. Advance(l, "prog") /\ "prog" \in LoaderPcs
      BY <2>3 DEF GetMap, LoaderPcs
    <3>2. /\ idx[l] = NR_MAPS - 1 => lpc'[l] = "prog" /\ idx'[l] = 0
          /\ idx[l] # NR_MAPS - 1 => lpc'[l] = lpc[l] /\ idx'[l] = idx[l] + 1
      BY <3>1, AdvanceStep
    <3>3. shared[l] /\ Sharing(l) /\ lpc[l] = "maps"
      BY <2>3 DEF GetMap, SharedInv
    <3>4. map_fd'[l] = [map_fd[l] EXCEPT ![idx[l]] = pinned[idx[l]]]
      BY <2>3 DEF GetMap
    <3>5. \A m \in Maps : m < idx[l] + 1 => map_fd'[l][m] = pinned[m]
      BY <3>3, <3>4, MapsBounds DEF Sharing
    <3>6. idx[l] = NR_MAPS - 1 => map_fd'[l] = pinned
      BY <3>4, <3>5, MapsBounds
    <3> QED BY <2>1, <3>2, <3>3, <3>5, <3>6 DEF Sharing
  <2>4. CASE CreateMap(l)
    <3>1. pinned[idx[l]] = None /\ shared[l]
      BY <2>4 DEF CreateMap, MayFail
    <3> QED BY <1>1, <3>1
  <2>5. CASE LoadProg(l)
    BY <2>1, <2>5 DEF LoadProg, Goto, priv, SharedInv, Sharing
  <2>6. CASE Export(l)
    <3>1. Advance(l, "attach") /\ "attach" \in LoaderPcs
      BY <2>6 DEF Export, LoaderPcs
    <3>2. lpc'[l] \in {lpc[l], "attach"} /\ lpc[l] = "export"
      BY <2>6, <3>1, AdvanceStep DEF Export
    <3> QED BY <2>1, <2>6, <3>2 DEF Export, priv, SharedInv, Sharing
  <2>7. CASE FailEarly(l) \/ Attach(l)
    <3>1. lpc'[l] = "exit" /\ shared' = shared
      BY <2>7 DEF FailEarly, Attach, Leave, Goto
    <3> QED BY <2>1, <3>1 DEF SharedInv, Sharing
  <2>8. CASE Detach(l)
    <3>1. lpc'[l] = "unlink" /\ shared' = shared
      BY <2>8 DEF Detach, Goto
    <3> QED BY <2>1, <3>1 DEF SharedInv, Sharing
  <2>9. CASE Unlink(l) \/ Vanish(l)
    BY <2>9 DEF Unlink, Vanish
  <2> QED BY <2>2, <2>3, <2>4, <2>5, <2>6, <2>7, <2>8, <2>9 DEF Step
<1> QED BY <1>4, <1>5 DEF SharedInv

\* If no export file that is there ever fails to open, every run that began
\* when all of them were there loads the program against their maps, however
\* many runs overlap with it and are killed, unless a --remove comes between.
THEOREM LateRunsAttachPins ==
  ASSUME "get" \notin Faults
  PROVE  Spec => []LateRunsShare
<1>1. Init => SharedInv
  BY DEF Init, SharedInv, Sharing
<1>2. LoaderInv(Progs \cup {None}) /\ SharedInv /\ [Next]_vars => SharedInv'
  <2>1. ASSUME UNCHANGED vars, SharedInv PROVE SharedInv'
    BY <2>1 DEF vars, SharedInv, Sharing
  <2> QED BY <2>1, StepSharedInv DEF Next
<1>3. SharedInv => LateRunsShare
  BY DEF SharedInv, Sharing, LateRunsShare
<1> QED BY <1>1, <1>2, <1>3, LoaderInvariant, PTL DEF Spec

-----------------------------------------------------------------------------
(***************************************************************************)
(* xdp_tcpdump beside the loader.                                          *)
(***************************************************************************)
\* What a device may have.
DeviceProgs == Progs \cup {None} \cup {Sniffer(p) : p \in Captures}

CapturePcs == {"start", "dump", "attach", "signal", "setup", "poll",
               "detach", "close", "exit", "gone"}

CaptureTypeOK ==
  /\ cpc \in [Captures -> CapturePcs]
  /\ ifindex \in [Captures -> Ifaces]
  /\ handled \in [Captures -> SUBSET Signals]
  /\ caught \in [Captures -> SUBSET Signals]
  /\ closed \in [Captures -> Nat]
  /\ stray \subseteq Captures

\* A handler has closed the file at most once for each signal, and one that is
\* still on its way to do so has not done it for the latest.
ClosedInTurn(p) ==
  /\ closed[p] <= Cardinality(caught[p])
  /\ cpc[p] \in {"detach", "close"} => closed[p] < Cardinality(caught[p])

\* A capture's program is on its own device, if on any, and is accounted for.
Owned(p) == \A i \in Ifaces : attached[i] = Sniffer(p) =>
              i = ifindex[p] /\ (cpc[p] \in Attached \/ p \in stray)

CaptureInv == /\ LoaderInv(DeviceProgs)
              /\ CaptureTypeOK
              /\ \A p \in Captures : ClosedInTurn(p) /\ Owned(p)

-----------------------------------------------------------------------------
(* Facts about programs and signals. *)

LEMMA SnifferApart ==
  ASSUME NEW p \in Captures
  PROVE  /\ Sniffer(p) \notin Progs /\ Sniffer(p) # None
         /\ \A q \in Captures : Sniffer(q) = Sniffer(p) => q = p
<1>1. \A q \in Captures : Sniffer(q)[0] = q
  BY MapsBounds DEF Sniffer
<1>2. p \notin Objs /\ Sniffer(p) # None
  BY CaptureAssumption, NoneAssumption
<1>3. Sniffer(p) \notin Progs
  BY <1>1, <1>2, MapsBounds DEF Progs
<1> QED BY <1>1, <1>2, <1>3

LEMMA SignalCount ==
  ASSUME NEW S \in SUBSET Signals
  PROVE  /\ Cardinality(S) \in 0..2
         /\ \A s \in Signals \ S : Cardinality(S \cup {s}) = Cardinality(S) + 1
<1>1. IsFiniteSet({"INT"}) /\ Cardinality({"INT"}) = 1
  BY FS_Singleton
<1>2. IsFiniteSet({"INT"} \cup {"TERM"}) /\ Cardinality({"INT"} \cup {"TERM"}) = 2
  <2>1. "TERM" \notin {"INT"}
    OBVIOUS
  <2> QED BY <1>1, <2>1, FS_AddElement
<1>3. Signals = {"INT"} \cup {"TERM"}
  BY DEF Signals
<1>4. IsFiniteSet(S) /\ Cardinality(S) <= 2
  BY <1>2, <1>3, FS_Subset
<1>5. Cardinality(S) \in Nat
  BY <1>4, FS_CardinalityType
<1> QED BY <1>4, <1>5, FS_AddElement

\* The loader puts its own program on a device, or none.
LEMMA LoaderAttaches ==
  ASSUME LoaderInv(DeviceProgs), [Next]_vars, NEW i \in Ifaces
  PROVE  attached'[i] = attached[i] \/ attached'[i] \in Progs \cup {None}
<1>1. ASSUME NEW l \in Loaders, Attach(l)
      PROVE  attached'[i] = attached[i] \/ attached'[i] \in Progs
  <2>1. map_fd[l] \in Progs
    BY <1>1 DEF LoaderInv, Filled, Attach
  <2> QED BY <1>1, <2>1 DEF Attach, SetLink, LoaderInv, TypeOver
<1>2. ASSUME NEW l \in Loaders, Detach(l)
      PROVE  attached'[i] = attached[i] \/ attached'[i] = None
  BY <1>2 DEF Detach, SetLink, LoaderInv, TypeOver
<1>3. ASSUME NEW l \in Loaders,
             \/ Begin(l) \/ GetMap(l) \/ CreateMap(l) \/ FailEarly(l)
             \/ LoadProg(l) \/ Export(l) \/ Unlink(l) \/ Vanish(l)
      PROVE  attached' = attached
  BY <1>3 DEF Begin, GetMap, CreateMap, FailEarly, LoadProg, Export, Unlink, Vanish
<1>4. CASE UNCHANGED vars
  BY <1>4 DEF vars
<1> QED BY <1>1, <1>2, <1>3, <1>4 DEF Next, Step

-----------------------------------------------------------------------------
LEMMA InitCaptureInv == CaptureInit => CaptureInv
<1> SUFFICES ASSUME CaptureInit PROVE CaptureInv
  OBVIOUS
<1>1. LoaderInv(Progs \cup {None})
  BY InitLoaderInv DEF CaptureInit
<1>2. LoaderInv(DeviceProgs)
  BY <1>1 DEF LoaderInv, TypeOver, DeviceProgs
<1>3. CaptureTypeOK
  BY DEF CaptureInit, CaptureTypeOK, CapturePcs
<1>4. ASSUME NEW p \in Captures PROVE ClosedInTurn(p) /\ Owned(p)
  BY FS_EmptySet, SnifferApart DEF CaptureInit, Init, ClosedInTurn, Owned
<1> QED BY <1>2, <1>3, <1>4 DEF CaptureInv

\* A step of the loader: it changes no capture, and removes a capture's program
\* from a device but never puts it there.
LEMMA LoaderStepCaptureInv ==
  ASSUME CaptureInv, [Next]_vars, UNCHANGED cvars
  PROVE  CaptureInv'
<1>1. LoaderInv(DeviceProgs)'
  <2>1. Progs \cup {None} \subseteq DeviceProgs
    BY DEF DeviceProgs
  <2> QED BY <2>1, NextLoaderInv DEF CaptureInv
<1>2. CaptureTypeOK' /\ \A p \in Captures : ClosedInTurn(p)'
  BY DEF CaptureInv, CaptureTypeOK, ClosedInTurn, cvars
<1>3. ASSUME NEW p \in Captures PROVE Owned(p)'
  BY LoaderAttaches, SnifferApart DEF CaptureInv, Owned, cvars
<1> QED BY <1>1, <1>2, <1>3 DEF CaptureInv

\* What a capture's step has in common, whichever it is.
LEMMA CaptureFrame ==
  ASSUME CaptureInv, NEW p \in Captures, CaptureStep(p) \/ Signal(p) \/ Kill(p)
  PROVE  /\ CaptureTypeOK' /\ ifindex' = ifindex
         /\ \A q \in Captures \ {p} :
              /\ cpc'[q] = cpc[q] /\ caught'[q] = caught[q] /\ closed'[q] = closed[q]
              /\ q \in stray' <=> q \in stray
         /\ UNCHANGED <<pinned, lpc, idx, iface, map_fd, marked, code, shared>>
         /\ \/ attached' = attached
            \/ attached' = [attached EXCEPT ![ifindex[p]] = Sniffer(p)]
            \/ attached' = [attached EXCEPT ![ifindex[p]] = None]
<1> USE DEF CaptureInv, CaptureTypeOK, CapturePcs, CGoto, GoesOn, Forget, GoneQuietly, GoneAstray,
        DeviceUnchanged, OnDevice, SetXdp, vars
<1>1. CASE Prepare(p)
  BY <1>1 DEF Prepare
<1>2. CASE AttachSniffer(p)
  BY <1>2 DEF AttachSniffer
<1>3. CASE InstallHandler(p)
  BY <1>3 DEF InstallHandler, Signals
<1>4. CASE SetUpRings(p)
  BY <1>4 DEF SetUpRings
<1>5. CASE HandlerDetach(p)
  BY <1>5 DEF HandlerDetach
<1>6. CASE HandlerClose(p)
  BY <1>6 DEF HandlerClose
<1>7. CASE HandlerExit(p)
  BY <1>7 DEF HandlerExit
<1>8. CASE Signal(p)
  BY <1>8 DEF Signal
<1>9. CASE Kill(p)
  BY <1>9 DEF Kill
<1> QED BY <1>1, <1>2, <1>3, <1>4, <1>5, <1>6, <1>7, <1>8, <1>9 DEF CaptureStep

LEMMA CaptureStepClosed ==
  ASSUME CaptureInv, NEW p \in Captures, CaptureStep(p) \/ Signal(p) \/ Kill(p)
  PROVE  ClosedInTurn(p)'
<1> USE DEF CaptureInv, CaptureTypeOK, ClosedInTurn, CGoto
<1>1. /\ closed[p] \in Nat /\ caught[p] \in SUBSET Signals /\ Cardinality(caught[p]) \in Nat
      /\ ClosedInTurn(p)
  BY SignalCount
<1>2. ASSUME cpc' = [cpc EXCEPT ![p] = "gone"], Forget(p) PROVE ClosedInTurn(p)'
  BY <1>2, FS_EmptySet DEF Forget
<1>3. ASSUME NEW next \in CapturePcs \ {"detach", "close"}, GoesOn(p, next)
      PROVE  ClosedInTurn(p)'
  BY <1>1, <1>3 DEF GoesOn
<1>4. CASE Prepare(p) \/ AttachSniffer(p) \/ SetUpRings(p) \/ HandlerExit(p) \/ Kill(p)
  BY <1>2, <1>3, <1>4
  DEF Prepare, AttachSniffer, SetUpRings, HandlerExit, Kill, GoneQuietly, GoneAstray, CapturePcs
<1>5. CASE InstallHandler(p)
  BY <1>1, <1>5 DEF InstallHandler
<1>6. CASE HandlerDetach(p)
  BY <1>1, <1>6 DEF HandlerDetach
<1>7. CASE HandlerClose(p)
  BY <1>1, <1>7 DEF HandlerClose
<1>8. CASE Signal(p)
  <2> PICK s \in Signals \ caught[p] :
        \/ /\ CGoto(p, "detach") /\ caught' = [caught EXCEPT ![p] = @ \cup {s}]
           /\ UNCHANGED closed
        \/ GoneAstray(p)
    BY <1>8 DEF Signal, Sigmask
  <2>1. CASE caught' = [caught EXCEPT ![p] = @ \cup {s}] /\ UNCHANGED closed
    <3>1. caught'[p] = caught[p] \cup {s} /\ closed'[p] = closed[p]
      BY <2>1
    <3>2. Cardinality(caught'[p]) = Cardinality(caught[p]) + 1
      BY <1>1, <3>1, SignalCount
    <3> QED BY <1>1, <3>1, <3>2
  <2>2. CASE GoneAstray(p)
    BY <1>2, <2>2 DEF GoneAstray
  <2> QED BY <2>1, <2>2
<1> QED BY <1>4, <1>5, <1>6, <1>7, <1>8 DEF CaptureStep

LEMMA CaptureStepOwned ==
  ASSUME CaptureInv, NEW p \in Captures, CaptureStep(p) \/ Signal(p) \/ Kill(p)
  PROVE  Owned(p)'
<1> DEFINE Kept == cpc'[p] \in Attached \/ p \in stray'
<1> USE DEF CaptureInv, CaptureTypeOK, LoaderInv, TypeOver
<1>1. Owned(p) /\ ifindex' = ifindex
  BY CaptureFrame
<1>2. ASSUME attached' = attached, (cpc[p] \in Attached \/ p \in stray) => Kept
      PROVE  Owned(p)'
  BY <1>1, <1>2 DEF Owned
<1>3. ASSUME GoneAstray(p), attached' = attached PROVE Owned(p)'
  BY <1>2, <1>3 DEF GoneAstray
<1>4. ASSUME GoneQuietly(p), attached' = attached, cpc[p] \notin Attached PROVE Owned(p)'
  BY <1>2, <1>4 DEF GoneQuietly
<1>5. CASE Prepare(p)
  <2>1. attached' = attached /\ cpc[p] \notin Attached /\ stray' = stray
    BY <1>5 DEF Prepare, GoesOn, GoneQuietly, DeviceUnchanged, vars, Attached
  <2> QED BY <1>2, <2>1
<1>6. CASE AttachSniffer(p)
  <2>1. CASE attached' = attached
    <3>1. cpc[p] \notin Attached /\ stray \subseteq stray'
      BY <1>6 DEF AttachSniffer, GoesOn, GoneQuietly, Attached
    <3> QED BY <1>2, <2>1, <3>1
  <2>2. CASE SetXdp(p, Sniffer(p)) /\ Kept
    BY <1>1, <2>2 DEF SetXdp, Owned
  <2>3. \/ SetXdp(p, Sniffer(p)) /\ Kept
        \/ attached' = attached
    BY <1>6 DEF AttachSniffer, GoesOn, CGoto, Attached
  <2> QED BY <2>1, <2>2, <2>3
<1>7. CASE InstallHandler(p)
  <2>1. attached' = attached /\ cpc'[p] \in Attached
    BY <1>7 DEF InstallHandler, CGoto, DeviceUnchanged, vars, Attached
  <2> QED BY <1>2, <2>1
<1>8. CASE SetUpRings(p)
  <2>1. attached' = attached
    BY <1>8 DEF SetUpRings, DeviceUnchanged, vars
  <2>2. GoesOn(p, "poll") => cpc'[p] \in Attached
    BY DEF GoesOn, CGoto, Attached
  <2> QED BY <1>2, <1>3, <1>8, <2>1, <2>2 DEF SetUpRings
<1>9. CASE HandlerDetach(p)
  <2>1. CASE SetXdp(p, None)
    BY <1>1, <2>1, SnifferApart DEF SetXdp, Owned
  <2>2. CASE attached' = attached /\ stray' = stray \cup {p}
    BY <1>2, <2>2
  <2> QED BY <1>9, <2>1, <2>2 DEF HandlerDetach
<1>10. CASE HandlerClose(p) \/ HandlerExit(p)
  <2>1. attached' = attached /\ cpc[p] \notin Attached /\ stray' = stray
    BY <1>10 DEF HandlerClose, HandlerExit, GoneQuietly, DeviceUnchanged, vars, Attached
  <2> QED BY <1>2, <2>1
<1>11. CASE Signal(p) \/ Kill(p)
  <2>1. attached' = attached
    BY <1>11 DEF Signal, Kill, DeviceUnchanged, vars
  <2>2. GoneAstray(p) \/ cpc'[p] \in Attached
    BY <1>11 DEF Signal, Kill, CGoto, Attached
  <2> QED BY <1>2, <1>3, <2>1, <2>2
<1> QED BY <1>5, <1>6, <1>7, <1>8, <1>9, <1>10, <1>11 DEF CaptureStep

LEMMA NextCaptureInv ==
  ASSUME CaptureInv, [CaptureNext]_<<vars, cvars>>
  PROVE  CaptureInv'
<1>1. ASSUME NEW p \in Captures, CaptureStep(p) \/ Signal(p) \/ Kill(p)
      PROVE  CaptureInv'
  <2>1. CaptureTypeOK'
    BY <1>1, CaptureFrame
  <2>2. LoaderInv(DeviceProgs)'
    <3>1. attached' \in [Ifaces -> DeviceProgs]
      BY <1>1, CaptureFrame DEF CaptureInv, LoaderInv, TypeOver, DeviceProgs
    <3> QED BY <1>1, <3>1, CaptureFrame DEF CaptureInv, LoaderInv, TypeOver, Filled
  <2>3. ASSUME NEW q \in Captures \ {p} PROVE ClosedInTurn(q)' /\ Owned(q)'
    <3>1. ClosedInTurn(q)'
      BY <1>1, CaptureFrame DEF CaptureInv, ClosedInTurn
    <3>2. \A i \in Ifaces : attached'[i] = Sniffer(q) => attached[i] = Sniffer(q)
      BY <1>1, CaptureFrame, SnifferApart DEF CaptureInv, LoaderInv, TypeOver
    <3>3. Owned(q)'
      BY <1>1, <3>2, CaptureFrame DEF CaptureInv, Owned
    <3> QED BY <3>1, <3>3
  <2>4. ClosedInTurn(p)' /\ Owned(p)'
    BY <1>1, CaptureStepClosed, CaptureStepOwned
  <2> QED BY <2>1, <2>2, <2>3, <2>4 DEF CaptureInv
<1>2. CASE UNCHANGED <<vars, cvars>>
  BY <1>2, LoaderStepCaptureInv
<1> QED BY <1>1, <1>2, LoaderStepCaptureInv DEF CaptureNext

LEMMA CaptureInvariant == CaptureSpec => []CaptureInv
BY InitCaptureInv, NextCaptureInv, PTL DEF CaptureSpec

\* Devices hold a loader's program with an object for every map, a capture's
\* program or none, and a handler closes the file twice at the most.
THEOREM DeviceTypeCorrect == CaptureSpec => []DeviceTypeOK
<1>1. CaptureInv => DeviceTypeOK
  <2> SUFFICES ASSUME CaptureInv PROVE DeviceTypeOK
    OBVIOUS
  <2>1. \A p \in Captures : closed[p] \in 0..2
    BY SignalCount DEF CaptureInv, CaptureTypeOK, ClosedInTurn
  <2> QED BY <2>1 DEF CaptureInv, CaptureTypeOK, LoaderInv, TypeOver, DeviceTypeOK,
                      DeviceProgs, CapturePcs
<1> QED BY <1>1, CaptureInvariant, PTL

\* No interleaving of signals, handlers, other captures and loaders leaves a
\* capture's program on a device other than in the ways that are counted stray.
THEOREM SniffersAccountedFor == CaptureSpec => []SnifferHasOwner
<1>1. CaptureInv => SnifferHasOwner
  BY DEF CaptureInv, Owned, SnifferHasOwner
<1> QED BY <1>1, CaptureInvariant, PTL

\* The dump file is closed no more often than signals were caught.
THEOREM ClosedOncePerSignal == CaptureSpec => []PcapClosedPerSignal
<1>1. CaptureInv => PcapClosedPerSignal
  BY DEF CaptureInv, ClosedInTurn, PcapClosedPerSignal
<1> QED BY <1>1, CaptureInvariant, PTL

-----------------------------------------------------------------------------
(***************************************************************************)
(* The maps of the program on the device.  One loader runs at a time, on   *)
(* one device, and opening a pin, pinning and detaching do not fail: the   *)
(* restrictions the run device makes.  Without any one of them TLC finds a *)
(* program whose maps the tool's files do not belong to.                   *)
(***************************************************************************)
Serial == /\ \A i, j \in Ifaces : i = j
          /\ \A k, l \in Loaders : k = l
          /\ Faults \cap {"get", "pin", "detach"} = {}

\* The run holds the object that is pinned, or one it has yet to pin.
Holds(l, m) == pinned[m] = IF m \in marked[l] THEN None ELSE map_fd[l][m]

Ready(l) ==
  /\ lpc[l] = "idle" => marked[l] = {}
  /\ lpc[l] = "maps" =>
       \A m \in Maps : (m < idx[l] => Holds(l, m)) /\ (m >= idx[l] => m \notin marked[l])
  /\ lpc[l] = "prog" => \A m \in Maps : Holds(l, m)
  /\ lpc[l] = "export" =>
       \A m \in Maps : (m < idx[l] => pinned[m] = map_fd[l][m]) /\ (m >= idx[l] => Holds(l, m))
  /\ lpc[l] = "attach" => map_fd[l] = pinned
  /\ lpc[l] = "unlink" => \A i \in Ifaces : attached[i] \notin Progs

ManagedInv == BlacklistIsManaged /\ \A l \in Loaders : Ready(l)

LEMMA InitManagedInv ==
  ASSUME CaptureInit
  PROVE  ManagedInv
<1>1. BlacklistIsManaged
  BY NoneAssumption DEF CaptureInit, Init, BlacklistIsManaged
<1>2. \A l \in Loaders : Ready(l)
  BY DEF CaptureInit, Init, Ready
<1> QED BY <1>1, <1>2 DEF ManagedInv

\* Where a program is attached that the files belong to, all the files are there.
LEMMA ManagedPins ==
  ASSUME BlacklistIsManaged, NEW i \in Ifaces, attached[i] \in Progs
  PROVE  \A m \in Maps : pinned[m] \in Objs /\ pinned[m] # None
BY LoaderAssumption DEF BlacklistIsManaged, Managed, Progs

LEMMA LoaderStepManaged ==
  ASSUME Serial, LoaderInv(DeviceProgs), ManagedInv, NEW l \in Loaders, Begin(l) \/ Step(l)
  PROVE  /\ ManagedInv'
         /\ \A i \in Ifaces :
              {attached[i], attached'[i]} \subseteq Progs /\ Managed(i) => attached'[i] = attached[i]
<1> DEFINE Reload == \A i \in Ifaces :
              {attached[i], attached'[i]} \subseteq Progs /\ Managed(i) => attached'[i] = attached[i]
<1>1. /\ TypeOver(DeviceProgs) /\ Filled(l) /\ Ready(l) /\ BlacklistIsManaged
      /\ \A k \in Loaders : k = l
  BY DEF LoaderInv, ManagedInv, Serial
<1>2. idx[l] \in Maps /\ map_fd[l] \in [Maps -> Objs \cup {None}] /\ marked[l] \subseteq Maps
  BY <1>1 DEF TypeOver
<1> SUFFICES BlacklistIsManaged' /\ Ready(l)' /\ Reload
  BY <1>1 DEF ManagedInv
<1>3. ASSUME attached' = attached, pinned' = pinned PROVE BlacklistIsManaged' /\ Reload
  BY <1>1, <1>3 DEF BlacklistIsManaged, Managed
<1>4. CASE Begin(l)
  <2>1. /\ lpc[l] = "idle" /\ lpc'[l] \in {"maps", "detach"} /\ idx'[l] = 0 /\ marked'[l] = {}
        /\ UNCHANGED <<pinned, attached>>
    BY <1>1, <1>4 DEF Begin, Goto, TypeOver, Filled, Ready
  <2>2. \A m \in Maps : ~(m < 0)
    BY MapsBounds
  <2>3. Ready(l)'
    BY <2>1, <2>2 DEF Ready
  <2> QED BY <1>3, <2>1, <2>3
<1>5. CASE GetMap(l) \/ CreateMap(l)
  <2>1. /\ Advance(l, "prog") /\ "prog" \in LoaderPcs /\ lpc[l] = "maps"
        /\ UNCHANGED <<pinned, attached>>
    BY <1>5 DEF GetMap, CreateMap, LoaderPcs
  <2>2. /\ idx[l] = NR_MAPS - 1 => lpc'[l] = "prog"
        /\ idx[l] # NR_MAPS - 1 => lpc'[l] = "maps" /\ idx'[l] = idx[l] + 1
    BY <1>1, <2>1, AdvanceStep DEF TypeOver
  <2>3. /\ \A m \in Maps : m = idx[l] => Holds(l, m)'
        /\ \A m \in Maps \ {idx[l]} : /\ map_fd'[l][m] = map_fd[l][m]
                                      /\ m \in marked'[l] <=> m \in marked[l]
    <3>1. CASE GetMap(l)
      <4>1. idx[l] \notin marked[l]
        BY <1>1, <1>2, <2>1, MapsBounds DEF Ready
      <4>2. map_fd' = [map_fd EXCEPT ![l][idx[l]] = pinned[idx[l]]] /\ marked' = marked
        BY <3>1 DEF GetMap
      <4> QED BY <1>1, <1>2, <2>1, <4>1, <4>2 DEF Holds, TypeOver
    <3>2. CASE CreateMap(l)
      <4>1. pinned[idx[l]] = None
        BY <3>2 DEF CreateMap, MayFail, Serial
      <4>2. PICK o \in Objs : map_fd' = [map_fd EXCEPT ![l][idx[l]] = o]
        BY <3>2 DEF CreateMap
      <4>3. marked' = [marked EXCEPT ![l] = @ \cup {idx[l]}]
        BY <3>2 DEF CreateMap
      <4> QED BY <1>1, <1>2, <2>1, <4>1, <4>2, <4>3 DEF Holds, TypeOver
    <3> QED BY <1>5, <3>1, <3>2
  <2>4. \A m \in Maps : m < idx[l] => Holds(l, m)'
    BY <1>1, <1>2, <2>1, <2>3, MapsBounds DEF Ready, Holds
  <2>5. \A m \in Maps : m < idx[l] + 1 => Holds(l, m)'
    BY <1>2, <2>3, <2>4, MapsBounds
  <2>6. \A m \in Maps : m >= idx[l] + 1 => m \notin marked'[l]
    BY <1>1, <1>2, <2>1, <2>3, MapsBounds DEF Ready
  <2>7. idx[l] = NR_MAPS - 1 => \A m \in Maps : m < idx[l] + 1
    BY <1>2, MapsBounds
  <2>8. CASE idx[l] = NR_MAPS - 1
    <3>1. \A m \in Maps : Holds(l, m)'
      BY <2>5, <2>7, <2>8
    <3> QED BY <1>3, <2>1, <2>2, <2>8, <3>1 DEF Ready
  <2>9. CASE idx[l] # NR_MAPS - 1
    BY <1>3, <2>1, <2>2, <2>5, <2>6, <2>9 DEF Ready
  <2> QED BY <2>8, <2>9
<1>6. CASE FailEarly(l)
  <2>1. lpc'[l] = "exit" /\ UNCHANGED <<pinned, attached>>
    BY <1>1, <1>6 DEF FailEarly, Leave, Goto, TypeOver
  <2> QED BY <1>3, <2>1 DEF Ready
<1>7. CASE LoadProg(l)
  <2>1. /\ lpc[l] = "prog" /\ lpc'[l] = "export" /\ idx'[l] = 0
        /\ UNCHANGED <<pinned, attached, map_fd, marked>>
    BY <1>1, <1>7 DEF LoadProg, Goto, priv, TypeOver, Filled
  <2>2. \A m \in Maps : ~(m < 0)
    BY MapsBounds
  <2>3. Ready(l)'
    BY <1>1, <2>1, <2>2 DEF Ready, Holds
  <2> QED BY <1>3, <2>1, <2>3
<1>8. CASE Export(l)
  <2> DEFINE m1 == idx[l]
  <2>1. /\ Advance(l, "attach") /\ "attach" \in LoaderPcs /\ lpc[l] = "export"
        /\ UNCHANGED <<attached, map_fd, marked>>
    BY <1>8 DEF Export, LoaderPcs, priv
  <2>2. /\ m1 = NR_MAPS - 1 => lpc'[l] = "attach"
        /\ m1 # NR_MAPS - 1 => lpc'[l] = "export" /\ idx'[l] = m1 + 1
    BY <1>1, <2>1, AdvanceStep DEF TypeOver
  <2>3. Holds(l, m1) /\ map_fd[l] \in Progs
    BY <1>1, <1>2, <2>1, MapsBounds DEF Ready, Filled
  <2>4. /\ pinned'[m1] = map_fd[l][m1]
        /\ \A m \in Maps \ {m1} : pinned'[m] = pinned[m]
        /\ pinned' = pinned \/ pinned[m1] = None
    <3>1. CASE m1 \in marked[l]
      <4>1. pinned[m1] = None
        BY <2>3, <3>1 DEF Holds
      <4>2. pinned' = [pinned EXCEPT ![m1] = map_fd[l][m1]]
        BY <1>8, <3>1, <4>1 DEF Export, Pinnable, MayFail, Serial
      <4> QED BY <1>1, <1>2, <4>1, <4>2 DEF TypeOver
    <3>2. CASE m1 \notin marked[l]
      <4>1. pinned' = pinned
        BY <1>8, <3>2 DEF Export, Pinnable
      <4> QED BY <2>3, <3>2, <4>1 DEF Holds
    <3> QED BY <3>1, <3>2
  <2>5. BlacklistIsManaged' /\ Reload
    <3>1. CASE pinned' = pinned
      BY <1>3, <2>1, <3>1
    <3>2. CASE pinned[m1] = None
      <4>1. \A i \in Ifaces : attached[i] \notin Progs
        BY <1>1, <1>2, <3>2, ManagedPins
      <4> QED BY <2>1, <4>1 DEF BlacklistIsManaged
    <3> QED BY <2>4, <3>1, <3>2
  <2>6. \A m \in Maps : m < m1 + 1 => pinned'[m] = map_fd[l][m]
    <3>1. \A m \in Maps : m < m1 => pinned[m] = map_fd[l][m]
      BY <1>1, <2>1 DEF Ready
    <3>2. \A m \in Maps : m < m1 => m # m1
      BY <1>2, MapsBounds
    <3> QED BY <1>2, <2>4, <3>1, <3>2, MapsBounds
  <2>7. CASE m1 = NR_MAPS - 1
    <3>1. \A m \in Maps : pinned'[m] = map_fd[l][m]
      BY <1>2, <2>6, <2>7, MapsBounds
    <3>2. pinned' \in [Maps -> Objs \cup {None}]
      BY <1>1, <1>2, <1>8 DEF Export, TypeOver
    <3>3. map_fd'[l] = pinned'
      BY <1>2, <2>1, <3>1, <3>2
    <3> QED BY <2>2, <2>5, <2>7, <3>3 DEF Ready
  <2>8. CASE m1 # NR_MAPS - 1
    <3>1. \A m \in Maps : m >= m1 + 1 => m >= m1 /\ m # m1
      BY <1>2, MapsBounds
    <3>2. \A m \in Maps : m >= m1 + 1 => Holds(l, m)'
      BY <1>1, <2>1, <2>4, <3>1 DEF Ready, Holds
    <3> QED BY <2>1, <2>2, <2>5, <2>6, <2>8, <3>2 DEF Ready
  <2> QED BY <2>7, <2>8
<1>9. CASE Attach(l)
  <2>1. lpc'[l] = "exit" /\ pinned' = pinned /\ map_fd[l] = pinned
    BY <1>1, <1>9 DEF Attach, Leave, Goto, TypeOver, Ready
  <2>2. attached' = attached \/ attached' = [attached EXCEPT ![iface[l]] = pinned]
    BY <1>9, <2>1 DEF Attach, SetLink
  <2>3. BlacklistIsManaged' /\ Reload
    BY <1>1, <2>1, <2>2 DEF BlacklistIsManaged, Managed, TypeOver
  <2> QED BY <2>1, <2>3 DEF Ready
<1>10. CASE Detach(l)
  <2>1. /\ lpc'[l] = "unlink" /\ pinned' = pinned
        /\ attached' = [attached EXCEPT ![iface[l]] = None]
    BY <1>1, <1>10 DEF Detach, SetLink, Goto, MayFail, Serial, TypeOver
  <2>2. \A i \in Ifaces : attached'[i] = None
    BY <1>1, <2>1 DEF Serial, TypeOver
  <2> QED BY <2>1, <2>2, NoneAssumption DEF BlacklistIsManaged, Ready
<1>11. CASE Unlink(l)
  <2>1. /\ lpc[l] = "unlink" /\ attached' = attached
        /\ \A i \in Ifaces : attached[i] \notin Progs
    BY <1>1, <1>11 DEF Unlink, Ready
  <2>2. lpc'[l] \in {"unlink", "exit"}
    BY <1>1, <1>11, <2>1 DEF Unlink, Leave, Advance, Goto, TypeOver
  <2> QED BY <2>1, <2>2 DEF BlacklistIsManaged, Ready
<1>12. CASE Vanish(l)
  <2>1. lpc'[l] = "idle" /\ marked'[l] = {} /\ UNCHANGED <<pinned, attached>>
    BY <1>1, <1>12 DEF Vanish, Goto, TypeOver
  <2> QED BY <1>3, <2>1 DEF Ready
<1> QED
  BY <1>4, <1>5, <1>6, <1>7, <1>8, <1>9, <1>10, <1>11, <1>12 DEF Step

\* A step of a capture puts no program of the loader's anywhere.
LEMMA CaptureStepManaged ==
  ASSUME CaptureInv, ManagedInv, NEW p \in Captures, CaptureStep(p) \/ Signal(p) \/ Kill(p)
  PROVE  /\ ManagedInv'
         /\ \A i \in Ifaces : attached'[i] \in Progs => attached'[i] = attached[i]
<1>1. /\ UNCHANGED <<pinned, lpc, idx, map_fd, marked>>
      /\ \A i \in Ifaces : attached'[i] \in {attached[i], Sniffer(p), None}
  BY CaptureFrame DEF CaptureInv, LoaderInv, TypeOver
<1>2. \A i \in Ifaces : attached'[i] \in Progs => attached'[i] = attached[i]
  BY <1>1, SnifferApart, NoneAssumption
<1>3. BlacklistIsManaged'
  BY <1>1, <1>2 DEF ManagedInv, BlacklistIsManaged, Managed
<1>4. \A l \in Loaders : Ready(l)'
  <2> SUFFICES ASSUME NEW l \in Loaders PROVE Ready(l)'
    OBVIOUS
  <2>1. Ready(l)
    BY DEF ManagedInv
  <2> QED BY <1>1, <1>2, <2>1 DEF Ready, Holds
<1> QED BY <1>2, <1>3, <1>4 DEF ManagedInv

LEMMA ManagedInvariant ==
  ASSUME Serial
  PROVE  CaptureSpec => []ManagedInv
<1>1. CaptureInv /\ ManagedInv /\ [CaptureNext]_<<vars, cvars>> => ManagedInv'
  <2>1. ASSUME UNCHANGED vars, ManagedInv PROVE ManagedInv'
    BY <2>1 DEF vars, ManagedInv, BlacklistIsManaged, Managed, Ready, Holds
  <2> QED BY <2>1, LoaderStepManaged, CaptureStepManaged DEF CaptureNext, Next, CaptureInv
<1> QED BY <1>1, InitManagedInv, CaptureInvariant, PTL DEF CaptureSpec

\* With one loader at a time, whatever captures, signals and kills do to it: a
\* blacklist program on a device has the maps the command line tool opens.
THEOREM AttachedMeansManaged ==
  ASSUME Serial
  PROVE  CaptureSpec => []BlacklistIsManaged
BY ManagedInvariant, PTL DEF ManagedInv

\* Under the same conditions a reload of the program keeps its maps.
THEOREM ReloadsKeepRules ==
  ASSUME Serial
  PROVE  CaptureSpec => ReloadKeepsRules
<1> DEFINE Kept == \A i \in Ifaces :
                     {attached[i], attached'[i]} \subseteq Progs /\ Managed(i)
                       => attached'[i] = attached[i]
<1>1. CaptureInv /\ ManagedInv /\ [CaptureNext]_<<vars, cvars>> => [Kept]_vars
  BY LoaderStepManaged, CaptureStepManaged DEF CaptureNext, Next, CaptureInv
<1> QED BY <1>1, CaptureInvariant, ManagedInvariant, PTL DEF CaptureSpec, ReloadKeepsRules
=============================================================================
