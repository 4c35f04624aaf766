------------------------------ MODULE BpfObject ------------------------------
(***************************************************************************)
(* The life cycle of libbpf's objects (tools/lib/bpf/libbpf.c): a process  *)
(* opens ELF files, sets preprocessors, loads, pins, unloads and closes.   *)
(* Calls come in any order and may fail at every step; the process may be  *)
(* killed in the middle of one, and pinned files outlive it.               *)
(*                                                                         *)
(* The kernel is external: descriptors are numbered from the lowest free   *)
(* one, bpf_obj_pin makes a new file or fails, and a program being loaded  *)
(* has the descriptors in its instructions replaced by the maps that are   *)
(* behind them at that moment.  A call that fails without leaving anything *)
(* changed is no step.                                                     *)
(***************************************************************************)
EXTENDS Integers, Sequences, FiniteSets, FiniteSetsExt, SequencesExt

CONSTANTS
  Handles,     \* pointers to objects the process can hold
  Files,       \* contents of ELF files
  NoFile,
  Paths,       \* directories on the BPF file system
  Fds,         \* descriptors
  MaxCalls     \* bound: calls that start something

(***************************************************************************)
(* A file: elf, whether libelf takes it; strtab, whether its string table  *)
(* index is valid; kver, whether it has a "version"; btf, whether it has a *)
(* type section; maps, the offsets of its maps in the order of the symbol  *)
(* table; progs, its sections with code, of which one may be .text, with   *)
(* the offsets their relocations refer to.                                 *)
(***************************************************************************)
File == [elf : BOOLEAN, strtab : BOOLEAN, kver : BOOLEAN, btf : BOOLEAN,
         maps : Seq(Nat), progs : Seq([text : BOOLEAN, relocs : Seq(Nat)])]

ASSUME FilesAssumption == /\ Files \subseteq File /\ NoFile \notin Files
                          /\ Fds \subseteq Nat /\ MaxCalls \in Nat

VARIABLES
  fdTable,     \* descriptor -> what it is open on
  obj,         \* handle -> struct bpf_object
  call,        \* the call under way
  dirs,        \* directories made
  pins,        \* pinned files: [path, name, to]
  calls        \* number of calls, the age of the maps and programs they make

vars == <<fdTable, obj, call, dirs, pins, calls>>

-----------------------------------------------------------------------------
Free     == [kind |-> "free"]
NoFd     == -1
NoCall   == [op |-> "none"]
Closed   == [file |-> NoFile]
Garbage  == [file |-> "garbage"]      \* a pointer that is neither object nor error

IsOpen(h) == obj[h] \notin {Closed, Garbage}

\* qsort(obj->maps, obj->nr_maps, sizeof(obj->maps[0]), compare_bpf_map)
Sorted(f) ==
  LET D     == DOMAIN f.maps
      order == CHOOSE p \in Bijection(D, D) :
                 \A i, j \in D : i < j => f.maps[p[i]] <= f.maps[p[j]]
  IN  [k \in D |-> f.maps[order[k]]]

\* Mutant: the maps are looked for as the symbol table lists them.
MapIndexUnsorted(f, offset) == CHOOSE k \in DOMAIN f.maps : f.maps[k] = offset

MapIndex(f, offset) == CHOOSE k \in DOMAIN f.maps : Sorted(f)[k] = offset

\* Every relocation finds its map: bpf_program__collect_reloc
Resolves(f) == \A p \in DOMAIN f.progs : ToSet(f.progs[p].relocs) \subseteq ToSet(f.maps)

NewObject(f, btf) ==
  [file |-> f, btf |-> btf, loaded |-> FALSE,
   maps  |-> [k \in DOMAIN f.maps |-> NoFd],
   imm   |-> [p \in DOMAIN f.progs |-> <<>>],        \* descriptors in the instructions
   prep  |-> [p \in DOMAIN f.progs |-> FALSE],
   insts |-> [p \in DOMAIN f.progs |-> <<>>]]        \* <<>> when instances.nr is -1

LowestFree(table) == Min({d \in Fds : table[d] = Free})
Full(table) == \A d \in Fds : table[d] # Free

Shut(table, ds) == [d \in Fds |-> IF d \in ds THEN Free ELSE table[d]]

FdsOf(o) == (ToSet(o.maps) \cup UNION {ToSet(o.insts[p]) : p \in DOMAIN o.insts}) \ {NoFd}

Init ==
  /\ fdTable = [d \in Fds |-> Free]
  /\ obj = [h \in Handles |-> Closed]
  /\ call = NoCall /\ dirs = {} /\ pins = {} /\ calls = 0

NewCall == call = NoCall /\ calls < MaxCalls /\ calls' = calls + 1

-----------------------------------------------------------------------------
(***************************************************************************)
(* Opening.                                                                *)
(***************************************************************************)

\* elf_begin fails after open: elf_finish returns at once when there is no elf,
\* and the descriptor stays open.
OpenNotElf(f) ==
  /\ NewCall /\ ~f.elf /\ ~Full(fdTable)
  /\ fdTable' = [fdTable EXCEPT ![LowestFree(fdTable)] = [kind |-> "elf"]]
  /\ UNCHANGED <<obj, call, dirs, pins>>

\* elf_collect returns LIBBPF_ERRNO__FORMAT and not its negation: the object is
\* closed, and ERR_PTR makes a pointer of it that IS_ERR does not recognise.
OpenBadStrtab(h, f) ==
  /\ NewCall /\ obj[h] = Closed /\ f.elf /\ ~f.strtab
  /\ obj' = [obj EXCEPT ![h] = Garbage]
  /\ UNCHANGED <<fdTable, call, dirs, pins>>

\* The type section is loaded while the file is open, or ignored when that fails.
Opened(h, f) ==
  /\ NewCall /\ obj[h] = Closed /\ f.elf /\ f.strtab /\ Resolves(f)
  /\ ~Full(fdTable)
  /\ LET elfFd == LowestFree(fdTable)
         table == [fdTable EXCEPT ![elfFd] = [kind |-> "elf"]]
     IN  \/ /\ f.btf /\ ~Full(table)
            /\ fdTable' = [table EXCEPT ![elfFd] = Free,
                                        ![LowestFree(table)] = [kind |-> "btf"]]
            /\ obj' = [obj EXCEPT ![h] = NewObject(f, LowestFree(table))]
         \/ /\ obj' = [obj EXCEPT ![h] = NewObject(f, NoFd)]
            /\ UNCHANGED fdTable

\* bpf_object__open: the version is asked for
Open(h, f) ==
  /\ f.kver
  /\ Opened(h, f)
  /\ UNCHANGED <<call, dirs, pins>>

\* bpf_prog_load_xattr for a type that needs no version: opens and goes on to load
ProgLoad(h, f) ==
  /\ \E p \in DOMAIN f.progs : ~f.progs[p].text
  /\ Opened(h, f)
  /\ call' = [op |-> "load", h |-> h, closes |-> TRUE]
  /\ UNCHANGED <<dirs, pins>>

ProgsOf(h) == IF IsOpen(h) THEN DOMAIN obj[h].insts ELSE {}

\* bpf_program__set_prep, for two instances
SetPrep(h, p) ==
  /\ NewCall
  /\ obj[h].insts[p] = <<>>
  /\ obj' = [obj EXCEPT ![h].insts[p] = <<NoFd, NoFd>>, ![h].prep[p] = TRUE]
  /\ UNCHANGED <<fdTable, call, dirs, pins>>

-----------------------------------------------------------------------------
(***************************************************************************)
(* Loading: bpf_object__load, one step per thing created.                  *)
(***************************************************************************)

Load(h) ==
  /\ NewCall /\ IsOpen(h)
  /\ call' = [op |-> "load", h |-> h, closes |-> FALSE]
  /\ UNCHANGED <<fdTable, obj, dirs, pins>>

\* An object is loaded once, whatever became of it.
BeginLoad ==
  LET h == call.h
  IN  /\ call.op = "load"
      /\ IF obj[h].loaded
         THEN call' = NoCall /\ UNCHANGED obj
         ELSE /\ obj'  = [obj EXCEPT ![h].loaded = TRUE]
              /\ call' = [op |-> "maps", h |-> h, closes |-> call.closes, at |-> 1]
      /\ UNCHANGED <<fdTable, dirs, pins, calls>>

\* Mutant: the descriptors of maps are closed and not set to -1.
UnloadedStale(o) == [o EXCEPT !.insts = [p \in DOMAIN o.insts |-> <<>>]]

Unloaded(o) == [o EXCEPT !.maps  = [k \in DOMAIN o.maps |-> NoFd],
                         !.insts = [p \in DOMAIN o.insts |-> <<>>]]

BtfFd(o) == {o.btf} \ {NoFd}

\* Mutant: nothing is undone.
FailLoadKeeps ==
  /\ call.op \in {"maps", "relocate", "progs"}
  /\ call' = NoCall
  /\ UNCHANGED <<fdTable, obj, dirs, pins, calls>>

\* Mutant: it goes on after closing.
FailLoadGoesOn ==
  LET h == call.h
      o == obj[h]
  IN  /\ call.op \in {"maps", "relocate", "progs"}
      /\ fdTable' = Shut(fdTable, FdsOf(o) \cup IF call.closes THEN BtfFd(o) ELSE {})
      /\ obj'  = [obj EXCEPT ![h] = IF call.closes THEN Closed ELSE Unloaded(o)]
      /\ UNCHANGED <<call, dirs, pins, calls>>

\* The way out of a load that failed: bpf_object__unload, and for
\* bpf_prog_load_xattr bpf_object__close.
FailLoad ==
  LET h == call.h
      o == obj[h]
  IN  /\ call.op \in {"maps", "relocate", "progs"}
      /\ fdTable' = Shut(fdTable, FdsOf(o) \cup IF call.closes THEN BtfFd(o) ELSE {})
      /\ obj'  = [obj EXCEPT ![h] = IF call.closes THEN Closed ELSE Unloaded(o)]
      /\ call' = NoCall
      /\ UNCHANGED <<dirs, pins, calls>>

KernelMap(offset) == [kind |-> "map", offset |-> offset, age |-> calls]

\* One round of bpf_object__create_maps; a retry without BTF is part of it.
CreateMap ==
  LET h == call.h
      o == obj[h]
      d == LowestFree(fdTable)
  IN  /\ call.op = "maps"
      /\ \/ /\ call.at \in DOMAIN o.maps /\ ~Full(fdTable)
            /\ fdTable' = [fdTable EXCEPT ![d] = KernelMap(Sorted(o.file)[call.at])]
            /\ obj'  = [obj EXCEPT ![h].maps[call.at] = d]
            /\ call' = [call EXCEPT !.at = @ + 1]
         \/ /\ call.at \notin DOMAIN o.maps
            /\ call' = [call EXCEPT !.op = "relocate"]
            /\ UNCHANGED <<fdTable, obj>>
      /\ UNCHANGED <<dirs, pins, calls>>

\* The next section to load after p: all but .text
NextProg(f, p) == Min({q \in DOMAIN f.progs : q > p /\ ~f.progs[q].text}
                      \cup {Len(f.progs) + 1})

\* bpf_object__relocate: insns[insn_idx].imm = obj->maps[map_idx].fd
Relocate ==
  LET h == call.h
      o == obj[h]
      f == o.file
  IN  /\ call.op = "relocate"
      /\ obj'  = [obj EXCEPT ![h].imm =
                   [p \in DOMAIN f.progs |->
                     [j \in DOMAIN f.progs[p].relocs |->
                       o.maps[MapIndex(f, f.progs[p].relocs[j])]]]]
      /\ call' = [call EXCEPT !.op = "progs", !.at = <<NextProg(f, 0), 1>>]
      /\ UNCHANGED <<fdTable, dirs, pins, calls>>

KernelProg(f, p, imm) ==
  [kind |-> "prog", file |-> f, prog |-> p, age |-> calls,
   uses |-> [j \in DOMAIN imm |-> fdTable[imm[j]]]]

\* bpf_program__load, one instance at a time.  A program with a preprocessor and
\* no instances any more is refused (FailLoad); a preprocessor may skip one.
LoadInstance ==
  LET h == call.h
      o == obj[h]
      p == call.at[1]
      i == call.at[2]
      slots == IF o.insts[p] = <<>> THEN <<NoFd>> ELSE o.insts[p]
      d == LowestFree(fdTable)
  IN  /\ call.op = "progs" /\ p \in DOMAIN o.insts
      /\ ~(o.insts[p] = <<>> /\ o.prep[p])
      /\ \/ /\ ~Full(fdTable)
            /\ fdTable' = [fdTable EXCEPT ![d] = KernelProg(o.file, p, o.imm[p])]
            /\ obj' = [obj EXCEPT ![h].insts[p] = [slots EXCEPT ![i] = d]]
         \/ /\ o.prep[p]
            /\ UNCHANGED <<fdTable, obj>>
      /\ call' = [call EXCEPT !.at = IF i < Len(slots) THEN <<p, i + 1>>
                                     ELSE <<NextProg(o.file, p), 1>>]
      /\ UNCHANGED <<dirs, pins, calls>>

EndLoad ==
  /\ call.op = "progs" /\ call.at[1] \notin DOMAIN obj[call.h].insts
  /\ call' = NoCall
  /\ UNCHANGED <<fdTable, obj, dirs, pins, calls>>

\* bpf_object__unload: loaded stays as it is
Unload(h) ==
  /\ NewCall /\ IsOpen(h)
  /\ fdTable' = Shut(fdTable, FdsOf(obj[h]))
  /\ obj' = [obj EXCEPT ![h] = Unloaded(@)]
  /\ UNCHANGED <<call, dirs, pins>>

\* bpf_object__close
Close(h) ==
  /\ NewCall /\ IsOpen(h)
  /\ fdTable' = Shut(fdTable, FdsOf(obj[h]) \cup BtfFd(obj[h]))
  /\ obj' = [obj EXCEPT ![h] = Closed]
  /\ UNCHANGED <<call, dirs, pins>>

-----------------------------------------------------------------------------
(***************************************************************************)
(* Pinning: bpf_object__pin, all maps and then all programs, .text too.    *)
(***************************************************************************)

Pin(h, path) ==
  /\ NewCall /\ IsOpen(h) /\ obj[h].loaded
  /\ dirs' = dirs \cup {path}
  /\ call' = [op |-> "pin", h |-> h, path |-> path, at |-> <<1, 1>>]
  /\ UNCHANGED <<fdTable, obj, pins>>

\* The descriptor to pin next and its name; at counts the maps, then the
\* instances of each program.
Cursor(o) ==
  LET n == Len(o.maps)
      k == call.at[1]
  IN  IF k <= n THEN [name |-> <<"map", Sorted(o.file)[k]>>, fd |-> o.maps[k]]
      ELSE [name |-> <<"prog", k - n, call.at[2]>>,
            fd   |-> IF call.at[2] \in DOMAIN o.insts[k - n]
                     THEN o.insts[k - n][call.at[2]] ELSE NoFd]

After(o) ==
  LET n == Len(o.maps)
      k == call.at[1]
  IN  IF k > n /\ call.at[2] < Len(o.insts[k - n]) THEN <<k, call.at[2] + 1>>
      ELSE <<k + 1, 1>>

Taken(path, name) == \E x \in pins : x.path = path /\ x.name = name

\* bpf_obj_pin(fd, path)
CanPin(c) == c.fd # NoFd /\ call.path \in dirs /\ ~Taken(call.path, c.name)

\* Mutant: a file that is there already is passed over.
PinNextOver ==
  LET o == obj[call.h]
      c == Cursor(o)
  IN  /\ call.op = "pin" /\ call.at[1] <= Len(o.maps) + Len(o.insts)
      /\ CanPin(c) \/ Taken(call.path, c.name)
      /\ pins' = IF Taken(call.path, c.name) THEN pins ELSE
                 pins \cup {[path |-> call.path, name |-> c.name, to |-> fdTable[c.fd]]}
      /\ call' = [call EXCEPT !.at = IF call.at[1] <= Len(o.maps) \/ o.insts[call.at[1] - Len(o.maps)] # <<>>
                                     THEN After(o) ELSE @]
      /\ UNCHANGED <<fdTable, obj, dirs, calls>>

PinNext ==
  LET o == obj[call.h]
      c == Cursor(o)
  IN  /\ call.op = "pin" /\ call.at[1] <= Len(o.maps) + Len(o.insts)
      /\ CanPin(c)
      /\ pins' = pins \cup {[path |-> call.path, name |-> c.name, to |-> fdTable[c.fd]]}
      /\ call' = [call EXCEPT !.at = After(o)]
      /\ UNCHANGED <<fdTable, obj, dirs, calls>>

\* All is pinned, or the first failure ends the call and leaves what there is.
EndPin ==
  /\ call.op = "pin"
  /\ call' = NoCall
  /\ UNCHANGED <<fdTable, obj, dirs, pins, calls>>

-----------------------------------------------------------------------------
\* rm -r
RemoveDir(path) ==
  /\ path \in dirs
  /\ dirs' = dirs \ {path}
  /\ pins' = {x \in pins : x.path # path}
  /\ UNCHANGED <<fdTable, obj, call, calls>>

\* The process is killed, or uses what is no object; another one starts.
Kill ==
  /\ fdTable' = [d \in Fds |-> Free]
  /\ obj' = [h \in Handles |-> Closed]
  /\ call' = NoCall
  /\ UNCHANGED <<dirs, pins, calls>>

Next ==
  \/ \E f \in Files : OpenNotElf(f)
  \/ \E h \in Handles :
       \/ \E f \in Files : OpenBadStrtab(h, f) \/ Open(h, f) \/ ProgLoad(h, f)
       \/ \E p \in ProgsOf(h) : SetPrep(h, p)
       \/ \E path \in Paths : Pin(h, path)
       \/ Load(h) \/ Unload(h) \/ Close(h)
  \/ BeginLoad \/ FailLoad \/ CreateMap \/ Relocate \/ LoadInstance \/ EndLoad
  \/ PinNext \/ EndPin
  \/ \E path \in Paths : RemoveDir(path)
  \/ Kill

Spec == Init /\ [][Next]_vars

-----------------------------------------------------------------------------
(***************************************************************************)
(* Properties.                                                             *)
(***************************************************************************)

ObjectOK(o) ==
  /\ o.file \in Files /\ o.loaded \in BOOLEAN /\ o.btf \in Fds \cup {NoFd}
  /\ o.maps \in [DOMAIN o.file.maps -> Fds \cup {NoFd}]
  /\ DOMAIN o.insts = DOMAIN o.file.progs /\ DOMAIN o.imm = DOMAIN o.file.progs
  /\ o.prep \in [DOMAIN o.file.progs -> BOOLEAN]

TypeOK ==
  /\ \A d \in Fds : fdTable[d].kind \in {"free", "elf", "btf", "map", "prog"}
  /\ \A h \in Handles : IsOpen(h) => ObjectOK(obj[h])
  /\ call.op \in {"none", "load", "maps", "relocate", "progs", "pin"}
  /\ call.op # "none" => IsOpen(call.h)
  /\ dirs \subseteq Paths /\ \A x \in pins : x.path \in dirs
  /\ calls \in 0..MaxCalls

\* What each descriptor an object holds should be open on.
Expected(o) ==
  {<<o.maps[k], "map", Sorted(o.file)[k]>> : k \in DOMAIN o.maps} \cup
  (UNION {{<<o.insts[p][i], "prog", p>> : i \in DOMAIN o.insts[p]} : p \in DOMAIN o.insts}) \cup
  {<<o.btf, "btf", 0>>}

IsOn(d, kind, x) == /\ fdTable[d].kind = kind
                    /\ kind = "map"  => fdTable[d].offset = x
                    /\ kind = "prog" => fdTable[d].prog = x

\* Every descriptor an object remembers is open on the very thing it stands for,
\* and every open descriptor is remembered by exactly one object; none is leaked
\* by any failure, but for the files libelf refused, and none is closed twice,
\* which would close somebody else's.
FdsAccounted ==
  /\ \A h \in Handles : IsOpen(h) =>
       \A e \in Expected(obj[h]) : e[1] # NoFd => IsOn(e[1], e[2], e[3])
  /\ \A d \in Fds : fdTable[d].kind \notin {"free", "elf"} =>
       Cardinality({h \in Handles : IsOpen(h) /\ \E e \in Expected(obj[h]) : e[1] = d}) = 1

Programs == {k \in {fdTable[d] : d \in Fds} \cup {x.to : x \in pins} : k.kind = "prog"}

\* A program in the kernel, held or pinned, works on the maps its relocations
\* name, and on those made in the same load: not on a map sorted to another
\* place, and not on one of an earlier object that had the same descriptor.
ProgramsUseOwnMaps ==
  \A k \in Programs :
    k.uses = [j \in DOMAIN k.uses |->
                [kind |-> "map", offset |-> k.file.progs[k.prog].relocs[j], age |-> k.age]]

\* When no load is under way, an object has all its maps and programs in the
\* kernel or none of them: a load that failed has undone what it did.
AllOrNothing ==
  \A h \in Handles : IsOpen(h) /\ (call.op = "none" \/ call.h # h) =>
    LET o == obj[h]
    IN  \/ FdsOf(o) = {}
        \/ /\ NoFd \notin ToSet(o.maps)
           /\ \A p \in DOMAIN o.insts : ~o.file.progs[p].text => o.insts[p] # <<>>

\* Whatever pinning failed or was cut short, and however often it is tried
\* again, a directory never holds a program beside maps it does not work on.
PinnedTogether ==
  \A x \in pins : x.to.kind = "prog" =>
    \A j \in DOMAIN x.to.uses :
      [path |-> x.path, name |-> <<"map", x.to.uses[j].offset>>, to |-> x.to.uses[j]] \in pins

-----------------------------------------------------------------------------
(***************************************************************************)
(* What the source says, and the code does not keep.                       *)
(***************************************************************************)

\* "we can return either an error code or a normal pointer with the same return
\* value" (err.h:14): what the caller has after a failed open is no pointer.
OpenGivesObjectOrError == \A h \in Handles : obj[h] # Garbage

=============================================================================
