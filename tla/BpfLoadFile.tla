----------------------------- MODULE BpfLoadFile -----------------------------
(***************************************************************************)
(* bpf_load.c as functions: which maps and which programs an ELF file      *)
(* gives, which descriptor each reference to a map ends up with, and the   *)
(* search for a kernel symbol.                                             *)
(*                                                                         *)
(* A file is a sequence of sections, numbered from 1:                      *)
(*   [kind: "symtab", syms: Seq([shndx, value])]                           *)
(*   [kind: "maps", size, newer]   newer: bytes are set that the struct    *)
(*                                 bpf_map_def of the program does not know *)
(*   [kind: "prog", named, insns: Seq(BOOLEAN)]   named: a name the loader *)
(*             takes for a program; insns: which ones load 64 bits         *)
(*   [kind: "rel", info, rels: Seq([insn, sym])]                           *)
(*   [kind: "version", valid]: valid, whether it has the size of an int    *)
(*   [kind: "unread"], which get_sec refuses.                              *)
(***************************************************************************)
EXTENDS Integers, Sequences, FiniteSets, SequencesExt, Functions

CONSTANTS
  MaxMaps,     \* MAX_MAPS
  DefSize,     \* sizeof(struct bpf_map_def)
  IntHalf      \* INT_MAX + 1; an address is wider

Unset == [map |-> FALSE, imm |-> 0]     \* an instruction as the file has it

\* The last section of a kind is the one the first scan remembers; 0: none.
LastOf(file, kind) ==
  LET found == {i \in DOMAIN file : file[i].kind = kind}
  IN  IF found = {} THEN 0 ELSE CHOOSE i \in found : \A j \in found : j <= i

-----------------------------------------------------------------------------
(***************************************************************************)
(* load_elf_maps_section                                                   *)
(***************************************************************************)
MapSyms(file) == LET syms == file[LastOf(file, "symtab")].syms
                 IN  {i \in DOMAIN syms : syms[i].shndx = LastOf(file, "maps")}

\* The values of the maps' symbols in the order of key, a function of symbols.
ValuesBy(file, key) ==
  LET syms  == file[LastOf(file, "symtab")].syms
      D     == 1..Cardinality(MapSyms(file))
      order == CHOOSE p \in Bijection(D, MapSyms(file)) :
                 \A i, j \in D : i < j => key[p[i]] <= key[p[j]]
  IN  [k \in D |-> syms[order[k]].value]

\* qsort(sym, nr_maps, sizeof(GElf_Sym), cmp_symbols)
\* Mutant: the maps stay in the order of the symbol table.
OffsetsUnsorted(file) == ValuesBy(file, [i \in MapSyms(file) |-> i])
Offsets(file) == LET syms == file[LastOf(file, "symtab")].syms
                 IN  ValuesBy(file, [i \in MapSyms(file) |-> syms[i].value])

\* The loop asserts, before each symbol of the table, that the buffer of
\* MAX_MAPS + 1 has room for it.
BufferHolds(file) ==
  LET syms == file[LastOf(file, "symtab")].syms
  IN  \A i \in DOMAIN syms :
        Cardinality({j \in 1..(i - 1) : syms[j].shndx = LastOf(file, "maps")}) <= MaxMaps

\* The definitions' size in the file, as there is no other way to tell.
SizeInFile(file) == file[LastOf(file, "maps")].size \div Cardinality(MapSyms(file))
SizeCopied(file) == IF SizeInFile(file) < DefSize THEN SizeInFile(file) ELSE DefSize

\* undefined: a division by zero, or the map after the last of map_data.
MapsResult(file) ==
  IF ~BufferHolds(file) THEN "abort"
  ELSE IF Cardinality(MapSyms(file)) \notin 1..MaxMaps THEN "undefined"
  ELSE IF SizeInFile(file) > DefSize /\ file[LastOf(file, "maps")].newer THEN "EFBIG"
  ELSE "OK"

-----------------------------------------------------------------------------
(***************************************************************************)
(* parse_relo_and_apply: reference by reference, until one does not belong *)
(* to an instruction that loads 64 bits or to a map.  The one it stops at  *)
(* has been marked as a reference to a map in the latter case.             *)
(***************************************************************************)
\* Mutant: the symbol's number is taken for the map's.
MapAtNumber(offsets, sym, value) == IF sym \in DOMAIN offsets THEN sym ELSE 0
MapAt(offsets, sym, value) ==
  LET found == {k \in DOMAIN offsets : offsets[k] = value}
  IN  IF found = {} THEN 0 ELSE CHOOSE k \in found : \A j \in found : k <= j

Apply(file, offsets, run, rel) ==
  LET sym == file[LastOf(file, "symtab")].syms[rel.sym]
      k   == MapAt(offsets, rel.sym, sym.value)
  IN  IF ~run.ok THEN run
      ELSE IF ~run.loads[rel.insn] THEN [run EXCEPT !.ok = FALSE]
      ELSE IF k = 0 THEN [run EXCEPT !.ok = FALSE, !.insns[rel.insn].map = TRUE]
      ELSE [run EXCEPT !.insns[rel.insn] = [map |-> TRUE, imm |-> k]]

\* The instructions of section p after all relocation sections that name it.
\* One that fails is skipped: the program is loaded all the same.
Relocated(file, offsets, p) ==
  LET start  == [insns |-> [i \in DOMAIN file[p].insns |-> Unset],
                 loads |-> file[p].insns, ok |-> TRUE]
      step(run, s) ==
        IF s.kind # "rel" \/ s.info # p THEN run
        ELSE FoldLeft(LAMBDA r, rel : Apply(file, offsets, r, rel), [run EXCEPT !.ok = TRUE], s.rels)
  IN  FoldLeft(step, start, file).insns

\* do_load_bpf_file: what it returns, the offsets of map_data, and the programs
\* it hands to load_and_attach, with map numbers for descriptors.
LoadFile(file) ==
  LET hasMaps == LastOf(file, "maps") # 0
      result  == IF \E i \in DOMAIN file : file[i].kind = "version" /\ ~file[i].valid
                 THEN "version"
                 ELSE IF LastOf(file, "symtab") = 0 THEN "no symbols"
                 ELSE IF hasMaps THEN MapsResult(file) ELSE "OK"
      offsets == IF hasMaps /\ result = "OK" THEN Offsets(file) ELSE <<>>
      progs   == {p \in DOMAIN file : file[p].kind = "prog" /\ file[p].named}
  IN  [result |-> result, maps |-> offsets,
       progs  |-> IF result = "OK" THEN [p \in progs |-> Relocated(file, offsets, p)] ELSE <<>>]

-----------------------------------------------------------------------------
(***************************************************************************)
(* ksym_search.  Addresses are numbers, differences pass through an int.   *)
(***************************************************************************)
\* result = key - syms[mid].addr
\* Mutant: the operands are the wrong way round.
DifferenceSwapped(key, addr) == ((addr - key + IntHalf) % (2 * IntHalf)) - IntHalf
Difference(key, addr) == ((key - addr + IntHalf) % (2 * IntHalf)) - IntHalf

\* The number, from 0, of the symbol it returns; range is [start, end) of the loop.
KsymSearch(addrs, key) ==
  LET n == Len(addrs)
      addr(i) == IF i < n THEN addrs[i + 1] ELSE 0     \* static storage
      search[range \in (0..n) \X (0..n)] ==
        LET start == range[1]
            end   == range[2]
            mid   == start + ((end - start) \div 2)
            d     == Difference(key, addr(mid))
        IN  IF start >= end
            THEN IF start >= 1 /\ addr(start - 1) < key /\ key < addr(start)
                 THEN start - 1 ELSE 0
            ELSE IF d < 0 THEN search[<<start, mid>>]
            ELSE IF d > 0 THEN search[<<mid + 1, end>>]
            ELSE mid
  IN  search[<<0, n>>]
=============================================================================
