------------------------------ MODULE Libraries ------------------------------
(***************************************************************************)
(* What the sequential parts promise, each stated without the loop that    *)
(* computes it: command lines, the loader's view of an ELF file, the       *)
(* symbol search, netlink messages and BTF.  The machine gives one of them *)
(* an input that grows item by item; the properties hold at every length.  *)
(***************************************************************************)
EXTENDS ToolOptions, BpfLoadFile, Netlink, BtfTypes, FiniteSetsExt

CONSTANTS
  Part,        \* the parts to feed: a subset of the names below
  Options,     \* options of the command line tool
  UserOptions, \* options of the loader
  Symbols,     \* entries of a symbol table, [shndx, value], the maps in section 2
  Sections,    \* what follows the symbol table and the maps in a file
  Addresses,   \* addresses of kernel symbols
  Attributes,  \* netlink attributes
  Types,       \* BTF types
  MaxItems     \* bound, for each part

ASSUME PartsAssumption ==
  Part \subseteq {"cmdline", "user", "symbols", "sections", "ksyms", "attributes", "types"}

\* Options stand for the cases of getopt_long's switch; no argument is the
\* sentinel for a missing one.
ASSUME OptionsAssumption ==
  /\ \A o \in Options :
       /\ o.name \in {"add", "del", "ip", "udp-dport", "tcp-dport", "stats", "sec", "list", "help", "bad"}
       /\ o.name = "ip" => o.arg # NoSrc
  /\ \A o \in UserOptions : o.name \in {"quiet", "remove", "owner", "dev", "skb-mode", "bad"}
  /\ "none" \notin KnownDevs

\* Relocations name symbols and instructions that are there: the symbol table
\* and the program they extend, ProgramFile below, have three of each.
ASSUME ElfAssumption ==
  /\ MaxMaps \in Nat /\ DefSize \in Nat \ {0, 1} /\ IntHalf \in Nat \ {0}
  /\ Symbols \subseteq [shndx : Nat, value : Nat]
  /\ Addresses \subseteq Nat
  /\ \A s \in Sections :
       /\ s.kind \in {"prog", "rel", "version", "unread"}
       /\ s.kind = "prog" => s.named \in BOOLEAN /\ s.insns \in Seq(BOOLEAN) /\ Len(s.insns) >= 3
       /\ s.kind = "rel" => s.rels \in Seq([insn : 1..3, sym : 1..4])

ASSUME NetlinkAssumption == Attributes \subseteq [len : Nat, type : STRING, nul : BOOLEAN]

ASSUME BtfAssumption ==
  /\ MaxTypes \in Nat \ {0, 1} /\ ExpandBy \in Nat \ {0, 1}
  /\ UintMax \in Nat \ {0} /\ ResolveDepth \in Nat \ {0}
  /\ Types \subseteq [kind : STRING, size : Nat, type : Nat, nelems : Nat]

VARIABLES part, items
libVars == <<part, items>>

ItemsOf == [cmdline |-> Options, user |-> UserOptions, symbols |-> Symbols, sections |-> Sections,
            ksyms |-> Addresses, attributes |-> Attributes, types |-> Types]

LibInit == part \in Part /\ items = <<>>

\* load_kallsyms leaves the symbols sorted.
Extend == /\ Len(items) < MaxItems[part]
          /\ \E i \in ItemsOf[part] :
               /\ (part = "ksyms" /\ items # <<>>) => i > Last(items)
               /\ items' = Append(items, i)
          /\ UNCHANGED part

LibNext == Extend
LibSpec == LibInit /\ [][LibNext]_libVars

Positions(P(_)) == {i \in DOMAIN items : P(items[i])}
LastPosition(S) == Max(S \cup {0})

-----------------------------------------------------------------------------
(* Command lines.                                                          *)

\* A command line means the same in every order of its options but for the
\* last --ip and the last port, whichever of --udp-dport and --tcp-dport names
\* it: one --udp-dport makes it a UDP port.  Counter map and rule bit go
\* together, and a line that is refused anywhere touches no map.
CommandLineMeans ==
  part = "cmdline" => \A extra \in BOOLEAN :
    LET all(names) == {i \in DOMAIN items : items[i].name \in names}
        ip      == LastPosition(all({"ip"}))
        port    == LastPosition(all({"udp-dport", "tcp-dport"}))
        sec     == LastPosition(all({"sec"}))
        act     == {a \in {"ADD", "DEL"} : all({IF a = "ADD" THEN "add" ELSE "del"}) # {}}
        proto   == IF all({"udp-dport"}) = {} THEN "TCP" ELSE "UDP"
        refused == all({"help", "bad"}) # {} \/ \E i \in all({"ip"}) : items[i].arg = LongSrc
        noRule  == ip = 0 /\ (port = 0 \/ items[port].arg = 0)
        calls   == CmdMain(items, extra)
        usage   == \E i \in DOMAIN calls : calls[i].call = "usage"
        made(c) == \E i \in DOMAIN calls : calls[i] = c
    IN  /\ usage <=> refused \/ (IF act = {} THEN extra ELSE noRule)
        /\ ~usage =>
             /\ \A i \in DOMAIN calls :
                  calls[i].call \in (IF act = {} THEN {"list", "stats_poll"}
                                     ELSE {"blacklist_modify", "blacklist_port_modify"})
             /\ act # {} /\ ip # 0 =>
                  made([call |-> "blacklist_modify", src |-> items[ip].arg, act |-> act])
             /\ act # {} /\ port # 0 /\ items[port].arg # 0 =>
                  made([call |-> "blacklist_port_modify", port |-> items[port].arg,
                        act |-> act, proto |-> proto, counter |-> proto])
             /\ act = {} /\ all({"stats", "sec"}) # {} =>
                  made([call |-> "stats_poll",
                        interval |-> IF sec = 0 THEN 1 ELSE items[sec].arg])

\* The loader acts on a device that exists, the last one named, or not at all:
\* any option it refuses keeps it from removing or replacing a program.
LoaderLineMeans ==
  part = "user" =>
    LET all(names) == {i \in DOMAIN items : items[i].name \in names}
        refused == \/ all({"bad"}) # {}
                   \/ \E i \in all({"dev"}) : items[i].arg \notin KnownDevs
                   \/ \E i \in all({"owner"}) : items[i].arg \notin KnownUsers
        called  == UserMain(items)
    IN  /\ called.call = "usage" <=> refused \/ all({"dev"}) = {}
        /\ called.call # "usage" =>
             /\ called.dev = items[LastPosition(all({"dev"}))].arg
             /\ called.call = "remove_xdp_program" <=> all({"remove"}) # {}
             /\ called.skb <=> all({"skb-mode"}) # {}

-----------------------------------------------------------------------------
(* ELF files.                                                              *)

\* A file whose symbol table is the items; the maps are in section 2 and each
\* definition takes bytes bytes of it.
FileWith(syms, count, bytes, newer) ==
  << [kind |-> "symtab", syms |-> syms],
     [kind |-> "maps", size |-> count * bytes, newer |-> newer] >>

\* When every definition has its symbol, entry k of map_data is the k-th
\* definition of the section, in whatever order the symbols come: the loader and
\* the tools name the maps by these numbers.  Definitions of another size than
\* this program's are taken as far as both know them, and refused only when
\* they ask for more.  No file with up to MAX_MAPS maps overruns the buffers.
MapTableMatchesFile ==
  part = "symbols" => \A bytes \in {DefSize - 1, DefSize, DefSize + 1}, newer \in BOOLEAN :
    LET values == {items[i].value : i \in Positions(LAMBDA s : s.shndx = 2)}
        n      == Cardinality(Positions(LAMBDA s : s.shndx = 2))
        syms   == [i \in DOMAIN items |-> [items[i] EXCEPT !.value = @ * bytes]]
        file   == FileWith(syms, n, bytes, newer)
        loaded == LoadFile(file)
    IN  /\ n \in 1..MaxMaps => loaded.result \in {"OK", "EFBIG"}
        /\ n \in 1..MaxMaps /\ values = 0..(n - 1) =>
             /\ loaded.result = "OK" <=> bytes <= DefSize \/ ~newer
             /\ loaded.result = "OK" =>
                  /\ loaded.maps = [k \in 1..n |-> (k - 1) * bytes]
                  /\ SizeCopied(file) = Min({bytes, DefSize})

\* Two maps whose symbols are in the wrong order, the symbols of two functions,
\* the first of them at the offset of a map, and one section with code; the
\* items follow.
ProgramFile ==
  << [kind |-> "symtab", syms |-> << [shndx |-> 2, value |-> DefSize], [shndx |-> 3, value |-> 0],
                                     [shndx |-> 2, value |-> 0], [shndx |-> 3, value |-> 1] >>],
     [kind |-> "maps", size |-> 2 * DefSize, newer |-> FALSE],
     [kind |-> "prog", named |-> TRUE, insns |-> <<TRUE, FALSE, TRUE>>] >> \o items

\* A relocation names a map by a symbol of the maps' section at its offset.  A
\* program that is loaded works on no map its relocations do not name, save
\* where one is mistaken: it names a symbol of another section whose value is a
\* map's offset, and bpf_load.c:324 compares the values only.  A relocation that
\* fails is skipped, so a program may be loaded with a reference that stands for
\* descriptor 0; then one of its relocations was bad.
RelocationsRight ==
  part = "sections" =>
    LET file   == ProgramFile
        loaded == LoadFile(file)
        rels(p) == UNION {{s} \X DOMAIN file[s].rels :
                            s \in {s \in DOMAIN file : file[s].kind = "rel" /\ file[s].info = p}}
        rel(n)  == file[n[1]].rels[n[2]]
        sym(n)  == file[1].syms[rel(n).sym]
        inMaps(n) == sym(n).shndx = LastOf(file, "maps")
        taken(n)  == \E k \in DOMAIN loaded.maps : loaded.maps[k] = sym(n).value
        names(n, k) == inMaps(n) /\ sym(n).value = loaded.maps[k]
        mistaken(n) == ~inMaps(n) /\ taken(n)
    IN  \A p \in DOMAIN loaded.progs : \A i \in DOMAIN loaded.progs[p] :
          LET insn == loaded.progs[p][i]
              at   == {n \in rels(p) : rel(n).insn = i}
          IN  /\ (insn.imm # 0 /\ \A n \in at : ~mistaken(n)) => \E n \in at : names(n, insn.imm)
              /\ (insn.imm = 0 /\ at # {})
                   => \E n \in rels(p) : ~(file[p].insns[rel(n).insn] /\ taken(n))

-----------------------------------------------------------------------------
(* Kernel symbols.                                                         *)

\* As long as the addresses lie within half the range of an int, the search
\* finds the symbol an address belongs to, although it compares through an int;
\* below the first and above the last symbol it falls back to the first.
KsymFound ==
  part = "ksyms" => \A key \in Addresses :
    (/\ items # <<>>
     /\ Max(Range(items) \cup {key}) - Min(Range(items) \cup {key}) < IntHalf)
    => LET upTo == Positions(LAMBDA a : a <= key)
       IN  KsymSearch(items, key) =
             IF upTo = {} \/ key > Last(items) THEN 0 ELSE Max(upTo) - 1

-----------------------------------------------------------------------------
(* Netlink.                                                                *)

\* Of the attributes in a refusal the message printed is the last one that is
\* whole and behind nothing broken.  The length handed to nla_parse is that of
\* the message's header too large, so what follows in the buffer may be taken
\* for an attribute, but only if it begins in those bytes and ends there.
NlaIndexed ==
  part = "attributes" => \A n \in 0..Len(items), inner \in {0, 20}, capped \in BOOLEAN :
    LET area  == PosOf(items, n + 1)
        reply == [tlvs |-> TRUE, capped |-> capped, request |-> inner, attrs |-> items,
                  len  |-> MsgHdrLen + ErrLen + (IF capped THEN 0 ELSE inner) + area]
        text  == ErrorMessage(reply)
        sound(i) == items[i].len >= HdrLen /\ (items[i].type \in AttrTypes => Valid(items[i]))
        texts == {i \in 1..n : items[i].type = "MSG"}
    IN  /\ text > 0 =>
             /\ items[text].type = "MSG" /\ Valid(items[text])
             /\ \A j \in 1..text : sound(j)
             /\ PosOf(items, text) + items[text].len <= area + MsgHdrLen
        /\ (n = Len(items) /\ \A i \in 1..n : sound(i)) =>
             text = LastPosition(texts)

-----------------------------------------------------------------------------
(* BTF.                                                                    *)

\* The table holds void and every type at its number, all inside the memory it
\* was last grown to; exactly BTF_MAX_NR_TYPES - 1 types fit.
BtfTableFits ==
  part = "types" /\ (\A i \in DOMAIN items : items[i].kind \in Kinds) =>
    LET t == ParseTypes(items)
    IN  /\ t.entries = 1..t.nr_types
        /\ \A n \in t.entries : n < t.types_size
        /\ t.types_size <= MaxTypes
        /\ t.nr_types = Min({Len(items), MaxTypes - 1})
        /\ t.result = "E2BIG" <=> Len(items) >= MaxTypes

\* The types from id on up to one with a size of its own, as far as the depth
\* allows: <<>> when there is none.
Chain(id) ==
  LET next(t) == IF IsVoidOrNull(items, t) \/ TypeSize(items[t]) >= 0 THEN 0 ELSE items[t].type
      walk    == FoldLeft(LAMBDA c, i : Append(c, next(Last(c))), <<id>>,
                          [i \in 1..(ResolveDepth - 1) |-> i])
      ends    == {i \in DOMAIN walk : ~IsVoidOrNull(items, walk[i]) /\ TypeSize(items[walk[i]]) >= 0}
  IN  IF ends = {} THEN <<>> ELSE SubSeq(walk, 1, Min(ends))

\* A size that is given is the product of all the array lengths and the element's
\* size, however they are ordered; E2BIG means that this product, its zeros
\* left out, exceeds 32 bits; a type that leads to none, or to itself, has none.
ResolveSizeExact ==
  part = "types" /\ ParseTypes(items).result = "OK" => \A id \in 0..(Len(items) + 1) :
    LET chain   == Chain(id)
        factors == [i \in DOMAIN chain |->
                      LET t == items[chain[i]]
                      IN  IF t.kind = "ARRAY" THEN t.nelems
                          ELSE IF TypeSize(t) >= 0 THEN TypeSize(t) ELSE 1]
        product == FoldLeft(LAMBDA p, f : p * f, 1, factors)
        nonzero == FoldLeft(LAMBDA p, f : IF f = 0 THEN p ELSE p * f, 1, factors)
        found   == ResolveSize(items, id)
    IN  /\ found.result = "EINVAL" <=> chain = <<>> /\ found.result # "E2BIG"
        /\ found.result = "OK" => found.size = product /\ product <= UintMax
        /\ found.result = "E2BIG" => chain = <<>> \/ nonzero > UintMax
        /\ chain # <<>> /\ product > UintMax => found.result = "E2BIG"
=============================================================================
