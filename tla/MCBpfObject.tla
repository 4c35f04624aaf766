----------------------------- MODULE MCBpfObject -----------------------------
(* BpfObject for TLC. *)
EXTENDS BpfObject, TLC

Prog(relocs) == [text |-> FALSE, relocs |-> relocs]
Text         == [text |-> TRUE, relocs |-> <<>>]

Good == [elf |-> TRUE, strtab |-> TRUE, kver |-> TRUE, btf |-> FALSE,
         maps |-> <<>>, progs |-> <<>>]

\* Maps that the symbol table lists in another order, a .text section in front.
TwoMaps   == [Good EXCEPT !.maps = <<1, 0>>, !.progs = <<Prog(<<0, 1>>)>>, !.btf = TRUE]
WithText  == [Good EXCEPT !.maps = <<0>>, !.progs = <<Text, Prog(<<0>>)>>, !.kver = FALSE]
NotElf    == [Good EXCEPT !.elf = FALSE]
BadStrtab == [Good EXCEPT !.strtab = FALSE]

AllFiles   == {TwoMaps, WithText, NotElf, BadStrtab}
FewFds     == 0..6

ObjectSymmetry == Permutations(Handles)
=============================================================================
