------------------------------ MODULE BtfTypes ------------------------------
(***************************************************************************)
(* btf.c as functions: the table of types it builds, and the size of a     *)
(* type.  A type is [kind, size, type, nelems]: size for those that have   *)
(* one, type for the one referred to, nelems for arrays.  Types are        *)
(* numbered from 1; 0 is void.                                             *)
(***************************************************************************)
EXTENDS Integers, Sequences, SequencesExt, FiniteSetsExt

CONSTANTS
  MaxTypes,      \* BTF_MAX_NR_TYPES
  ExpandBy,      \* the least number of entries the table grows by, 16
  UintMax,       \* UINT32_MAX
  ResolveDepth   \* MAX_RESOLVE_DEPTH

Sized     == {"INT", "STRUCT", "UNION", "ENUM"}
Modifiers == {"TYPEDEF", "VOLATILE", "CONST", "RESTRICT"}
Kinds     == Sized \cup Modifiers \cup {"PTR", "ARRAY", "FWD"}

-----------------------------------------------------------------------------
(***************************************************************************)
(* btf_add_type                                                            *)
(***************************************************************************)
\* Mutant: the table is full when its last entry is taken, void forgotten.
TableFullLate(table) == table.types_size - table.nr_types < 1
TableFull(table) == table.types_size - table.nr_types < 2

Grown(table) ==
  [table EXCEPT !.types_size = Min({MaxTypes, @ + Max({@ \div 4, ExpandBy})})]

\* One entry is kept for void: type n is entry n.
Entry(table) == table.nr_types + 1

\* entries: those that hold a type.
AddType(table) ==
  IF TableFull(table) /\ table.types_size = MaxTypes
  THEN [table EXCEPT !.result = "E2BIG"]
  ELSE LET t == IF TableFull(table) THEN Grown(table) ELSE table
       IN  [t EXCEPT !.nr_types = @ + 1, !.entries = @ \cup {Entry(t)}]

\* btf_parse_type_sec: record by record, until one is refused.
NoTypes == [types_size |-> 0, nr_types |-> 0, entries |-> {}, result |-> "OK"]
ParseTypes(types) ==
  FoldLeft(LAMBDA table, t : IF table.result # "OK" THEN table
                             ELSE IF t.kind \notin Kinds THEN [table EXCEPT !.result = "EINVAL"]
                             ELSE AddType(table),
           NoTypes, types)

-----------------------------------------------------------------------------
(***************************************************************************)
(* btf__resolve_size                                                       *)
(***************************************************************************)
PtrSize == 8

\* btf__type_by_id, and what is not a type to look into: void, a forward
\* declaration, a number beyond the table.
IsVoidOrNull(types, id) == id = 0 \/ id > Len(types) \/ types[id].kind = "FWD"

\* btf_type_size; -1 where the type has none of its own.
TypeSize(t) == IF t.kind \in Sized THEN t.size ELSE IF t.kind = "PTR" THEN PtrSize ELSE -1

\* array->nelems > UINT32_MAX / nelems, and the same for the size
\* Mutant: the product may wrap.
ExceedsNever(nelems, factor) == FALSE
Exceeds(nelems, factor) == nelems # 0 /\ factor > UintMax \div nelems

ResolveStep(types, run) ==
  LET t == types[run.id]
  IN  IF run.result # "go" \/ IsVoidOrNull(types, run.id) THEN run
      ELSE IF TypeSize(t) >= 0
           THEN IF Exceeds(run.nelems, TypeSize(t)) THEN [run EXCEPT !.result = "E2BIG"]
                ELSE [run EXCEPT !.result = "OK", !.size = run.nelems * TypeSize(t)]
      ELSE IF t.kind \in Modifiers THEN [run EXCEPT !.id = t.type]
      ELSE IF Exceeds(run.nelems, t.nelems) THEN [run EXCEPT !.result = "E2BIG"]
      ELSE [run EXCEPT !.id = t.type, !.nelems = (run.nelems * t.nelems) % (UintMax + 1)]

ResolveSize(types, id) ==
  LET run == FoldLeft(LAMBDA r, i : ResolveStep(types, r),
                      [id |-> id, nelems |-> 1, size |-> 0, result |-> "go"],
                      [i \in 1..ResolveDepth |-> i])
  IN  [result |-> IF run.result = "go" THEN "EINVAL" ELSE run.result, size |-> run.size]
=============================================================================
