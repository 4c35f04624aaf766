-------------------------- MODULE BpfObject_proofs --------------------------
(***************************************************************************)
(* Theorems about the life cycle of libbpf's objects: for any files, any   *)
(* number of handles, descriptors and directories, calls in any order,     *)
(* failures at every step, and kills.                                      *)
(***************************************************************************)
EXTENDS BpfObject, FoldLemmas

USE FilesAssumption

-----------------------------------------------------------------------------
(***************************************************************************)
(* The order of the maps.                                                  *)
(***************************************************************************)

\* qsort keeps the maps: every offset has its place, and MapIndex finds it.
LEMMA SortedHas ==
  ASSUME NEW f \in Files
  PROVE  /\ DOMAIN Sorted(f) = DOMAIN f.maps
         /\ \A x \in ToSet(f.maps) : MapIndex(f, x) \in DOMAIN f.maps
                                     /\ Sorted(f)[MapIndex(f, x)] = x
<1> DEFINE n == Len(f.maps)
           P(p) == \A i, j \in 1..n : i < j => f.maps[p[i]] <= f.maps[p[j]]
           order == CHOOSE p \in Bijection(1..n, 1..n) : P(p)
<1>1. f.maps \in Seq(Nat) /\ n \in Nat
  BY DEF File
<1>2. DOMAIN f.maps = 1..n /\ f.maps \in [1..n -> Nat]
  BY <1>1
<1>3. \E p \in Bijection(1..n, 1..n) : P(p)
  BY <1>1, <1>2, AllSortable DEF Sortable, SortsTo
<1>4. order \in Bijection(1..n, 1..n)
  <2> HIDE DEF P
  <2> QED BY <1>3
<1>5. Sorted(f) = [k \in 1..n |-> f.maps[order[k]]]
  BY <1>2 DEF Sorted
<1> HIDE DEF order
<1>6. ASSUME NEW x \in ToSet(f.maps) PROVE \E k \in DOMAIN f.maps : Sorted(f)[k] = x
  <2>1. PICK y \in 1..n : f.maps[y] = x
    BY <1>2 DEF ToSet
  <2>2. PICK k \in 1..n : order[k] = y
    BY <1>4 DEF Bijection, Surjection
  <2> QED BY <2>1, <2>2, <1>2, <1>5
<1>7. DOMAIN Sorted(f) = DOMAIN f.maps
  BY <1>2, <1>5
<1> QED BY <1>6, <1>7 DEF MapIndex

-----------------------------------------------------------------------------
(***************************************************************************)
(* Types.                                                                  *)
(***************************************************************************)

NFds == Fds \cup {NoFd}

Fields == {"file", "btf", "loaded", "maps", "imm", "prep", "insts"}

Shape(o) ==
  /\ DOMAIN o = Fields
  /\ o.file \in Files /\ Resolves(o.file)
  /\ o.btf \in NFds /\ o.loaded \in BOOLEAN
  /\ o.maps \in [DOMAIN o.file.maps -> NFds]
  /\ DOMAIN o.imm = DOMAIN o.file.progs
  /\ o.prep \in [DOMAIN o.file.progs -> BOOLEAN]
  /\ o.insts \in [DOMAIN o.file.progs -> Seq(NFds)]

CallShape ==
  /\ call.op \in {"none", "load", "maps", "relocate", "progs", "pin"}
  /\ call.op # "none" => call.h \in Handles /\ IsOpen(call.h)
  /\ call.op \in {"maps", "relocate", "progs"} => DOMAIN call = {"op", "h", "closes", "at"}
  /\ call.op = "pin" => DOMAIN call = {"op", "h", "path", "at"} /\ call.path \in Paths

TypeInv ==
  /\ DOMAIN fdTable = Fds /\ DOMAIN obj = Handles
  /\ \A d \in Fds : fdTable[d].kind \in {"free", "elf", "btf", "map", "prog"}
  /\ \A h \in Handles : IsOpen(h) => Shape(obj[h])
  /\ CallShape
  /\ dirs \subseteq Paths /\ \A x \in pins : x.path \in dirs
  /\ calls \in 0..MaxCalls

LEMMA FileShape ==
  ASSUME NEW f \in Files
  PROVE  /\ Len(f.maps) \in Nat /\ DOMAIN f.maps = 1..Len(f.maps)
         /\ Len(f.progs) \in Nat /\ DOMAIN f.progs = 1..Len(f.progs)
         /\ \A p \in DOMAIN f.progs : /\ f.progs[p].text \in BOOLEAN
                                      /\ f.progs[p].relocs \in Seq(Nat)
<1> DEFINE Section == [text : BOOLEAN, relocs : Seq(Nat)]
<1>1. f \in File
  OBVIOUS
<1>2. f.maps \in Seq(Nat) /\ f.progs \in Seq(Section)
  BY <1>1 DEF File
<1>3. \A p \in DOMAIN f.progs : f.progs[p] \in Section
  <2> HIDE DEF Section
  <2> QED BY <1>2
<1>4. /\ Len(f.maps) \in Nat /\ DOMAIN f.maps = 1..Len(f.maps)
      /\ Len(f.progs) \in Nat /\ DOMAIN f.progs = 1..Len(f.progs)
  BY <1>2
<1> QED BY <1>3, <1>4

LEMMA ShapeIsOpen ==
  ASSUME NEW o, Shape(o)
  PROVE  o # Closed /\ o # Garbage
<1>1. "btf" \in DOMAIN o
  BY DEF Shape, Fields
<1>2. "btf" \notin DOMAIN Closed /\ "btf" \notin DOMAIN Garbage
  BY DEF Closed, Garbage
<1> QED BY <1>1, <1>2

LEMMA LowestIsFree ==
  ASSUME NEW t, ~Full(t)
  PROVE  LowestFree(t) \in Fds /\ t[LowestFree(t)] = Free
<1> DEFINE S == {d \in Fds : t[d] = Free}
<1>1. S \in SUBSET Nat /\ S # {}
  BY DEF Full
<1>2. Min(S) \in S
  <2> HIDE DEF S
  <2> QED BY <1>1, MinOf
<1> QED BY <1>2 DEF LowestFree

LEMMA NewShape ==
  ASSUME NEW f \in Files, NEW b \in NFds, Resolves(f)
  PROVE  Shape(NewObject(f, b))
BY FileShape DEF Shape, NewObject, Fields, NFds

LEMMA UnloadedShape ==
  ASSUME NEW o, Shape(o)
  PROVE  /\ Shape(Unloaded(o))
         /\ \A x \in Fields \ {"maps", "insts"} : Unloaded(o)[x] = o[x]
         /\ Unloaded(o).maps = [k \in DOMAIN o.maps |-> NoFd]
         /\ Unloaded(o).insts = [p \in DOMAIN o.insts |-> <<>>]
<1> DEFINE u == Unloaded(o)
<1>1. DOMAIN o = Fields
  BY DEF Shape
<1>2. /\ DOMAIN u = Fields
      /\ \A x \in Fields \ {"maps", "insts"} : u[x] = o[x]
      /\ u.maps = [k \in DOMAIN o.maps |-> NoFd]
      /\ u.insts = [p \in DOMAIN o.insts |-> <<>>]
  BY <1>1 DEF Unloaded, Fields
<1>3. /\ u.file = o.file /\ u.btf = o.btf /\ u.loaded = o.loaded
      /\ u.imm = o.imm /\ u.prep = o.prep
  BY <1>2 DEF Fields
<1> HIDE DEF u
<1>4. /\ DOMAIN o.maps = DOMAIN o.file.maps /\ DOMAIN o.insts = DOMAIN o.file.progs
      /\ NoFd \in NFds
  BY DEF Shape, NFds
<1>5. /\ u.maps \in [DOMAIN u.file.maps -> NFds]
      /\ u.insts \in [DOMAIN u.file.progs -> Seq(NFds)]
  BY <1>2, <1>3, <1>4
<1>6. Shape(u)
  BY <1>2, <1>3, <1>5 DEF Shape
<1> QED BY <1>2, <1>6 DEF u

\* What a step that sets one thing of an object makes of it
Prepared(o, p)    == [o EXCEPT !.insts = [o.insts EXCEPT ![p] = <<NoFd, NoFd>>],
                               !.prep  = [o.prep EXCEPT ![p] = TRUE]]
Begun(o)          == [o EXCEPT !.loaded = TRUE]
WithMap(o, k, d)  == [o EXCEPT !.maps = [o.maps EXCEPT ![k] = d]]
WithProg(o, p, s) == [o EXCEPT !.insts = [o.insts EXCEPT ![p] = s]]
Patched(o)        == [o EXCEPT !.imm = [p \in DOMAIN o.file.progs |->
                        [j \in DOMAIN o.file.progs[p].relocs |->
                          o.maps[MapIndex(o.file, o.file.progs[p].relocs[j])]]]]

LEMMA FieldChange ==
  ASSUME NEW o, DOMAIN o = Fields, NEW x \in Fields, NEW v
  PROVE  /\ DOMAIN [o EXCEPT ![x] = v] = Fields
         /\ [o EXCEPT ![x] = v][x] = v
         /\ \A y \in Fields \ {x} : [o EXCEPT ![x] = v][y] = o[y]
OBVIOUS

LEMMA PreparedShape ==
  ASSUME NEW o, Shape(o), NEW p \in DOMAIN o.insts
  PROVE  /\ Shape(Prepared(o, p))
         /\ \A x \in Fields \ {"prep", "insts"} : Prepared(o, p)[x] = o[x]
         /\ Prepared(o, p).insts = [o.insts EXCEPT ![p] = <<NoFd, NoFd>>]
<1> DEFINE v  == [o.insts EXCEPT ![p] = <<NoFd, NoFd>>]
           w  == [o.prep EXCEPT ![p] = TRUE]
           u1 == [o EXCEPT !["insts"] = v]
           u  == [u1 EXCEPT !["prep"] = w]
<1>1. u = Prepared(o, p)
  BY DEF Prepared
<1>2. /\ DOMAIN o = Fields /\ o.insts \in [DOMAIN o.file.progs -> Seq(NFds)]
      /\ o.prep \in [DOMAIN o.file.progs -> BOOLEAN]
  BY DEF Shape
<1>3. v \in [DOMAIN o.file.progs -> Seq(NFds)]
  <2>1. <<NoFd, NoFd>> \in Seq(NFds)
    BY DEF NFds
  <2> QED BY <1>2, <2>1
<1>4. w \in [DOMAIN o.file.progs -> BOOLEAN]
  BY <1>2
<1>5. "insts" \in Fields /\ "prep" \in Fields /\ "insts" # "prep"
  BY DEF Fields
<1> HIDE DEF v, w
<1>6. /\ DOMAIN u1 = Fields /\ u1["insts"] = v
      /\ \A y \in Fields \ {"insts"} : u1[y] = o[y]
  BY <1>2, <1>5, FieldChange
<1> HIDE DEF u1
<1>7. /\ DOMAIN u = Fields /\ u["prep"] = w
      /\ \A y \in Fields \ {"prep"} : u[y] = u1[y]
  BY <1>6, <1>5, FieldChange
<1> HIDE DEF u
<1>8. /\ u.insts = v /\ u.prep = w /\ \A x \in Fields \ {"prep", "insts"} : u[x] = o[x]
  BY <1>5, <1>6, <1>7
<1>9. u.file = o.file /\ u.btf = o.btf /\ u.loaded = o.loaded /\ u.maps = o.maps /\ u.imm = o.imm
  BY <1>8 DEF Fields
<1>10. Shape(u)
  BY <1>3, <1>4, <1>7, <1>8, <1>9 DEF Shape
<1> QED BY <1>1, <1>8, <1>10 DEF v

LEMMA BegunShape ==
  ASSUME NEW o, Shape(o)
  PROVE  /\ Shape(Begun(o)) /\ Begun(o).loaded = TRUE
         /\ \A x \in Fields \ {"loaded"} : Begun(o)[x] = o[x]
<1> DEFINE u == [o EXCEPT !["loaded"] = TRUE]
<1>1. u = Begun(o)
  BY DEF Begun
<1>2. /\ DOMAIN u = Fields /\ u["loaded"] = TRUE
      /\ \A y \in Fields \ {"loaded"} : u[y] = o[y]
  BY FieldChange DEF Shape, Fields
<1> HIDE DEF u
<1>3. u.file = o.file /\ u.btf = o.btf /\ u.maps = o.maps /\ u.imm = o.imm
      /\ u.prep = o.prep /\ u.insts = o.insts
  BY <1>2 DEF Fields
<1>4. Shape(u)
  BY <1>2, <1>3 DEF Shape
<1> QED BY <1>1, <1>2, <1>4

LEMMA WithMapShape ==
  ASSUME NEW o, Shape(o), NEW k, NEW d \in NFds
  PROVE  /\ Shape(WithMap(o, k, d)) /\ WithMap(o, k, d).maps = [o.maps EXCEPT ![k] = d]
         /\ \A x \in Fields \ {"maps"} : WithMap(o, k, d)[x] = o[x]
<1> DEFINE v == [o.maps EXCEPT ![k] = d]
           u == [o EXCEPT !["maps"] = v]
<1>1. u = WithMap(o, k, d)
  BY DEF WithMap
<1>2. v \in [DOMAIN o.file.maps -> NFds]
  BY DEF Shape
<1> HIDE DEF v
<1>3. /\ DOMAIN u = Fields /\ u["maps"] = v
      /\ \A y \in Fields \ {"maps"} : u[y] = o[y]
  BY FieldChange DEF Shape, Fields
<1> HIDE DEF u
<1>4. u.file = o.file /\ u.btf = o.btf /\ u.loaded = o.loaded /\ u.imm = o.imm
      /\ u.prep = o.prep /\ u.insts = o.insts
  BY <1>3 DEF Fields
<1>5. Shape(u)
  BY <1>2, <1>3, <1>4 DEF Shape
<1> QED BY <1>1, <1>3, <1>5 DEF v

LEMMA WithProgShape ==
  ASSUME NEW o, Shape(o), NEW p, NEW s \in Seq(NFds)
  PROVE  /\ Shape(WithProg(o, p, s)) /\ WithProg(o, p, s).insts = [o.insts EXCEPT ![p] = s]
         /\ \A x \in Fields \ {"insts"} : WithProg(o, p, s)[x] = o[x]
<1> DEFINE v == [o.insts EXCEPT ![p] = s]
           u == [o EXCEPT !["insts"] = v]
<1>1. u = WithProg(o, p, s)
  BY DEF WithProg
<1>2. v \in [DOMAIN o.file.progs -> Seq(NFds)]
  BY DEF Shape
<1> HIDE DEF v
<1>3. /\ DOMAIN u = Fields /\ u["insts"] = v
      /\ \A y \in Fields \ {"insts"} : u[y] = o[y]
  BY FieldChange DEF Shape, Fields
<1> HIDE DEF u
<1>4. u.file = o.file /\ u.btf = o.btf /\ u.loaded = o.loaded /\ u.imm = o.imm
      /\ u.prep = o.prep /\ u.maps = o.maps
  BY <1>3 DEF Fields
<1>5. Shape(u)
  BY <1>2, <1>3, <1>4 DEF Shape
<1> QED BY <1>1, <1>3, <1>5 DEF v

LEMMA PatchedShape ==
  ASSUME NEW o, Shape(o)
  PROVE  /\ Shape(Patched(o))
         /\ \A p \in DOMAIN o.file.progs :
              Patched(o).imm[p] = [j \in DOMAIN o.file.progs[p].relocs |->
                                    o.maps[MapIndex(o.file, o.file.progs[p].relocs[j])]]
         /\ \A x \in Fields \ {"imm"} : Patched(o)[x] = o[x]
<1> DEFINE v == [p \in DOMAIN o.file.progs |->
                  [j \in DOMAIN o.file.progs[p].relocs |->
                    o.maps[MapIndex(o.file, o.file.progs[p].relocs[j])]]]
           u == [o EXCEPT !["imm"] = v]
<1>1. u = Patched(o)
  BY DEF Patched
<1>2. DOMAIN v = DOMAIN o.file.progs
  OBVIOUS
<1>3. \A p \in DOMAIN o.file.progs :
        v[p] = [j \in DOMAIN o.file.progs[p].relocs |->
                 o.maps[MapIndex(o.file, o.file.progs[p].relocs[j])]]
  OBVIOUS
<1> HIDE DEF v
<1>4. /\ DOMAIN u = Fields /\ u["imm"] = v
      /\ \A y \in Fields \ {"imm"} : u[y] = o[y]
  BY FieldChange DEF Shape, Fields
<1> HIDE DEF u
<1>5. u.file = o.file /\ u.btf = o.btf /\ u.loaded = o.loaded /\ u.maps = o.maps
      /\ u.prep = o.prep /\ u.insts = o.insts
  BY <1>4 DEF Fields
<1>6. Shape(u)
  BY <1>2, <1>4, <1>5 DEF Shape
<1> QED BY <1>1, <1>3, <1>4, <1>6

-----------------------------------------------------------------------------
(***************************************************************************)
(* What each step does, as far as the invariants care.                     *)
(***************************************************************************)

Kinds == {"free", "elf", "btf", "map", "prog"}

\* One object becomes another, or none.
LEMMA ObjectBecomes ==
  ASSUME TypeInv, NEW h \in Handles, NEW o, obj' = [obj EXCEPT ![h] = o],
         Shape(o) \/ o = Closed \/ o = Garbage
  PROVE  /\ DOMAIN obj' = Handles /\ obj'[h] = o
         /\ \A g \in Handles \ {h} : obj'[g] = obj[g]
         /\ \A g \in Handles : IsOpen(g)' => Shape(obj'[g])
         /\ \A g \in Handles \ {h} : IsOpen(g)' <=> IsOpen(g)
         /\ IsOpen(h)' <=> Shape(o)
<1>1. /\ DOMAIN obj' = Handles /\ obj'[h] = o
      /\ \A g \in Handles \ {h} : obj'[g] = obj[g]
  BY DEF TypeInv
<1>2. Shape(o) => o # Closed /\ o # Garbage
  BY ShapeIsOpen
<1>3. IsOpen(h)' <=> Shape(o)
  BY <1>1, <1>2 DEF IsOpen
<1>4. \A g \in Handles \ {h} : IsOpen(g)' <=> IsOpen(g)
  BY <1>1 DEF IsOpen
<1> QED BY <1>1, <1>3, <1>4 DEF TypeInv

\* A free descriptor is opened.
LEMMA Opens ==
  ASSUME TypeInv, NEW d \in Fds, NEW x, fdTable' = [fdTable EXCEPT ![d] = x], x.kind \in Kinds
  PROVE  /\ DOMAIN fdTable' = Fds /\ fdTable'[d] = x
         /\ \A e \in Fds \ {d} : fdTable'[e] = fdTable[e]
         /\ \A e \in Fds : fdTable'[e].kind \in Kinds
BY DEF TypeInv, Kinds

\* Descriptors are closed.
LEMMA Shuts ==
  ASSUME TypeInv, NEW D, fdTable' = Shut(fdTable, D)
  PROVE  /\ DOMAIN fdTable' = Fds
         /\ \A e \in Fds : fdTable'[e] = IF e \in D THEN Free ELSE fdTable[e]
         /\ \A e \in Fds : fdTable'[e].kind \in Kinds
BY DEF TypeInv, Kinds, Shut, Free

LEMMA NewCallEffect ==
  ASSUME TypeInv, NewCall
  PROVE  call = NoCall /\ calls' = calls + 1 /\ calls' \in 0..MaxCalls
BY DEF NewCall, TypeInv

LEMMA OpenedEffect ==
  ASSUME TypeInv, NEW h \in Handles, NEW f \in Files, Opened(h, f)
  PROVE  /\ obj[h] = Closed /\ NewCall
         /\ \E b \in NFds :
              /\ obj' = [obj EXCEPT ![h] = NewObject(f, b)]
              /\ Shape(NewObject(f, b))
              /\ \/ b = NoFd /\ fdTable' = fdTable
                 \/ /\ b \in Fds /\ fdTable[b] = Free
                    /\ fdTable' = [fdTable EXCEPT ![b] = [kind |-> "btf"]]
<1> DEFINE e == LowestFree(fdTable)
           t == [fdTable EXCEPT ![e] = [kind |-> "elf"]]
           b == LowestFree(t)
<1>1. /\ obj[h] = Closed /\ NewCall /\ Resolves(f) /\ ~Full(fdTable)
      /\ \/ /\ ~Full(t)
            /\ fdTable' = [t EXCEPT ![e] = Free, ![b] = [kind |-> "btf"]]
            /\ obj' = [obj EXCEPT ![h] = NewObject(f, b)]
         \/ /\ obj' = [obj EXCEPT ![h] = NewObject(f, NoFd)]
            /\ fdTable' = fdTable
  BY DEF Opened
<1>2. e \in Fds /\ fdTable[e] = Free
  BY <1>1, LowestIsFree
<1>3. ASSUME ~Full(t), fdTable' = [t EXCEPT ![e] = Free, ![b] = [kind |-> "btf"]]
      PROVE  /\ b \in Fds /\ fdTable[b] = Free
             /\ fdTable' = [fdTable EXCEPT ![b] = [kind |-> "btf"]]
  <2>1. b \in Fds /\ t[b] = Free
    <3> HIDE DEF t
    <3> QED BY <1>3, LowestIsFree
  <2>2. t[e].kind = "elf" /\ Free.kind = "free"
    BY <1>2 DEF TypeInv, Free
  <2>3. b # e
    BY <2>1, <2>2
  <2>4. DOMAIN fdTable = Fds /\ fdTable[b] = Free
    BY <2>1, <2>3 DEF TypeInv
  <2> HIDE DEF b, e
  <2>5. [t EXCEPT ![e] = Free, ![b] = [kind |-> "btf"]] = [fdTable EXCEPT ![b] = [kind |-> "btf"]]
    BY <1>2, <2>3, <2>4
  <2> QED BY <1>3, <2>1, <2>4, <2>5
<1>4. NoFd \in NFds /\ (b \in Fds => b \in NFds)
  BY DEF NFds
<1>5. \A c \in NFds : Shape(NewObject(f, c))
  BY <1>1, NewShape
<1> HIDE DEF b, e, t
<1> QED BY <1>1, <1>3, <1>4, <1>5

LEMMA SetPrepEffect ==
  ASSUME TypeInv, NEW h \in Handles, NEW p \in ProgsOf(h), SetPrep(h, p)
  PROVE  /\ IsOpen(h) /\ NewCall /\ p \in DOMAIN obj[h].insts /\ obj[h].insts[p] = <<>>
         /\ obj' = [obj EXCEPT ![h] = Prepared(obj[h], p)]
         /\ UNCHANGED <<fdTable, call, dirs, pins>>
<1>1. IsOpen(h) /\ p \in DOMAIN obj[h].insts
  BY DEF ProgsOf
<1> QED BY <1>1 DEF SetPrep, Prepared

LEMMA CreateMapEffect ==
  ASSUME TypeInv, CreateMap
  PROVE  LET h == call.h
             o == obj[h]
         IN /\ call.op = "maps" /\ UNCHANGED <<dirs, pins, calls>>
            /\ \/ /\ call.at \in DOMAIN o.maps
                  /\ call' = [call EXCEPT !.at = @ + 1]
                  /\ \E d \in Fds :
                       /\ fdTable[d] = Free
                       /\ fdTable' = [fdTable EXCEPT ![d] = KernelMap(Sorted(o.file)[call.at])]
                       /\ obj' = [obj EXCEPT ![h] = WithMap(o, call.at, d)]
               \/ /\ call.at \notin DOMAIN o.maps
                  /\ call' = [call EXCEPT !.op = "relocate"]
                  /\ UNCHANGED <<fdTable, obj>>
<1>1. ~Full(fdTable) => LowestFree(fdTable) \in Fds /\ fdTable[LowestFree(fdTable)] = Free
  BY LowestIsFree
<1> QED BY <1>1 DEF CreateMap, WithMap

LEMMA RelocateEffect ==
  ASSUME TypeInv, Relocate
  PROVE  /\ call.op = "relocate" /\ UNCHANGED <<fdTable, dirs, pins, calls>>
         /\ call' = [call EXCEPT !.op = "progs", !.at = <<NextProg(obj[call.h].file, 0), 1>>]
         /\ obj' = [obj EXCEPT ![call.h] = Patched(obj[call.h])]
BY DEF Relocate, Patched

Slots(o, p) == IF o.insts[p] = <<>> THEN <<NoFd>> ELSE o.insts[p]

LEMMA SlotsShape ==
  ASSUME NEW o, Shape(o), NEW p \in DOMAIN o.insts
  PROVE  Slots(o, p) \in Seq(NFds) /\ Len(Slots(o, p)) \in Nat \ {0}
<1>1. o.insts[p] \in Seq(NFds)
  BY DEF Shape
<1>2. <<NoFd>> \in Seq(NFds) /\ Len(<<NoFd>>) = 1
  BY DEF NFds
<1>3. o.insts[p] # <<>> => Len(o.insts[p]) \in Nat \ {0}
  BY <1>1
<1> QED BY <1>1, <1>2, <1>3 DEF Slots

LEMMA SlotSet ==
  ASSUME NEW s \in Seq(NFds), NEW i, NEW d \in Fds
  PROVE  /\ [s EXCEPT ![i] = d] \in Seq(NFds)
         /\ DOMAIN [s EXCEPT ![i] = d] = DOMAIN s
         /\ Len([s EXCEPT ![i] = d]) = Len(s)
<1>1. Len(s) \in Nat /\ DOMAIN s = 1..Len(s) /\ \A k \in 1..Len(s) : s[k] \in NFds
  OBVIOUS
<1>2. d \in NFds
  BY DEF NFds
<1> DEFINE t == [s EXCEPT ![i] = d]
<1>3. t \in [1..Len(s) -> NFds]
  BY <1>1, <1>2
<1>4. \A n \in Nat : \A g \in [1..n -> NFds] : g \in Seq(NFds) /\ Len(g) = n
  OBVIOUS
<1> QED BY <1>1, <1>3, <1>4

LEMMA LoadInstanceEffect ==
  ASSUME TypeInv, LoadInstance
  PROVE  LET h == call.h
             o == obj[h]
             p == call.at[1]
             i == call.at[2]
         IN /\ call.op = "progs" /\ UNCHANGED <<dirs, pins, calls>>
            /\ p \in DOMAIN o.insts
            /\ call' = [call EXCEPT !.at = IF i < Len(Slots(o, p)) THEN <<p, i + 1>>
                                           ELSE <<NextProg(o.file, p), 1>>]
            /\ \/ \E d \in Fds :
                    /\ fdTable[d] = Free
                    /\ fdTable' = [fdTable EXCEPT ![d] = KernelProg(o.file, p, o.imm[p])]
                    /\ obj' = [obj EXCEPT ![h] = WithProg(o, p, [Slots(o, p) EXCEPT ![i] = d])]
               \/ /\ o.insts[p] # <<>>
                  /\ UNCHANGED <<fdTable, obj>>
<1>1. ~Full(fdTable) => LowestFree(fdTable) \in Fds /\ fdTable[LowestFree(fdTable)] = Free
  BY LowestIsFree
<1> QED BY <1>1 DEF LoadInstance, WithProg, Slots

LEMMA FailLoadEffect ==
  ASSUME TypeInv, FailLoad
  PROVE  LET h == call.h
             o == obj[h]
         IN /\ call.op \in {"maps", "relocate", "progs"} /\ call' = NoCall
            /\ UNCHANGED <<dirs, pins, calls>>
            /\ \/ /\ fdTable' = Shut(fdTable, FdsOf(o) \cup BtfFd(o))
                  /\ obj' = [obj EXCEPT ![h] = Closed]
               \/ /\ fdTable' = Shut(fdTable, FdsOf(o))
                  /\ obj' = [obj EXCEPT ![h] = Unloaded(o)]
<1>1. FdsOf(obj[call.h]) \cup {} = FdsOf(obj[call.h])
  OBVIOUS
<1> QED BY <1>1 DEF FailLoad

LEMMA NextTypeInv ==
  ASSUME TypeInv, [Next]_vars
  PROVE  TypeInv'
<1> USE DEF Kinds
<1>1. ASSUME NEW f \in Files, OpenNotElf(f) PROVE TypeInv'
  <2>1. PICK d \in Fds : fdTable' = [fdTable EXCEPT ![d] = [kind |-> "elf"]]
    BY <1>1, LowestIsFree DEF OpenNotElf
  <2>2. DOMAIN fdTable' = Fds /\ \A e \in Fds : fdTable'[e].kind \in Kinds
    BY <2>1, Opens
  <2>3. calls' \in 0..MaxCalls /\ UNCHANGED <<obj, call, dirs, pins>>
    BY <1>1, NewCallEffect DEF OpenNotElf
  <2> QED BY <2>2, <2>3 DEF TypeInv, CallShape, IsOpen
<1>2. ASSUME NEW h \in Handles, NEW f \in Files, OpenBadStrtab(h, f) PROVE TypeInv'
  <2>1. obj' = [obj EXCEPT ![h] = Garbage] /\ calls' \in 0..MaxCalls /\ call = NoCall
        /\ UNCHANGED <<fdTable, call, dirs, pins>>
    BY <1>2, NewCallEffect DEF OpenBadStrtab
  <2>2. DOMAIN obj' = Handles /\ \A g \in Handles : IsOpen(g)' => Shape(obj'[g])
    BY <2>1, ObjectBecomes
  <2> QED BY <2>1, <2>2 DEF TypeInv, CallShape, NoCall
<1>3. ASSUME NEW h \in Handles, NEW f \in Files, Opened(h, f), UNCHANGED <<dirs, pins>>,
             call' = call \/ call' = [op |-> "load", h |-> h, closes |-> TRUE]
      PROVE  TypeInv'
  <2>1. PICK b \in NFds :
              /\ obj' = [obj EXCEPT ![h] = NewObject(f, b)]
              /\ Shape(NewObject(f, b))
              /\ \/ b = NoFd /\ fdTable' = fdTable
                 \/ /\ b \in Fds /\ fdTable[b] = Free
                    /\ fdTable' = [fdTable EXCEPT ![b] = [kind |-> "btf"]]
    BY <1>3, OpenedEffect
  <2>2. call = NoCall /\ calls' \in 0..MaxCalls
    BY <1>3, OpenedEffect, NewCallEffect
  <2>3. DOMAIN obj' = Handles /\ (\A g \in Handles : IsOpen(g)' => Shape(obj'[g])) /\ IsOpen(h)'
    BY <2>1, ObjectBecomes
  <2>4. DOMAIN fdTable' = Fds /\ \A e \in Fds : fdTable'[e].kind \in Kinds
    <3>1. CASE b \in Fds /\ fdTable' = [fdTable EXCEPT ![b] = [kind |-> "btf"]]
      BY <3>1, Opens
    <3>2. CASE fdTable' = fdTable
      BY <3>2 DEF TypeInv
    <3> QED BY <2>1, <3>1, <3>2
  <2>5. CallShape'
    BY <1>3, <2>2, <2>3 DEF CallShape, NoCall, IsOpen
  <2> QED BY <1>3, <2>2, <2>3, <2>4, <2>5 DEF TypeInv
<1>4. ASSUME NEW h \in Handles, NEW p \in ProgsOf(h), SetPrep(h, p) PROVE TypeInv'
  <2>1. /\ IsOpen(h) /\ NewCall /\ p \in DOMAIN obj[h].insts
        /\ obj' = [obj EXCEPT ![h] = Prepared(obj[h], p)]
        /\ UNCHANGED <<fdTable, call, dirs, pins>>
    BY <1>4, SetPrepEffect
  <2>2. Shape(Prepared(obj[h], p))
    BY <2>1, PreparedShape DEF TypeInv
  <2>3. DOMAIN obj' = Handles /\ \A g \in Handles : IsOpen(g)' => Shape(obj'[g])
    BY <2>1, <2>2, ObjectBecomes
  <2>4. call = NoCall /\ calls' \in 0..MaxCalls
    BY <2>1, NewCallEffect
  <2> QED BY <2>1, <2>3, <2>4 DEF TypeInv, CallShape, NoCall
<1>5. ASSUME NEW h \in Handles, Load(h) PROVE TypeInv'
  <2>1. call' = [op |-> "load", h |-> h, closes |-> FALSE] /\ IsOpen(h)
        /\ UNCHANGED <<fdTable, obj, dirs, pins>> /\ calls' \in 0..MaxCalls
    BY <1>5, NewCallEffect DEF Load
  <2>2. CallShape'
    BY <2>1 DEF CallShape, IsOpen
  <2> QED BY <2>1, <2>2 DEF TypeInv, IsOpen
<1>6. ASSUME NEW h \in Handles, NEW path \in Paths, Pin(h, path) PROVE TypeInv'
  <2>1. call' = [op |-> "pin", h |-> h, path |-> path, at |-> <<1, 1>>] /\ IsOpen(h)
        /\ dirs' = dirs \cup {path}
        /\ UNCHANGED <<fdTable, obj, pins>> /\ calls' \in 0..MaxCalls
    BY <1>6, NewCallEffect DEF Pin
  <2>2. CallShape'
    BY <2>1 DEF CallShape, IsOpen
  <2> QED BY <2>1, <2>2 DEF TypeInv, IsOpen
<1>7. ASSUME NEW h \in Handles, Unload(h) \/ Close(h) PROVE TypeInv'
  <2>1. /\ UNCHANGED <<call, dirs, pins>> /\ calls' \in 0..MaxCalls /\ call = NoCall /\ IsOpen(h)
        /\ \E D : fdTable' = Shut(fdTable, D)
        /\ \E o : (o = Unloaded(obj[h]) \/ o = Closed) /\ obj' = [obj EXCEPT ![h] = o]
    BY <1>7, NewCallEffect DEF Unload, Close
  <2>2. Shape(Unloaded(obj[h]))
    BY <2>1, UnloadedShape DEF TypeInv
  <2>3. DOMAIN obj' = Handles /\ \A g \in Handles : IsOpen(g)' => Shape(obj'[g])
    BY <2>1, <2>2, ObjectBecomes
  <2>4. DOMAIN fdTable' = Fds /\ \A e \in Fds : fdTable'[e].kind \in Kinds
    BY <2>1, Shuts
  <2> QED BY <2>1, <2>3, <2>4 DEF TypeInv, CallShape, NoCall
<1>8. CASE BeginLoad
  <2>1. /\ call.op = "load" /\ UNCHANGED <<fdTable, dirs, pins, calls>>
        /\ call.h \in Handles /\ IsOpen(call.h) /\ Shape(obj[call.h])
    BY <1>8 DEF BeginLoad, TypeInv, CallShape
  <2>2. CASE call' = NoCall /\ UNCHANGED obj
    BY <2>1, <2>2 DEF TypeInv, CallShape, NoCall, IsOpen
  <2>3. CASE /\ obj' = [obj EXCEPT ![call.h] = Begun(obj[call.h])]
             /\ call' = [op |-> "maps", h |-> call.h, closes |-> call.closes, at |-> 1]
    <3>1. /\ DOMAIN obj' = Handles /\ \A g \in Handles : IsOpen(g)' => Shape(obj'[g])
          /\ IsOpen(call.h)'
      BY <2>1, <2>3, BegunShape, ObjectBecomes
    <3>2. call'.op = "maps" /\ call'.h = call.h /\ DOMAIN call' = {"op", "h", "closes", "at"}
      BY <2>3
    <3>3. CallShape'
      BY <2>1, <3>1, <3>2 DEF CallShape, IsOpen
    <3> QED BY <2>1, <3>1, <3>3 DEF TypeInv
  <2> QED BY <1>8, <2>2, <2>3 DEF BeginLoad, Begun
<1>9. CASE FailLoad
  <2>1. /\ call' = NoCall /\ UNCHANGED <<dirs, pins, calls>>
        /\ call.h \in Handles /\ IsOpen(call.h) /\ Shape(obj[call.h])
        /\ \E D : fdTable' = Shut(fdTable, D)
        /\ \E o : (o = Unloaded(obj[call.h]) \/ o = Closed) /\ obj' = [obj EXCEPT ![call.h] = o]
    BY <1>9, FailLoadEffect DEF TypeInv, CallShape
  <2>2. Shape(Unloaded(obj[call.h]))
    BY <2>1, UnloadedShape
  <2>3. DOMAIN obj' = Handles /\ \A g \in Handles : IsOpen(g)' => Shape(obj'[g])
    BY <2>1, <2>2, ObjectBecomes
  <2>4. DOMAIN fdTable' = Fds /\ \A e \in Fds : fdTable'[e].kind \in Kinds
    BY <2>1, Shuts
  <2> QED BY <2>1, <2>3, <2>4 DEF TypeInv, CallShape, NoCall
<1>10. CASE CreateMap
  <2> DEFINE h == call.h
             o == obj[h]
  <2>1. /\ call.op = "maps" /\ h \in Handles /\ IsOpen(h) /\ Shape(o)
        /\ DOMAIN call = {"op", "h", "closes", "at"} /\ UNCHANGED <<dirs, pins, calls>>
    BY <1>10, CreateMapEffect DEF TypeInv, CallShape
  <2>2. CASE call' = [call EXCEPT !.op = "relocate"] /\ UNCHANGED <<fdTable, obj>>
    BY <2>1, <2>2 DEF TypeInv, CallShape, IsOpen
  <2>3. ASSUME NEW d \in Fds, call' = [call EXCEPT !.at = @ + 1],
               fdTable' = [fdTable EXCEPT ![d] = KernelMap(Sorted(o.file)[call.at])],
               obj' = [obj EXCEPT ![h] = WithMap(o, call.at, d)]
        PROVE  TypeInv'
    <3>1. Shape(WithMap(o, call.at, d))
      BY <2>1, WithMapShape DEF NFds
    <3>2. /\ DOMAIN obj' = Handles /\ \A g \in Handles : IsOpen(g)' => Shape(obj'[g])
          /\ IsOpen(h)'
      BY <2>1, <2>3, <3>1, ObjectBecomes
    <3>3. DOMAIN fdTable' = Fds /\ \A e \in Fds : fdTable'[e].kind \in Kinds
      BY <2>3, Opens DEF KernelMap
    <3>4. call'.op = "maps" /\ call'.h = h /\ DOMAIN call' = {"op", "h", "closes", "at"}
      BY <2>1, <2>3
    <3>5. CallShape'
      BY <2>1, <3>2, <3>4 DEF CallShape, IsOpen
    <3> QED BY <2>1, <3>2, <3>3, <3>5 DEF TypeInv
  <2> QED BY <1>10, <2>2, <2>3, CreateMapEffect
<1>11. CASE Relocate
  <2> DEFINE h == call.h
             o == obj[h]
  <2>1. /\ call.op = "relocate" /\ h \in Handles /\ IsOpen(h) /\ Shape(o)
        /\ DOMAIN call = {"op", "h", "closes", "at"} /\ UNCHANGED <<fdTable, dirs, pins, calls>>
        /\ call' = [call EXCEPT !.op = "progs", !.at = <<NextProg(o.file, 0), 1>>]
        /\ obj' = [obj EXCEPT ![h] = Patched(o)]
    BY <1>11, RelocateEffect DEF TypeInv, CallShape
  <2>2. /\ DOMAIN obj' = Handles /\ \A g \in Handles : IsOpen(g)' => Shape(obj'[g])
        /\ IsOpen(h)'
    BY <2>1, PatchedShape, ObjectBecomes
  <2>3. call'.op = "progs" /\ call'.h = h /\ DOMAIN call' = {"op", "h", "closes", "at"}
    BY <2>1
  <2>4. CallShape'
    BY <2>1, <2>2, <2>3 DEF CallShape, IsOpen
  <2> QED BY <2>1, <2>2, <2>4 DEF TypeInv
<1>12. CASE LoadInstance
  <2> DEFINE h == call.h
             o == obj[h]
             p == call.at[1]
             i == call.at[2]
  <2>1. /\ call.op = "progs" /\ h \in Handles /\ IsOpen(h) /\ Shape(o)
        /\ DOMAIN call = {"op", "h", "closes", "at"} /\ UNCHANGED <<dirs, pins, calls>>
        /\ p \in DOMAIN o.insts
        /\ call' = [call EXCEPT !.at = IF i < Len(Slots(o, p)) THEN <<p, i + 1>>
                                       ELSE <<NextProg(o.file, p), 1>>]
    BY <1>12, LoadInstanceEffect DEF TypeInv, CallShape
  <2>2. call'.op = "progs" /\ call'.h = h /\ DOMAIN call' = {"op", "h", "closes", "at"}
    BY <2>1
  <2>3. CASE UNCHANGED <<fdTable, obj>>
    BY <2>1, <2>2, <2>3 DEF TypeInv, CallShape, IsOpen
  <2>4. ASSUME NEW d \in Fds, fdTable' = [fdTable EXCEPT ![d] = KernelProg(o.file, p, o.imm[p])],
               obj' = [obj EXCEPT ![h] = WithProg(o, p, [Slots(o, p) EXCEPT ![i] = d])]
        PROVE  TypeInv'
    <3>1. Slots(o, p) \in Seq(NFds)
      BY <2>1, SlotsShape
    <3>2. [Slots(o, p) EXCEPT ![i] = d] \in Seq(NFds)
      BY <3>1, SlotSet
    <3>3. Shape(WithProg(o, p, [Slots(o, p) EXCEPT ![i] = d]))
      BY <2>1, <3>2, WithProgShape
    <3>4. /\ DOMAIN obj' = Handles /\ \A g \in Handles : IsOpen(g)' => Shape(obj'[g])
          /\ IsOpen(h)'
      BY <2>1, <2>4, <3>3, ObjectBecomes
    <3>5. DOMAIN fdTable' = Fds /\ \A e \in Fds : fdTable'[e].kind \in Kinds
      BY <2>4, Opens DEF KernelProg
    <3>6. CallShape'
      BY <2>1, <2>2, <3>4 DEF CallShape, IsOpen
    <3> QED BY <2>1, <3>4, <3>5, <3>6 DEF TypeInv
  <2> QED BY <1>12, <2>3, <2>4, LoadInstanceEffect
<1>13. CASE EndLoad \/ EndPin
  <2>1. call' = NoCall /\ UNCHANGED <<fdTable, obj, dirs, pins, calls>>
    BY <1>13 DEF EndLoad, EndPin
  <2> QED BY <2>1 DEF TypeInv, CallShape, NoCall, IsOpen
<1>14. CASE PinNext
  <2>1. /\ call.op = "pin" /\ call.path \in dirs /\ call.h \in Handles
        /\ DOMAIN call = {"op", "h", "path", "at"}
        /\ \E x : x.path = call.path /\ pins' = pins \cup {x}
        /\ call' = [call EXCEPT !.at = After(obj[call.h])]
        /\ UNCHANGED <<fdTable, obj, dirs, calls>>
    BY <1>14 DEF PinNext, CanPin, TypeInv, CallShape
  <2>2. call'.op = "pin" /\ call'.h = call.h /\ call'.path = call.path
        /\ DOMAIN call' = {"op", "h", "path", "at"}
    BY <2>1
  <2>3. CallShape'
    BY <2>1, <2>2 DEF TypeInv, CallShape, IsOpen
  <2> QED BY <2>1, <2>3 DEF TypeInv, IsOpen
<1>15. ASSUME NEW path \in Paths, RemoveDir(path) PROVE TypeInv'
  BY <1>15 DEF RemoveDir, TypeInv, CallShape, IsOpen
<1>16. CASE Kill
  <2>1. \A h \in Handles : ~IsOpen(h)'
    BY <1>16 DEF Kill, IsOpen
  <2> QED BY <1>16, <2>1 DEF Kill, TypeInv, CallShape, NoCall, Free
<1>17. CASE UNCHANGED vars
  BY <1>17 DEF vars, TypeInv, CallShape, IsOpen
<1> QED BY <1>1, <1>2, <1>3, <1>4, <1>5, <1>6, <1>7, <1>8, <1>9, <1>10, <1>11, <1>12,
           <1>13, <1>14, <1>15, <1>16, <1>17 DEF Next, Open, ProgLoad

LEMMA TypeInvariant == Spec => []TypeInv
<1>1. Init => TypeInv
  BY DEF Init, TypeInv, CallShape, NoCall, Free, IsOpen, Closed
<1> QED BY <1>1, NextTypeInv, PTL DEF Spec

-----------------------------------------------------------------------------
(***************************************************************************)
(* The invariant.  t is what the descriptors are open on.                  *)
(***************************************************************************)

\* The object o remembers the descriptor d.
Holds(o, d) == \/ o.btf = d
               \/ \E k \in DOMAIN o.maps : o.maps[k] = d
               \/ \E p \in DOMAIN o.insts : \E i \in DOMAIN o.insts[p] : o.insts[p][i] = d

\* What it remembers is open on what it stands for.
OnRight(t, o) ==
  /\ o.btf # NoFd => t[o.btf].kind = "btf"
  /\ \A k \in DOMAIN o.maps : o.maps[k] # NoFd =>
       t[o.maps[k]].kind = "map" /\ t[o.maps[k]].offset = Sorted(o.file)[k]
  /\ \A p \in DOMAIN o.insts : \A i \in DOMAIN o.insts[p] : o.insts[p][i] # NoFd =>
       t[o.insts[p][i]].kind = "prog" /\ t[o.insts[p][i]].prog = p

\* The descriptor that the j-th relocation of section p refers to
MapAt(o, p, j) == o.maps[MapIndex(o.file, o.file.progs[p].relocs[j])]

\* Its programs work on its maps.
Linked(t, o) ==
  \A p \in DOMAIN o.insts : \A i \in DOMAIN o.insts[p] : o.insts[p][i] # NoFd =>
    /\ t[o.insts[p][i]].uses = [j \in DOMAIN o.file.progs[p].relocs |-> t[MapAt(o, p, j)]]
    /\ \A j \in DOMAIN o.file.progs[p].relocs : MapAt(o, p, j) # NoFd

NoMaps(o) == \A k \in DOMAIN o.maps : o.maps[k] = NoFd
Vacant(o) == \A p \in DOMAIN o.insts : \A i \in DOMAIN o.insts[p] : o.insts[p][i] = NoFd

\* Sections with a program, up to n
HasProgs(o, n) == \A p \in DOMAIN o.insts : p < n /\ ~o.file.progs[p].text => o.insts[p] # <<>>

\* An object no load is working on: untouched, emptied, or complete
Settled(o) ==
  /\ ~o.loaded => NoMaps(o) /\ Vacant(o)
  /\ \/ NoMaps(o) /\ Vacant(o)
     \/ /\ \A k \in DOMAIN o.maps : o.maps[k] # NoFd
        /\ HasProgs(o, Len(o.file.progs) + 1)

\* The k-th map was made in the call numbered n.
Fresh(t, n, o, k) ==
  /\ o.maps[k] # NoFd
  /\ t[o.maps[k]] = [kind |-> "map", offset |-> Sorted(o.file)[k], age |-> n]

\* An object a load, the call c, is working on
Stage(t, n, c, o) ==
  /\ o.loaded
  /\ c.op = "maps" =>
       /\ c.at \in 1..(Len(o.file.maps) + 1)
       /\ \A k \in DOMAIN o.maps : IF k < c.at THEN Fresh(t, n, o, k) ELSE o.maps[k] = NoFd
       /\ Vacant(o)
  /\ c.op \in {"relocate", "progs"} => \A k \in DOMAIN o.maps : Fresh(t, n, o, k)
  /\ c.op = "relocate" => Vacant(o)
  /\ c.op = "progs" =>
       /\ c.at[1] \in 1..(Len(o.file.progs) + 1) /\ c.at[2] \in Nat
       /\ \A p \in DOMAIN o.file.progs :
            o.imm[p] = [j \in DOMAIN o.file.progs[p].relocs |-> MapAt(o, p, j)]
       /\ \A p \in DOMAIN o.insts : \A i \in DOMAIN o.insts[p] :
            p > c.at[1] \/ (p = c.at[1] /\ i >= c.at[2]) => o.insts[p][i] = NoFd
       /\ c.at[1] \in DOMAIN o.insts => c.at[2] \in DOMAIN Slots(o, c.at[1])
       /\ HasProgs(o, c.at[1])

Loading(h) == call.op \in {"maps", "relocate", "progs"} /\ call.h = h

Sound(h) ==
  /\ OnRight(fdTable, obj[h]) /\ Linked(fdTable, obj[h])
  /\ Loading(h) => Stage(fdTable, calls, call, obj[h])
  /\ ~Loading(h) => Settled(obj[h])

ObjectInv == \A h \in Handles : IsOpen(h) => Sound(h)

\* Nothing is remembered twice, and nothing is forgotten.
OwnerInv ==
  /\ \A g, h \in Handles : g # h /\ IsOpen(g) /\ IsOpen(h) =>
       \A d \in Fds : ~(Holds(obj[g], d) /\ Holds(obj[h], d))
  /\ \A d \in Fds : fdTable[d].kind \notin {"free", "elf"} =>
       \E h \in Handles : IsOpen(h) /\ Holds(obj[h], d)

MapPin(path, t, o, k) ==
  [path |-> path, name |-> <<"map", Sorted(o.file)[k]>>, to |-> t[o.maps[k]]]

\* While an object is pinned, the files of the maps done are there, unless the
\* directory was taken away.
PinInv ==
  /\ PinnedTogether
  /\ call.op = "pin" =>
       /\ call.at[1] \in Nat \ {0}
       /\ call.path \in dirs => \A k \in DOMAIN obj[call.h].maps :
            k < call.at[1] => MapPin(call.path, fdTable, obj[call.h], k) \in pins

IInv == TypeInv /\ ObjectInv /\ OwnerInv /\ ProgramsUseOwnMaps /\ PinInv

-----------------------------------------------------------------------------
(* Facts about objects. *)

LEMMA ShapeOf ==
  ASSUME NEW o, Shape(o)
  PROVE  /\ o.btf \in NFds /\ o.file \in Files
         /\ DOMAIN o.maps = DOMAIN o.file.maps /\ DOMAIN o.insts = DOMAIN o.file.progs
         /\ \A k \in DOMAIN o.maps : o.maps[k] \in NFds
         /\ \A p \in DOMAIN o.insts : o.insts[p] \in Seq(NFds)
         /\ \A p \in DOMAIN o.insts : \A i \in DOMAIN o.insts[p] : o.insts[p][i] \in NFds
         /\ NoFd \notin Fds
<1>1. \A s \in Seq(NFds) : \A i \in DOMAIN s : s[i] \in NFds
  OBVIOUS
<1>2. NoFd \notin Fds
  BY DEF NoFd
<1> QED BY <1>1, <1>2 DEF Shape

LEMMA MapAtIsMap ==
  ASSUME NEW o, Shape(o), NEW p \in DOMAIN o.file.progs, NEW j \in DOMAIN o.file.progs[p].relocs
  PROVE  /\ MapIndex(o.file, o.file.progs[p].relocs[j]) \in DOMAIN o.maps
         /\ Sorted(o.file)[MapIndex(o.file, o.file.progs[p].relocs[j])] = o.file.progs[p].relocs[j]
         /\ MapAt(o, p, j) \in NFds
<1>1. o.file.progs[p].relocs[j] \in ToSet(o.file.progs[p].relocs)
  BY DEF ToSet
<1>2. o.file.progs[p].relocs[j] \in ToSet(o.file.maps)
  BY <1>1 DEF Shape, Resolves
<1> QED BY <1>2, SortedHas, ShapeOf DEF MapAt

LEMMA FdsOfHeld ==
  ASSUME NEW o, Shape(o)
  PROVE  \A d \in Fds :
           /\ d \in FdsOf(o) <=> \/ \E k \in DOMAIN o.maps : o.maps[k] = d
                                 \/ \E p \in DOMAIN o.insts : \E i \in DOMAIN o.insts[p] : o.insts[p][i] = d
           /\ d \in BtfFd(o) <=> o.btf = d
<1> SUFFICES ASSUME NEW d \in Fds
             PROVE  /\ d \in FdsOf(o) <=> \/ \E k \in DOMAIN o.maps : o.maps[k] = d
                                          \/ \E p \in DOMAIN o.insts : \E i \in DOMAIN o.insts[p] : o.insts[p][i] = d
                    /\ d \in BtfFd(o) <=> o.btf = d
  OBVIOUS
<1>1. d # NoFd
  BY ShapeOf
<1>2. d \in ToSet(o.maps) <=> \E k \in DOMAIN o.maps : o.maps[k] = d
  BY DEF ToSet
<1>3. d \in UNION {ToSet(o.insts[p]) : p \in DOMAIN o.insts}
        <=> \E p \in DOMAIN o.insts : \E i \in DOMAIN o.insts[p] : o.insts[p][i] = d
  BY DEF ToSet
<1> QED BY <1>1, <1>2, <1>3 DEF FdsOf, BtfFd

\* Only the descriptors it remembers matter to an object.
LEMMA SameHeld ==
  ASSUME NEW o, Shape(o), NEW t, NEW u, \A d \in Fds : Holds(o, d) => u[d] = t[d]
  PROVE  /\ OnRight(t, o) => OnRight(u, o)
         /\ Linked(t, o) => Linked(u, o)
         /\ \A n : \A k \in DOMAIN o.maps : Fresh(t, n, o, k) => Fresh(u, n, o, k)
         /\ \A n, c : Stage(t, n, c, o) => Stage(u, n, c, o)
<1>1. \A k \in DOMAIN o.maps : o.maps[k] # NoFd => u[o.maps[k]] = t[o.maps[k]]
  BY ShapeOf DEF Holds, NFds
<1>2. \A p \in DOMAIN o.insts : \A i \in DOMAIN o.insts[p] :
        o.insts[p][i] # NoFd => u[o.insts[p][i]] = t[o.insts[p][i]]
  <2> TAKE p \in DOMAIN o.insts
  <2> TAKE i \in DOMAIN o.insts[p]
  <2>1. o.insts[p][i] \in NFds /\ Holds(o, o.insts[p][i])
    BY ShapeOf DEF Holds
  <2> QED BY <2>1 DEF NFds
<1>3. o.btf # NoFd => u[o.btf] = t[o.btf]
  BY ShapeOf DEF Holds, NFds
<1>4. OnRight(t, o) => OnRight(u, o)
  BY <1>1, <1>2, <1>3 DEF OnRight
<1>5. ASSUME Linked(t, o) PROVE Linked(u, o)
  <2> SUFFICES ASSUME NEW p \in DOMAIN o.insts, NEW i \in DOMAIN o.insts[p], o.insts[p][i] # NoFd
               PROVE  /\ u[o.insts[p][i]].uses = [j \in DOMAIN o.file.progs[p].relocs |-> u[MapAt(o, p, j)]]
                      /\ \A j \in DOMAIN o.file.progs[p].relocs : MapAt(o, p, j) # NoFd
    BY DEF Linked
  <2>1. /\ t[o.insts[p][i]].uses = [j \in DOMAIN o.file.progs[p].relocs |-> t[MapAt(o, p, j)]]
        /\ \A j \in DOMAIN o.file.progs[p].relocs : MapAt(o, p, j) # NoFd
    BY <1>5 DEF Linked
  <2>2. \A j \in DOMAIN o.file.progs[p].relocs : u[MapAt(o, p, j)] = t[MapAt(o, p, j)]
    <3>1. p \in DOMAIN o.file.progs
      BY ShapeOf
    <3> TAKE j \in DOMAIN o.file.progs[p].relocs
    <3>2. MapIndex(o.file, o.file.progs[p].relocs[j]) \in DOMAIN o.maps
      BY <3>1, MapAtIsMap
    <3> QED BY <2>1, <3>2, <1>1 DEF MapAt
  <2> QED BY <2>1, <2>2, <1>2
<1>6. \A n : \A k \in DOMAIN o.maps : Fresh(t, n, o, k) => Fresh(u, n, o, k)
  BY <1>1 DEF Fresh
<1>7. \A n, c : Stage(t, n, c, o) => Stage(u, n, c, o)
  BY <1>6 DEF Stage
<1> QED BY <1>4, <1>5, <1>6, <1>7

\* A new object remembers the descriptor of its types, if any.
LEMMA NewSound ==
  ASSUME NEW f \in Files, NEW b \in NFds, Resolves(f), NEW t,
         b # NoFd => t[b].kind = "btf"
  PROVE  /\ OnRight(t, NewObject(f, b)) /\ Linked(t, NewObject(f, b)) /\ Settled(NewObject(f, b))
         /\ \A d \in Fds : Holds(NewObject(f, b), d) <=> d = b
<1> DEFINE o == NewObject(f, b)
<1>1. /\ o.file = f /\ o.btf = b /\ o.loaded = FALSE
      /\ \A k \in DOMAIN o.maps : o.maps[k] = NoFd
      /\ \A p \in DOMAIN o.insts : o.insts[p] = <<>>
  BY DEF NewObject
<1>2. \A p \in DOMAIN o.insts : \A i \in DOMAIN o.insts[p] : o.insts[p][i] = NoFd
  BY <1>1
<1>3. NoFd \notin Fds
  BY DEF NoFd
<1> HIDE DEF o
<1> QED BY <1>1, <1>2, <1>3 DEF OnRight, Linked, Settled, NoMaps, Vacant, Holds, o

\* What unloading leaves is the descriptor of the types.
LEMMA UnloadedSound ==
  ASSUME NEW o, Shape(o), NEW t, o.btf # NoFd => t[o.btf].kind = "btf"
  PROVE  /\ OnRight(t, Unloaded(o)) /\ Linked(t, Unloaded(o)) /\ Settled(Unloaded(o))
         /\ \A d \in Fds : Holds(Unloaded(o), d) <=> o.btf = d
<1> DEFINE u == Unloaded(o)
<1>1. /\ u.btf = o.btf
      /\ \A k \in DOMAIN u.maps : u.maps[k] = NoFd
      /\ \A p \in DOMAIN u.insts : u.insts[p] = <<>>
  <2>1. /\ \A x \in Fields \ {"maps", "insts"} : u[x] = o[x]
        /\ u.maps = [k \in DOMAIN o.maps |-> NoFd]
        /\ u.insts = [p \in DOMAIN o.insts |-> <<>>]
    BY UnloadedShape
  <2>2. u["btf"] = o["btf"]
    BY <2>1 DEF Fields
  <2> HIDE DEF u
  <2> QED BY <2>1, <2>2
<1>2. \A p \in DOMAIN u.insts : \A i \in DOMAIN u.insts[p] : u.insts[p][i] = NoFd
  BY <1>1
<1>3. NoFd \notin Fds
  BY DEF NoFd
<1> HIDE DEF u
<1> QED BY <1>1, <1>2, <1>3 DEF OnRight, Linked, Settled, NoMaps, Vacant, Holds, u

LEMMA PreparedHolds ==
  ASSUME NEW o, Shape(o), NEW p \in DOMAIN o.insts, o.insts[p] = <<>>, NEW t
  PROVE  /\ OnRight(t, o) => OnRight(t, Prepared(o, p))
         /\ Linked(t, o) => Linked(t, Prepared(o, p))
         /\ Settled(o) => Settled(Prepared(o, p))
         /\ \A d \in Fds : Holds(Prepared(o, p), d) <=> Holds(o, d)
<1> DEFINE u == Prepared(o, p)
<1>1. /\ \A x \in Fields \ {"prep", "insts"} : u[x] = o[x]
      /\ u.insts = [o.insts EXCEPT ![p] = <<NoFd, NoFd>>]
  BY PreparedShape
<1>2. /\ u.btf = o.btf /\ u.maps = o.maps /\ u.file = o.file /\ u.loaded = o.loaded
      /\ DOMAIN u.insts = DOMAIN o.insts /\ u.insts[p] = <<NoFd, NoFd>>
      /\ \A q \in DOMAIN o.insts \ {p} : u.insts[q] = o.insts[q]
  BY <1>1 DEF Fields
<1> HIDE DEF u
<1>3. \A i \in DOMAIN u.insts[p] : u.insts[p][i] = NoFd
  BY <1>2
<1>4. /\ u.insts[p] # <<>> /\ DOMAIN o.insts[p] = {}
      /\ \A q, j : MapAt(u, q, j) = MapAt(o, q, j)
  BY <1>2 DEF MapAt
<1>5. NoFd \notin Fds
  BY DEF NoFd
<1>6. OnRight(t, o) => OnRight(t, u)
  BY <1>2, <1>3 DEF OnRight
<1>7. ASSUME Linked(t, o) PROVE Linked(t, u)
  <2> SUFFICES ASSUME NEW q \in DOMAIN u.insts, NEW i \in DOMAIN u.insts[q], u.insts[q][i] # NoFd
               PROVE  /\ t[u.insts[q][i]].uses = [j \in DOMAIN u.file.progs[q].relocs |-> t[MapAt(u, q, j)]]
                      /\ \A j \in DOMAIN u.file.progs[q].relocs : MapAt(u, q, j) # NoFd
    BY DEF Linked
  <2>1. q # p /\ u.insts[q] = o.insts[q]
    BY <1>2, <1>3
  <2>2. /\ t[o.insts[q][i]].uses = [j \in DOMAIN o.file.progs[q].relocs |-> t[MapAt(o, q, j)]]
        /\ \A j \in DOMAIN o.file.progs[q].relocs : MapAt(o, q, j) # NoFd
    BY <1>2, <1>7, <2>1 DEF Linked
  <2> QED BY <1>2, <1>4, <2>1, <2>2
<1>8. Settled(o) => Settled(u)
  BY <1>2, <1>3, <1>4 DEF Settled, NoMaps, Vacant, HasProgs
<1>9. \A d \in Fds : Holds(u, d) <=> Holds(o, d)
  BY <1>2, <1>3, <1>4, <1>5 DEF Holds
<1> QED BY <1>6, <1>7, <1>8, <1>9 DEF u

\* The map made next has a slot that was empty.
LEMMA WithMapHolds ==
  ASSUME NEW o, Shape(o), NEW k \in DOMAIN o.maps, NEW d \in Fds, o.maps[k] = NoFd,
         Vacant(o), NEW t, OnRight(t, o),
         t[d].kind = "map", t[d].offset = Sorted(o.file)[k]
  PROVE  LET u == WithMap(o, k, d)
         IN  /\ OnRight(t, u) /\ Linked(t, u)
             /\ \A e \in Fds : Holds(u, e) <=> e = d \/ Holds(o, e)
             /\ u.file = o.file /\ u.loaded = o.loaded /\ DOMAIN u.maps = DOMAIN o.maps
             /\ u.maps[k] = d /\ \A j \in DOMAIN o.maps \ {k} : u.maps[j] = o.maps[j]
             /\ Vacant(u)
<1> DEFINE u == WithMap(o, k, d)
<1>1. /\ \A x \in Fields \ {"maps"} : u[x] = o[x]
      /\ u.maps = [o.maps EXCEPT ![k] = d] /\ d \in NFds
  BY WithMapShape DEF NFds
<1>2. /\ u.btf = o.btf /\ u.insts = o.insts /\ u.file = o.file /\ u.loaded = o.loaded
      /\ DOMAIN u.maps = DOMAIN o.maps
      /\ u.maps[k] = d /\ \A j \in DOMAIN o.maps \ {k} : u.maps[j] = o.maps[j]
  BY <1>1 DEF Fields
<1> HIDE DEF u
<1>3. NoFd \notin Fds
  BY DEF NoFd
<1>4. OnRight(t, u)
  BY <1>2 DEF OnRight
<1>5. Linked(t, u) /\ Vacant(u)
  BY <1>2 DEF Linked, Vacant
<1>6. \A e \in Fds : Holds(u, e) <=> e = d \/ Holds(o, e)
  BY <1>2, <1>3 DEF Holds
<1> QED BY <1>2, <1>4, <1>5, <1>6 DEF u

\* The program loaded next has a slot that was empty, or the first one.
LEMMA WithProgHolds ==
  ASSUME NEW o, Shape(o), NEW p \in DOMAIN o.insts, NEW i \in DOMAIN Slots(o, p), NEW d \in Fds,
         Slots(o, p)[i] = NoFd, NEW t, OnRight(t, o), Linked(t, o),
         t[d].kind = "prog", t[d].prog = p,
         t[d].uses = [j \in DOMAIN o.file.progs[p].relocs |-> t[MapAt(o, p, j)]],
         \A j \in DOMAIN o.file.progs[p].relocs : MapAt(o, p, j) # NoFd,
         NEW s \in Seq(NFds), DOMAIN s = DOMAIN Slots(o, p), Len(s) = Len(Slots(o, p)),
         s[i] = d, \A x \in DOMAIN Slots(o, p) \ {i} : s[x] = Slots(o, p)[x]
  PROVE  LET u == WithProg(o, p, s)
         IN  /\ OnRight(t, u) /\ Linked(t, u)
             /\ \A e \in Fds : Holds(u, e) <=> e = d \/ Holds(o, e)
             /\ u.file = o.file /\ u.loaded = o.loaded /\ u.maps = o.maps /\ u.imm = o.imm
             /\ DOMAIN u.insts = DOMAIN o.insts
             /\ \A q \in DOMAIN o.insts \ {p} : u.insts[q] = o.insts[q]
             /\ DOMAIN u.insts[p] = DOMAIN Slots(o, p)
             /\ u.insts[p][i] = d
             /\ \A x \in DOMAIN Slots(o, p) \ {i} : u.insts[p][x] = Slots(o, p)[x]
             /\ Len(u.insts[p]) = Len(Slots(o, p)) /\ u.insts[p] # <<>>
<1> DEFINE u == WithProg(o, p, s)
<1>1. s \in Seq(NFds) /\ DOMAIN s = DOMAIN Slots(o, p) /\ Len(s) = Len(Slots(o, p))
  OBVIOUS
<1>2. s[i] = d /\ \A x \in DOMAIN Slots(o, p) \ {i} : s[x] = Slots(o, p)[x]
  OBVIOUS
<1>3. /\ \A x \in Fields \ {"insts"} : u[x] = o[x]
      /\ u.insts = [o.insts EXCEPT ![p] = s]
  BY <1>1, WithProgShape
<1>4. /\ u.btf = o.btf /\ u.maps = o.maps /\ u.file = o.file /\ u.loaded = o.loaded /\ u.imm = o.imm
      /\ DOMAIN u.insts = DOMAIN o.insts /\ u.insts[p] = s
      /\ \A q \in DOMAIN o.insts \ {p} : u.insts[q] = o.insts[q]
  BY <1>3 DEF Fields
<1> HIDE DEF u
<1>5. NoFd \notin Fds
  BY DEF NoFd
<1>6. s # <<>>
  BY <1>1, SlotsShape
<1>7. \A x \in DOMAIN s \ {i} : s[x] # NoFd => x \in DOMAIN o.insts[p] /\ s[x] = o.insts[p][x]
  BY <1>1, <1>2 DEF Slots
<1>8. \A x \in DOMAIN o.insts[p] : x \in DOMAIN s /\ (o.insts[p][x] # NoFd => s[x] = o.insts[p][x])
  BY <1>1, <1>2 DEF Slots
<1>9. OnRight(t, u)
  BY <1>1, <1>2, <1>4, <1>7 DEF OnRight
<1>10. \A q, j : MapAt(u, q, j) = MapAt(o, q, j)
  BY <1>4 DEF MapAt
<1>11. Linked(t, u)
  <2> SUFFICES ASSUME NEW q \in DOMAIN u.insts, NEW x \in DOMAIN u.insts[q], u.insts[q][x] # NoFd
               PROVE  /\ t[u.insts[q][x]].uses = [j \in DOMAIN u.file.progs[q].relocs |-> t[MapAt(u, q, j)]]
                      /\ \A j \in DOMAIN u.file.progs[q].relocs : MapAt(u, q, j) # NoFd
    BY DEF Linked
  <2>1. CASE q = p /\ x = i
    <3>1. u.insts[q][x] = d /\ u.file = o.file
      BY <2>1, <1>2, <1>4
    <3> QED BY <3>1, <2>1, <1>10
  <2>2. CASE ~(q = p /\ x = i)
    <3>1. q \in DOMAIN o.insts /\ x \in DOMAIN o.insts[q] /\ u.insts[q][x] = o.insts[q][x]
      BY <2>2, <1>1, <1>4, <1>7
    <3>2. /\ t[o.insts[q][x]].uses = [j \in DOMAIN o.file.progs[q].relocs |-> t[MapAt(o, q, j)]]
          /\ \A j \in DOMAIN o.file.progs[q].relocs : MapAt(o, q, j) # NoFd
      BY <3>1 DEF Linked
    <3> QED BY <1>4, <1>10, <3>1, <3>2
  <2> QED BY <2>1, <2>2
<1>12. \A e \in Fds : Holds(u, e) <=> e = d \/ Holds(o, e)
  <2> TAKE e \in Fds
  <2>1. e # NoFd /\ i \in DOMAIN s
    BY <1>1, <1>5
  <2>2. ASSUME Holds(u, e) PROVE e = d \/ Holds(o, e)
    <3>1. \A q \in DOMAIN u.insts : \A x \in DOMAIN u.insts[q] : u.insts[q][x] = e =>
            e = d \/ (q \in DOMAIN o.insts /\ x \in DOMAIN o.insts[q] /\ o.insts[q][x] = e)
      BY ONLY <1>2, <1>4, <1>7, <2>1
    <3> QED BY ONLY <1>4, <2>2, <3>1 DEF Holds
  <2>3. Holds(u, d)
    BY <1>2, <1>4, <2>1 DEF Holds
  <2>4. ASSUME Holds(o, e) PROVE Holds(u, e)
    <3>1. \A q \in DOMAIN o.insts : \A x \in DOMAIN o.insts[q] : o.insts[q][x] = e =>
            q \in DOMAIN u.insts /\ x \in DOMAIN u.insts[q] /\ u.insts[q][x] = e
      BY ONLY <1>4, <1>8, <2>1
    <3> QED BY ONLY <1>4, <2>4, <3>1 DEF Holds
  <2> QED BY <2>2, <2>3, <2>4
<1> QED BY <1>1, <1>2, <1>4, <1>6, <1>9, <1>11, <1>12 DEF u

LEMMA PatchedHolds ==
  ASSUME NEW o, Shape(o), NEW t
  PROVE  LET u == Patched(o)
         IN  /\ OnRight(t, o) => OnRight(t, u)
             /\ Linked(t, o) => Linked(t, u)
             /\ \A d : Holds(u, d) <=> Holds(o, d)
             /\ u.file = o.file /\ u.loaded = o.loaded /\ u.maps = o.maps /\ u.insts = o.insts
             /\ \A p \in DOMAIN o.file.progs :
                  u.imm[p] = [j \in DOMAIN o.file.progs[p].relocs |-> MapAt(u, p, j)]
<1> DEFINE u == Patched(o)
<1>1. /\ \A p \in DOMAIN o.file.progs :
           u.imm[p] = [j \in DOMAIN o.file.progs[p].relocs |->
                        o.maps[MapIndex(o.file, o.file.progs[p].relocs[j])]]
      /\ \A x \in Fields \ {"imm"} : u[x] = o[x]
  BY PatchedShape
<1>2. u.btf = o.btf /\ u.maps = o.maps /\ u.file = o.file /\ u.loaded = o.loaded /\ u.insts = o.insts
  BY <1>1 DEF Fields
<1> HIDE DEF u
<1>3. \A q, j : MapAt(u, q, j) = MapAt(o, q, j)
  BY <1>2 DEF MapAt
<1>4. OnRight(t, o) => OnRight(t, u)
  BY <1>2 DEF OnRight
<1>5. Linked(t, o) => Linked(t, u)
  BY <1>2, <1>3 DEF Linked
<1>6. \A d : Holds(u, d) <=> Holds(o, d)
  BY <1>2 DEF Holds
<1>7. \A p \in DOMAIN o.file.progs :
        u.imm[p] = [j \in DOMAIN o.file.progs[p].relocs |-> MapAt(u, p, j)]
  BY <1>1, <1>2 DEF MapAt
<1> QED BY <1>2, <1>4, <1>5, <1>6, <1>7 DEF u

LEMMA BegunHolds ==
  ASSUME NEW o, Shape(o), NEW t
  PROVE  LET u == Begun(o)
         IN  /\ OnRight(t, o) => OnRight(t, u)
             /\ Linked(t, o) => Linked(t, u)
             /\ \A d : Holds(u, d) <=> Holds(o, d)
             /\ u.file = o.file /\ u.loaded /\ u.maps = o.maps /\ u.insts = o.insts
<1> DEFINE u == Begun(o)
<1>1. u.loaded = TRUE /\ \A x \in Fields \ {"loaded"} : u[x] = o[x]
  BY BegunShape
<1>2. u.btf = o.btf /\ u.maps = o.maps /\ u.file = o.file /\ u.insts = o.insts
  BY <1>1 DEF Fields
<1> HIDE DEF u
<1>3. \A q, j : MapAt(u, q, j) = MapAt(o, q, j)
  BY <1>2 DEF MapAt
<1>4. OnRight(t, o) => OnRight(t, u)
  BY <1>2 DEF OnRight
<1>5. Linked(t, o) => Linked(t, u)
  BY <1>2, <1>3 DEF Linked
<1>6. \A d : Holds(u, d) <=> Holds(o, d)
  BY <1>2 DEF Holds
<1> QED BY <1>1, <1>2, <1>4, <1>5, <1>6 DEF u

-----------------------------------------------------------------------------
(***************************************************************************)
(* A step that changes one object keeps the others.                        *)
(***************************************************************************)

\* What an object remembers is open.
LEMMA HeldIsOpen ==
  ASSUME TypeInv, NEW g \in Handles, IsOpen(g), Sound(g), NEW d \in Fds, Holds(obj[g], d)
  PROVE  fdTable[d].kind \in {"btf", "map", "prog"} /\ fdTable[d] # Free
<1>1. d # NoFd
  BY DEF NoFd
<1>2. OnRight(fdTable, obj[g])
  BY DEF Sound
<1>3. fdTable[d].kind \in {"btf", "map", "prog"}
  BY <1>1, <1>2 DEF OnRight, Holds
<1> QED BY <1>3 DEF Free

LEMMA KeepsSound ==
  ASSUME TypeInv, NEW g \in Handles, IsOpen(g), Sound(g), obj'[g] = obj[g],
         \A d \in Fds : Holds(obj[g], d) => fdTable'[d] = fdTable[d],
         ~Loading(g) /\ ~Loading(g)'
  PROVE  Sound(g)'
<1>1. Shape(obj[g])
  BY DEF TypeInv
<1>2. OnRight(fdTable, obj[g]) /\ Linked(fdTable, obj[g]) /\ Settled(obj[g])
  BY DEF Sound
<1>3. OnRight(fdTable', obj[g]) /\ Linked(fdTable', obj[g])
  BY <1>1, <1>2, SameHeld
<1> QED BY <1>2, <1>3 DEF Sound

\* The object h changes; what it takes was free, and what it lets go is closed.
LEMMA OneChanges ==
  ASSUME TypeInv, ObjectInv, OwnerInv, NEW h \in Handles,
         \A g \in Handles \ {h} : obj'[g] = obj[g] /\ (IsOpen(g)' <=> IsOpen(g)),
         IsOpen(h)' => Sound(h)',
         \A g \in Handles \ {h} : ~Loading(g) /\ ~Loading(g)',
         \A d \in Fds : fdTable'[d] # fdTable[d] =>
           fdTable[d] = Free \/ (IsOpen(h) /\ Holds(obj[h], d)),
         \A d \in Fds : IsOpen(h)' /\ Holds(obj'[h], d) =>
           fdTable[d] = Free \/ (IsOpen(h) /\ Holds(obj[h], d)),
         \A d \in Fds : fdTable'[d].kind \notin {"free", "elf"} =>
           \/ IsOpen(h)' /\ Holds(obj'[h], d)
           \/ fdTable'[d] = fdTable[d] /\ ~(IsOpen(h) /\ Holds(obj[h], d))
  PROVE  ObjectInv' /\ OwnerInv'
<1>1. \A g \in Handles : IsOpen(g) => \A d \in Fds : Holds(obj[g], d) => fdTable[d] # Free
  BY HeldIsOpen DEF ObjectInv
<1>2. \A g \in Handles \ {h} : IsOpen(g) => \A d \in Fds : Holds(obj[g], d) => fdTable'[d] = fdTable[d]
  BY <1>1 DEF OwnerInv
<1>3. \A g \in Handles \ {h} : IsOpen(g)' => Sound(g)'
  <2> TAKE g \in Handles \ {h}
  <2> HAVE IsOpen(g)'
  <2>1. IsOpen(g) /\ Sound(g) /\ obj'[g] = obj[g]
    BY DEF ObjectInv
  <2>2. ~Loading(g) /\ ~Loading(g)'
    OBVIOUS
  <2>3. \A d \in Fds : Holds(obj[g], d) => fdTable'[d] = fdTable[d]
    BY <1>2, <2>1
  <2> QED BY <2>1, <2>2, <2>3, KeepsSound
<1>4. ObjectInv'
  BY <1>3 DEF ObjectInv
<1>5. ASSUME NEW f \in Handles, NEW g \in Handles, f # g, IsOpen(f)', IsOpen(g)', NEW d \in Fds,
             Holds(obj'[f], d), Holds(obj'[g], d)
      PROVE  FALSE
  <2>1. CASE f # h /\ g # h
    BY <1>5, <2>1 DEF OwnerInv
  <2>2. CASE f = h
    BY <1>1, <1>5, <2>2 DEF OwnerInv
  <2>3. CASE g = h
    BY <1>1, <1>5, <2>3 DEF OwnerInv
  <2> QED BY <2>1, <2>2, <2>3
<1>6. ASSUME NEW d \in Fds, fdTable'[d].kind \notin {"free", "elf"}
      PROVE  \E g \in Handles : IsOpen(g)' /\ Holds(obj'[g], d)
  <2>1. CASE IsOpen(h)' /\ Holds(obj'[h], d)
    BY <2>1
  <2>2. CASE fdTable'[d] = fdTable[d] /\ ~(IsOpen(h) /\ Holds(obj[h], d))
    <3>1. PICK g \in Handles : IsOpen(g) /\ Holds(obj[g], d)
      BY <1>6, <2>2 DEF OwnerInv
    <3> QED BY <2>2, <3>1
  <2> QED BY <1>6, <2>1, <2>2
<1>7. OwnerInv'
  BY <1>5, <1>6 DEF OwnerInv
<1> QED BY <1>4, <1>7

\* No object changes; a free descriptor may be lost to a file libelf refused.
LEMMA NoneChanges ==
  ASSUME TypeInv, ObjectInv, OwnerInv, UNCHANGED obj,
         \A d \in Fds : fdTable'[d] # fdTable[d] => fdTable[d] = Free /\ fdTable'[d].kind = "elf",
         \A g \in Handles : ~Loading(g) /\ ~Loading(g)'
  PROVE  ObjectInv' /\ OwnerInv'
<1>1. \A g \in Handles : IsOpen(g) => \A d \in Fds : Holds(obj[g], d) => fdTable'[d] = fdTable[d]
  BY HeldIsOpen DEF ObjectInv
<1>2. \A g \in Handles : IsOpen(g)' <=> IsOpen(g)
  BY DEF IsOpen
<1>3. \A g \in Handles : IsOpen(g) => Sound(g)'
  <2> TAKE g \in Handles
  <2> HAVE IsOpen(g)
  <2>1. Sound(g) /\ obj'[g] = obj[g] /\ ~Loading(g) /\ ~Loading(g)'
    BY DEF ObjectInv
  <2> QED BY <1>1, <2>1, KeepsSound
<1>4. ObjectInv'
  BY <1>2, <1>3 DEF ObjectInv
<1>5. \A d \in Fds : fdTable'[d].kind \notin {"free", "elf"} => fdTable'[d] = fdTable[d]
  OBVIOUS
<1>6. OwnerInv'
  BY <1>2, <1>5 DEF OwnerInv
<1> QED BY <1>4, <1>6

\* Neither objects nor descriptors nor the load under way are touched.
LEMMA AllStay ==
  ASSUME ObjectInv, OwnerInv, UNCHANGED <<obj, fdTable, call, calls>>
  PROVE  ObjectInv' /\ OwnerInv'
<1>1. \A g \in Handles : (IsOpen(g)' <=> IsOpen(g)) /\ (Sound(g)' <=> Sound(g))
  BY DEF IsOpen, Sound, Loading
<1>2. ObjectInv'
  BY <1>1 DEF ObjectInv
<1>3. OwnerInv'
  BY DEF OwnerInv, IsOpen
<1> QED BY <1>2, <1>3

\* The program k works on the maps its relocations name, made when it was.
UsesOwn(k) ==
  k.uses = [j \in DOMAIN k.uses |->
              [kind |-> "map", offset |-> k.file.progs[k.prog].relocs[j], age |-> k.age]]

LEMMA ProgramsKeep ==
  ASSUME ProgramsUseOwnMaps,
         \A d \in Fds : \/ fdTable'[d] = fdTable[d]
                        \/ fdTable'[d].kind # "prog"
                        \/ UsesOwn(fdTable'[d]),
         \A x \in pins' : x \in pins \/ \E d \in Fds : x.to = fdTable[d]
  PROVE  ProgramsUseOwnMaps'
<1>1. \A k \in Programs : UsesOwn(k)
  BY DEF ProgramsUseOwnMaps, UsesOwn
<1>2. \A d \in Fds : fdTable[d].kind = "prog" => UsesOwn(fdTable[d])
  BY <1>1 DEF Programs
<1>3. \A x \in pins : x.to.kind = "prog" => UsesOwn(x.to)
  BY <1>1 DEF Programs
<1>4. \A k \in Programs' : UsesOwn(k)
  BY <1>2, <1>3 DEF Programs
<1> QED BY <1>4 DEF ProgramsUseOwnMaps, UsesOwn

LEMMA PinsKeep ==
  ASSUME PinInv, pins' = pins, call'.op # "pin"
  PROVE  PinInv'
BY DEF PinInv, PinnedTogether

-----------------------------------------------------------------------------
(***************************************************************************)
(* What the steps do to the objects and their descriptors.                 *)
(***************************************************************************)

LEMMA OpenedKeeps ==
  ASSUME TypeInv, ObjectInv, OwnerInv, NEW h \in Handles, NEW f \in Files, Opened(h, f),
         call'.op \in {"none", "load"}
  PROVE  ObjectInv' /\ OwnerInv' /\ \A d \in Fds : fdTable'[d] # fdTable[d] => fdTable'[d].kind # "prog"
<1>1. PICK b \in NFds :
        /\ obj' = [obj EXCEPT ![h] = NewObject(f, b)]
        /\ Shape(NewObject(f, b))
        /\ \/ b = NoFd /\ fdTable' = fdTable
           \/ /\ b \in Fds /\ fdTable[b] = Free
              /\ fdTable' = [fdTable EXCEPT ![b] = [kind |-> "btf"]]
  BY OpenedEffect
<1>2. obj[h] = Closed /\ Resolves(f) /\ call = NoCall
  BY OpenedEffect, NewCallEffect DEF Opened
<1>3. ~IsOpen(h) /\ NoFd \notin Fds
  BY <1>2 DEF IsOpen, NoFd
<1>4. /\ obj'[h] = NewObject(f, b) /\ IsOpen(h)'
      /\ \A g \in Handles \ {h} : obj'[g] = obj[g] /\ (IsOpen(g)' <=> IsOpen(g))
  BY <1>1, ObjectBecomes
<1>5. /\ b # NoFd => fdTable[b] = Free /\ fdTable'[b].kind = "btf"
      /\ \A d \in Fds \ {b} : fdTable'[d] = fdTable[d]
  BY <1>1 DEF TypeInv
<1>6. /\ OnRight(fdTable', obj'[h]) /\ Linked(fdTable', obj'[h]) /\ Settled(obj'[h])
      /\ \A d \in Fds : Holds(obj'[h], d) <=> d = b
  BY <1>2, <1>4, <1>5, NewSound
<1>7. \A g \in Handles : ~Loading(g) /\ ~Loading(g)'
  BY <1>2 DEF Loading, NoCall
<1>8. Sound(h)'
  BY <1>6, <1>7 DEF Sound
<1>9. \A d \in Fds : fdTable'[d] # fdTable[d] => fdTable[d] = Free /\ fdTable'[d].kind # "prog"
  BY <1>3, <1>5
<1>10. \A d \in Fds : IsOpen(h)' /\ Holds(obj'[h], d) => fdTable[d] = Free
  BY <1>3, <1>5, <1>6
<1>11. \A d \in Fds : fdTable'[d].kind \notin {"free", "elf"} =>
         \/ IsOpen(h)' /\ Holds(obj'[h], d)
         \/ fdTable'[d] = fdTable[d] /\ ~(IsOpen(h) /\ Holds(obj[h], d))
  BY <1>3, <1>4, <1>5, <1>6
<1>12. ObjectInv' /\ OwnerInv'
  BY <1>4, <1>7, <1>8, <1>9, <1>10, <1>11, OneChanges
<1> QED BY <1>9, <1>12

LEMMA SetPrepKeeps ==
  ASSUME TypeInv, ObjectInv, OwnerInv, NEW h \in Handles, NEW p \in ProgsOf(h), SetPrep(h, p)
  PROVE  ObjectInv' /\ OwnerInv'
<1> DEFINE o == obj[h]
<1>1. /\ IsOpen(h) /\ p \in DOMAIN o.insts /\ o.insts[p] = <<>> /\ call = NoCall
      /\ obj' = [obj EXCEPT ![h] = Prepared(o, p)] /\ UNCHANGED <<fdTable, call>>
  BY SetPrepEffect, NewCallEffect
<1>2. Shape(o) /\ Sound(h)
  BY <1>1 DEF TypeInv, ObjectInv
<1>3. \A g \in Handles : ~Loading(g) /\ ~Loading(g)'
  BY <1>1 DEF Loading, NoCall
<1>4. /\ obj'[h] = Prepared(o, p)
      /\ \A g \in Handles \ {h} : obj'[g] = obj[g] /\ (IsOpen(g)' <=> IsOpen(g))
      /\ IsOpen(h)'
  BY <1>1, <1>2, PreparedShape, ObjectBecomes
<1>5. OnRight(fdTable, o) /\ Linked(fdTable, o) /\ Settled(o)
  BY <1>2, <1>3 DEF Sound
<1>6. /\ OnRight(fdTable', obj'[h]) /\ Linked(fdTable', obj'[h]) /\ Settled(obj'[h])
      /\ \A d \in Fds : Holds(obj'[h], d) <=> Holds(o, d)
  BY <1>1, <1>2, <1>4, <1>5, PreparedHolds
<1>7. Sound(h)'
  BY <1>3, <1>6 DEF Sound
<1> QED BY <1>1, <1>3, <1>4, <1>6, <1>7, OneChanges

\* bpf_object__unload, with the object kept or closed after it
LEMMA ShutKeeps ==
  ASSUME TypeInv, ObjectInv, OwnerInv, NEW h \in Handles, IsOpen(h),
         \A g \in Handles : ~Loading(g)', \A g \in Handles \ {h} : ~Loading(g),
         \/ /\ fdTable' = Shut(fdTable, FdsOf(obj[h]) \cup BtfFd(obj[h]))
            /\ obj' = [obj EXCEPT ![h] = Closed]
         \/ /\ fdTable' = Shut(fdTable, FdsOf(obj[h]))
            /\ obj' = [obj EXCEPT ![h] = Unloaded(obj[h])]
  PROVE  ObjectInv' /\ OwnerInv' /\ \A d \in Fds : fdTable'[d] # fdTable[d] => fdTable'[d].kind # "prog"
<1> DEFINE o == obj[h]
<1>1. Shape(o) /\ OnRight(fdTable, o)
  BY DEF TypeInv, ObjectInv, Sound
<1>2. NoFd \notin Fds
  BY DEF NoFd
<1>3. \A d \in Fds : (d \in FdsOf(o) \/ d \in BtfFd(o)) <=> Holds(o, d)
  BY <1>1, FdsOfHeld DEF Holds
<1>4. CASE /\ fdTable' = Shut(fdTable, FdsOf(o) \cup BtfFd(o))
           /\ obj' = [obj EXCEPT ![h] = Closed]
  <2>1. \A d \in Fds : fdTable'[d] = IF Holds(o, d) THEN Free ELSE fdTable[d]
    <3> DEFINE D == FdsOf(o) \cup BtfFd(o)
    <3>1. fdTable' = Shut(fdTable, D) /\ \A d \in Fds : d \in D <=> Holds(o, d)
      BY <1>3, <1>4
    <3> HIDE DEF D
    <3>2. \A d \in Fds : fdTable'[d] = IF d \in D THEN Free ELSE fdTable[d]
      BY <3>1, Shuts
    <3> QED BY <3>1, <3>2
  <2>2. /\ \A g \in Handles \ {h} : obj'[g] = obj[g] /\ (IsOpen(g)' <=> IsOpen(g))
        /\ obj'[h] = Closed
    BY <1>4, ObjectBecomes
  <2>3. ~IsOpen(h)'
    BY <2>2 DEF IsOpen
  <2>4. Free.kind = "free"
    BY DEF Free
  <2>5. ObjectInv' /\ OwnerInv'
    BY <2>1, <2>2, <2>3, <2>4, OneChanges
  <2> QED BY <2>1, <2>4, <2>5
<1>5. CASE /\ fdTable' = Shut(fdTable, FdsOf(o))
           /\ obj' = [obj EXCEPT ![h] = Unloaded(o)]
  <2>1. \A d \in Fds : fdTable'[d] = IF d \in FdsOf(o) THEN Free ELSE fdTable[d]
    BY <1>5, Shuts
  <2>2. \A d \in FdsOf(o) : d \in Fds => fdTable[d].kind \in {"map", "prog"}
    BY <1>1, <1>2, FdsOfHeld DEF OnRight
  <2>3. o.btf # NoFd => o.btf \in Fds /\ fdTable[o.btf].kind = "btf"
    BY <1>1, ShapeOf DEF OnRight, NFds
  <2>4. o.btf # NoFd => o.btf \in Fds /\ fdTable'[o.btf] = fdTable[o.btf] /\ fdTable'[o.btf].kind = "btf"
    BY <2>1, <2>2, <2>3
  <2>5. /\ \A g \in Handles \ {h} : obj'[g] = obj[g] /\ (IsOpen(g)' <=> IsOpen(g))
        /\ obj'[h] = Unloaded(o) /\ IsOpen(h)'
    BY <1>1, <1>5, UnloadedShape, ObjectBecomes
  <2>6. /\ OnRight(fdTable', obj'[h]) /\ Linked(fdTable', obj'[h]) /\ Settled(obj'[h])
        /\ \A d \in Fds : Holds(obj'[h], d) <=> o.btf = d
    BY <1>1, <2>4, <2>5, UnloadedSound
  <2>7. Sound(h)'
    BY <2>6 DEF Sound
  <2>8. \A d \in Fds : Holds(o, d) <=> d \in FdsOf(o) \/ o.btf = d
    BY <1>1, <1>3, FdsOfHeld
  <2>9. Free.kind = "free"
    BY DEF Free
  <2>10. \A d \in Fds : fdTable'[d] # fdTable[d] => Holds(o, d)
    BY <2>1, <2>8
  <2>11. \A d \in Fds : Holds(obj'[h], d) => Holds(o, d)
    BY <2>6, <2>8
  <2>12. \A d \in Fds : fdTable'[d].kind \notin {"free", "elf"} =>
           Holds(obj'[h], d) \/ (fdTable'[d] = fdTable[d] /\ ~Holds(o, d))
    BY <2>1, <2>6, <2>8, <2>9
  <2>13. ObjectInv' /\ OwnerInv'
    BY <2>5, <2>7, <2>10, <2>11, <2>12, OneChanges
  <2> QED BY <2>1, <2>9, <2>13
<1> QED BY <1>4, <1>5

LEMMA BeginLoadKeeps ==
  ASSUME TypeInv, ObjectInv, OwnerInv, BeginLoad
  PROVE  ObjectInv' /\ OwnerInv'
<1>1. PICK h \in Handles : h = call.h
  BY DEF BeginLoad, TypeInv, CallShape
<1> DEFINE o == obj[h]
<1>2. call.op = "load" /\ IsOpen(h) /\ Shape(o) /\ Sound(h)
      /\ UNCHANGED <<fdTable, calls>>
  BY <1>1 DEF BeginLoad, TypeInv, CallShape, ObjectInv
<1>3. \A g \in Handles : ~Loading(g)
  BY <1>2 DEF Loading
<1>4. CASE call' = NoCall /\ UNCHANGED obj
  <2>1. \A g \in Handles : ~Loading(g)'
    BY <1>4 DEF Loading, NoCall
  <2> QED BY <1>2, <1>3, <1>4, <2>1, NoneChanges
<1>5. CASE /\ ~o.loaded /\ obj' = [obj EXCEPT ![h] = Begun(o)]
           /\ call' = [op |-> "maps", h |-> h, closes |-> call.closes, at |-> 1]
  <2>1. /\ obj'[h] = Begun(o)
        /\ \A g \in Handles \ {h} : obj'[g] = obj[g] /\ (IsOpen(g)' <=> IsOpen(g))
        /\ IsOpen(h)'
    BY <1>2, <1>5, BegunShape, ObjectBecomes
  <2>2. OnRight(fdTable, o) /\ Linked(fdTable, o) /\ NoMaps(o) /\ Vacant(o)
    BY <1>2, <1>3, <1>5 DEF Sound, Settled
  <2>3. /\ OnRight(fdTable, obj'[h]) /\ Linked(fdTable, obj'[h])
        /\ \A d : Holds(obj'[h], d) <=> Holds(o, d)
        /\ obj'[h].file = o.file /\ obj'[h].loaded /\ obj'[h].maps = o.maps
        /\ obj'[h].insts = o.insts
    BY <1>2, <2>1, <2>2, BegunHolds
  <2>4. call'.op = "maps" /\ call'.h = h /\ call'.at = 1
    BY <1>5
  <2>5. DOMAIN o.maps = 1..Len(o.file.maps) /\ Len(o.file.maps) \in Nat
    BY <1>2, ShapeOf, FileShape
  <2>6. Stage(fdTable', calls', call', obj'[h])
    BY <2>2, <2>3, <2>4, <2>5 DEF Stage, NoMaps, Vacant
  <2>7. Loading(h)' /\ \A g \in Handles \ {h} : ~Loading(g)'
    BY <2>4 DEF Loading
  <2>8. Sound(h)'
    BY <1>2, <2>3, <2>6, <2>7 DEF Sound
  <2> QED BY <1>2, <1>3, <2>1, <2>3, <2>7, <2>8, OneChanges
<1> QED BY <1>1, <1>4, <1>5 DEF BeginLoad, Begun

LEMMA CreateMapKeeps ==
  ASSUME TypeInv, ObjectInv, OwnerInv, CreateMap
  PROVE  ObjectInv' /\ OwnerInv' /\ \A d \in Fds : fdTable'[d] # fdTable[d] => fdTable'[d].kind # "prog"
<1>1. PICK h \in Handles : h = call.h
  BY CreateMapEffect DEF TypeInv, CallShape
<1> DEFINE o == obj[h]
           k == call.at
<1>2. /\ call.op = "maps" /\ IsOpen(h) /\ Shape(o) /\ Sound(h) /\ calls' = calls
      /\ DOMAIN call = {"op", "h", "closes", "at"}
  BY <1>1, CreateMapEffect DEF TypeInv, CallShape, ObjectInv
<1>3. Loading(h) /\ \A g \in Handles \ {h} : ~Loading(g)
  BY <1>1, <1>2 DEF Loading
<1>4. /\ OnRight(fdTable, o) /\ Linked(fdTable, o) /\ Stage(fdTable, calls, call, o)
  BY <1>2, <1>3 DEF Sound
<1>5. /\ o.loaded /\ k \in 1..(Len(o.file.maps) + 1) /\ Vacant(o)
      /\ \A j \in DOMAIN o.maps : IF j < k THEN Fresh(fdTable, calls, o, j) ELSE o.maps[j] = NoFd
  BY <1>2, <1>4 DEF Stage
<1>6. DOMAIN o.maps = 1..Len(o.file.maps) /\ Len(o.file.maps) \in Nat
  BY <1>2, ShapeOf, FileShape
<1>7. ASSUME k \in DOMAIN o.maps, call' = [call EXCEPT !.at = @ + 1], NEW d \in Fds, fdTable[d] = Free,
             fdTable' = [fdTable EXCEPT ![d] = KernelMap(Sorted(o.file)[k])],
             obj' = [obj EXCEPT ![h] = WithMap(o, k, d)]
      PROVE  ObjectInv' /\ OwnerInv' /\ \A e \in Fds : fdTable'[e] # fdTable[e] => fdTable'[e].kind # "prog"
  <2> DEFINE u == obj'[h]
  <2>1. /\ fdTable'[d] = KernelMap(Sorted(o.file)[k])
        /\ \A e \in Fds \ {d} : fdTable'[e] = fdTable[e]
    BY <1>7, Opens DEF KernelMap, Kinds
  <2>2. fdTable'[d] = [kind |-> "map", offset |-> Sorted(o.file)[k], age |-> calls]
    BY <2>1 DEF KernelMap
  <2>3. /\ u = WithMap(o, k, d) /\ IsOpen(h)'
        /\ \A g \in Handles \ {h} : obj'[g] = obj[g] /\ (IsOpen(g)' <=> IsOpen(g))
    BY <1>2, <1>7, WithMapShape, ObjectBecomes DEF NFds
  <2>4. \A e \in Fds : Holds(o, e) => fdTable'[e] = fdTable[e]
    BY <1>2, <1>7, <2>1, HeldIsOpen
  <2>5. /\ OnRight(fdTable', o)
        /\ \A j \in DOMAIN o.maps : Fresh(fdTable, calls, o, j) => Fresh(fdTable', calls, o, j)
    BY <1>2, <1>4, <2>4, SameHeld
  <2>6. o.maps[k] = NoFd
    BY <1>5, <1>6, <1>7
  <2>7. /\ OnRight(fdTable', u) /\ Linked(fdTable', u)
        /\ \A e \in Fds : Holds(u, e) <=> e = d \/ Holds(o, e)
        /\ u.file = o.file /\ u.loaded = o.loaded /\ DOMAIN u.maps = DOMAIN o.maps
        /\ u.maps[k] = d /\ \A j \in DOMAIN o.maps \ {k} : u.maps[j] = o.maps[j]
        /\ Vacant(u)
    <3>1. fdTable'[d].kind = "map" /\ fdTable'[d].offset = Sorted(o.file)[k]
      BY <2>2
    <3>2. Shape(o) /\ Vacant(o) /\ OnRight(fdTable', o) /\ u = WithMap(o, k, d)
      BY <1>2, <1>5, <2>3, <2>5
    <3>3. k \in DOMAIN o.maps /\ o.maps[k] = NoFd
      BY <1>7, <2>6
    <3> DEFINE t == fdTable'
    <3>4. t[d].kind = "map" /\ t[d].offset = Sorted(o.file)[k] /\ OnRight(t, o)
      BY <3>1, <3>2
    <3> HIDE DEF o, k, u, t
    <3>5. /\ OnRight(t, u) /\ Linked(t, u)
          /\ \A e \in Fds : Holds(u, e) <=> e = d \/ Holds(o, e)
          /\ u.file = o.file /\ u.loaded = o.loaded /\ DOMAIN u.maps = DOMAIN o.maps
          /\ u.maps[k] = d /\ \A j \in DOMAIN o.maps \ {k} : u.maps[j] = o.maps[j]
          /\ Vacant(u)
      BY <3>2, <3>3, <3>4, WithMapHolds
    <3> QED BY <3>5 DEF t
  <2>8. call'.op = "maps" /\ call'.h = h /\ call'.at = k + 1
    BY <1>1, <1>2, <1>7
  <2> HIDE DEF u
  <2>9. \A j \in DOMAIN u.maps : IF j < k + 1 THEN Fresh(fdTable', calls, u, j) ELSE u.maps[j] = NoFd
    <3> TAKE j \in DOMAIN u.maps
    <3>1. j \in Nat /\ k \in Nat /\ NoFd \notin Fds
      BY <1>5, <1>6, <2>7 DEF NoFd
    <3>2. CASE j < k
      <4>1. Fresh(fdTable', calls, o, j)
        BY <1>5, <2>5, <2>7, <3>2
      <4> QED BY <4>1, <2>7, <3>1, <3>2 DEF Fresh
    <3>3. CASE j = k
      BY <2>2, <2>7, <3>1, <3>3 DEF Fresh
    <3>4. CASE j > k
      BY <1>5, <2>7, <3>1, <3>4
    <3> QED BY <3>1, <3>2, <3>3, <3>4
  <2>10. Stage(fdTable', calls', call', u)
    <3>1. u.loaded /\ k + 1 \in 1..(Len(u.file.maps) + 1)
      BY <1>5, <1>6, <1>7, <2>7, SMTT(30)
    <3> QED BY <1>2, <2>7, <2>8, <2>9, <3>1 DEF Stage
  <2>11. Loading(h)' /\ \A g \in Handles \ {h} : ~Loading(g)'
    BY <2>8 DEF Loading
  <2>12. Sound(h)'
    BY <2>7, <2>10, <2>11 DEF Sound, u
  <2>13. \A e \in Fds : Holds(obj'[h], e) <=> e = d \/ Holds(o, e)
    BY <2>7 DEF u
  <2>14. ObjectInv' /\ OwnerInv'
    BY <1>2, <1>3, <1>7, <2>1, <2>3, <2>4, <2>11, <2>12, <2>13, OneChanges
  <2> QED BY <2>1, <2>2, <2>14
<1>8. ASSUME k \notin DOMAIN o.maps, call' = [call EXCEPT !.op = "relocate"], UNCHANGED <<fdTable, obj>>
      PROVE  ObjectInv' /\ OwnerInv'
  <2>1. call'.op = "relocate" /\ call'.h = h
    BY <1>1, <1>2, <1>8
  <2>2. \A j \in DOMAIN o.maps : Fresh(fdTable, calls, o, j)
    BY <1>5, <1>6, <1>8
  <2>3. Stage(fdTable', calls', call', obj'[h])
    BY <1>2, <1>5, <1>8, <2>1, <2>2 DEF Stage
  <2>4. Loading(h)' /\ \A g \in Handles \ {h} : ~Loading(g)'
    BY <2>1 DEF Loading
  <2>5. Sound(h)'
    BY <1>4, <1>8, <2>3, <2>4 DEF Sound
  <2>6. \A g \in Handles : (IsOpen(g)' <=> IsOpen(g)) /\ obj'[g] = obj[g]
    BY <1>8 DEF IsOpen
  <2> QED BY <1>2, <1>3, <1>8, <2>4, <2>5, <2>6, OneChanges
<1> QED
  <2>1. \/ /\ k \in DOMAIN o.maps
           /\ call' = [call EXCEPT !.at = @ + 1]
           /\ \E d \in Fds :
                /\ fdTable[d] = Free
                /\ fdTable' = [fdTable EXCEPT ![d] = KernelMap(Sorted(o.file)[k])]
                /\ obj' = [obj EXCEPT ![h] = WithMap(o, k, d)]
        \/ /\ k \notin DOMAIN o.maps
           /\ call' = [call EXCEPT !.op = "relocate"]
           /\ UNCHANGED <<fdTable, obj>>
    BY <1>1, CreateMapEffect
  <2> QED BY <2>1, <1>7, <1>8

\* Between one section to load and the next there is only .text.
LEMMA NextProgIs ==
  ASSUME NEW f \in Files, NEW p \in Nat, p <= Len(f.progs)
  PROVE  /\ NextProg(f, p) \in (p + 1)..(Len(f.progs) + 1)
         /\ \A q \in DOMAIN f.progs : p < q /\ q < NextProg(f, p) => f.progs[q].text
<1> DEFINE S == {q \in DOMAIN f.progs : q > p /\ ~f.progs[q].text} \cup {Len(f.progs) + 1}
<1>1. DOMAIN f.progs = 1..Len(f.progs) /\ Len(f.progs) \in Nat
  BY FileShape
<1>2. S \in SUBSET Nat /\ Len(f.progs) + 1 \in S
  BY <1>1
<1>3. \A q \in S : p < q /\ q <= Len(f.progs) + 1
  BY <1>1
<1>4. Min(S) \in S /\ \A q \in S : Min(S) <= q
  <2> HIDE DEF S
  <2> QED BY <1>2, MinOf
<1>5. \A q \in DOMAIN f.progs : p < q /\ ~f.progs[q].text => q \in S
  BY <1>1
<1> DEFINE m == NextProg(f, p)
<1>6. m \in S /\ \A q \in S : m <= q
  BY <1>4 DEF NextProg
<1> HIDE DEF S, m
<1>7. m \in (p + 1)..(Len(f.progs) + 1)
  BY <1>1, <1>2, <1>3, <1>6
<1>8. \A q \in DOMAIN f.progs : q < m => q \notin S
  BY <1>1, <1>6, <1>7
<1>9. \A q \in DOMAIN f.progs : p < q /\ q < m => f.progs[q].text
  BY <1>5, <1>8
<1> QED BY <1>7, <1>9 DEF m

LEMMA RelocateKeeps ==
  ASSUME TypeInv, ObjectInv, OwnerInv, Relocate
  PROVE  ObjectInv' /\ OwnerInv'
<1>1. PICK h \in Handles : h = call.h
  BY RelocateEffect DEF TypeInv, CallShape
<1> DEFINE o == obj[h]
           u == obj'[h]
           n == NextProg(o.file, 0)
<1>2. /\ call.op = "relocate" /\ IsOpen(h) /\ Shape(o) /\ Sound(h)
      /\ calls' = calls /\ fdTable' = fdTable
      /\ DOMAIN call = {"op", "h", "closes", "at"}
      /\ call' = [call EXCEPT !.op = "progs", !.at = <<n, 1>>]
      /\ obj' = [obj EXCEPT ![h] = Patched(o)]
  BY <1>1, RelocateEffect DEF TypeInv, CallShape, ObjectInv
<1>3. Loading(h) /\ \A g \in Handles \ {h} : ~Loading(g)
  BY <1>1, <1>2 DEF Loading
<1>4. OnRight(fdTable, o) /\ Linked(fdTable, o) /\ Stage(fdTable, calls, call, o)
  BY <1>2, <1>3 DEF Sound
<1>5. o.loaded /\ Vacant(o) /\ \A k \in DOMAIN o.maps : Fresh(fdTable, calls, o, k)
  BY <1>2, <1>4 DEF Stage
<1>6. /\ u = Patched(o) /\ IsOpen(h)'
      /\ \A g \in Handles \ {h} : obj'[g] = obj[g] /\ (IsOpen(g)' <=> IsOpen(g))
  BY <1>2, PatchedShape, ObjectBecomes
<1>7. /\ OnRight(fdTable, u) /\ Linked(fdTable, u)
      /\ \A d : Holds(u, d) <=> Holds(o, d)
      /\ u.file = o.file /\ u.loaded = o.loaded /\ u.maps = o.maps /\ u.insts = o.insts
      /\ \A p \in DOMAIN o.file.progs :
           u.imm[p] = [j \in DOMAIN o.file.progs[p].relocs |-> MapAt(u, p, j)]
  BY <1>2, <1>4, <1>6, PatchedHolds
<1>8. call'.op = "progs" /\ call'.h = h /\ call'.at[1] = n /\ call'.at[2] = 1
  BY <1>1, <1>2
<1>9. /\ n \in 1..(Len(o.file.progs) + 1)
      /\ \A q \in DOMAIN o.insts : q < n => o.file.progs[q].text
  <2>1. o.file \in Files /\ DOMAIN o.insts = DOMAIN o.file.progs
    BY <1>2, ShapeOf
  <2>2. Len(o.file.progs) \in Nat /\ DOMAIN o.file.progs = 1..Len(o.file.progs)
    BY <2>1, FileShape
  <2>3. /\ n \in (0 + 1)..(Len(o.file.progs) + 1)
        /\ \A q \in DOMAIN o.file.progs : 0 < q /\ q < n => o.file.progs[q].text
    BY <2>1, <2>2, NextProgIs
  <2> QED BY <2>1, <2>2, <2>3
<1> HIDE DEF u, n
<1>10. \A k \in DOMAIN u.maps : Fresh(fdTable, calls, u, k)
  BY <1>5, <1>7 DEF Fresh
<1>11. \A p \in DOMAIN u.insts : 1 \in DOMAIN Slots(u, p)
  <2> TAKE p \in DOMAIN u.insts
  <2>1. Slots(u, p) = Slots(o, p) /\ p \in DOMAIN o.insts
    BY <1>7 DEF Slots
  <2>2. Slots(o, p) \in Seq(NFds) /\ Len(Slots(o, p)) \in Nat \ {0}
    BY <1>2, <2>1, SlotsShape
  <2> QED BY <2>1, <2>2
<1>12. Vacant(u) /\ HasProgs(u, n)
  BY <1>5, <1>7, <1>9 DEF Vacant, HasProgs
<1>13. Stage(fdTable, calls, call', u)
  <2>1. /\ call'.at[1] \in 1..(Len(u.file.progs) + 1) /\ call'.at[2] \in Nat
        /\ HasProgs(u, call'.at[1])
        /\ call'.at[1] \in DOMAIN u.insts => call'.at[2] \in DOMAIN Slots(u, call'.at[1])
    BY <1>7, <1>8, <1>9, <1>11, <1>12
  <2>2. \A p \in DOMAIN u.insts : \A i \in DOMAIN u.insts[p] : u.insts[p][i] = NoFd
    BY <1>12 DEF Vacant
  <2>3. \A p \in DOMAIN u.file.progs :
          u.imm[p] = [j \in DOMAIN u.file.progs[p].relocs |-> MapAt(u, p, j)]
    BY <1>7
  <2> QED BY <1>5, <1>7, <1>8, <1>10, <2>1, <2>2, <2>3 DEF Stage
<1>14. Loading(h)' /\ \A g \in Handles \ {h} : ~Loading(g)'
  BY <1>8 DEF Loading
<1>15. Sound(h)'
  BY <1>2, <1>7, <1>13, <1>14 DEF Sound, u
<1>16. \A d \in Fds : Holds(obj'[h], d) <=> Holds(o, d)
  BY <1>7 DEF u
<1> QED BY <1>2, <1>3, <1>6, <1>14, <1>15, <1>16, OneChanges

LEMMA EndLoadKeeps ==
  ASSUME TypeInv, ObjectInv, OwnerInv, EndLoad
  PROVE  ObjectInv' /\ OwnerInv'
<1>1. PICK h \in Handles : h = call.h
  BY DEF EndLoad, TypeInv, CallShape
<1> DEFINE o == obj[h]
<1>2. /\ call.op = "progs" /\ call.at[1] \notin DOMAIN o.insts
      /\ call' = NoCall /\ UNCHANGED <<fdTable, obj, calls>>
  BY <1>1 DEF EndLoad
<1>3. IsOpen(h) /\ Shape(o) /\ Sound(h)
  BY <1>1, <1>2 DEF TypeInv, CallShape, ObjectInv
<1>4. Loading(h) /\ \A g \in Handles \ {h} : ~Loading(g)
  BY <1>1, <1>2 DEF Loading
<1>5. OnRight(fdTable, o) /\ Linked(fdTable, o) /\ Stage(fdTable, calls, call, o)
  BY <1>3, <1>4 DEF Sound
<1>6. /\ o.loaded /\ \A k \in DOMAIN o.maps : Fresh(fdTable, calls, o, k)
      /\ call.at[1] \in 1..(Len(o.file.progs) + 1) /\ HasProgs(o, call.at[1])
  BY <1>2, <1>5 DEF Stage
<1>7. DOMAIN o.insts = 1..Len(o.file.progs) /\ Len(o.file.progs) \in Nat
  BY <1>3, ShapeOf, FileShape
<1>8. call.at[1] = Len(o.file.progs) + 1
  BY <1>2, <1>6, <1>7
<1>9. Settled(o)
  BY <1>6, <1>8 DEF Settled, Fresh
<1>10. \A g \in Handles : ~Loading(g)'
  BY <1>2 DEF Loading, NoCall
<1>11. Sound(h)'
  BY <1>2, <1>5, <1>9, <1>10 DEF Sound
<1>12. \A g \in Handles : (IsOpen(g)' <=> IsOpen(g)) /\ obj'[g] = obj[g]
  BY <1>2 DEF IsOpen
<1> QED BY <1>2, <1>3, <1>4, <1>10, <1>11, <1>12, OneChanges

\* One instance more is loaded, or skipped, and the load moves on.
LEMMA StageAdvances ==
  ASSUME NEW o, Shape(o), NEW t, NEW n, NEW c, c.op = "progs", Stage(t, n, c, o),
         NEW p \in DOMAIN o.insts, p = c.at[1], NEW i, i = c.at[2],
         NEW u, u.file = o.file, u.loaded = o.loaded, u.maps = o.maps, u.imm = o.imm,
         DOMAIN u.insts = DOMAIN o.insts,
         \A q \in DOMAIN o.insts \ {p} : u.insts[q] = o.insts[q],
         u.insts[p] # <<>>, DOMAIN u.insts[p] = DOMAIN Slots(o, p),
         \A x \in DOMAIN Slots(o, p) : x > i => u.insts[p][x] = Slots(o, p)[x],
         NEW e, e.op = "progs",
         e.at = IF i < Len(Slots(o, p)) THEN <<p, i + 1>> ELSE <<NextProg(o.file, p), 1>>
  PROVE  Stage(t, n, e, u)
<1> DEFINE m == Len(o.file.progs)
           a == e.at[1]
           b == e.at[2]
<1>1. /\ o.file \in Files /\ DOMAIN o.insts = DOMAIN o.file.progs
      /\ m \in Nat /\ DOMAIN o.file.progs = 1..m
  BY ShapeOf, FileShape
<1>2. Slots(o, p) \in Seq(NFds) /\ Len(Slots(o, p)) \in Nat \ {0} /\ DOMAIN Slots(o, p) = 1..Len(Slots(o, p))
  BY SlotsShape
<1>3. /\ o.loaded /\ \A k \in DOMAIN o.maps : Fresh(t, n, o, k)
      /\ p \in 1..(m + 1) /\ i \in Nat /\ i \in DOMAIN Slots(o, p)
      /\ \A q \in DOMAIN o.file.progs :
           o.imm[q] = [j \in DOMAIN o.file.progs[q].relocs |-> MapAt(o, q, j)]
      /\ \A q \in DOMAIN o.insts : \A x \in DOMAIN o.insts[q] :
           q > p \/ (q = p /\ x >= i) => o.insts[q][x] = NoFd
      /\ HasProgs(o, p)
  BY DEF Stage
<1>4. \/ a = p /\ b = i + 1 /\ b \in DOMAIN Slots(o, p)
      \/ /\ a \in (p + 1)..(m + 1) /\ b = 1
         /\ \A q \in DOMAIN o.file.progs : p < q /\ q < a => o.file.progs[q].text
  <2>1. CASE i < Len(Slots(o, p))
    BY <2>1, <1>2, <1>3
  <2>2. CASE ~(i < Len(Slots(o, p)))
    <3>1. a = NextProg(o.file, p) /\ b = 1
      BY <2>2
    <3>2. p \in Nat /\ p <= m
      BY <1>1
    <3> HIDE DEF a, b
    <3> QED BY <1>1, <3>1, <3>2, NextProgIs
  <2> QED BY <2>1, <2>2
<1>5. a \in 1..(m + 1) /\ b \in Nat /\ a >= p
  BY <1>1, <1>3, <1>4, SMTT(30)
<1> HIDE DEF a, b, m
<1>6. ASSUME NEW q \in DOMAIN u.insts, NEW x \in DOMAIN u.insts[q], q > a \/ (q = a /\ x >= b)
      PROVE  u.insts[q][x] = NoFd
  <2>0. q \in 1..m /\ p \in 1..m
    BY <1>1
  <2>1. CASE q # p
    <3>1. q > p /\ u.insts[q] = o.insts[q]
      BY <1>5, <1>6, <2>0, <2>1
    <3> QED BY <3>1, <1>3, <1>6
  <2>2. CASE q = p
    <3>1. a = p /\ b = i + 1 /\ x \in DOMAIN Slots(o, p) /\ x >= i + 1
      BY <1>4, <1>5, <1>6, <2>0, <2>2
    <3>2. x \in Int /\ x > i
      BY <3>1, <1>2, <1>3
    <3>3. Slots(o, p)[x] = NoFd
      <4>1. CASE o.insts[p] = <<>>
        <5>1. Slots(o, p) = <<NoFd>>
          BY <4>1 DEF Slots
        <5> QED BY <5>1, <3>1
      <4>2. CASE o.insts[p] # <<>>
        <5>1. Slots(o, p) = o.insts[p]
          BY <4>2 DEF Slots
        <5> QED BY <5>1, <3>1, <3>2, <1>3
      <4> QED BY <4>1, <4>2
    <3> QED BY <2>2, <3>1, <3>2, <3>3
  <2> QED BY <2>1, <2>2
<1>7. ASSUME a \in DOMAIN u.insts PROVE b \in DOMAIN Slots(u, a)
  <2>1. CASE a = p
    <3>1. Slots(u, a) = u.insts[p]
      BY <2>1 DEF Slots
    <3>2. b \in DOMAIN Slots(o, p)
      BY <1>1, <1>4, <2>1
    <3> QED BY <3>1, <3>2
  <2>2. CASE a # p
    <3>1. a \in DOMAIN o.insts /\ Slots(u, a) = Slots(o, a) /\ b = 1
      BY <1>4, <1>7, <2>2 DEF Slots
    <3>2. Slots(o, a) \in Seq(NFds) /\ Len(Slots(o, a)) \in Nat \ {0}
      BY <3>1, SlotsShape
    <3> QED BY <3>1, <3>2
  <2> QED BY <2>1, <2>2
<1>8. HasProgs(u, a)
  <2> SUFFICES ASSUME NEW q \in DOMAIN u.insts, q < a, ~u.file.progs[q].text
               PROVE  u.insts[q] # <<>>
    BY DEF HasProgs
  <2>1. q \in 1..m /\ p \in 1..m
    BY <1>1
  <2>2. CASE q = p
    BY <2>2
  <2>3. CASE q < p
    <3>1. u.insts[q] = o.insts[q] /\ o.insts[q] # <<>>
      BY <2>1, <2>3, <1>3 DEF HasProgs
    <3> QED BY <3>1
  <2>4. CASE q > p
    BY <1>1, <1>4, <2>1, <2>4
  <2> QED BY <2>1, <2>2, <2>3, <2>4
<1>9. \A k \in DOMAIN u.maps : Fresh(t, n, u, k)
  <2>1. u.maps = o.maps /\ u.file = o.file /\ \A k \in DOMAIN o.maps : Fresh(t, n, o, k)
    BY <1>3
  <2>2. \A k : Fresh(t, n, u, k) <=> Fresh(t, n, o, k)
    BY ONLY <2>1 DEF Fresh
  <2> QED BY <2>1, <2>2
<1>10. \A q \in DOMAIN u.file.progs :
         u.imm[q] = [j \in DOMAIN u.file.progs[q].relocs |-> MapAt(u, q, j)]
  <2>1. u.maps = o.maps /\ u.file = o.file /\ u.imm = o.imm
    OBVIOUS
  <2>2. \A q, j : MapAt(u, q, j) = MapAt(o, q, j)
    BY ONLY <2>1 DEF MapAt
  <2>3. \A q \in DOMAIN o.file.progs :
          o.imm[q] = [j \in DOMAIN o.file.progs[q].relocs |-> MapAt(o, q, j)]
    BY <1>3
  <2> QED BY ONLY <2>1, <2>2, <2>3
<1>11. /\ e.at[1] \in 1..(Len(u.file.progs) + 1) /\ e.at[2] \in Nat
       /\ \A q \in DOMAIN u.insts : \A x \in DOMAIN u.insts[q] :
            q > e.at[1] \/ (q = e.at[1] /\ x >= e.at[2]) => u.insts[q][x] = NoFd
       /\ e.at[1] \in DOMAIN u.insts => e.at[2] \in DOMAIN Slots(u, e.at[1])
       /\ HasProgs(u, e.at[1])
  BY <1>5, <1>6, <1>7, <1>8 DEF a, b, m
<1> QED BY <1>3, <1>9, <1>10, <1>11 DEF Stage

\* The program of section p that a load makes works on its object's new maps.
LEMMA KernelProgIs ==
  ASSUME NEW o, Shape(o), NEW p \in DOMAIN o.insts,
         o.imm[p] = [j \in DOMAIN o.file.progs[p].relocs |-> MapAt(o, p, j)],
         \A k \in DOMAIN o.maps : Fresh(fdTable, calls, o, k),
         NEW x, x = KernelProg(o.file, p, o.imm[p])
  PROVE  /\ x.kind = "prog" /\ x.prog = p
         /\ x.uses = [j \in DOMAIN o.file.progs[p].relocs |-> fdTable[MapAt(o, p, j)]]
         /\ UsesOwn(x)
<1> DEFINE R == DOMAIN o.file.progs[p].relocs
<1>1. /\ x.kind = "prog" /\ x.prog = p /\ x.file = o.file /\ x.age = calls
      /\ x.uses = [j \in DOMAIN o.imm[p] |-> fdTable[o.imm[p][j]]]
  BY DEF KernelProg
<1>2. DOMAIN o.imm[p] = R /\ \A j \in R : o.imm[p][j] = MapAt(o, p, j)
  OBVIOUS
<1>3. x.uses = [j \in R |-> fdTable[MapAt(o, p, j)]]
  BY <1>1, <1>2
<1>4. p \in DOMAIN o.file.progs
  BY ShapeOf
<1>5. \A j \in R : fdTable[MapAt(o, p, j)] =
        [kind |-> "map", offset |-> o.file.progs[p].relocs[j], age |-> calls]
  <2> TAKE j \in R
  <2> DEFINE k == MapIndex(o.file, o.file.progs[p].relocs[j])
  <2>0. MapAt(o, p, j) = o.maps[k]
    BY DEF MapAt
  <2>1. k \in DOMAIN o.maps /\ Sorted(o.file)[k] = o.file.progs[p].relocs[j]
    BY <1>4, MapAtIsMap
  <2> HIDE DEF k
  <2>2. fdTable[o.maps[k]] = [kind |-> "map", offset |-> Sorted(o.file)[k], age |-> calls]
    BY <2>1 DEF Fresh
  <2> QED BY <2>0, <2>1, <2>2
<1> HIDE DEF R
<1>6. DOMAIN x.uses = R
  BY <1>3
<1>7. UsesOwn(x)
  <2>1. x.uses = [j \in R |-> [kind |-> "map", offset |-> x.file.progs[x.prog].relocs[j], age |-> x.age]]
    <3>1. x.uses = [j \in R |-> [kind |-> "map", offset |-> o.file.progs[p].relocs[j], age |-> calls]]
      BY ONLY <1>3, <1>5
    <3>2. x.file = o.file /\ x.prog = p /\ x.age = calls
      BY <1>1
    <3> QED BY ONLY <3>1, <3>2
  <2> QED BY <1>6, <2>1 DEF UsesOwn
<1> QED BY <1>1, <1>3, <1>7 DEF R

LEMMA LoadInstanceKeeps ==
  ASSUME TypeInv, ObjectInv, OwnerInv, LoadInstance
  PROVE  /\ ObjectInv' /\ OwnerInv'
         /\ \A d \in Fds : fdTable'[d] = fdTable[d] \/ UsesOwn(fdTable'[d])
<1>1. PICK h \in Handles : h = call.h
  BY LoadInstanceEffect DEF TypeInv, CallShape
<1>2. PICK o : o = obj[h]
  OBVIOUS
<1>3. PICK p, i : p = call.at[1] /\ i = call.at[2]
  OBVIOUS
<1> DEFINE next == IF i < Len(Slots(o, p)) THEN <<p, i + 1>> ELSE <<NextProg(o.file, p), 1>>
<1>4. /\ call.op = "progs" /\ calls' = calls /\ p \in DOMAIN o.insts
      /\ call' = [call EXCEPT !.at = next]
      /\ \/ \E d \in Fds :
              /\ fdTable[d] = Free
              /\ fdTable' = [fdTable EXCEPT ![d] = KernelProg(o.file, p, o.imm[p])]
              /\ obj' = [obj EXCEPT ![h] = WithProg(o, p, [Slots(o, p) EXCEPT ![i] = d])]
         \/ o.insts[p] # <<>> /\ UNCHANGED <<fdTable, obj>>
  BY <1>1, <1>2, <1>3, LoadInstanceEffect
<1>5. /\ IsOpen(h) /\ Shape(o) /\ Sound(h) /\ DOMAIN call = {"op", "h", "closes", "at"}
  BY <1>1, <1>2, <1>4 DEF TypeInv, CallShape, ObjectInv
<1>6. Loading(h) /\ \A g \in Handles \ {h} : ~Loading(g)
  BY <1>1, <1>4 DEF Loading
<1>7. OnRight(fdTable, o) /\ Linked(fdTable, o) /\ Stage(fdTable, calls, call, o)
  BY <1>2, <1>5, <1>6 DEF Sound
<1> HIDE DEF next
<1>8. call'.op = "progs" /\ call'.h = h /\ call'.at = next
  BY <1>1, <1>4, <1>5
<1>9. Loading(h)' /\ \A g \in Handles \ {h} : ~Loading(g)'
  BY <1>8 DEF Loading
<1>10. p \in DOMAIN o.file.progs
  BY <1>4, <1>5, ShapeOf
<1>11. /\ \A k \in DOMAIN o.maps : Fresh(fdTable, calls, o, k)
       /\ o.imm[p] = [j \in DOMAIN o.file.progs[p].relocs |-> MapAt(o, p, j)]
       /\ i \in DOMAIN Slots(o, p)
       /\ \A x \in DOMAIN o.insts[p] : x >= i => o.insts[p][x] = NoFd
       /\ i \in Nat
  BY <1>3, <1>4, <1>7, <1>10 DEF Stage
<1>12. ASSUME o.insts[p] # <<>>, UNCHANGED <<fdTable, obj>>
       PROVE  ObjectInv' /\ OwnerInv'
  <2>1. Slots(o, p) = o.insts[p]
    BY <1>12 DEF Slots
  <2>2. PICK e : e = call'
    OBVIOUS
  <2>3. e.op = "progs" /\ e.at = IF i < Len(Slots(o, p)) THEN <<p, i + 1>> ELSE <<NextProg(o.file, p), 1>>
    BY <1>8, <2>2 DEF next
  <2>4. Stage(fdTable, calls, e, o)
    BY <1>3, <1>4, <1>5, <1>7, <1>12, <2>1, <2>3, StageAdvances
  <2>5. Sound(h)'
    BY <1>2, <1>4, <1>7, <1>9, <1>12, <2>2, <2>4 DEF Sound
  <2>6. \A g \in Handles : (IsOpen(g)' <=> IsOpen(g)) /\ obj'[g] = obj[g]
    BY <1>12 DEF IsOpen
  <2> QED BY <1>5, <1>6, <1>9, <1>12, <2>5, <2>6, OneChanges
<1>13. ASSUME NEW d \in Fds, fdTable[d] = Free,
              fdTable' = [fdTable EXCEPT ![d] = KernelProg(o.file, p, o.imm[p])],
              obj' = [obj EXCEPT ![h] = WithProg(o, p, [Slots(o, p) EXCEPT ![i] = d])]
       PROVE  /\ ObjectInv' /\ OwnerInv'
              /\ \A e \in Fds : fdTable'[e] = fdTable[e] \/ UsesOwn(fdTable'[e])
  <2>1. PICK new : new = KernelProg(o.file, p, o.imm[p])
    OBVIOUS
  <2>2. /\ new.kind = "prog" /\ new.prog = p /\ UsesOwn(new)
        /\ new.uses = [j \in DOMAIN o.file.progs[p].relocs |-> fdTable[MapAt(o, p, j)]]
    BY <1>4, <1>5, <1>11, <2>1, KernelProgIs
  <2>3. fdTable'[d] = new /\ \A e \in Fds \ {d} : fdTable'[e] = fdTable[e]
    BY <1>13, <2>1, <2>2, Opens DEF Kinds
  <2>4. \A e \in Fds : Holds(o, e) => e # d /\ fdTable'[e] = fdTable[e]
    BY <1>2, <1>5, <1>13, <2>3, HeldIsOpen
  <2>5. PICK t : t = fdTable'
    OBVIOUS
  <2>6. OnRight(t, o) /\ Linked(t, o) /\ Stage(t, calls, call, o)
    BY <1>5, <1>7, <2>4, <2>5, SameHeld
  <2>7. \A j \in DOMAIN o.file.progs[p].relocs :
          MapAt(o, p, j) # NoFd /\ t[MapAt(o, p, j)] = fdTable[MapAt(o, p, j)]
    <3> TAKE j \in DOMAIN o.file.progs[p].relocs
    <3> DEFINE k == MapIndex(o.file, o.file.progs[p].relocs[j])
    <3>1. k \in DOMAIN o.maps /\ MapAt(o, p, j) = o.maps[k] /\ MapAt(o, p, j) \in NFds
      BY <1>5, <1>10, MapAtIsMap DEF MapAt
    <3> HIDE DEF k
    <3>2. o.maps[k] # NoFd /\ Holds(o, o.maps[k])
      BY <1>11, <3>1 DEF Fresh, Holds
    <3>3. o.maps[k] \in Fds
      BY <3>1, <3>2 DEF NFds
    <3> QED BY <2>4, <2>5, <3>1, <3>2, <3>3
  <2>8. /\ t[d].kind = "prog" /\ t[d].prog = p
        /\ t[d].uses = [j \in DOMAIN o.file.progs[p].relocs |-> t[MapAt(o, p, j)]]
    BY <2>2, <2>3, <2>5, <2>7
  <2>9. Slots(o, p)[i] = NoFd
    <3>1. CASE o.insts[p] = <<>>
      <4>1. Slots(o, p) = <<NoFd>>
        BY <3>1 DEF Slots
      <4> QED BY <4>1, <1>11
    <3>2. CASE o.insts[p] # <<>>
      <4>1. Slots(o, p) = o.insts[p]
        BY <3>2 DEF Slots
      <4> QED BY <4>1, <1>11
    <3> QED BY <3>1, <3>2
  <2>10. PICK u : u = WithProg(o, p, [Slots(o, p) EXCEPT ![i] = d])
    OBVIOUS
  <2>11. /\ OnRight(t, u) /\ Linked(t, u)
         /\ \A e \in Fds : Holds(u, e) <=> e = d \/ Holds(o, e)
         /\ u.file = o.file /\ u.loaded = o.loaded /\ u.maps = o.maps /\ u.imm = o.imm
         /\ DOMAIN u.insts = DOMAIN o.insts
         /\ \A q \in DOMAIN o.insts \ {p} : u.insts[q] = o.insts[q]
         /\ DOMAIN u.insts[p] = DOMAIN Slots(o, p)
         /\ \A x \in DOMAIN Slots(o, p) \ {i} : u.insts[p][x] = Slots(o, p)[x]
         /\ u.insts[p] # <<>>
    <3>1. \A j \in DOMAIN o.file.progs[p].relocs : MapAt(o, p, j) # NoFd
      BY <2>7
    <3>2. Shape(o) /\ p \in DOMAIN o.insts /\ i \in DOMAIN Slots(o, p)
      BY <1>4, <1>5, <1>11
    <3>3. PICK v : v = [Slots(o, p) EXCEPT ![i] = d]
      OBVIOUS
    <3>4. /\ v \in Seq(NFds) /\ DOMAIN v = DOMAIN Slots(o, p) /\ Len(v) = Len(Slots(o, p))
          /\ v[i] = d /\ \A x \in DOMAIN Slots(o, p) \ {i} : v[x] = Slots(o, p)[x]
      BY <3>2, <3>3, SlotsShape, SlotSet
    <3>5. u = WithProg(o, p, v)
      BY <2>10, <3>3
    <3>6. d \in Fds /\ OnRight(t, o) /\ Linked(t, o)
      BY <2>6
    <3> QED BY ONLY <2>8, <2>9, <3>1, <3>2, <3>4, <3>5, <3>6, WithProgHolds, SMTT(30)
  <2>12. \A x \in DOMAIN Slots(o, p) : x > i => u.insts[p][x] = Slots(o, p)[x]
    BY <1>11, <2>11
  <2>13. PICK e : e = call'
    OBVIOUS
  <2>14. e.op = "progs" /\ e.at = IF i < Len(Slots(o, p)) THEN <<p, i + 1>> ELSE <<NextProg(o.file, p), 1>>
    BY <1>8, <2>13 DEF next
  <2>15. Stage(t, calls, e, u)
    BY <1>3, <1>4, <1>5, <2>6, <2>11, <2>12, <2>14, StageAdvances
  <2>16. Shape(u)
    <3>1. [Slots(o, p) EXCEPT ![i] = d] \in Seq(NFds)
      BY <1>4, <1>5, SlotsShape, SlotSet
    <3> QED BY <1>5, <2>10, <3>1, WithProgShape
  <2>17. /\ obj'[h] = u /\ IsOpen(h)'
         /\ \A g \in Handles \ {h} : obj'[g] = obj[g] /\ (IsOpen(g)' <=> IsOpen(g))
    BY <1>13, <2>10, <2>16, ObjectBecomes
  <2>18. Sound(h)'
    BY <1>4, <1>9, <2>5, <2>11, <2>13, <2>15, <2>17 DEF Sound
  <2>19. ObjectInv' /\ OwnerInv'
    BY <1>2, <1>5, <1>6, <1>9, <1>13, <2>3, <2>4, <2>11, <2>17, <2>18, OneChanges
  <2> QED BY <2>2, <2>3, <2>19
<1> QED BY <1>4, <1>12, <1>13

-----------------------------------------------------------------------------
(***************************************************************************)
(* Pinning.                                                                *)
(***************************************************************************)

LEMMA PinBegins ==
  ASSUME TypeInv, PinInv, NEW h \in Handles, NEW path \in Paths, Pin(h, path)
  PROVE  PinInv'
<1>1. call' = [op |-> "pin", h |-> h, path |-> path, at |-> <<1, 1>>] /\ IsOpen(h) /\ UNCHANGED <<obj, pins>>
  BY DEF Pin
<1>2. PinnedTogether'
  BY <1>1 DEF PinInv, PinnedTogether
<1>3. obj'[call'.h] = obj[h] /\ call'.at[1] = 1
  BY <1>1
<1>4. \A k \in DOMAIN obj[h].maps : ~(k < 1)
  BY <1>1, ShapeOf, FileShape DEF TypeInv
<1> QED BY <1>2, <1>3, <1>4 DEF PinInv

LEMMA RemoveDirKeeps ==
  ASSUME PinInv, NEW path \in Paths, RemoveDir(path)
  PROVE  PinInv'
<1>1. /\ dirs' = dirs \ {path} /\ UNCHANGED <<fdTable, obj, call>>
      /\ \A x : x \in pins' <=> x \in pins /\ x.path # path
  BY DEF RemoveDir
<1>2. PinnedTogether'
  <2> SUFFICES ASSUME NEW x \in pins', x.to.kind = "prog", NEW j \in DOMAIN x.to.uses
               PROVE  [path |-> x.path, name |-> <<"map", x.to.uses[j].offset>>, to |-> x.to.uses[j]] \in pins'
    BY DEF PinnedTogether
  <2> DEFINE y == [path |-> x.path, name |-> <<"map", x.to.uses[j].offset>>, to |-> x.to.uses[j]]
  <2>1. y \in pins /\ y.path = x.path /\ x.path # path
    BY <1>1 DEF PinInv, PinnedTogether
  <2> QED BY <1>1, <2>1
<1>3. ASSUME call.op = "pin", call.path \in dirs', NEW k \in DOMAIN obj[call.h].maps, k < call.at[1]
      PROVE  MapPin(call.path, fdTable, obj[call.h], k) \in pins'
  <2>1. MapPin(call.path, fdTable, obj[call.h], k) \in pins /\ call.path # path
    BY <1>1, <1>3 DEF PinInv
  <2>2. MapPin(call.path, fdTable, obj[call.h], k).path = call.path
    BY DEF MapPin
  <2> QED BY <1>1, <2>1, <2>2
<1> QED BY <1>1, <1>2, <1>3 DEF PinInv

\* A map is pinned before the programs that use it.
LEMMA PinNextKeeps ==
  ASSUME TypeInv, ObjectInv, PinInv, PinNext
  PROVE  PinInv' /\ \A x \in pins' : x \in pins \/ \E d \in Fds : x.to = fdTable[d]
<1>1. PICK h \in Handles : h = call.h
  BY DEF PinNext, TypeInv, CallShape
<1>2. PICK o : o = obj[h]
  OBVIOUS
<1>3. PICK k : k = call.at[1]
  OBVIOUS
<1>4. PICK c : c = Cursor(o)
  OBVIOUS
<1> DEFINE n == Len(o.maps)
           path == call.path
           new == [path |-> path, name |-> c.name, to |-> fdTable[c.fd]]
<1>5. /\ call.op = "pin" /\ k <= n + Len(o.insts) /\ c.fd # NoFd /\ path \in dirs
      /\ pins' = pins \cup {new}
      /\ call' = [call EXCEPT !.at = After(o)] /\ UNCHANGED <<fdTable, obj, dirs>>
  BY <1>1, <1>2, <1>3, <1>4 DEF PinNext, CanPin
<1>6. /\ IsOpen(h) /\ Shape(o) /\ Sound(h) /\ DOMAIN call = {"op", "h", "path", "at"}
  BY <1>1, <1>2, <1>5 DEF TypeInv, CallShape, ObjectInv
<1>7. OnRight(fdTable, o) /\ Linked(fdTable, o)
  BY <1>2, <1>6 DEF Sound
<1>8. /\ k \in Nat \ {0} /\ PinnedTogether
      /\ \A m \in DOMAIN o.maps : m < k => MapPin(path, fdTable, o, m) \in pins
  BY <1>1, <1>2, <1>3, <1>5 DEF PinInv
<1>9. n \in Nat /\ DOMAIN o.maps = 1..n /\ Len(o.insts) \in Nat /\ DOMAIN o.insts = 1..Len(o.insts)
  <2>1. /\ o.maps \in [DOMAIN o.file.maps -> NFds] /\ o.insts \in [DOMAIN o.file.progs -> Seq(NFds)]
        /\ Len(o.file.maps) \in Nat /\ DOMAIN o.file.maps = 1..Len(o.file.maps)
        /\ Len(o.file.progs) \in Nat /\ DOMAIN o.file.progs = 1..Len(o.file.progs)
    BY <1>6, ShapeOf, FileShape DEF Shape
  <2>2. \A S : \A m \in Nat : \A f \in [1..m -> S] : Len(f) = m /\ DOMAIN f = 1..m
    OBVIOUS
  <2> QED BY <2>1, <2>2
<1>10. call'.op = "pin" /\ call'.h = h /\ call'.path = path /\ call'.at = After(o)
  BY <1>1, <1>5, <1>6
<1>11. After(o)[1] \in {k, k + 1} /\ (k <= n => After(o)[1] = k + 1)
  <2>1. /\ k > n /\ call.at[2] < Len(o.insts[k - n]) => After(o) = <<k, call.at[2] + 1>>
        /\ ~(k > n /\ call.at[2] < Len(o.insts[k - n])) => After(o) = <<k + 1, 1>>
    BY <1>3 DEF After
  <2> QED BY <2>1, <1>8, <1>9
<1> HIDE DEF n, path
<1>12. CASE k <= n
  <2>1. c = [name |-> <<"map", Sorted(o.file)[k]>>, fd |-> o.maps[k]]
    BY <1>3, <1>4, <1>12 DEF Cursor, n
  <2>2. k \in DOMAIN o.maps /\ c.fd \in Fds
    BY <1>5, <1>6, <1>8, <1>9, <1>12, <2>1, ShapeOf DEF NFds
  <2>3. new = MapPin(path, fdTable, o, k)
    BY <2>1 DEF MapPin
  <2>4. new.to.kind = "map"
    BY <1>5, <1>7, <2>1, <2>2 DEF OnRight
  <2> HIDE DEF new
  <2>5. PinnedTogether'
    BY <1>5, <1>8, <2>4 DEF PinnedTogether
  <2>6. \A m \in DOMAIN o.maps : m < k + 1 => MapPin(path, fdTable, o, m) \in pins'
    <3> TAKE m \in DOMAIN o.maps
    <3> HAVE m < k + 1
    <3>1. m < k \/ m = k
      BY <1>8, <1>9
    <3> QED BY <1>5, <1>8, <2>3, <3>1
  <2>7. PinInv'
    <3>1. obj'[call'.h] = o /\ call'.at[1] = k + 1 /\ fdTable' = fdTable /\ call'.path = path
      BY <1>2, <1>5, <1>10, <1>11, <1>12
    <3>2. call'.at[1] \in Nat \ {0}
      BY <1>8, <3>1
    <3> QED BY <2>5, <2>6, <3>1, <3>2 DEF PinInv
  <2>8. new.to = fdTable[c.fd]
    BY DEF new
  <2> QED BY <1>5, <2>2, <2>7, <2>8
<1>13. CASE k > n
  <2>1. PICK p, i : p = k - n /\ i = call.at[2]
    OBVIOUS
  <2>2. p \in DOMAIN o.insts
    <3>1. k <= n + Len(o.insts) /\ k \in Nat /\ n \in Nat /\ Len(o.insts) \in Nat /\ k > n
      BY <1>5, <1>8, <1>9, <1>13
    <3>2. k - n \in 1..Len(o.insts)
      BY ONLY <3>1
    <3> QED BY <1>9, <2>1, <3>2
  <2>3. c.fd = IF i \in DOMAIN o.insts[p] THEN o.insts[p][i] ELSE NoFd
    BY <1>3, <1>4, <1>8, <1>9, <1>13, <2>1 DEF Cursor, n
  <2>4. i \in DOMAIN o.insts[p] /\ c.fd = o.insts[p][i] /\ c.fd \in Fds
    BY <1>5, <1>6, <2>2, <2>3, ShapeOf DEF NFds
  <2>5. /\ new.path = path /\ new.to = fdTable[c.fd]
        /\ new.to.uses = [j \in DOMAIN o.file.progs[p].relocs |-> fdTable[MapAt(o, p, j)]]
        /\ \A j \in DOMAIN o.file.progs[p].relocs : MapAt(o, p, j) # NoFd
    BY <1>5, <1>7, <2>2, <2>4 DEF Linked
  <2> HIDE DEF new
  <2>6. \A j \in DOMAIN new.to.uses :
          [path |-> path, name |-> <<"map", new.to.uses[j].offset>>, to |-> new.to.uses[j]] \in pins
    <3> TAKE j \in DOMAIN new.to.uses
    <3>1. j \in DOMAIN o.file.progs[p].relocs /\ p \in DOMAIN o.file.progs
          /\ new.to.uses[j] = fdTable[MapAt(o, p, j)] /\ MapAt(o, p, j) # NoFd
      BY <1>6, <2>2, <2>5, ShapeOf
    <3>2. PICK m : m = MapIndex(o.file, o.file.progs[p].relocs[j])
      OBVIOUS
    <3>3. m \in DOMAIN o.maps /\ MapAt(o, p, j) = o.maps[m]
      BY <1>6, <3>1, <3>2, MapAtIsMap DEF MapAt
    <3>4. fdTable[o.maps[m]].offset = Sorted(o.file)[m]
      BY <1>7, <3>1, <3>3 DEF OnRight
    <3>5. MapPin(path, fdTable, o, m) \in pins
      BY <1>8, <1>9, <1>13, <3>3
    <3> QED BY <3>1, <3>3, <3>4, <3>5 DEF MapPin
  <2>7. PinnedTogether'
    <3> SUFFICES ASSUME NEW x \in pins', x.to.kind = "prog", NEW j \in DOMAIN x.to.uses
                 PROVE  [path |-> x.path, name |-> <<"map", x.to.uses[j].offset>>, to |-> x.to.uses[j]] \in pins'
      BY DEF PinnedTogether
    <3>1. CASE x \in pins
      BY <1>5, <1>8, <3>1 DEF PinnedTogether
    <3>2. CASE x = new
      BY <1>5, <2>5, <2>6, <3>2
    <3> QED BY <1>5, <3>1, <3>2
  <2>8. \A m \in DOMAIN o.maps : MapPin(path, fdTable, o, m) \in pins'
    BY <1>5, <1>8, <1>9, <1>13
  <2>9. PinInv'
    BY <1>2, <1>5, <1>8, <1>10, <1>11, <2>7, <2>8 DEF PinInv
  <2> QED BY <1>5, <2>4, <2>5, <2>9
<1> QED BY <1>8, <1>9, <1>12, <1>13

-----------------------------------------------------------------------------
(***************************************************************************)
(* Every step keeps the invariant.                                         *)
(***************************************************************************)

\* No step but those of pinning touches the files, and only loads make programs.
LEMMA RestKeeps ==
  ASSUME ProgramsUseOwnMaps, PinInv, pins' = pins, call'.op # "pin",
         \A d \in Fds : fdTable'[d] # fdTable[d] => fdTable'[d].kind # "prog"
  PROVE  ProgramsUseOwnMaps' /\ PinInv'
<1>1. ProgramsUseOwnMaps'
  BY ProgramsKeep
<1> QED BY <1>1, PinsKeep

LEMMA NextIInv ==
  ASSUME IInv, [Next]_vars
  PROVE  IInv'
<1> DEFINE Rest == ObjectInv' /\ OwnerInv' /\ ProgramsUseOwnMaps' /\ PinInv'
<1>0. TypeInv /\ ObjectInv /\ OwnerInv /\ ProgramsUseOwnMaps /\ PinInv /\ TypeInv'
  BY NextTypeInv DEF IInv
<1> SUFFICES Rest
  BY <1>0 DEF IInv
<1>1. ASSUME NEW f \in Files, OpenNotElf(f) PROVE Rest
  <2>1. PICK d \in Fds : fdTable[d] = Free /\ fdTable' = [fdTable EXCEPT ![d] = [kind |-> "elf"]]
    BY <1>1, LowestIsFree DEF OpenNotElf
  <2>2. call = NoCall /\ UNCHANGED <<obj, call, dirs, pins>>
    BY <1>0, <1>1, NewCallEffect DEF OpenNotElf
  <2>3. \A g \in Handles : ~Loading(g) /\ ~Loading(g)'
    BY <2>2 DEF Loading, NoCall
  <2>4. \A e \in Fds : fdTable'[e] # fdTable[e] => fdTable[e] = Free /\ fdTable'[e].kind = "elf"
    BY <1>0, <2>1 DEF TypeInv
  <2>5. ObjectInv' /\ OwnerInv'
    BY <1>0, <2>2, <2>3, <2>4, NoneChanges
  <2>6. call'.op # "pin" /\ \A e \in Fds : fdTable'[e] # fdTable[e] => fdTable'[e].kind # "prog"
    BY <2>2, <2>4 DEF NoCall
  <2> QED BY <1>0, <2>2, <2>5, <2>6, RestKeeps
<1>2. ASSUME NEW h \in Handles, NEW f \in Files, OpenBadStrtab(h, f) PROVE Rest
  <2>1. /\ call = NoCall /\ UNCHANGED <<fdTable, call, dirs, pins>>
        /\ obj[h] = Closed /\ obj' = [obj EXCEPT ![h] = Garbage]
    BY <1>0, <1>2, NewCallEffect DEF OpenBadStrtab
  <2>2. \A g \in Handles : ~Loading(g) /\ ~Loading(g)'
    BY <2>1 DEF Loading, NoCall
  <2>3. /\ obj'[h] = Garbage
        /\ \A g \in Handles \ {h} : obj'[g] = obj[g] /\ (IsOpen(g)' <=> IsOpen(g))
    BY <1>0, <2>1, ObjectBecomes
  <2>4. ~IsOpen(h) /\ ~IsOpen(h)'
    BY <2>1, <2>3 DEF IsOpen
  <2>5. ObjectInv' /\ OwnerInv'
    BY <1>0, <2>1, <2>2, <2>3, <2>4, OneChanges
  <2>6. call'.op # "pin"
    BY <2>1 DEF NoCall
  <2> QED BY <1>0, <2>1, <2>5, <2>6, RestKeeps
<1>3. ASSUME NEW h \in Handles, NEW f \in Files, Opened(h, f), UNCHANGED <<dirs, pins>>,
             call' = call \/ call' = [op |-> "load", h |-> h, closes |-> TRUE]
      PROVE  Rest
  <2>1. call'.op \in {"none", "load"}
    BY <1>0, <1>3, OpenedEffect, NewCallEffect DEF NoCall
  <2>2. ObjectInv' /\ OwnerInv' /\ \A d \in Fds : fdTable'[d] # fdTable[d] => fdTable'[d].kind # "prog"
    BY <1>0, <1>3, <2>1, OpenedKeeps
  <2> QED BY <1>0, <1>3, <2>1, <2>2, RestKeeps
<1>4. ASSUME NEW h \in Handles, NEW p \in ProgsOf(h), SetPrep(h, p) PROVE Rest
  <2>1. ObjectInv' /\ OwnerInv'
    BY <1>0, <1>4, SetPrepKeeps
  <2>2. UNCHANGED <<fdTable, pins>> /\ call'.op # "pin"
    BY <1>0, <1>4, SetPrepEffect, NewCallEffect DEF NoCall
  <2> QED BY <1>0, <2>1, <2>2, RestKeeps
<1>5. ASSUME NEW h \in Handles, Load(h) PROVE Rest
  <2>1. /\ call = NoCall /\ call' = [op |-> "load", h |-> h, closes |-> FALSE]
        /\ UNCHANGED <<fdTable, obj, pins>>
    BY <1>0, <1>5, NewCallEffect DEF Load
  <2>2. \A g \in Handles : ~Loading(g) /\ ~Loading(g)'
    BY <2>1 DEF Loading, NoCall
  <2>3. ObjectInv' /\ OwnerInv'
    BY <1>0, <2>1, <2>2, NoneChanges
  <2> QED BY <1>0, <2>1, <2>3, RestKeeps
<1>6. ASSUME NEW h \in Handles, NEW path \in Paths, Pin(h, path) PROVE Rest
  <2>1. /\ call = NoCall /\ call' = [op |-> "pin", h |-> h, path |-> path, at |-> <<1, 1>>]
        /\ UNCHANGED <<fdTable, obj, pins>>
    BY <1>0, <1>6, NewCallEffect DEF Pin
  <2>2. \A g \in Handles : ~Loading(g) /\ ~Loading(g)'
    BY <2>1 DEF Loading, NoCall
  <2>3. ObjectInv' /\ OwnerInv'
    BY <1>0, <2>1, <2>2, NoneChanges
  <2>4. PinInv'
    BY <1>0, <1>6, PinBegins
  <2>5. ProgramsUseOwnMaps'
    BY <1>0, <2>1, ProgramsKeep
  <2> QED BY <2>3, <2>4, <2>5
<1>7. ASSUME NEW h \in Handles, Unload(h) \/ Close(h) PROVE Rest
  <2>1. /\ call = NoCall /\ UNCHANGED <<call, pins>> /\ IsOpen(h)
        /\ \/ /\ fdTable' = Shut(fdTable, FdsOf(obj[h]) \cup BtfFd(obj[h]))
              /\ obj' = [obj EXCEPT ![h] = Closed]
           \/ /\ fdTable' = Shut(fdTable, FdsOf(obj[h]))
              /\ obj' = [obj EXCEPT ![h] = Unloaded(obj[h])]
    BY <1>0, <1>7, NewCallEffect DEF Unload, Close
  <2>2. (\A g \in Handles : ~Loading(g)') /\ \A g \in Handles \ {h} : ~Loading(g)
    BY <2>1 DEF Loading, NoCall
  <2>3. ObjectInv' /\ OwnerInv' /\ \A d \in Fds : fdTable'[d] # fdTable[d] => fdTable'[d].kind # "prog"
    BY <1>0, <2>1, <2>2, ShutKeeps
  <2>4. call'.op # "pin"
    BY <2>1 DEF NoCall
  <2> QED BY <1>0, <2>1, <2>3, <2>4, RestKeeps
<1>8. CASE BeginLoad
  <2>1. ObjectInv' /\ OwnerInv'
    BY <1>0, <1>8, BeginLoadKeeps
  <2>2. UNCHANGED <<fdTable, pins>> /\ call'.op # "pin"
    BY <1>8 DEF BeginLoad, NoCall
  <2> QED BY <1>0, <2>1, <2>2, RestKeeps
<1>9. CASE FailLoad
  <2>1. PICK h \in Handles : h = call.h
    BY <1>0, <1>9, FailLoadEffect DEF TypeInv, CallShape
  <2>2. /\ call.op \in {"maps", "relocate", "progs"} /\ call' = NoCall /\ pins' = pins
        /\ \/ /\ fdTable' = Shut(fdTable, FdsOf(obj[h]) \cup BtfFd(obj[h]))
              /\ obj' = [obj EXCEPT ![h] = Closed]
           \/ /\ fdTable' = Shut(fdTable, FdsOf(obj[h]))
              /\ obj' = [obj EXCEPT ![h] = Unloaded(obj[h])]
    BY <1>0, <1>9, <2>1, FailLoadEffect
  <2>3. (\A g \in Handles : ~Loading(g)') /\ (\A g \in Handles \ {h} : ~Loading(g)) /\ IsOpen(h)
    BY <1>0, <2>1, <2>2 DEF Loading, NoCall, TypeInv, CallShape
  <2>4. ObjectInv' /\ OwnerInv' /\ \A d \in Fds : fdTable'[d] # fdTable[d] => fdTable'[d].kind # "prog"
    BY <1>0, <2>2, <2>3, ShutKeeps
  <2>5. call'.op # "pin"
    BY <2>2 DEF NoCall
  <2> QED BY <1>0, <2>2, <2>4, <2>5, RestKeeps
<1>10. CASE CreateMap
  <2>1. ObjectInv' /\ OwnerInv' /\ \A d \in Fds : fdTable'[d] # fdTable[d] => fdTable'[d].kind # "prog"
    BY <1>0, <1>10, CreateMapKeeps
  <2>2. DOMAIN call = {"op", "h", "closes", "at"} /\ call.op = "maps"
    BY <1>0, <1>10 DEF CreateMap, TypeInv, CallShape
  <2>3. pins' = pins /\ call'.op \in {"maps", "relocate"}
    BY <1>10, <2>2 DEF CreateMap
  <2> QED BY <1>0, <2>1, <2>3, RestKeeps
<1>11. CASE Relocate
  <2>1. ObjectInv' /\ OwnerInv'
    BY <1>0, <1>11, RelocateKeeps
  <2>2. DOMAIN call = {"op", "h", "closes", "at"}
    BY <1>0, <1>11 DEF Relocate, TypeInv, CallShape
  <2>3. UNCHANGED <<fdTable, pins>> /\ call'.op = "progs"
    BY <1>0, <1>11, <2>2, RelocateEffect
  <2> QED BY <1>0, <2>1, <2>3, RestKeeps
<1>12. CASE LoadInstance
  <2>1. ObjectInv' /\ OwnerInv' /\ \A d \in Fds : fdTable'[d] = fdTable[d] \/ UsesOwn(fdTable'[d])
    BY <1>0, <1>12, LoadInstanceKeeps
  <2>2. DOMAIN call = {"op", "h", "closes", "at"} /\ call.op = "progs"
    BY <1>0, <1>12 DEF LoadInstance, TypeInv, CallShape
  <2>3. pins' = pins /\ call'.op = "progs"
    BY <1>12, <2>2 DEF LoadInstance
  <2>4. ProgramsUseOwnMaps'
    BY <1>0, <2>1, <2>3, ProgramsKeep
  <2>5. PinInv'
    BY <1>0, <2>3, PinsKeep
  <2> QED BY <2>1, <2>4, <2>5
<1>13. CASE EndLoad
  <2>1. ObjectInv' /\ OwnerInv'
    BY <1>0, <1>13, EndLoadKeeps
  <2>2. UNCHANGED <<fdTable, pins>> /\ call'.op # "pin"
    BY <1>13 DEF EndLoad, NoCall
  <2> QED BY <1>0, <2>1, <2>2, RestKeeps
<1>14. CASE EndPin
  <2>1. UNCHANGED <<fdTable, obj, pins>> /\ call.op = "pin" /\ call' = NoCall
    BY <1>14 DEF EndPin
  <2>2. \A g \in Handles : ~Loading(g) /\ ~Loading(g)'
    BY <2>1 DEF Loading, NoCall
  <2>3. ObjectInv' /\ OwnerInv'
    BY <1>0, <2>1, <2>2, NoneChanges
  <2>4. call'.op # "pin"
    BY <2>1 DEF NoCall
  <2> QED BY <1>0, <2>1, <2>3, <2>4, RestKeeps
<1>15. CASE PinNext
  <2>1. PinInv' /\ \A x \in pins' : x \in pins \/ \E d \in Fds : x.to = fdTable[d]
    BY <1>0, <1>15, PinNextKeeps
  <2>2. UNCHANGED <<fdTable, obj>> /\ call.op = "pin" /\ DOMAIN call = {"op", "h", "path", "at"}
    BY <1>0, <1>15 DEF PinNext, TypeInv, CallShape
  <2>3. call'.op = "pin"
    BY <1>15, <2>2 DEF PinNext
  <2>4. \A g \in Handles : ~Loading(g) /\ ~Loading(g)'
    BY <2>2, <2>3 DEF Loading
  <2>5. ObjectInv' /\ OwnerInv'
    BY <1>0, <2>2, <2>4, NoneChanges
  <2>6. ProgramsUseOwnMaps'
    BY <1>0, <2>1, <2>2, ProgramsKeep
  <2> QED BY <2>1, <2>5, <2>6
<1>16. ASSUME NEW path \in Paths, RemoveDir(path) PROVE Rest
  <2>1. UNCHANGED <<fdTable, obj, call, calls>> /\ pins' \subseteq pins
    BY <1>16 DEF RemoveDir
  <2>2. ObjectInv' /\ OwnerInv'
    BY <1>0, <2>1, AllStay
  <2>3. PinInv'
    BY <1>0, <1>16, RemoveDirKeeps
  <2>4. ProgramsUseOwnMaps'
    BY <1>0, <2>1, ProgramsKeep
  <2> QED BY <2>2, <2>3, <2>4
<1>17. CASE Kill
  <2>1. /\ \A h \in Handles : ~IsOpen(h)'
        /\ \A d \in Fds : fdTable'[d] = Free /\ pins' = pins /\ call' = NoCall
    BY <1>17 DEF Kill, IsOpen
  <2>2. Free.kind = "free" /\ NoCall.op = "none" /\ pins' = pins /\ call' = NoCall
    BY <1>17 DEF Free, NoCall, Kill
  <2>3. ObjectInv' /\ OwnerInv'
    BY <2>1, <2>2 DEF ObjectInv, OwnerInv
  <2>4. call'.op # "pin" /\ \A d \in Fds : fdTable'[d].kind # "prog"
    BY <2>1, <2>2
  <2> QED BY <1>0, <2>2, <2>3, <2>4, RestKeeps
<1>18. CASE UNCHANGED vars
  <2>1. UNCHANGED <<fdTable, obj, call, calls, dirs, pins>>
    BY <1>18 DEF vars
  <2>2. ObjectInv' /\ OwnerInv'
    BY <1>0, <2>1, AllStay
  <2>3. ProgramsUseOwnMaps'
    BY <1>0, <2>1, ProgramsKeep
  <2>4. PinInv'
    BY <1>0, <2>1 DEF PinInv, PinnedTogether
  <2> QED BY <2>2, <2>3, <2>4
<1> QED
  <2>1. CASE Next
    BY <2>1, <1>1, <1>2, <1>3, <1>4, <1>5, <1>6, <1>7, <1>8, <1>9, <1>10, <1>11, <1>12,
       <1>13, <1>14, <1>15, <1>16, <1>17 DEF Next, Open, ProgLoad
  <2> QED BY <2>1, <1>18

LEMMA Invariant == Spec => []IInv
<1>1. Init => IInv
  <2> SUFFICES ASSUME Init PROVE IInv
    OBVIOUS
  <2>1. TypeInv
    BY DEF Init, TypeInv, CallShape, NoCall, Free, IsOpen, Closed
  <2>2. (\A h \in Handles : ~IsOpen(h)) /\ (\A d \in Fds : fdTable[d].kind = "free")
        /\ pins = {} /\ call.op = "none"
    BY DEF Init, IsOpen, Free, NoCall
  <2>3. ObjectInv /\ OwnerInv
    BY <2>2 DEF ObjectInv, OwnerInv
  <2>4. ProgramsUseOwnMaps
    BY <2>2 DEF ProgramsUseOwnMaps, Programs
  <2>5. PinInv
    BY <2>2 DEF PinInv, PinnedTogether
  <2> QED BY <2>1, <2>3, <2>4, <2>5 DEF IInv
<1> QED BY <1>1, NextIInv, PTL DEF Spec

-----------------------------------------------------------------------------
(***************************************************************************)
(* What follows from it.                                                   *)
(***************************************************************************)

\* What an object should hold is what it holds.
LEMMA ExpectedIsHeld ==
  ASSUME NEW o, NEW d
  PROVE  (\E e \in Expected(o) : e[1] = d) <=> Holds(o, d)
<1> DEFINE A == {<<o.maps[k], "map", Sorted(o.file)[k]>> : k \in DOMAIN o.maps}
           B == UNION {{<<o.insts[p][i], "prog", p>> : i \in DOMAIN o.insts[p]} : p \in DOMAIN o.insts}
           C == {<<o.btf, "btf", 0>>}
<1>1. (\E e \in A : e[1] = d) <=> \E k \in DOMAIN o.maps : o.maps[k] = d
  <2>1. \A e \in A : \E k \in DOMAIN o.maps : e[1] = o.maps[k]
    OBVIOUS
  <2>2. \A k \in DOMAIN o.maps : \E e \in A : e[1] = o.maps[k]
    <3> TAKE k \in DOMAIN o.maps
    <3>1. <<o.maps[k], "map", Sorted(o.file)[k]>> \in A
      OBVIOUS
    <3> HIDE DEF A
    <3> QED BY <3>1
  <2> HIDE DEF A
  <2> QED BY <2>1, <2>2
<1>2. (\E e \in B : e[1] = d) <=> \E p \in DOMAIN o.insts : \E i \in DOMAIN o.insts[p] : o.insts[p][i] = d
  <2>1. \A e \in B : \E p \in DOMAIN o.insts : \E i \in DOMAIN o.insts[p] : e[1] = o.insts[p][i]
    OBVIOUS
  <2>2. \A p \in DOMAIN o.insts : \A i \in DOMAIN o.insts[p] : \E e \in B : e[1] = o.insts[p][i]
    <3> TAKE p \in DOMAIN o.insts
    <3> TAKE i \in DOMAIN o.insts[p]
    <3>1. <<o.insts[p][i], "prog", p>> \in B
      OBVIOUS
    <3> HIDE DEF B
    <3> QED BY <3>1
  <2> HIDE DEF B
  <2> QED BY <2>1, <2>2
<1>3. (\E e \in C : e[1] = d) <=> o.btf = d
  OBVIOUS
<1>4. Expected(o) = A \cup B \cup C
  BY DEF Expected
<1> HIDE DEF A, B, C
<1> QED BY <1>1, <1>2, <1>3, <1>4 DEF Holds

LEMMA IInvIsTyped == IInv => TypeOK
<1> SUFFICES ASSUME IInv PROVE TypeOK
  OBVIOUS
<1>1. \A h \in Handles : IsOpen(h) => ObjectOK(obj[h])
  <2> SUFFICES ASSUME NEW o, Shape(o) PROVE ObjectOK(o)
    BY DEF IInv, TypeInv
  <2>1. DOMAIN o.insts = DOMAIN o.file.progs
    BY ShapeOf
  <2> QED BY <2>1 DEF Shape, ObjectOK, NFds
<1> QED BY <1>1 DEF IInv, TypeInv, CallShape, TypeOK

LEMMA IInvAccounts == IInv => FdsAccounted
<1> SUFFICES ASSUME IInv PROVE FdsAccounted
  OBVIOUS
<1>1. ASSUME NEW h \in Handles, IsOpen(h), NEW e \in Expected(obj[h]), e[1] # NoFd
      PROVE  IsOn(e[1], e[2], e[3])
  <2>1. PICK o : o = obj[h]
    OBVIOUS
  <2>2. OnRight(fdTable, o)
    BY <1>1, <2>1 DEF IInv, ObjectInv, Sound
  <2>3. ASSUME NEW k \in DOMAIN o.maps, e = <<o.maps[k], "map", Sorted(o.file)[k]>>
        PROVE  IsOn(e[1], e[2], e[3])
    <3>1. e[1] = o.maps[k] /\ e[2] = "map" /\ e[3] = Sorted(o.file)[k]
      BY <2>3
    <3> QED BY <1>1, <2>2, <3>1 DEF OnRight, IsOn
  <2>4. ASSUME NEW p \in DOMAIN o.insts, NEW i \in DOMAIN o.insts[p], e = <<o.insts[p][i], "prog", p>>
        PROVE  IsOn(e[1], e[2], e[3])
    <3>1. e[1] = o.insts[p][i] /\ e[2] = "prog" /\ e[3] = p
      BY <2>4
    <3> QED BY <1>1, <2>2, <3>1 DEF OnRight, IsOn
  <2>5. ASSUME e = <<o.btf, "btf", 0>>
        PROVE  IsOn(e[1], e[2], e[3])
    <3>1. e[1] = o.btf /\ e[2] = "btf"
      BY <2>5
    <3> QED BY <1>1, <2>2, <3>1 DEF OnRight, IsOn
  <2>6. \/ \E k \in DOMAIN o.maps : e = <<o.maps[k], "map", Sorted(o.file)[k]>>
        \/ \E p \in DOMAIN o.insts : \E i \in DOMAIN o.insts[p] : e = <<o.insts[p][i], "prog", p>>
        \/ e = <<o.btf, "btf", 0>>
    BY <2>1 DEF Expected
  <2> QED BY <2>3, <2>4, <2>5, <2>6
<1>2. ASSUME NEW d \in Fds, fdTable[d].kind \notin {"free", "elf"}
      PROVE  Cardinality({h \in Handles : IsOpen(h) /\ \E e \in Expected(obj[h]) : e[1] = d}) = 1
  <2>1. PICK g \in Handles : IsOpen(g) /\ Holds(obj[g], d)
    BY <1>2 DEF IInv, OwnerInv
  <2>2. \A h \in Handles : IsOpen(h) /\ Holds(obj[h], d) => h = g
    BY <2>1 DEF IInv, OwnerInv
  <2>3. \A h \in Handles : (\E e \in Expected(obj[h]) : e[1] = d) <=> Holds(obj[h], d)
    BY ExpectedIsHeld
  <2>4. {h \in Handles : IsOpen(h) /\ \E e \in Expected(obj[h]) : e[1] = d} = {g}
    BY <2>1, <2>2, <2>3
  <2> QED BY <2>4, FS_Singleton
<1> QED BY <1>1, <1>2 DEF FdsAccounted

LEMMA IInvIsWhole == IInv => AllOrNothing
<1> SUFFICES ASSUME IInv, NEW h \in Handles, IsOpen(h), call.op = "none" \/ call.h # h,
                    NEW o, o = obj[h]
             PROVE  \/ FdsOf(o) = {}
                    \/ /\ NoFd \notin ToSet(o.maps)
                       /\ \A p \in DOMAIN o.insts : ~o.file.progs[p].text => o.insts[p] # <<>>
  BY DEF AllOrNothing
<1>1. Shape(o) /\ Settled(o)
  BY DEF IInv, TypeInv, ObjectInv, Sound, Loading
<1>2. CASE NoMaps(o) /\ Vacant(o)
  <2>1. \A d \in ToSet(o.maps) : d = NoFd
    BY <1>2 DEF NoMaps, ToSet
  <2>2. \A p \in DOMAIN o.insts : \A d \in ToSet(o.insts[p]) : d = NoFd
    BY <1>2 DEF Vacant, ToSet
  <2>3. FdsOf(o) = {}
    BY <2>1, <2>2 DEF FdsOf
  <2> QED BY <2>3
<1>3. CASE /\ \A k \in DOMAIN o.maps : o.maps[k] # NoFd
           /\ HasProgs(o, Len(o.file.progs) + 1)
  <2>1. NoFd \notin ToSet(o.maps)
    BY <1>3 DEF ToSet
  <2>2. \A p \in DOMAIN o.insts : p < Len(o.file.progs) + 1
    BY <1>1, ShapeOf, FileShape
  <2>3. \A p \in DOMAIN o.insts : ~o.file.progs[p].text => o.insts[p] # <<>>
    BY <1>3, <2>2 DEF HasProgs
  <2> QED BY <2>1, <2>3
<1> QED BY <1>1, <1>2, <1>3 DEF Settled

-----------------------------------------------------------------------------
(***************************************************************************)
(* The theorems.                                                           *)
(***************************************************************************)

\* The objects, the call under way and the files have their types; a call works
\* on an object that is open, and a pinned file is in a directory that exists.
THEOREM ObjectsTypeCorrect == Spec => []TypeOK
BY Invariant, IInvIsTyped, PTL

\* No failure, unloading or closing of an object leaks a descriptor or closes
\* one that stands for something else by now.
THEOREM DescriptorsAccounted == Spec => []FdsAccounted
BY Invariant, IInvAccounts, PTL

\* A program in the kernel works on the maps that bpf_object__relocate found for
\* its relocations, all made by the load that made the program.
THEOREM ProgramsOnOwnMaps == Spec => []ProgramsUseOwnMaps
<1>1. IInv => ProgramsUseOwnMaps
  BY DEF IInv
<1> QED BY <1>1, Invariant, PTL

\* bpf_object__load has made everything or, after a failure, undone everything.
THEOREM LoadsAreWhole == Spec => []AllOrNothing
BY Invariant, IInvIsWhole, PTL

\* bpf_object__pin never leaves a program in a directory without its maps.
THEOREM PinsAreWhole == Spec => []PinnedTogether
<1>1. IInv => PinnedTogether
  BY DEF IInv, PinInv
<1> QED BY <1>1, Invariant, PTL

=============================================================================
