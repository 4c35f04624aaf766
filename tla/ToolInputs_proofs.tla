------------------------- MODULE ToolInputs_proofs -------------------------
(***************************************************************************)
(* What the two tools make of their command lines and of the ELF file, for *)
(* lines and files of every length: the loops of getopt_long, qsort, the   *)
(* relocations and ksym_search, each followed item by item.                *)
(*                                                                         *)
(* A loop over a sequence is a fold.  For each one, a predicate XxxBy(r,   *)
(* ..) says that r[i] is its state after i items, and a lemma that there   *)
(* is such an r; an invariant of r[i] is then proved by induction on i.    *)
(***************************************************************************)
EXTENDS Libraries, FoldLemmas

\* What is handed over item by item.
ItemsInv ==
  /\ part \in Part /\ items \in Seq(ItemsOf[part])
  /\ part = "ksyms" => \A i, j \in DOMAIN items : i < j => items[i] < items[j]

Parts == {"cmdline", "user", "symbols", "sections", "ksyms", "attributes", "types"}

\* The items are inputs of the part.
LEMMA InputOf ==
  ASSUME ItemsInv
  PROVE  /\ part \in Parts /\ Len(items) \in Nat /\ DOMAIN items = 1..Len(items)
         /\ part = "cmdline" => items \in Seq(Options)
         /\ part = "user" => items \in Seq(UserOptions)
         /\ part = "symbols" => items \in Seq(Symbols)
         /\ part = "sections" => items \in Seq(Sections)
         /\ part = "ksyms" => items \in Seq(Addresses)
         /\ part = "attributes" => items \in Seq(Attributes)
         /\ part = "types" => items \in Seq(Types)
BY PartsAssumption DEF ItemsInv, ItemsOf, Parts

\* Extend hands over inputs of the part, addresses in ascending order.
LEMMA ItemsTyped == LibSpec => []ItemsInv
<1>1. LibInit => ItemsInv
  BY PartsAssumption DEF LibInit, ItemsInv, ItemsOf
<1>2. ItemsInv /\ [LibNext]_libVars => ItemsInv'
  <2> SUFFICES ASSUME ItemsInv, [LibNext]_libVars PROVE ItemsInv'
    OBVIOUS
  <2>1. CASE UNCHANGED libVars
    BY <2>1 DEF ItemsInv, libVars
  <2>2. CASE LibNext
    <3> PICK i \in ItemsOf[part] : /\ (part = "ksyms" /\ items # <<>>) => i > Last(items)
                                   /\ items' = Append(items, i)
      BY <2>2 DEF LibNext, Extend
    <3>1. part' = part
      BY <2>2 DEF LibNext, Extend
    <3>2. items' \in Seq(ItemsOf[part]) /\ items \in Seq(ItemsOf[part])
      BY DEF ItemsInv
    <3>3. ASSUME part = "ksyms", NEW j \in DOMAIN items', NEW k \in DOMAIN items', j < k
          PROVE  items'[j] < items'[k]
      <4>1. items \in Seq(Nat) /\ i \in Nat /\ \A x, y \in DOMAIN items : x < y => items[x] < items[y]
        BY <3>3, InputOf, ElfAssumption DEF ItemsInv, ItemsOf
      <4>2. CASE k \in DOMAIN items
        BY <3>3, <4>1, <4>2
      <4>3. CASE k \notin DOMAIN items
        <5>1. items # <<>> /\ k = Len(items) + 1 /\ j \in 1..Len(items) /\ items'[k] = i /\ items'[j] = items[j]
          BY <3>3, <4>1, <4>3
        <5>2. items[j] <= items[Len(items)]
          BY <4>1, <5>1
        <5>3. i > items[Len(items)]
          BY <3>3, <5>1 DEF Last
        <5>4. items[j] \in Nat /\ items[Len(items)] \in Nat
          BY <4>1, <5>1
        <5> QED BY <4>1, <5>1, <5>2, <5>3, <5>4
      <4> QED BY <4>2, <4>3
    <3> QED BY <3>1, <3>2, <3>3 DEF ItemsInv
  <2> QED BY <2>1, <2>2
<1> QED BY <1>1, <1>2, PTL DEF LibSpec

\* Items 1 to i that bear one of the names.
Among(line, names, i) == {k \in 1..i : line[k].name \in names}

\* Positions grow at the end.
LEMMA LastOfMore ==
  ASSUME NEW i \in Nat, NEW S, S \subseteq 1..i
  PROVE  /\ LastPosition(S) \in 0..i
         /\ LastPosition(S) = 0 <=> S = {}
         /\ S # {} => LastPosition(S) \in S
         /\ \A j \in S : j <= LastPosition(S)
         /\ LastPosition(S \cup {i + 1}) = i + 1
<1>1. ASSUME NEW k \in Nat, NEW T, T \subseteq 1..k
      PROVE  LastPosition(T) \in T \cup {0} /\ \A j \in T \cup {0} : j <= LastPosition(T)
  <2>1. T \cup {0} \subseteq 0..k /\ T \cup {0} # {}
    BY <1>1
  <2> QED BY <2>1, MaxOf DEF LastPosition
<1> DEFINE m == LastPosition(S)
           l == LastPosition(S \cup {i + 1})
<1>2. (m \in S \/ m = 0) /\ \A j \in S \cup {0} : j <= m
  BY <1>1
<1>3. (l \in S \/ l = 0 \/ l = i + 1) /\ i + 1 <= l
  <2>1. i + 1 \in Nat /\ S \cup {i + 1} \subseteq 1..(i + 1) /\ i + 1 \in S \cup {i + 1}
    OBVIOUS
  <2>2. l \in (S \cup {i + 1}) \cup {0} /\ \A j \in (S \cup {i + 1}) \cup {0} : j <= l
    <3> HIDE DEF l
    <3> QED BY <1>1, <2>1 DEF l
  <2> HIDE DEF l
  <2> QED BY <2>2
<1> HIDE DEF m, l
<1>4. \A x \in S : x \in 1..i
  OBVIOUS
<1>5. m \in 0..i
  <2>1. CASE m = 0
    BY <2>1
  <2>2. CASE m \in S
    BY <2>2, <1>4
  <2> QED BY <1>2, <2>1, <2>2
<1>6. S = {} => m = 0
  BY <1>2
<1>7. m = 0 => S = {}
  <2>1. ASSUME NEW x \in S PROVE m # 0
    <3>1. x \in 1..i /\ x <= m
      BY <1>2, <1>4
    <3> QED BY <3>1, <1>5
  <2> QED BY <2>1
<1>8. l = i + 1
  <2>1. l \notin S
    <3>1. l \in S => l \in 1..i
      BY <1>4
    <3> QED BY <3>1, <1>3
  <2>2. l # 0
    BY <1>3
  <2> QED BY <1>3, <2>1, <2>2
<1> QED BY <1>2, <1>5, <1>6, <1>7, <1>8 DEF m, l

-----------------------------------------------------------------------------
(***************************************************************************)
(* Command lines of the command line tool.                                 *)
(***************************************************************************)
Lines == [act : SUBSET {"ADD", "DEL"}, src : {NoSrc} \cup {o.arg : o \in Options},
          port : {0} \cup {o.arg : o \in Options}, proto : {"TCP", "UDP"}, filter : {"TCP", "UDP"},
          stats : BOOLEAN, interval : {1} \cup {o.arg : o \in Options}, list : BOOLEAN, usage : BOOLEAN]

\* Options keep a parsed line a parsed line.
LEMMA TakeTyped ==
  /\ Unparsed \in Lines
  /\ \A p \in Lines, o \in Options : Take(p, o) \in Lines
<1>1. Unparsed \in Lines
  BY DEF Unparsed, Lines
<1>2. ASSUME NEW p \in Lines, NEW o \in Options PROVE Take(p, o) \in Lines
  <2>1. CASE p.usage
    BY <2>1 DEF Take
  <2>2. CASE ~p.usage /\ o.name \in {"add", "del", "stats", "list", "help", "bad"}
    BY <2>2 DEF Take, Lines
  <2>3. CASE ~p.usage /\ o.name \in {"ip", "sec"}
    BY <2>3, ZenonT(40) DEF Take, Lines
  <2>4. CASE ~p.usage /\ o.name \in {"udp-dport", "tcp-dport"}
    BY <2>4, ZenonT(40) DEF Take, TakePort, Lines
  <2> QED BY <2>1, <2>2, <2>3, <2>4, OptionsAssumption
<1> QED BY <1>1, <1>2

\* What is known of the line after each of its options.
ParsedBy(r, line) ==
  /\ r[0] = Unparsed
  /\ \A i \in 1..Len(line) : r[i] = Take(r[i - 1], line[i])
  /\ FoldLeft(Take, Unparsed, line) = r[Len(line)]

\* There is such a function.
LEMMA LineParsed ==
  ASSUME NEW line \in Seq(Options)
  PROVE  \E r : ParsedBy(r, line)
<1> DEFINE n == Len(line)
           G == [x \in (1..n) \X Lines |-> Take(x[2], line[x[1]])]
           P(f) == f = [s \in SUBSET (1..n) |-> IF s = {} THEN Unparsed
                                                ELSE Take(f[s \ {Max(s)}], line[Max(s)])]
           f == CHOOSE f : P(f)
           r == [i \in 0..n |-> f[1..i]]
<1>1. n \in Nat /\ DOMAIN line = 1..n /\ \A i \in 1..n : line[i] \in Options
  OBVIOUS
<1>2. \A i \in 1..n, p \in Lines : G[<<i, p>>] = Take(p, line[i]) /\ G[<<i, p>>] \in Lines
  <2>1. \A i \in 1..n, p \in Lines : <<i, p>> \in (1..n) \X Lines
    OBVIOUS
  <2> QED BY <1>1, <2>1, TakeTyped
<1>3. PICK g \in [SUBSET (1..n) -> Lines] : LeftBy(g, n, Lines, Unparsed, G)
  <2> HIDE DEF n, G
  <2> QED BY <1>1, <1>2, TakeTyped, LeftExists
<1>4. P(g)
  <2> HIDE DEF n, G
  <2> QED BY <1>2, <1>3 DEF LeftBy
<1>5. P(f)
  <2> HIDE DEF P
  <2> QED BY <1>4
<1>6. FoldLeft(Take, Unparsed, line) = f[1..n]
  BY <1>1 DEF FoldLeft, MapThenFoldSet
<1> HIDE DEF f
<1>7. \A i \in 0..n : r[i] = f[1..i]
  OBVIOUS
<1>8. r[0] = Unparsed
  <2>1. f[{}] = Unparsed
    BY <1>5
  <2> QED BY <1>1, <1>7, <2>1, PrefixSets
<1>9. ASSUME NEW i \in 1..n PROVE r[i] = Take(r[i - 1], line[i])
  <2>1. 1..i \in SUBSET (1..n) /\ i \in 0..n /\ i - 1 \in 0..n
    BY <1>1
  <2>2. 1..i # {} /\ Max(1..i) = i /\ (1..i) \ {i} = 1..(i - 1)
    BY <1>1, PrefixSets
  <2>3. f[1..i] = Take(f[1..(i - 1)], line[i])
    <3> HIDE DEF n, r
    <3> QED BY <1>5, <2>1, <2>2
  <2> QED BY <1>7, <2>1, <2>3
<1>10. ParsedBy(r, line)
  <2> HIDE DEF r
  <2> QED BY <1>1, <1>6, <1>7, <1>8, <1>9 DEF ParsedBy
<1> QED BY <1>10
-----------------------------------------------------------------------------
(***************************************************************************)
(* What a line means after its first i options.                            *)
(***************************************************************************)
Named(line, names, i)     == Among(line, names, i) # {}
LastAmong(line, names, i) == LastPosition(Among(line, names, i))

\* One more option, for the names among the options so far.
LEMMA OneMore ==
  ASSUME NEW i \in Nat, NEW line, NEW names
  PROVE  /\ Named(line, names, i + 1) <=> Named(line, names, i) \/ line[i + 1].name \in names
         /\ LastAmong(line, names, i + 1) = IF line[i + 1].name \in names THEN i + 1
                                            ELSE LastAmong(line, names, i)
         /\ LastAmong(line, names, i) \in 0..i
         /\ LastAmong(line, names, i) = 0 <=> ~Named(line, names, i)
         /\ ~Named(line, names, 0) /\ LastAmong(line, names, 0) = 0
<1> DEFINE A(k) == Among(line, names, k)
<1>1. ASSUME NEW k \in Nat PROVE A(k) \subseteq 1..k
  BY DEF Among
<1>2. A(i + 1) = IF line[i + 1].name \in names THEN A(i) \cup {i + 1} ELSE A(i)
  BY DEF Among
<1>3. A(0) = {}
  BY DEF Among
<1>4. /\ LastPosition(A(i)) \in 0..i /\ (LastPosition(A(i)) = 0 <=> A(i) = {})
      /\ LastPosition(A(i) \cup {i + 1}) = i + 1
  <2> HIDE DEF A
  <2> QED BY <1>1, LastOfMore
<1>5. LastPosition(A(0)) = 0
  <2> HIDE DEF A
  <2> QED BY <1>1, <1>3, LastOfMore
<1> QED BY <1>2, <1>3, <1>4, <1>5 DEF Named, LastAmong

Refused(line, i) == \/ Named(line, {"help", "bad"}, i)
                    \/ \E k \in 1..i : line[k].name = "ip" /\ line[k].arg = LongSrc

\* One more option, for those that are refused.
LEMMA OneMoreRefused ==
  ASSUME NEW i \in Nat, NEW line
  PROVE  /\ Refused(line, i + 1) <=> \/ Refused(line, i) \/ line[i + 1].name \in {"help", "bad"}
                                     \/ line[i + 1].name = "ip" /\ line[i + 1].arg = LongSrc
         /\ ~Refused(line, 0)
<1>1. \A k : k \in 1..(i + 1) <=> k \in 1..i \/ k = i + 1
  OBVIOUS
<1> QED BY <1>1, OneMore DEF Refused

PortNames == {"udp-dport", "tcp-dport"}

\* What an option does to a line that is not refused yet.
LEMMA TakeFields ==
  ASSUME NEW p \in Lines, NEW o \in Options, ~p.usage
  PROVE  LET q == Take(p, o)
         IN  /\ q \in Lines
             /\ q.usage <=> o.name \in {"help", "bad"} \/ (o.name = "ip" /\ o.arg = LongSrc)
             /\ ~q.usage =>
                  /\ q.act = p.act \cup (IF o.name = "add" THEN {"ADD"} ELSE {})
                                   \cup (IF o.name = "del" THEN {"DEL"} ELSE {})
                  /\ q.src = IF o.name = "ip" THEN o.arg ELSE p.src
                  /\ q.port = IF o.name \in PortNames THEN o.arg ELSE p.port
                  /\ q.proto = IF o.name = "udp-dport" THEN "UDP" ELSE p.proto
                  /\ q.filter = IF o.name = "udp-dport" THEN "UDP" ELSE p.filter
                  /\ q.stats <=> p.stats \/ o.name \in {"stats", "sec"}
                  /\ q.interval = IF o.name = "sec" THEN o.arg ELSE p.interval
                  /\ q.list <=> p.list \/ o.name = "list"
<1> DEFINE q == Take(p, o)
<1>1. q \in Lines
  BY TakeTyped
<1>2. o.name \in {"add", "del", "ip", "udp-dport", "tcp-dport", "stats", "sec", "list", "help", "bad"}
  BY OptionsAssumption
<1>3. CASE o.name \in {"add", "del"}
  BY <1>1, <1>3, ZenonT(40) DEF Take, Lines, PortNames
<1>4. CASE o.name = "ip"
  BY <1>1, <1>4 DEF Take, Lines, PortNames
<1>5. CASE o.name \in {"udp-dport", "tcp-dport"}
  <2>1. q = TakePort(p, o)
    BY <1>5 DEF Take
  <2>2. CASE o.name = "udp-dport"
    <3>1. q = [[p EXCEPT !.proto = "UDP", !.filter = "UDP"] EXCEPT !.port = o.arg]
      BY <2>1, <2>2 DEF TakePort
    <3> HIDE DEF q
    <3>2. /\ q.usage = p.usage /\ q.act = p.act /\ q.src = p.src /\ q.port = o.arg
          /\ q.proto = "UDP" /\ q.filter = "UDP"
          /\ q.stats = p.stats /\ q.interval = p.interval /\ q.list = p.list
      BY <3>1 DEF Lines
    <3> QED BY <1>1, <2>2, <3>2 DEF PortNames, q
  <2>3. CASE o.name = "tcp-dport"
    <3>1. q = [p EXCEPT !.port = o.arg]
      BY <2>1, <2>3 DEF TakePort
    <3> HIDE DEF q
    <3>2. /\ q.usage = p.usage /\ q.act = p.act /\ q.src = p.src /\ q.port = o.arg
          /\ q.proto = p.proto /\ q.filter = p.filter
          /\ q.stats = p.stats /\ q.interval = p.interval /\ q.list = p.list
      BY <3>1 DEF Lines
    <3> QED BY <1>1, <2>3, <3>2 DEF PortNames, q
  <2> QED BY <1>5, <2>2, <2>3
<1>6. CASE o.name \in {"stats", "sec", "list"}
  <2>1. CASE o.name = "stats"
    BY <1>1, <2>1 DEF Take, Lines, PortNames
  <2>2. CASE o.name = "sec"
    BY <1>1, <2>2 DEF Take, Lines, PortNames
  <2>3. CASE o.name = "list"
    BY <1>1, <2>3 DEF Take, Lines, PortNames
  <2> QED BY <1>6, <2>1, <2>2, <2>3
<1>7. CASE o.name \in {"help", "bad"}
  BY <1>1, <1>7 DEF Take, Lines, PortNames
<1> HIDE DEF q
<1> QED BY <1>2, <1>3, <1>4, <1>5, <1>6, <1>7 DEF q

\* What the line p has taken of its first i options.
Agrees(p, line, i) ==
  LET ip   == LastAmong(line, {"ip"}, i)
      port == LastAmong(line, PortNames, i)
      sec  == LastAmong(line, {"sec"}, i)
      prot == IF Named(line, {"udp-dport"}, i) THEN "UDP" ELSE "TCP"
  IN  /\ "ADD" \in p.act <=> Named(line, {"add"}, i)
      /\ "DEL" \in p.act <=> Named(line, {"del"}, i)
      /\ p.src = IF ip = 0 THEN NoSrc ELSE line[ip].arg
      /\ p.port = IF port = 0 THEN 0 ELSE line[port].arg
      /\ p.proto = prot /\ p.filter = prot
      /\ p.stats <=> Named(line, {"stats", "sec"}, i)
      /\ p.interval = IF sec = 0 THEN 1 ELSE line[sec].arg
      /\ p.list <=> Named(line, {"list"}, i)

\* Take keeps the line in agreement with its options.
LEMMA TakeAgrees ==
  ASSUME NEW line \in Seq(Options), NEW i \in Nat, i < Len(line), NEW p \in Lines, ~p.usage,
         Agrees(p, line, i), ~Take(p, line[i + 1]).usage
  PROVE  Agrees(Take(p, line[i + 1]), line, i + 1)
<1> DEFINE o == line[i + 1]
           q == Take(p, o)
           Last1(names) == LastAmong(line, names, i)
           Last2(names) == LastAmong(line, names, i + 1)
<1>1. o \in Options
  OBVIOUS
<1>2. /\ q \in Lines
      /\ "ADD" \in q.act <=> "ADD" \in p.act \/ o.name = "add"
      /\ "DEL" \in q.act <=> "DEL" \in p.act \/ o.name = "del"
      /\ q.src = IF o.name = "ip" THEN o.arg ELSE p.src
      /\ q.port = IF o.name \in PortNames THEN o.arg ELSE p.port
      /\ q.proto = IF o.name = "udp-dport" THEN "UDP" ELSE p.proto
      /\ q.filter = IF o.name = "udp-dport" THEN "UDP" ELSE p.filter
      /\ q.stats <=> p.stats \/ o.name \in {"stats", "sec"}
      /\ q.interval = IF o.name = "sec" THEN o.arg ELSE p.interval
      /\ q.list <=> p.list \/ o.name = "list"
  <2>1. ~q.usage /\ ~p.usage
    OBVIOUS
  <2> HIDE DEF o
  <2> QED BY <1>1, <2>1, TakeFields
<1>3. \A names : /\ Named(line, names, i + 1) <=> Named(line, names, i) \/ o.name \in names
                 /\ Last2(names) = IF o.name \in names THEN i + 1 ELSE Last1(names)
                 /\ Last1(names) \in 0..i
  BY OneMore
<1>4. \A k : /\ o.name \in {k} <=> o.name = k
  OBVIOUS
<1> HIDE DEF q, Last1, Last2
<1>5. q.src = IF Last2({"ip"}) = 0 THEN NoSrc ELSE line[Last2({"ip"})].arg
  <2>1. p.src = IF Last1({"ip"}) = 0 THEN NoSrc ELSE line[Last1({"ip"})].arg
    BY DEF Agrees, Last1
  <2> QED BY <1>2, <1>3, <1>4, <2>1
<1>6. q.port = IF Last2(PortNames) = 0 THEN 0 ELSE line[Last2(PortNames)].arg
  <2>1. p.port = IF Last1(PortNames) = 0 THEN 0 ELSE line[Last1(PortNames)].arg
    BY DEF Agrees, Last1
  <2> QED BY <1>2, <1>3, <2>1
<1>7. q.interval = IF Last2({"sec"}) = 0 THEN 1 ELSE line[Last2({"sec"})].arg
  <2>1. p.interval = IF Last1({"sec"}) = 0 THEN 1 ELSE line[Last1({"sec"})].arg
    BY DEF Agrees, Last1
  <2> QED BY <1>2, <1>3, <1>4, <2>1
<1> HIDE DEF o
<1>8. /\ q.proto = IF Named(line, {"udp-dport"}, i + 1) THEN "UDP" ELSE "TCP"
      /\ q.filter = q.proto
  <2>1. /\ p.proto = IF Named(line, {"udp-dport"}, i) THEN "UDP" ELSE "TCP"
        /\ p.filter = p.proto
    BY DEF Agrees
  <2> QED BY <1>2, <1>3, <1>4, <2>1
<1>9. /\ "ADD" \in q.act <=> Named(line, {"add"}, i + 1)
      /\ "DEL" \in q.act <=> Named(line, {"del"}, i + 1)
  <2>1. /\ "ADD" \in p.act <=> Named(line, {"add"}, i)
        /\ "DEL" \in p.act <=> Named(line, {"del"}, i)
    BY DEF Agrees
  <2> QED BY <1>2, <1>3, <1>4, <2>1
<1>10. /\ q.stats <=> Named(line, {"stats", "sec"}, i + 1)
       /\ q.list <=> Named(line, {"list"}, i + 1)
  <2>1. /\ p.stats <=> Named(line, {"stats", "sec"}, i)
        /\ p.list <=> Named(line, {"list"}, i)
    BY DEF Agrees
  <2> QED BY <1>2, <1>3, <1>4, <2>1
<1> QED BY <1>5, <1>6, <1>7, <1>8, <1>9, <1>10 DEF Agrees, Last2, q, o

\* A parsed line agrees with all its options.
LEMMA LineMeans ==
  ASSUME NEW line \in Seq(Options)
  PROVE  LET p == FoldLeft(Take, Unparsed, line)
         IN  /\ p \in Lines
             /\ p.usage <=> Refused(line, Len(line))
             /\ ~p.usage => Agrees(p, line, Len(line))
<1> PICK r : ParsedBy(r, line)
  BY LineParsed
<1> DEFINE n == Len(line)
           Right(i) == /\ r[i] \in Lines
                       /\ r[i].usage <=> Refused(line, i)
                       /\ ~r[i].usage => Agrees(r[i], line, i)
           A == {i \in Nat : i <= n => Right(i)}
<1>1. 0 \in A
  <2>1. r[0] = Unparsed /\ Unparsed \in Lines /\ ~Unparsed.usage
    BY TakeTyped DEF ParsedBy, Unparsed
  <2>2. \A names : ~Named(line, names, 0) /\ LastAmong(line, names, 0) = 0
    BY OneMore
  <2>3. Agrees(Unparsed, line, 0)
    BY <2>2 DEF Agrees, Unparsed
  <2>4. ~Refused(line, 0)
    BY OneMoreRefused
  <2> QED BY <2>1, <2>3, <2>4
<1>2. ASSUME NEW i \in Nat, i \in A PROVE i + 1 \in A
  <2> SUFFICES ASSUME i + 1 <= n PROVE Right(i + 1)
    OBVIOUS
  <2>1. Right(i) /\ i < n /\ n \in Nat /\ i + 1 \in 1..n /\ line[i + 1] \in Options
    BY <1>2
  <2>2. r[i + 1] = Take(r[i], line[i + 1])
    BY <2>1 DEF ParsedBy
  <2>3. Refused(line, i + 1) <=> \/ Refused(line, i) \/ line[i + 1].name \in {"help", "bad"}
                                 \/ line[i + 1].name = "ip" /\ line[i + 1].arg = LongSrc
    BY OneMoreRefused
  <2>4. CASE r[i].usage
    <3>1. r[i + 1] = r[i]
      BY <2>2, <2>4 DEF Take
    <3> HIDE DEF n
    <3> QED BY <2>1, <2>3, <2>4, <3>1
  <2>5. CASE ~r[i].usage
    <3>1. /\ r[i + 1] \in Lines
          /\ r[i + 1].usage <=> \/ line[i + 1].name \in {"help", "bad"}
                                \/ line[i + 1].name = "ip" /\ line[i + 1].arg = LongSrc
      BY <2>1, <2>2, <2>5, TakeFields
    <3>2. ~r[i + 1].usage => Agrees(r[i + 1], line, i + 1)
      BY <2>1, <2>2, <2>5, TakeAgrees
    <3> HIDE DEF n
    <3> QED BY <2>1, <2>3, <2>5, <3>1, <3>2
  <2> QED BY <2>4, <2>5
<1>3. n \in A
  <2> HIDE DEF A
  <2>1. n \in Nat
    OBVIOUS
  <2> QED BY <1>1, <1>2, <2>1, NatInduct
<1>4. FoldLeft(Take, Unparsed, line) = r[n]
  BY DEF ParsedBy
<1>5. n \in Nat
  OBVIOUS
<1>6. Right(n)
  <2> HIDE DEF Right
  <2> QED BY <1>3, <1>5
<1> HIDE DEF n
<1> QED BY <1>4, <1>6 DEF n

\* The calls a parsed line leads to.
Modify(p) ==
  (IF p.src # NoSrc THEN <<[call |-> "blacklist_modify", src |-> p.src, act |-> p.act]>> ELSE <<>>) \o
  (IF p.port # 0 THEN <<[call |-> "blacklist_port_modify", port |-> p.port,
                         act |-> p.act, proto |-> p.proto, counter |-> p.filter]>> ELSE <<>>)
Show(p) ==
  (IF p.list THEN <<[call |-> "list"]>> ELSE <<>>) \o
  (IF p.stats THEN <<[call |-> "stats_poll", interval |-> p.interval]>> ELSE <<>>)

\* Each call is made on its own condition.
LEMMA CallsMade ==
  ASSUME NEW p
  PROVE  /\ Modify(p) = <<>> <=> p.src = NoSrc /\ p.port = 0
         /\ \A c : Made(Modify(p), c) <=>
              \/ p.src # NoSrc /\ c = [call |-> "blacklist_modify", src |-> p.src, act |-> p.act]
              \/ p.port # 0 /\ c = [call |-> "blacklist_port_modify", port |-> p.port, act |-> p.act,
                                    proto |-> p.proto, counter |-> p.filter]
         /\ \A c : Made(Show(p), c) <=>
              \/ p.list /\ c = [call |-> "list"]
              \/ p.stats /\ c = [call |-> "stats_poll", interval |-> p.interval]
<1> DEFINE a == [call |-> "blacklist_modify", src |-> p.src, act |-> p.act]
           b == [call |-> "blacklist_port_modify", port |-> p.port, act |-> p.act,
                 proto |-> p.proto, counter |-> p.filter]
           d == [call |-> "list"]
           e == [call |-> "stats_poll", interval |-> p.interval]
           C == {a, b, d, e}
           One(g, x) == IF g THEN <<x>> ELSE <<>>
<1>1. Modify(p) = One(p.src # NoSrc, a) \o One(p.port # 0, b)
  BY DEF Modify
<1>2. Show(p) = One(p.list, d) \o One(p.stats, e)
  BY DEF Show
<1>3. a \in C /\ b \in C /\ d \in C /\ e \in C
  OBVIOUS
<1> HIDE DEF a, b, d, e, C
<1>4. ASSUME NEW g, NEW x \in C
      PROVE  /\ One(g, x) \in Seq(C) /\ (One(g, x) = <<>> <=> ~g)
             /\ \A c : Made(One(g, x), c) <=> g /\ c = x
  <2>1. <<x>> \in Seq(C) /\ <<>> \in Seq(C)
    OBVIOUS
  <2>2. CASE g
    BY <2>1, <2>2, MadeOne
  <2>3. CASE ~g
    BY <2>1, <2>3, MadeOne
  <2> QED BY <2>2, <2>3
<1> HIDE DEF One
<1>5. /\ Modify(p) = <<>> <=> ~(p.src # NoSrc) /\ ~(p.port # 0)
      /\ \A c : Made(Modify(p), c) <=> (p.src # NoSrc /\ c = a) \/ (p.port # 0 /\ c = b)
  <2> DEFINE s == One(p.src # NoSrc, a)
             t == One(p.port # 0, b)
  <2>1. s \in Seq(C) /\ (s = <<>> <=> ~(p.src # NoSrc)) /\ \A c : Made(s, c) <=> p.src # NoSrc /\ c = a
    BY <1>3, <1>4
  <2>2. t \in Seq(C) /\ (t = <<>> <=> ~(p.port # 0)) /\ \A c : Made(t, c) <=> p.port # 0 /\ c = b
    BY <1>3, <1>4
  <2>3. Modify(p) = s \o t
    BY <1>1
  <2> HIDE DEF s, t
  <2>4. /\ s \o t = <<>> <=> s = <<>> /\ t = <<>>
        /\ \A c : Made(s \o t, c) <=> Made(s, c) \/ Made(t, c)
    BY <2>1, <2>2, Joined
  <2> QED BY <2>1, <2>2, <2>3, <2>4
<1>6. \A c : Made(Show(p), c) <=> (p.list /\ c = d) \/ (p.stats /\ c = e)
  <2> DEFINE s == One(p.list, d)
             t == One(p.stats, e)
  <2>1. s \in Seq(C) /\ \A c : Made(s, c) <=> p.list /\ c = d
    BY <1>3, <1>4
  <2>2. t \in Seq(C) /\ \A c : Made(t, c) <=> p.stats /\ c = e
    BY <1>3, <1>4
  <2>3. Show(p) = s \o t
    BY <1>2
  <2> HIDE DEF s, t
  <2>4. \A c : Made(s \o t, c) <=> Made(s, c) \/ Made(t, c)
    BY <2>1, <2>2, Joined
  <2> QED BY <2>1, <2>2, <2>3, <2>4
<1> QED BY <1>5, <1>6 DEF a, b, d, e

\* The calls a command line leads to are those its options name, in whatever
\* order, for lines of any length over any arguments.
THEOREM CommandLinesMean == LibSpec => []CommandLineMeans
<1>1. ItemsInv => CommandLineMeans
  <2> SUFFICES ASSUME ItemsInv, part = "cmdline", NEW extra \in BOOLEAN
               PROVE
    LET all(names) == {i \in DOMAIN items : items[i].name \in names}
        ip      == LastPosition(all({"ip"}))
        port    == LastPosition(all({"udp-dport", "tcp-dport"}))
        sec     == LastPosition(all({"sec"}))
        act     == {a \in {"ADD", "DEL"} : all({IF a = "ADD" THEN "add" ELSE "del"}) # {}}
        proto   == IF all({"udp-dport"}) = {} THEN "TCP" ELSE "UDP"
        refused == all({"help", "bad"}) # {} \/ \E i \in all({"ip"}) : items[i].arg = LongSrc
        noRule  == ip = 0 /\ (port = 0 \/ items[port].arg = 0)
        calls   == CmdMain(items, extra)
        usage   == \E i \in DOMAIN calls : calls[i].call = "usage"
        made(c) == \E i \in DOMAIN calls : calls[i] = c
    IN  /\ usage <=> refused \/ (IF act = {} THEN extra ELSE noRule)
        /\ ~usage =>
             /\ \A i \in DOMAIN calls :
                  calls[i].call \in (IF act = {} THEN {"list", "stats_poll"}
                                     ELSE {"blacklist_modify", "blacklist_port_modify"})
             /\ act # {} /\ ip # 0 =>
                  made([call |-> "blacklist_modify", src |-> items[ip].arg, act |-> act])
             /\ act # {} /\ port # 0 /\ items[port].arg # 0 =>
                  made([call |-> "blacklist_port_modify", port |-> items[port].arg,
                        act |-> act, proto |-> proto, counter |-> proto])
             /\ act = {} /\ all({"stats", "sec"}) # {} =>
                  made([call |-> "stats_poll",
                        interval |-> IF sec = 0 THEN 1 ELSE items[sec].arg])
    BY DEF CommandLineMeans
  <2> DEFINE n       == Len(items)
             p       == FoldLeft(Take, Unparsed, items)
             all(names) == {i \in DOMAIN items : items[i].name \in names}
             ip      == LastPosition(all({"ip"}))
             port    == LastPosition(all({"udp-dport", "tcp-dport"}))
             sec     == LastPosition(all({"sec"}))
             act     == {a \in {"ADD", "DEL"} : all({IF a = "ADD" THEN "add" ELSE "del"}) # {}}
             proto   == IF all({"udp-dport"}) = {} THEN "TCP" ELSE "UDP"
             refused == all({"help", "bad"}) # {} \/ \E i \in all({"ip"}) : items[i].arg = LongSrc
             noRule  == ip = 0 /\ (port = 0 \/ items[port].arg = 0)
             calls   == CmdMain(items, extra)
             usage   == \E i \in DOMAIN calls : calls[i].call = "usage"
  <2>1. items \in Seq(Options) /\ n \in Nat /\ DOMAIN items = 1..n
    BY InputOf
  <2>2. \A names : all(names) = Among(items, names, n)
    BY <2>1 DEF Among
  <2>3. \A names : /\ all(names) # {} <=> Named(items, names, n)
                   /\ LastPosition(all(names)) = LastAmong(items, names, n)
    BY <2>2 DEF Named, LastAmong
  <2>4. refused <=> Refused(items, n)
    <3>1. (\E i \in all({"ip"}) : items[i].arg = LongSrc) <=>
            \E k \in 1..n : items[k].name = "ip" /\ items[k].arg = LongSrc
      BY <2>1
    <3> HIDE DEF all
    <3> QED BY <2>3, <3>1 DEF Refused
  <2>5. p \in Lines /\ (p.usage <=> refused) /\ (~p.usage => Agrees(p, items, n))
    <3> HIDE DEF p, refused
    <3> QED BY <2>1, <2>4, LineMeans DEF p
  <2>6. calls = IF p.usage THEN <<[call |-> "usage"]>>
                ELSE IF p.act # {} THEN IF Modify(p) = <<>> THEN <<[call |-> "usage"]>> ELSE Modify(p)
                ELSE IF extra THEN <<[call |-> "usage"]>> ELSE Show(p)
    <3> HIDE DEF p
    <3> QED BY DEF CmdMain, Modify, Show, p
  <2>7. ASSUME ~p.usage
        PROVE  /\ p.act = act /\ p.proto = proto /\ p.filter = proto
               /\ p.src = IF ip = 0 THEN NoSrc ELSE items[ip].arg
               /\ p.port = IF port = 0 THEN 0 ELSE items[port].arg
               /\ p.stats <=> all({"stats", "sec"}) # {}
               /\ p.interval = IF sec = 0 THEN 1 ELSE items[sec].arg
    <3> HIDE DEF p, all
    <3>1. Agrees(p, items, n)
      BY <2>5, <2>7
    <3>2. p.act = act
      <4>1. "ADD" \in act <=> "ADD" \in p.act
        BY <2>3, <3>1 DEF Agrees
      <4>2. "DEL" \in act <=> "DEL" \in p.act
        BY <2>3, <3>1 DEF Agrees
      <4>3. act \subseteq {"ADD", "DEL"} /\ p.act \subseteq {"ADD", "DEL"}
        BY <2>5 DEF Lines
      <4> HIDE DEF act
      <4>4. \A x \in {"ADD", "DEL"} : x \in act <=> x \in p.act
        BY <4>1, <4>2
      <4>5. \A x : x \in act <=> x \in p.act
        BY <4>3, <4>4
      <4> HIDE DEF p
      <4> QED BY <4>5
    <3>3. /\ p.proto = proto /\ p.filter = proto
      BY <2>3, <3>1 DEF Agrees
    <3>4. /\ p.src = IF ip = 0 THEN NoSrc ELSE items[ip].arg
          /\ p.port = IF port = 0 THEN 0 ELSE items[port].arg
          /\ p.interval = IF sec = 0 THEN 1 ELSE items[sec].arg
      BY <2>3, <3>1 DEF Agrees, PortNames
    <3>5. p.stats <=> all({"stats", "sec"}) # {}
      BY <2>3, <3>1 DEF Agrees
    <3> HIDE DEF act, proto, ip, port, sec
    <3> QED BY <3>2, <3>3, <3>4, <3>5
  <2>8. ip # 0 => items[ip].arg # NoSrc
    <3>1. all({"ip"}) \subseteq 1..n
      BY <2>1
    <3>2. ip # 0 => ip \in all({"ip"})
      <4> HIDE DEF all
      <4> QED BY <2>1, <3>1, LastOfMore
    <3>3. ip # 0 => items[ip].name = "ip" /\ items[ip] \in Options
      <4> HIDE DEF ip
      <4> QED BY <2>1, <3>2
    <3> HIDE DEF ip
    <3> QED BY <3>3, OptionsAssumption
  <2> DEFINE u == [call |-> "usage"]
             m == [call |-> "blacklist_modify", src |-> p.src, act |-> p.act]
             b == [call |-> "blacklist_port_modify", port |-> p.port, act |-> p.act,
                   proto |-> p.proto, counter |-> p.filter]
             d == [call |-> "list"]
             e == [call |-> "stats_poll", interval |-> p.interval]
             Doing == IF act = {} THEN {"list", "stats_poll"}
                      ELSE {"blacklist_modify", "blacklist_port_modify"}
  <2>9. /\ u.call = "usage" /\ m.call = "blacklist_modify" /\ b.call = "blacklist_port_modify"
        /\ d.call = "list" /\ e.call = "stats_poll"
    OBVIOUS
  <2>10. /\ usage <=> \E c : Made(calls, c) /\ c.call = "usage"
         /\ \A i \in DOMAIN calls : Made(calls, calls[i])
    <3> HIDE DEF calls
    <3> QED BY DEF Made
  <2> HIDE DEF p, ip, port, sec, act, proto, refused, calls, all, u, m, b, d, e, usage
  <2>11. CASE p.usage
    <3>1. \A c : Made(calls, c) <=> c = u
      BY <2>6, <2>11, MadeOne DEF u
    <3>2. usage /\ refused
      BY <2>5, <2>9, <2>10, <2>11, <3>1
    <3> QED BY <3>2 DEF calls, ip, port, sec, act, proto, refused, all, usage
  <2>12. CASE ~p.usage /\ p.act # {} /\ Modify(p) = <<>>
    <3>1. \A c : Made(calls, c) <=> c = u
      BY <2>6, <2>12, MadeOne DEF u
    <3>2. usage /\ ~refused /\ act # {}
      BY <2>5, <2>7, <2>9, <2>10, <2>12, <3>1
    <3>3. p.src = NoSrc /\ p.port = 0
      BY <2>12, CallsMade
    <3>4. noRule
      BY <2>7, <2>8, <2>12, <3>3
    <3> QED BY <3>2, <3>4 DEF calls, ip, port, sec, act, proto, refused, all, usage
  <2>13. CASE ~p.usage /\ p.act # {} /\ Modify(p) # <<>>
    <3>1. \A c : Made(calls, c) <=> (p.src # NoSrc /\ c = m) \/ (p.port # 0 /\ c = b)
      BY <2>6, <2>13, CallsMade DEF m, b
    <3>2. ~usage /\ ~refused /\ act # {}
      BY <2>5, <2>7, <2>9, <2>10, <2>13, <3>1
    <3>3. ~(p.src = NoSrc /\ p.port = 0)
      BY <2>13, CallsMade
    <3>4. ~noRule
      <4>1. CASE p.src # NoSrc
        BY <2>7, <2>13, <4>1
      <4>2. CASE p.port # 0
        BY <2>7, <2>13, <4>2
      <4> QED BY <3>3, <4>1, <4>2
    <3>5. \A i \in DOMAIN calls : calls[i].call \in Doing
      BY <2>9, <2>10, <3>1, <3>2
    <3>6. ip # 0 => Made(calls, [call |-> "blacklist_modify", src |-> items[ip].arg, act |-> act])
      BY <2>7, <2>8, <2>13, <3>1 DEF m
    <3>7. port # 0 /\ items[port].arg # 0 =>
            Made(calls, [call |-> "blacklist_port_modify", port |-> items[port].arg,
                         act |-> act, proto |-> proto, counter |-> proto])
      BY <2>7, <2>13, <3>1 DEF b
    <3> QED BY <3>2, <3>4, <3>5, <3>6, <3>7
            DEF Made, calls, ip, port, sec, act, proto, refused, all, usage
  <2>14. CASE ~p.usage /\ p.act = {} /\ extra
    <3>1. \A c : Made(calls, c) <=> c = u
      BY <2>6, <2>14, MadeOne DEF u
    <3>2. usage /\ ~refused /\ act = {}
      BY <2>5, <2>7, <2>9, <2>10, <2>14, <3>1
    <3> QED BY <2>14, <3>2 DEF calls, ip, port, sec, act, proto, refused, all, usage
  <2>15. CASE ~p.usage /\ p.act = {} /\ ~extra
    <3>1. \A c : Made(calls, c) <=> (p.list /\ c = d) \/ (p.stats /\ c = e)
      BY <2>6, <2>15, CallsMade DEF d, e
    <3>2. ~usage /\ ~refused /\ act = {}
      BY <2>5, <2>7, <2>9, <2>10, <2>15, <3>1
    <3>3. \A i \in DOMAIN calls : calls[i].call \in Doing
      BY <2>9, <2>10, <3>1, <3>2
    <3>4. all({"stats", "sec"}) # {} =>
            Made(calls, [call |-> "stats_poll", interval |-> IF sec = 0 THEN 1 ELSE items[sec].arg])
      BY <2>7, <2>15, <3>1 DEF e
    <3> QED BY <2>15, <3>2, <3>3, <3>4
            DEF Made, calls, ip, port, sec, act, proto, refused, all, usage
  <2> QED BY <2>11, <2>12, <2>13, <2>14, <2>15
<1> QED BY <1>1, ItemsTyped, PTL

-----------------------------------------------------------------------------
(***************************************************************************)
(* The loader's command line.                                              *)
(***************************************************************************)
UserLines == [remove : BOOLEAN, owner : {"unchanged"} \cup {o.arg : o \in UserOptions},
              dev : {"none"} \cup {o.arg : o \in UserOptions}, skb : BOOLEAN, usage : BOOLEAN]

\* An option the loader refuses.
Bad(o) == \/ o.name = "bad"
          \/ o.name = "dev" /\ o.arg \notin KnownDevs
          \/ o.name = "owner" /\ o.arg \notin KnownUsers

\* What an option of the loader changes.
LEMMA TakeUserFields ==
  /\ NoDev \in UserLines
  /\ \A p \in UserLines, o \in UserOptions :
       LET q == TakeUser(p, o)
       IN  /\ q \in UserLines
           /\ p.usage => q.usage
           /\ ~p.usage =>
                /\ q.usage <=> Bad(o)
                /\ ~q.usage =>
                     /\ q.dev = IF o.name = "dev" THEN o.arg ELSE p.dev
                     /\ q.remove <=> p.remove \/ o.name = "remove"
                     /\ q.skb <=> p.skb \/ o.name = "skb-mode"
<1>1. NoDev \in UserLines
  BY DEF NoDev, UserLines
<1>2. ASSUME NEW p \in UserLines, NEW o \in UserOptions
      PROVE  LET q == TakeUser(p, o)
             IN  /\ q \in UserLines
                 /\ p.usage => q.usage
                 /\ ~p.usage =>
                      /\ q.usage <=> Bad(o)
                      /\ ~q.usage =>
                           /\ q.dev = IF o.name = "dev" THEN o.arg ELSE p.dev
                           /\ q.remove <=> p.remove \/ o.name = "remove"
                           /\ q.skb <=> p.skb \/ o.name = "skb-mode"
  <2>1. CASE p.usage
    BY <2>1 DEF TakeUser
  <2>2. CASE ~p.usage /\ o.name \in {"quiet", "bad"}
    BY <2>2 DEF TakeUser, UserLines, Bad
  <2>3. CASE ~p.usage /\ o.name \in {"remove", "skb-mode"}
    BY <2>3 DEF TakeUser, UserLines, Bad
  <2>4. CASE ~p.usage /\ o.name = "owner"
    BY <2>4 DEF TakeUser, UserLines, Bad
  <2>5. CASE ~p.usage /\ o.name = "dev"
    BY <2>5 DEF TakeUser, TakeDev, UserLines, Bad
  <2> QED BY <2>1, <2>2, <2>3, <2>4, <2>5, OptionsAssumption
<1> QED BY <1>1, <1>2

UserParsedBy(r, line) ==
  /\ r[0] = NoDev
  /\ \A i \in 1..Len(line) : r[i] = TakeUser(r[i - 1], line[i])
  /\ FoldLeft(TakeUser, NoDev, line) = r[Len(line)]

\* There is such a function.
LEMMA UserLineParsed ==
  ASSUME NEW line \in Seq(UserOptions)
  PROVE  \E r : UserParsedBy(r, line)
<1> DEFINE n == Len(line)
           G == [x \in (1..n) \X UserLines |-> TakeUser(x[2], line[x[1]])]
           P(f) == f = [s \in SUBSET (1..n) |-> IF s = {} THEN NoDev
                                                ELSE TakeUser(f[s \ {Max(s)}], line[Max(s)])]
           f == CHOOSE f : P(f)
           r == [i \in 0..n |-> f[1..i]]
<1>1. n \in Nat /\ DOMAIN line = 1..n /\ \A i \in 1..n : line[i] \in UserOptions
  OBVIOUS
<1>2. \A i \in 1..n, p \in UserLines :
        G[<<i, p>>] = TakeUser(p, line[i]) /\ G[<<i, p>>] \in UserLines
  <2>1. \A i \in 1..n, p \in UserLines : <<i, p>> \in (1..n) \X UserLines
    OBVIOUS
  <2> QED BY <1>1, <2>1, TakeUserFields
<1>3. PICK g \in [SUBSET (1..n) -> UserLines] : LeftBy(g, n, UserLines, NoDev, G)
  <2> HIDE DEF n, G
  <2> QED BY <1>1, <1>2, TakeUserFields, LeftExists
<1>4. P(g)
  <2> HIDE DEF n, G
  <2> QED BY <1>2, <1>3 DEF LeftBy
<1>5. P(f)
  <2> HIDE DEF P
  <2> QED BY <1>4
<1>6. FoldLeft(TakeUser, NoDev, line) = f[1..n]
  BY <1>1 DEF FoldLeft, MapThenFoldSet
<1> HIDE DEF f
<1>7. \A i \in 0..n : r[i] = f[1..i]
  OBVIOUS
<1>8. r[0] = NoDev
  <2>1. f[{}] = NoDev
    BY <1>5
  <2> QED BY <1>1, <1>7, <2>1, PrefixSets
<1>9. ASSUME NEW i \in 1..n PROVE r[i] = TakeUser(r[i - 1], line[i])
  <2>1. 1..i \in SUBSET (1..n) /\ i \in 0..n /\ i - 1 \in 0..n
    BY <1>1
  <2>2. 1..i # {} /\ Max(1..i) = i /\ (1..i) \ {i} = 1..(i - 1)
    BY <1>1, PrefixSets
  <2>3. f[1..i] = TakeUser(f[1..(i - 1)], line[i])
    <3> HIDE DEF n, r
    <3> QED BY <1>5, <2>1, <2>2
  <2> QED BY <1>7, <2>1, <2>3
<1>10. UserParsedBy(r, line)
  <2> HIDE DEF r
  <2> QED BY <1>1, <1>6, <1>7, <1>8, <1>9 DEF UserParsedBy
<1> QED BY <1>10

BadAmong(line, i) == \E k \in 1..i : Bad(line[k])

UserAgrees(p, line, i) ==
  LET dev == LastAmong(line, {"dev"}, i)
  IN  /\ p.dev = IF dev = 0 THEN "none" ELSE line[dev].arg
      /\ p.remove <=> Named(line, {"remove"}, i)
      /\ p.skb <=> Named(line, {"skb-mode"}, i)

\* A parsed line of the loader agrees with all its options.
LEMMA UserLineMeans ==
  ASSUME NEW line \in Seq(UserOptions)
  PROVE  LET p == FoldLeft(TakeUser, NoDev, line)
         IN  /\ p.usage <=> BadAmong(line, Len(line))
             /\ ~p.usage => UserAgrees(p, line, Len(line))
<1> PICK r : UserParsedBy(r, line)
  BY UserLineParsed
<1> DEFINE n == Len(line)
           Right(i) == /\ r[i] \in UserLines
                       /\ r[i].usage <=> BadAmong(line, i)
                       /\ ~r[i].usage => UserAgrees(r[i], line, i)
           A == {i \in Nat : i <= n => Right(i)}
<1>1. 0 \in A
  <2>1. r[0] = NoDev /\ NoDev \in UserLines /\ ~NoDev.usage
    BY TakeUserFields DEF UserParsedBy, NoDev
  <2>2. \A names : ~Named(line, names, 0) /\ LastAmong(line, names, 0) = 0
    BY OneMore
  <2>3. UserAgrees(NoDev, line, 0)
    BY <2>2 DEF UserAgrees, NoDev
  <2>4. ~BadAmong(line, 0)
    BY DEF BadAmong
  <2> QED BY <2>1, <2>3, <2>4
<1>2. ASSUME NEW i \in Nat, i \in A PROVE i + 1 \in A
  <2> SUFFICES ASSUME i + 1 <= n PROVE Right(i + 1)
    OBVIOUS
  <2> DEFINE o == line[i + 1]
  <2>1. Right(i) /\ i < n /\ n \in Nat /\ i + 1 \in 1..n /\ o \in UserOptions
    BY <1>2
  <2>2. r[i + 1] = TakeUser(r[i], o)
    BY <2>1 DEF UserParsedBy
  <2>3. BadAmong(line, i + 1) <=> BadAmong(line, i) \/ Bad(o)
    <3>1. \A k : k \in 1..(i + 1) <=> k \in 1..i \/ k = i + 1
      OBVIOUS
    <3> QED BY <3>1 DEF BadAmong
  <2>4. /\ r[i + 1] \in UserLines
        /\ r[i].usage => r[i + 1].usage
        /\ ~r[i].usage => (r[i + 1].usage <=> Bad(o))
    BY <2>1, <2>2, TakeUserFields, SMTT(30)
  <2>5. ASSUME ~r[i + 1].usage PROVE UserAgrees(r[i + 1], line, i + 1)
    <3>1. UserAgrees(r[i], line, i) /\ ~r[i].usage
      BY <2>1, <2>4, <2>5
    <3>2. /\ r[i + 1].dev = IF o.name = "dev" THEN o.arg ELSE r[i].dev
          /\ r[i + 1].remove <=> r[i].remove \/ o.name = "remove"
          /\ r[i + 1].skb <=> r[i].skb \/ o.name = "skb-mode"
      BY <2>1, <2>2, <2>5, <3>1, TakeUserFields, SMTT(30)
    <3>3. \A name : /\ Named(line, {name}, i + 1) <=> Named(line, {name}, i) \/ o.name = name
                    /\ LastAmong(line, {name}, i + 1) = IF o.name = name THEN i + 1
                                                        ELSE LastAmong(line, {name}, i)
      BY OneMore
    <3>4. r[i + 1].dev = IF LastAmong(line, {"dev"}, i + 1) = 0 THEN "none"
                         ELSE line[LastAmong(line, {"dev"}, i + 1)].arg
      <4>1. CASE o.name = "dev"
        <5>1. LastAmong(line, {"dev"}, i + 1) = i + 1
          BY <3>3, <4>1
        <5>2. r[i + 1].dev = o.arg /\ i + 1 # 0
          BY <3>2, <4>1
        <5> QED BY <5>1, <5>2
      <4>2. CASE o.name # "dev"
        BY <3>1, <3>2, <3>3, <4>2 DEF UserAgrees
      <4> QED BY <4>1, <4>2
    <3>5. /\ r[i + 1].remove <=> Named(line, {"remove"}, i + 1)
          /\ r[i + 1].skb <=> Named(line, {"skb-mode"}, i + 1)
      BY <3>1, <3>2, <3>3 DEF UserAgrees
    <3> QED BY <3>4, <3>5 DEF UserAgrees
  <2> HIDE DEF n, o
  <2> QED BY <2>1, <2>3, <2>4, <2>5
<1>3. n \in A
  <2> HIDE DEF A
  <2>1. n \in Nat
    OBVIOUS
  <2> QED BY <1>1, <1>2, <2>1, NatInduct
<1>4. FoldLeft(TakeUser, NoDev, line) = r[n]
  BY DEF UserParsedBy
<1>5. n \in Nat
  OBVIOUS
<1>6. Right(n)
  <2> HIDE DEF Right
  <2> QED BY <1>3, <1>5
<1> HIDE DEF n
<1> QED BY <1>4, <1>6 DEF n

\* The loader acts on the last device named, and on none when an option is
\* refused, for lines of any length.
THEOREM LoaderLinesMean == LibSpec => []LoaderLineMeans
<1>1. ItemsInv => LoaderLineMeans
  <2> SUFFICES ASSUME ItemsInv, part = "user" PROVE LoaderLineMeans
    BY DEF LoaderLineMeans
  <2> DEFINE n          == Len(items)
             p          == FoldLeft(TakeUser, NoDev, items)
             all(names) == {i \in DOMAIN items : items[i].name \in names}
             dev        == LastPosition(all({"dev"}))
             refused    == \/ all({"bad"}) # {}
                           \/ \E i \in all({"dev"}) : items[i].arg \notin KnownDevs
                           \/ \E i \in all({"owner"}) : items[i].arg \notin KnownUsers
             called     == UserMain(items)
  <2>1. items \in Seq(UserOptions) /\ n \in Nat /\ DOMAIN items = 1..n
    BY InputOf
  <2>2. \A names : all(names) = Among(items, names, n)
    BY <2>1 DEF Among
  <2>3. \A names : /\ all(names) # {} <=> Named(items, names, n)
                   /\ LastPosition(all(names)) = LastAmong(items, names, n)
    BY <2>2 DEF Named, LastAmong
  <2>4. refused <=> BadAmong(items, n)
    BY <2>1 DEF BadAmong, Bad
  <2>5. (p.usage <=> refused) /\ (~p.usage => UserAgrees(p, items, n))
    <3> HIDE DEF p, refused
    <3> QED BY <2>1, <2>4, UserLineMeans DEF p
  <2>6. called = IF p.usage \/ p.dev = "none" THEN [call |-> "usage"]
                 ELSE [call |-> IF p.remove THEN "remove_xdp_program" ELSE "load",
                       dev |-> p.dev, skb |-> p.skb,
                       owner |-> IF p.remove THEN "unchanged" ELSE p.owner]
    <3> HIDE DEF p
    <3> QED BY DEF UserMain, p
  <2>7. ~p.usage =>
          /\ p.dev = IF dev = 0 THEN "none" ELSE items[dev].arg
          /\ p.remove <=> all({"remove"}) # {}
          /\ p.skb <=> all({"skb-mode"}) # {}
    <3> HIDE DEF p, all
    <3> QED BY <2>3, <2>5 DEF UserAgrees
  <2>8. /\ all({"dev"}) = {} <=> dev = 0
        /\ dev # 0 => items[dev].name = "dev" /\ dev \in all({"dev"})
    <3>1. all({"dev"}) \subseteq 1..n
      BY <2>1
    <3>2. (all({"dev"}) = {} <=> dev = 0) /\ (dev # 0 => dev \in all({"dev"}))
      <4> HIDE DEF all
      <4> QED BY <2>1, <3>1, LastOfMore
    <3> HIDE DEF dev
    <3> QED BY <2>1, <3>2
  <2>9. dev # 0 /\ ~refused => items[dev].arg # "none"
    <3>1. dev # 0 /\ ~refused => items[dev].arg \in KnownDevs
      <4> HIDE DEF dev
      <4> QED BY <2>8
    <3> QED BY <3>1, OptionsAssumption
  <2> HIDE DEF p, dev, all, refused, called
  <2>10. /\ called.call = "usage" <=> refused \/ all({"dev"}) = {}
         /\ called.call # "usage" =>
              /\ called.dev = items[dev].arg
              /\ called.call = "remove_xdp_program" <=> all({"remove"}) # {}
              /\ called.skb <=> all({"skb-mode"}) # {}
    <3>1. CASE p.usage \/ p.dev = "none"
      BY <2>5, <2>6, <2>7, <2>8, <2>9, <3>1
    <3>2. CASE ~(p.usage \/ p.dev = "none")
      BY <2>5, <2>6, <2>7, <2>8, <2>9, <3>2
    <3> QED BY <3>1, <3>2
  <2> QED BY <2>10 DEF LoaderLineMeans, called, refused, dev, all
<1> QED BY <1>1, ItemsTyped, PTL

-----------------------------------------------------------------------------
(***************************************************************************)
(* The maps of an ELF file.                                                *)
(***************************************************************************)
\* The sections of a file that has only its symbols and its maps.
LEMMA FileWithIs ==
  ASSUME NEW syms, NEW count, NEW bytes, NEW newer, NEW f, f = FileWith(syms, count, bytes, newer)
  PROVE  /\ DOMAIN f = {1, 2} /\ f[1].kind = "symtab" /\ f[1].syms = syms
         /\ f[2].kind = "maps" /\ f[2].size = count * bytes /\ f[2].newer = newer
         /\ LastOf(f, "symtab") = 1 /\ LastOf(f, "maps") = 2
<1>1. /\ DOMAIN f = {1, 2} /\ f[1].kind = "symtab" /\ f[1].syms = syms
      /\ f[2].kind = "maps" /\ f[2].size = count * bytes /\ f[2].newer = newer
  BY DEF FileWith
<1>2. ASSUME NEW kind, NEW k \in {1, 2}, \A s \in {1, 2} : f[s].kind = kind <=> s = k
      PROVE  LastOf(f, kind) = k
  <2> DEFINE found == {i \in DOMAIN f : f[i].kind = kind}
  <2>1. found = {k} /\ k <= k
    BY <1>1, <1>2
  <2> HIDE DEF found
  <2>2. (CHOOSE i \in found : \A j \in found : j <= i) = k
    BY <2>1
  <2> QED BY <2>1, <2>2 DEF LastOf, found
<1>3. LastOf(f, "symtab") = 1
  <2>1. 1 \in {1, 2} /\ \A s \in {1, 2} : f[s].kind = "symtab" <=> s = 1
    BY <1>1
  <2> QED BY <1>2, <2>1
<1>4. LastOf(f, "maps") = 2
  <2>1. 2 \in {1, 2} /\ \A s \in {1, 2} : f[s].kind = "maps" <=> s = 2
    BY <1>1
  <2> QED BY <1>2, <2>1
<1> QED BY <1>1, <1>3, <1>4

\* qsort finds an order of the maps' symbols.
LEMMA OffsetsInOrder ==
  ASSUME NEW f, IsFiniteSet(MapSyms(f)),
         \A i \in MapSyms(f) : f[LastOf(f, "symtab")].syms[i].value \in Nat
  PROVE  LET n == Cardinality(MapSyms(f))
             syms == f[LastOf(f, "symtab")].syms
         IN  \E o \in [1..n -> MapSyms(f)] :
               /\ \A x \in MapSyms(f) : \E i \in 1..n : o[i] = x
               /\ \A i, j \in 1..n : i < j => syms[o[i]].value <= syms[o[j]].value
               /\ Offsets(f) = [k \in 1..n |-> syms[o[k]].value]
<1> DEFINE syms == f[LastOf(f, "symtab")].syms
           M == MapSyms(f)
           n == Cardinality(M)
           D == 1..n
           key == [i \in M |-> syms[i].value]
           Ordered(p) == \A i, j \in D : i < j => key[p[i]] <= key[p[j]]
           o == CHOOSE p \in Bijection(D, M) : Ordered(p)
<1>1. n \in Nat /\ \A i \in M : syms[i].value \in Nat
  BY FS_CardinalityType
<1>2. PICK b \in Bijection(D, M) : TRUE
  <2>1. ExistsBijection(D, M)
    BY FS_CardinalityType
  <2> QED BY <2>1 DEF ExistsBijection
<1> HIDE DEF M, n, syms
<1>3. b \in [D -> M] /\ (\A i, j \in D : b[i] = b[j] => i = j) /\ \A x \in M : \E i \in D : b[i] = x
  BY <1>2 DEF Bijection, Injection, Surjection, IsInjective
<1> DEFINE m == [i \in D |-> syms[b[i]].value]
<1>4. m \in [D -> Nat]
  BY <1>1, <1>3
<1>5. PICK q \in Bijection(D, D) : SortsTo(n, m, q)
  <2>1. Sortable(n)
    BY <1>1, AllSortable
  <2> HIDE DEF m
  <2> QED BY <1>4, <2>1 DEF Sortable
<1>6. q \in [D -> D] /\ (\A i, j \in D : q[i] = q[j] => i = j) /\ \A x \in D : \E i \in D : q[i] = x
  BY <1>5 DEF Bijection, Injection, Surjection, IsInjective
<1> DEFINE p == [i \in D |-> b[q[i]]]
<1>7. p \in Bijection(D, M)
  <2>1. p \in [D -> M]
    BY <1>3, <1>6
  <2>2. \A i, j \in D : p[i] = p[j] => i = j
    BY <1>3, <1>6
  <2>3. \A x \in M : \E i \in D : p[i] = x
    <3> TAKE x \in M
    <3>1. PICK y \in D : b[y] = x
      BY <1>3
    <3>2. PICK i \in D : q[i] = y
      BY <1>6
    <3>3. p[i] = x
      BY <3>1, <3>2
    <3> QED BY <3>3
  <2> HIDE DEF p, D
  <2> QED BY <2>1, <2>2, <2>3 DEF Bijection, Injection, Surjection, IsInjective
<1>8. Ordered(p)
  <2>1. \A i, j \in D : i < j => m[q[i]] <= m[q[j]]
    BY <1>5 DEF SortsTo
  <2>2. \A i \in D : m[q[i]] = key[p[i]]
    BY <1>3, <1>6
  <2> QED BY <2>1, <2>2
<1>9. o \in Bijection(D, M) /\ Ordered(o)
  <2> HIDE DEF Ordered, p, D
  <2> QED BY <1>7, <1>8
<1>10. Offsets(f) = [k \in D |-> syms[o[k]].value]
  BY DEF Offsets, ValuesBy, M, n, syms
<1> HIDE DEF o, Ordered
<1>11. o \in [D -> M] /\ \A x \in M : \E i \in D : o[i] = x
  <2> HIDE DEF D
  <2> QED BY <1>9 DEF Bijection, Surjection
<1>12. \A i, j \in D : i < j => syms[o[i]].value <= syms[o[j]].value
  <2>1. \A i \in D : key[o[i]] = syms[o[i]].value
    BY <1>11
  <2> QED BY <1>9, <2>1 DEF Ordered
<1> QED BY <1>10, <1>11, <1>12 DEF M, n, syms

\* Sizes in the file and in memory.
LEMMA Sizes ==
  ASSUME NEW b \in Nat \ {0}
  PROVE  /\ \A n \in Nat \ {0} : (n * b) \div n = b
         /\ \A v, w \in Nat : v * b <= w * b => v <= w
<1>1. ASSUME NEW n \in Nat \ {0} PROVE (n * b) \div n = b
  <2> DEFINE q == (n * b) \div n
  <2>1. n * b \in Nat
    BY TimesNat
  <2>2. n * b = n * q + ((n * b) % n) /\ (n * b) % n \in 0..(n - 1) /\ q \in Nat
    BY <2>1
  <2> QED BY <2>1, <2>2
<1>2. \A v, w \in Nat : v * b <= w * b => v <= w
  OBVIOUS
<1> QED BY <1>1, <1>2

\* load_elf_maps_section: the k-th definition of the section is the k-th map, in
\* whatever order the symbols come, for symbol tables of any length.
THEOREM MapsInOrder == LibSpec => []MapTableMatchesFile
<1>1. ItemsInv => MapTableMatchesFile
  <2> SUFFICES ASSUME ItemsInv, part = "symbols",
                      NEW bytes \in {DefSize - 1, DefSize, DefSize + 1}, NEW newer \in BOOLEAN
               PROVE LET values == {items[i].value : i \in Positions(LAMBDA s : s.shndx = 2)}
                         n      == Cardinality(Positions(LAMBDA s : s.shndx = 2))
                         syms   == [i \in DOMAIN items |-> [items[i] EXCEPT !.value = @ * bytes]]
                         file   == FileWith(syms, n, bytes, newer)
                         loaded == LoadFile(file)
                     IN  /\ n \in 1..MaxMaps => loaded.result \in {"OK", "EFBIG"}
                         /\ n \in 1..MaxMaps /\ values = 0..(n - 1) =>
                              /\ loaded.result = "OK" <=> bytes <= DefSize \/ ~newer
                              /\ loaded.result = "OK" =>
                                   /\ loaded.maps = [k \in 1..n |-> (k - 1) * bytes]
                                   /\ SizeCopied(file) = Min({bytes, DefSize})
    BY DEF MapTableMatchesFile
  <2> DEFINE M      == {i \in DOMAIN items : items[i].shndx = 2}
             values == {items[i].value : i \in M}
             n      == Cardinality(M)
             syms   == [i \in DOMAIN items |-> [items[i] EXCEPT !.value = @ * bytes]]
             file   == FileWith(syms, n, bytes, newer)
             loaded == LoadFile(file)
  <2>1. items \in Seq(Symbols) /\ Len(items) \in Nat /\ DOMAIN items = 1..Len(items)
    BY InputOf
  <2>2. bytes \in Nat \ {0} /\ MaxMaps \in Nat /\ DefSize \in Nat
    BY ElfAssumption
  <2>3. \A i \in DOMAIN items : items[i] \in [shndx : Nat, value : Nat]
    BY <2>1, ElfAssumption
  <2>4. IsFiniteSet(M) /\ n \in Nat
    <3>1. IsFiniteSet(1..Len(items)) /\ M \in SUBSET (1..Len(items))
      BY <2>1, FS_Interval
    <3>2. IsFiniteSet(M)
      BY <3>1, FS_Subset
    <3> QED BY <3>2, FS_CardinalityType
  <2>5. /\ DOMAIN syms = 1..Len(items)
        /\ \A i \in 1..Len(items) : syms[i].shndx = items[i].shndx /\ syms[i].value = items[i].value * bytes
    BY <2>1, <2>3
  <2> HIDE DEF syms
  <2>6. /\ DOMAIN file = {1, 2} /\ file[1].kind = "symtab" /\ file[1].syms = syms
        /\ file[2].kind = "maps" /\ file[2].size = n * bytes /\ file[2].newer = newer
        /\ LastOf(file, "symtab") = 1 /\ LastOf(file, "maps") = 2
    BY FileWithIs
  <2> HIDE DEF file
  <2>7. MapSyms(file) = M
    <3> HIDE DEF M
    <3>1. MapSyms(file) = {i \in DOMAIN syms : syms[i].shndx = 2}
      BY <2>6 DEF MapSyms
    <3> QED BY <2>1, <2>5, <3>1 DEF M
  <2> HIDE DEF M
  <2>8. ASSUME n \in 1..MaxMaps PROVE BufferHolds(file)
    <3>1. ASSUME NEW i \in DOMAIN syms PROVE Cardinality({j \in 1..(i - 1) : syms[j].shndx = 2}) <= MaxMaps
      <4> DEFINE S == {j \in 1..(i - 1) : syms[j].shndx = 2}
      <4>1. S \in SUBSET M
        BY <2>1, <2>5 DEF M
      <4> HIDE DEF S, n
      <4>2. Cardinality(S) <= n /\ IsFiniteSet(S)
        BY <2>4, <4>1, FS_Subset DEF n
      <4>3. Cardinality(S) \in Nat
        BY <4>2, FS_CardinalityType
      <4>4. Cardinality(S) <= MaxMaps
        BY <2>2, <2>4, <2>8, <4>2, <4>3
      <4> QED BY <4>4 DEF S
    <3> QED BY <2>6, <3>1 DEF BufferHolds
  <2>9. ASSUME n \in 1..MaxMaps PROVE SizeInFile(file) = bytes
    <3>1. SizeInFile(file) = (n * bytes) \div n
      BY <2>6, <2>7 DEF SizeInFile
    <3>2. n \in Nat \ {0}
      BY <2>9
    <3> QED BY <2>2, <3>1, <3>2, Sizes
  <2> DEFINE result == IF bytes > DefSize /\ newer THEN "EFBIG" ELSE "OK"
  <2>10. ASSUME n \in 1..MaxMaps
         PROVE  loaded.result = result /\ (result = "OK" => loaded.maps = Offsets(file))
    <3>1. MapsResult(file) = result
      BY <2>6, <2>7, <2>8, <2>9, <2>10 DEF MapsResult
    <3>2. ~ \E i \in DOMAIN file : file[i].kind = "version" /\ ~file[i].valid
      BY <2>6
    <3> DEFINE res == IF \E i \in DOMAIN file : file[i].kind = "version" /\ ~file[i].valid
                      THEN "version"
                      ELSE IF LastOf(file, "symtab") = 0 THEN "no symbols"
                      ELSE IF LastOf(file, "maps") # 0 THEN MapsResult(file) ELSE "OK"
    <3>3. /\ loaded.result = res
          /\ loaded.maps = IF LastOf(file, "maps") # 0 /\ res = "OK" THEN Offsets(file) ELSE <<>>
      BY DEF LoadFile
    <3> HIDE DEF result, loaded
    <3>4. res = result
      <4>1. LastOf(file, "symtab") # 0 /\ LastOf(file, "maps") # 0
        BY <2>6
      <4> QED BY <3>1, <3>2, <4>1, Zenon
    <3> HIDE DEF res
    <3> QED BY <2>6, <3>3, <3>4
  <2>11. ASSUME n \in 1..MaxMaps, values = 0..(n - 1)
         PROVE  Offsets(file) = [k \in 1..n |-> (k - 1) * bytes]
    <3>1. \A i \in M : items[i].value \in Nat /\ syms[i].value = items[i].value * bytes /\ syms[i].value \in Nat
      <4>1. \A i \in M : i \in 1..Len(items) /\ items[i].value \in Nat
        BY <2>1, <2>3 DEF M
      <4> QED BY <2>2, <2>5, <4>1, TimesNat
    <3> HIDE DEF n
    <3>2. PICK o \in [1..n -> M] :
            /\ \A x \in M : \E i \in 1..n : o[i] = x
            /\ \A i, j \in 1..n : i < j => syms[o[i]].value <= syms[o[j]].value
            /\ Offsets(file) = [k \in 1..n |-> syms[o[k]].value]
      <4>1. \A i \in MapSyms(file) : file[LastOf(file, "symtab")].syms[i].value \in Nat
        BY <2>6, <2>7, <3>1
      <4>2. IsFiniteSet(MapSyms(file))
        BY <2>4, <2>7
      <4> DEFINE t == file[LastOf(file, "symtab")].syms
                 k == Cardinality(MapSyms(file))
      <4>3. PICK o \in [1..k -> MapSyms(file)] :
              /\ \A x \in MapSyms(file) : \E i \in 1..k : o[i] = x
              /\ \A i, j \in 1..k : i < j => t[o[i]].value <= t[o[j]].value
              /\ Offsets(file) = [i \in 1..k |-> t[o[i]].value]
        BY <4>1, <4>2, OffsetsInOrder
      <4>4. t = syms /\ k = n
        BY <2>6, <2>7 DEF n
      <4> HIDE DEF t, k
      <4>5. \A i \in 1..n : t[o[i]].value = syms[o[i]].value
        BY <4>4
      <4>6. Offsets(file) = [i \in 1..n |-> syms[o[i]].value]
        BY <4>3, <4>4
      <4> QED BY <2>7, <4>3, <4>4, <4>6
    <3> DEFINE v == [i \in 1..n |-> items[o[i]].value]
    <3>3. \A i \in 1..n : o[i] \in M /\ v[i] \in Nat /\ v[i] = items[o[i]].value /\ syms[o[i]].value = v[i] * bytes
      BY <3>1, <3>2
    <3>4. v \in [1..n -> Nat]
      BY <3>3
    <3> HIDE DEF v
    <3>5. \A i, j \in 1..n : i < j => v[i] <= v[j]
      BY <2>2, <3>2, <3>3, Sizes
    <3>6. \A x : x \in 0..(n - 1) <=> \E i \in 1..n : v[i] = x
      <4>1. \A x : x \in values <=> \E i \in 1..n : v[i] = x
        BY <3>2, <3>3
      <4> HIDE DEF values
      <4> QED BY <2>11, <4>1
    <3>7. \A i \in 1..n : v[i] = i - 1
      BY <2>4, <3>4, <3>5, <3>6, InOrderIsCounting DEF n
    <3>8. \A i \in 1..n : syms[o[i]].value = (i - 1) * bytes
      BY <3>3, <3>7
    <3> QED BY <3>2, <3>8
  <2>12. ASSUME n \in 1..MaxMaps PROVE SizeCopied(file) = Min({bytes, DefSize})
    <3> DEFINE least == Min({bytes, DefSize})
    <3>1. SizeCopied(file) = IF bytes < DefSize THEN bytes ELSE DefSize
      BY <2>9, <2>12 DEF SizeCopied
    <3>2. least \in {bytes, DefSize} /\ least <= bytes /\ least <= DefSize
      <4>1. {bytes, DefSize} \subseteq Nat /\ {bytes, DefSize} # {}
        BY <2>2
      <4> QED BY <4>1, MinOf
    <3> HIDE DEF least
    <3> QED BY <2>2, <3>1, <3>2 DEF least
  <2>13. /\ n \in 1..MaxMaps => loaded.result \in {"OK", "EFBIG"}
         /\ n \in 1..MaxMaps /\ values = 0..(n - 1) =>
              /\ loaded.result = "OK" <=> bytes <= DefSize \/ ~newer
              /\ loaded.result = "OK" =>
                   /\ loaded.maps = [k \in 1..n |-> (k - 1) * bytes]
                   /\ SizeCopied(file) = Min({bytes, DefSize})
    <3>1. result = "OK" <=> bytes <= DefSize \/ ~newer
      BY <2>2
    <3>2. result \in {"OK", "EFBIG"}
      OBVIOUS
    <3> HIDE DEF result, loaded, n, values
    <3> QED BY <2>10, <2>11, <2>12, <3>1, <3>2
  <2>14. Positions(LAMBDA s : s.shndx = 2) = M
    BY DEF Positions, M
  <2> HIDE DEF loaded, n, values
  <2> QED BY <2>13, <2>14 DEF loaded, n, values, file, syms
<1> QED BY <1>1, ItemsTyped, PTL

-----------------------------------------------------------------------------
(***************************************************************************)
(* The relocations of an ELF file.                                         *)
(***************************************************************************)
\* The sections of the file whose relocations are the items.
LEMMA ProgramFileIs ==
  ASSUME ItemsInv, part = "sections"
  PROVE  LET f == ProgramFile
         IN  /\ Len(f) \in Nat /\ DOMAIN f = 1..Len(f) /\ 1 \in DOMAIN f /\ 2 \in DOMAIN f
             /\ LastOf(f, "symtab") = 1 /\ LastOf(f, "maps") = 2
             /\ \A s \in DOMAIN f :
                  /\ f[s].kind = "prog" => f[s].insns \in Seq(BOOLEAN) /\ Len(f[s].insns) >= 3
                  /\ f[s].kind = "rel" => f[s].rels \in Seq([insn : 1..3, sym : 1..4])
<1> DEFINE f == ProgramFile
<1>1. items \in Seq(Sections) /\ Len(items) \in Nat
  BY InputOf
<1>2. /\ Len(f) = 3 + Len(items) /\ Len(f) \in Nat /\ DOMAIN f = 1..Len(f)
      /\ f[1].kind = "symtab" /\ f[2].kind = "maps"
      /\ f[3].kind = "prog" /\ f[3].insns = <<TRUE, FALSE, TRUE>>
      /\ \A i \in 4..Len(f) : i - 3 \in 1..Len(items) /\ f[i] = items[i - 3]
  <2> DEFINE a == [kind |-> "symtab",
                   syms |-> << [shndx |-> 2, value |-> DefSize], [shndx |-> 3, value |-> 0],
                               [shndx |-> 2, value |-> 0], [shndx |-> 3, value |-> 1] >>]
             b == [kind |-> "maps", size |-> 2 * DefSize, newer |-> FALSE]
             c == [kind |-> "prog", named |-> TRUE, insns |-> <<TRUE, FALSE, TRUE>>]
  <2>1. f = <<a, b, c>> \o items
    BY DEF ProgramFile
  <2>2. a.kind = "symtab" /\ b.kind = "maps" /\ c.kind = "prog" /\ c.insns = <<TRUE, FALSE, TRUE>>
    OBVIOUS
  <2> HIDE DEF a, b, c, f
  <2>3. /\ Len(f) = 3 + Len(items) /\ Len(f) \in Nat /\ DOMAIN f = 1..Len(f)
        /\ f[1] = a /\ f[2] = b /\ f[3] = c
        /\ \A i \in 4..Len(f) : i - 3 \in 1..Len(items) /\ f[i] = items[i - 3]
    BY <1>1, <2>1, SeqOfThree
  <2> QED BY <2>2, <2>3
<1> HIDE DEF f
<1>3. \A i \in 4..Len(f) : f[i] \in Sections
  BY <1>1, <1>2
<1>4. <<TRUE, FALSE, TRUE>> \in Seq(BOOLEAN) /\ Len(<<TRUE, FALSE, TRUE>>) >= 3
  OBVIOUS
<1>5. \A s \in DOMAIN f : s = 1 \/ s = 2 \/ s = 3 \/ s \in 4..Len(f)
  BY <1>1, <1>2
<1>6. \A s \in 4..Len(f) : f[s].kind \in {"prog", "rel", "version", "unread"}
  BY <1>3, ElfAssumption
<1>7. ASSUME NEW kind, NEW k \in DOMAIN f, \A s \in DOMAIN f : f[s].kind = kind <=> s = k
      PROVE  LastOf(f, kind) = k
  <2> DEFINE found == {i \in DOMAIN f : f[i].kind = kind}
  <2>1. found = {k} /\ k <= k
    BY <1>2, <1>7
  <2> HIDE DEF found
  <2>2. (CHOOSE i \in found : \A j \in found : j <= i) = k
    BY <2>1
  <2> QED BY <2>1, <2>2 DEF LastOf, found
<1>8. LastOf(f, "symtab") = 1
  <2>1. \A s \in 4..Len(f) : f[s].kind # "symtab" /\ s # 1
    BY <1>6
  <2>2. 1 \in DOMAIN f /\ \A s \in DOMAIN f : f[s].kind = "symtab" <=> s = 1
    BY <1>1, <1>2, <1>5, <2>1
  <2> QED BY <1>7, <2>2
<1>9. LastOf(f, "maps") = 2
  <2>1. 2 \in DOMAIN f /\ \A s \in DOMAIN f : f[s].kind = "maps" <=> s = 2
    BY <1>1, <1>2, <1>5, <1>6
  <2> QED BY <1>7, <2>1
<1>10. ASSUME NEW s \in DOMAIN f
       PROVE  /\ f[s].kind = "prog" => f[s].insns \in Seq(BOOLEAN) /\ Len(f[s].insns) >= 3
              /\ f[s].kind = "rel" => f[s].rels \in Seq([insn : 1..3, sym : 1..4])
  <2>1. CASE s \in {1, 2, 3}
    BY <1>2, <1>4, <2>1
  <2>2. CASE s \in 4..Len(f)
    BY <1>3, <2>2, ElfAssumption
  <2> QED BY <1>5, <2>1, <2>2
<1>11. 1 \in DOMAIN f /\ 2 \in DOMAIN f
  BY <1>1, <1>2
<1> QED BY <1>2, <1>8, <1>9, <1>10, <1>11 DEF f

-----------------------------------------------------------------------------
\* The number of the map a value stands for, 0 when there is none.
LEMMA MapAtIs ==
  ASSUME NEW offsets, DOMAIN offsets \subseteq Nat \ {0}, NEW sym, NEW value
  PROVE  LET k == MapAt(offsets, sym, value)
         IN  /\ k \in Nat
             /\ k # 0 => k \in DOMAIN offsets /\ offsets[k] = value
             /\ k = 0 <=> ~ \E j \in DOMAIN offsets : offsets[j] = value
<1> DEFINE found == {k \in DOMAIN offsets : offsets[k] = value}
           k == MapAt(offsets, sym, value)
<1>1. k = IF found = {} THEN 0 ELSE CHOOSE j \in found : \A i \in found : j <= i
  BY DEF MapAt
<1>2. found \subseteq Nat /\ 0 \notin found
  OBVIOUS
<1>3. \A j : j \in found <=> j \in DOMAIN offsets /\ offsets[j] = value
  OBVIOUS
<1> HIDE DEF found, k
<1>4. CASE found = {}
  BY <1>1, <1>3, <1>4 DEF k
<1>5. CASE found # {}
  <2>1. Min(found) \in found /\ \A i \in found : Min(found) <= i
    BY <1>2, <1>5, MinOf
  <2>2. k \in found
    BY <1>1, <1>5, <2>1
  <2> QED BY <1>2, <1>3, <2>2 DEF k
<1> QED BY <1>4, <1>5

Insns(file, p) == file[p].insns
Wirings(file, p) == [insns : [DOMAIN Insns(file, p) -> [map : BOOLEAN, imm : Nat]],
                     loads : {Insns(file, p)}, ok : BOOLEAN]
SymbolValue(file, rel) == file[1].syms[rel.sym].value
GoodRel(file, p, offsets, rel) ==
  Insns(file, p)[rel.insn] /\ \E k \in DOMAIN offsets : offsets[k] = SymbolValue(file, rel)

\* What a relocation does to the instruction it names.
LEMMA ApplyIs ==
  ASSUME NEW file, LastOf(file, "symtab") = 1, NEW p,
         NEW offsets, DOMAIN offsets \subseteq Nat \ {0},
         NEW run \in Wirings(file, p), NEW rel, rel.insn \in DOMAIN Insns(file, p)
  PROVE  LET q == Apply(file, offsets, run, rel)
             k == MapAt(offsets, rel.sym, SymbolValue(file, rel))
             done == run.ok /\ GoodRel(file, p, offsets, rel)
         IN  /\ q \in Wirings(file, p)
             /\ q.ok <=> done
             /\ done => q.insns[rel.insn].imm = k
             /\ \A i \in DOMAIN Insns(file, p) :
                  (i # rel.insn \/ ~done) => q.insns[i].imm = run.insns[i].imm
<1> DEFINE q == Apply(file, offsets, run, rel)
           k == MapAt(offsets, rel.sym, SymbolValue(file, rel))
           done == run.ok /\ GoodRel(file, p, offsets, rel)
           D == DOMAIN Insns(file, p)
           Goal == /\ q \in Wirings(file, p)
                   /\ q.ok <=> done
                   /\ done => q.insns[rel.insn].imm = k
                   /\ \A i \in D : (i # rel.insn \/ ~done) => q.insns[i].imm = run.insns[i].imm
<1>1. k \in Nat /\ (k = 0 <=> ~ \E j \in DOMAIN offsets : offsets[j] = SymbolValue(file, rel))
  BY MapAtIs
<1>2. /\ run.insns \in [D -> [map : BOOLEAN, imm : Nat]] /\ run.ok \in BOOLEAN
      /\ run.loads = Insns(file, p) /\ rel.insn \in D
      /\ run = [insns |-> run.insns, loads |-> run.loads, ok |-> run.ok]
  BY DEF Wirings
<1>3. q = IF ~run.ok THEN run
          ELSE IF ~run.loads[rel.insn] THEN [run EXCEPT !.ok = FALSE]
          ELSE IF k = 0 THEN [run EXCEPT !.ok = FALSE, !.insns[rel.insn].map = TRUE]
          ELSE [run EXCEPT !.insns[rel.insn] = [map |-> TRUE, imm |-> k]]
  BY DEF Apply, SymbolValue
<1>4. done <=> run.ok /\ run.loads[rel.insn] /\ k # 0
  BY <1>1, <1>2 DEF GoodRel
<1>5. ASSUME NEW ins \in [D -> [map : BOOLEAN, imm : Nat]], NEW ok \in BOOLEAN,
             q = [insns |-> ins, loads |-> run.loads, ok |-> ok]
      PROVE  q \in Wirings(file, p) /\ q.ok = ok /\ q.insns = ins
  BY <1>2, <1>5 DEF Wirings
<1> HIDE DEF q, k, done, D
<1>6. ASSUME ~run.ok PROVE Goal
  <2>1. q = run /\ ~done
    BY <1>3, <1>4, <1>6
  <2> QED BY <1>6, <2>1
<1>7. ASSUME run.ok, ~run.loads[rel.insn] PROVE Goal
  <2>1. q = [insns |-> run.insns, loads |-> run.loads, ok |-> FALSE] /\ ~done
    BY <1>2, <1>3, <1>4, <1>7
  <2>2. q \in Wirings(file, p) /\ ~q.ok /\ q.insns = run.insns
    BY <1>2, <1>5, <2>1
  <2> QED BY <2>1, <2>2
<1>8. ASSUME run.ok, run.loads[rel.insn], k = 0 PROVE Goal
  <2> DEFINE ins == [run.insns EXCEPT ![rel.insn].map = TRUE]
  <2>1. q = [insns |-> ins, loads |-> run.loads, ok |-> FALSE] /\ ~done
    BY <1>2, <1>3, <1>4, <1>8
  <2>2. ins \in [D -> [map : BOOLEAN, imm : Nat]] /\ \A i \in D : ins[i].imm = run.insns[i].imm
    BY <1>2
  <2> HIDE DEF ins
  <2>3. q \in Wirings(file, p) /\ ~q.ok /\ q.insns = ins
    BY <1>5, <2>1, <2>2
  <2> QED BY <2>1, <2>2, <2>3
<1>9. ASSUME run.ok, run.loads[rel.insn], k # 0 PROVE Goal
  <2> DEFINE ins == [run.insns EXCEPT ![rel.insn] = [map |-> TRUE, imm |-> k]]
  <2>1. q = [insns |-> ins, loads |-> run.loads, ok |-> TRUE] /\ done
    BY <1>2, <1>3, <1>4, <1>9
  <2>2. /\ ins \in [D -> [map : BOOLEAN, imm : Nat]]
        /\ ins[rel.insn].imm = k /\ \A i \in D : i # rel.insn => ins[i].imm = run.insns[i].imm
    BY <1>1, <1>2
  <2> HIDE DEF ins
  <2>3. q \in Wirings(file, p) /\ q.ok /\ q.insns = ins
    BY <1>5, <2>1, <2>2
  <2> QED BY <2>1, <2>2, <2>3
<1> HIDE DEF Goal
<1>10. Goal
  BY <1>2, <1>6, <1>7, <1>8, <1>9
<1> QED BY <1>10 DEF Goal, q, k, done, D

\* What holds of a program when the relocations at the positions N have been
\* looked at.
RelAt(file, n) == file[n[1]].rels[n[2]]
Wired(file, p, offsets, run, N) ==
  /\ run \in Wirings(file, p)
  /\ ~run.ok => \E n \in N : ~GoodRel(file, p, offsets, RelAt(file, n))
  /\ \A i \in DOMAIN Insns(file, p) :
       LET k == run.insns[i].imm
       IN  /\ k # 0 => /\ k \in DOMAIN offsets
                       /\ \E n \in N : RelAt(file, n).insn = i /\ SymbolValue(file, RelAt(file, n)) = offsets[k]
           /\ (k = 0 /\ \E n \in N : RelAt(file, n).insn = i)
                => \E n \in N : ~GoodRel(file, p, offsets, RelAt(file, n))

\* One more relocation.
LEMMA WiredMore ==
  ASSUME NEW file, LastOf(file, "symtab") = 1, NEW p,
         NEW offsets, DOMAIN offsets \subseteq Nat \ {0},
         NEW run, NEW N, Wired(file, p, offsets, run, N),
         NEW n, RelAt(file, n).insn \in DOMAIN Insns(file, p)
  PROVE  Wired(file, p, offsets, Apply(file, offsets, run, RelAt(file, n)), N \cup {n})
<1> DEFINE rel == RelAt(file, n)
           q == Apply(file, offsets, run, rel)
           k == MapAt(offsets, rel.sym, SymbolValue(file, rel))
           good(m) == GoodRel(file, p, offsets, RelAt(file, m))
           done == run.ok /\ good(n)
           D == DOMAIN Insns(file, p)
           M == N \cup {n}
<1>1. /\ q \in Wirings(file, p)
      /\ q.ok <=> done
      /\ done => q.insns[rel.insn].imm = k
      /\ \A i \in D : (i # rel.insn \/ ~done) => q.insns[i].imm = run.insns[i].imm
  <2>1. run \in Wirings(file, p) /\ rel.insn \in D
    BY DEF Wired
  <2> QED BY <2>1, ApplyIs
<1>2. /\ ~run.ok => \E m \in N : ~good(m)
      /\ \A i \in D :
           /\ run.insns[i].imm # 0 =>
                /\ run.insns[i].imm \in DOMAIN offsets
                /\ \E m \in N : RelAt(file, m).insn = i /\ SymbolValue(file, RelAt(file, m)) = offsets[run.insns[i].imm]
           /\ (run.insns[i].imm = 0 /\ \E m \in N : RelAt(file, m).insn = i) => \E m \in N : ~good(m)
  BY DEF Wired
<1>3. k # 0 => k \in DOMAIN offsets /\ offsets[k] = SymbolValue(file, rel)
  BY MapAtIs
<1>4. good(n) => k # 0
  BY MapAtIs DEF GoodRel
<1>5. n \in M /\ \A m \in N : m \in M
  OBVIOUS
<1>6. ~q.ok => \E m \in M : ~good(m)
  BY <1>1, <1>2, <1>5
<1> HIDE DEF q, k, good
<1>7. ASSUME NEW i \in D, i = rel.insn, done
      PROVE  /\ q.insns[i].imm # 0
             /\ q.insns[i].imm \in DOMAIN offsets
             /\ \E m \in M : RelAt(file, m).insn = i /\ SymbolValue(file, RelAt(file, m)) = offsets[q.insns[i].imm]
  BY <1>1, <1>3, <1>4, <1>5, <1>7
<1>8. ASSUME NEW i \in D, i # rel.insn \/ ~done
      PROVE  /\ q.insns[i].imm # 0 =>
                  /\ q.insns[i].imm \in DOMAIN offsets
                  /\ \E m \in M : RelAt(file, m).insn = i /\ SymbolValue(file, RelAt(file, m)) = offsets[q.insns[i].imm]
             /\ (q.insns[i].imm = 0 /\ \E m \in M : RelAt(file, m).insn = i) => \E m \in M : ~good(m)
  <2>1. q.insns[i].imm = run.insns[i].imm
    BY <1>1, <1>8
  <2>2. ASSUME q.insns[i].imm = 0, NEW m \in M, RelAt(file, m).insn = i PROVE \E x \in M : ~good(x)
    <3>1. CASE m \in N
      BY <1>2, <1>5, <2>1, <2>2, <3>1
    <3>2. CASE m = n
      <4>1. ~done
        BY <1>8, <2>2, <3>2
      <4> QED BY <1>2, <1>5, <4>1
    <3> QED BY <3>1, <3>2
  <2> QED BY <1>2, <1>5, <2>1, <2>2
<1>9. \A i \in D :
        /\ q.insns[i].imm # 0 =>
             /\ q.insns[i].imm \in DOMAIN offsets
             /\ \E m \in M : RelAt(file, m).insn = i /\ SymbolValue(file, RelAt(file, m)) = offsets[q.insns[i].imm]
        /\ (q.insns[i].imm = 0 /\ \E m \in M : RelAt(file, m).insn = i) => \E m \in M : ~good(m)
  <2> TAKE i \in D
  <2>1. CASE i = rel.insn /\ done
    BY <1>7, <2>1
  <2>2. CASE i # rel.insn \/ ~done
    BY <1>8, <2>2
  <2> HIDE DEF done
  <2> QED BY <2>1, <2>2
<1> QED BY <1>1, <1>6, <1>9 DEF Wired, good, q

\* A section starts anew.
LEMMA WiredSection ==
  ASSUME NEW file, NEW p, NEW offsets, NEW run, NEW N, Wired(file, p, offsets, run, N)
  PROVE  Wired(file, p, offsets, [run EXCEPT !.ok = TRUE], N)
<1>1. [run EXCEPT !.ok = TRUE] \in Wirings(file, p) /\ [run EXCEPT !.ok = TRUE].insns = run.insns /\ [run EXCEPT !.ok = TRUE].ok
  BY DEF Wired, Wirings
<1> QED BY <1>1 DEF Wired

\* The relocations of a section one by one.
ApplyAll(file, offsets, run, rels) ==
  FoldLeft(LAMBDA r, rel : Apply(file, offsets, r, rel), [run EXCEPT !.ok = TRUE], rels)

RelsAppliedBy(r, file, offsets, run, rels) ==
  /\ r[0] = [run EXCEPT !.ok = TRUE]
  /\ \A i \in 1..Len(rels) : r[i] = Apply(file, offsets, r[i - 1], rels[i])
  /\ ApplyAll(file, offsets, run, rels) = r[Len(rels)]

\* There is such a function.
LEMMA RelsApplied ==
  ASSUME NEW file, LastOf(file, "symtab") = 1, NEW p,
         NEW offsets, DOMAIN offsets \subseteq Nat \ {0},
         NEW run \in Wirings(file, p), NEW R, NEW rels \in Seq(R),
         \A rel \in R : rel.insn \in DOMAIN Insns(file, p)
  PROVE  \E r : RelsAppliedBy(r, file, offsets, run, rels)
<1> DEFINE n == Len(rels)
           G == [x \in (1..n) \X Wirings(file, p) |-> Apply(file, offsets, x[2], rels[x[1]])]
           P(f) == f = [s \in SUBSET (1..n) |-> IF s = {} THEN [run EXCEPT !.ok = TRUE]
                                                ELSE Apply(file, offsets, f[s \ {Max(s)}], rels[Max(s)])]
           f == CHOOSE f : P(f)
           r == [i \in 0..n |-> f[1..i]]
<1>1. n \in Nat /\ DOMAIN rels = 1..n
  BY SeqIs
<1>2. \A i \in 1..n, y \in Wirings(file, p) : G[<<i, y>>] = Apply(file, offsets, y, rels[i]) /\ G[<<i, y>>] \in Wirings(file, p)
  <2>1. \A i \in 1..n, y \in Wirings(file, p) : <<i, y>> \in (1..n) \X Wirings(file, p)
    OBVIOUS
  <2>2. \A i \in 1..n, y \in Wirings(file, p) : Apply(file, offsets, y, rels[i]) \in Wirings(file, p)
    BY ApplyIs, SeqIs
  <2> HIDE DEF n
  <2> QED BY <2>1, <2>2
<1>3. PICK g \in [SUBSET (1..n) -> Wirings(file, p)] : LeftBy(g, n, Wirings(file, p), [run EXCEPT !.ok = TRUE], G)
  <2>1. [run EXCEPT !.ok = TRUE] \in Wirings(file, p)
    BY DEF Wirings
  <2> HIDE DEF n, G
  <2> QED BY <1>1, <1>2, <2>1, LeftExists
<1>4. P(g)
  <2> HIDE DEF n, G
  <2> QED BY <1>2, <1>3 DEF LeftBy
<1>5. P(f)
  <2> HIDE DEF P
  <2> QED BY <1>4
<1>6. ApplyAll(file, offsets, run, rels) = f[1..n]
  BY <1>1 DEF ApplyAll, FoldLeft, MapThenFoldSet
<1> HIDE DEF f
<1>7. \A i \in 0..n : r[i] = f[1..i]
  OBVIOUS
<1>8. r[0] = [run EXCEPT !.ok = TRUE]
  <2>1. f[{}] = [run EXCEPT !.ok = TRUE]
    BY <1>5
  <2> QED BY <1>1, <1>7, <2>1, PrefixSets
<1>9. ASSUME NEW i \in 1..n PROVE r[i] = Apply(file, offsets, r[i - 1], rels[i])
  <2>1. 1..i \in SUBSET (1..n) /\ i \in 0..n /\ i - 1 \in 0..n
    BY <1>1
  <2>2. 1..i # {} /\ Max(1..i) = i /\ (1..i) \ {i} = 1..(i - 1)
    BY <1>1, PrefixSets
  <2>3. f[1..i] = Apply(file, offsets, f[1..(i - 1)], rels[i])
    <3> HIDE DEF n, r
    <3> QED BY <1>5, <2>1, <2>2
  <2> QED BY <1>7, <2>1, <2>3
<1>10. RelsAppliedBy(r, file, offsets, run, rels)
  <2> HIDE DEF r
  <2> QED BY <1>1, <1>6, <1>7, <1>8, <1>9 DEF RelsAppliedBy
<1> QED BY <1>10

\* The relocations of a section keep the type.
LEMMA ApplyAllTyped ==
  ASSUME NEW file, LastOf(file, "symtab") = 1, NEW p,
         NEW offsets, DOMAIN offsets \subseteq Nat \ {0},
         NEW run \in Wirings(file, p), NEW R, NEW rels \in Seq(R),
         \A rel \in R : rel.insn \in DOMAIN Insns(file, p)
  PROVE  ApplyAll(file, offsets, run, rels) \in Wirings(file, p)
<1> PICK r : RelsAppliedBy(r, file, offsets, run, rels)
  BY RelsApplied
<1>1. /\ r[0] = [run EXCEPT !.ok = TRUE]
      /\ \A i \in 1..Len(rels) : r[i] = Apply(file, offsets, r[i - 1], rels[i])
      /\ ApplyAll(file, offsets, run, rels) = r[Len(rels)]
  BY DEF RelsAppliedBy
<1> DEFINE A == {i \in Nat : i <= Len(rels) => r[i] \in Wirings(file, p)}
<1>2. 0 \in A
  BY <1>1 DEF Wirings
<1>3. ASSUME NEW i \in Nat, i \in A PROVE i + 1 \in A
  <2> SUFFICES ASSUME i + 1 <= Len(rels) PROVE r[i + 1] \in Wirings(file, p)
    OBVIOUS
  <2>1. i + 1 \in 1..Len(rels) /\ (i + 1) - 1 = i /\ rels[i + 1] \in R /\ r[i] \in Wirings(file, p)
    BY <1>3, SeqIs
  <2>2. r[i + 1] = Apply(file, offsets, r[i], rels[i + 1])
    BY <1>1, <2>1
  <2>3. rels[i + 1].insn \in DOMAIN Insns(file, p)
    BY <2>1
  <2>4. Apply(file, offsets, r[i], rels[i + 1]) \in Wirings(file, p)
    BY <2>1, <2>3, ApplyIs
  <2> QED BY <2>2, <2>4
<1>4. \A i \in Nat : i \in A
  <2> HIDE DEF A
  <2> QED BY <1>2, <1>3, NatInduct
<1> QED BY <1>1, <1>4, SeqIs

\* The relocations of section s, if they are for p.
Own(file, p, s) == IF file[s].kind = "rel" /\ file[s].info = p THEN {s} \X DOMAIN file[s].rels ELSE {}

SectionStep(run, s, file, p, offsets) ==
  IF s.kind # "rel" \/ s.info # p THEN run ELSE ApplyAll(file, offsets, run, s.rels)

\* What a file must have for its relocations to be applied to the program p.
Relocatable(file, p, offsets) ==
  /\ LastOf(file, "symtab") = 1 /\ DOMAIN offsets \subseteq Nat \ {0}
  /\ Len(file) \in Nat /\ DOMAIN file = 1..Len(file) /\ p \in DOMAIN file
  /\ Insns(file, p) \in Seq(BOOLEAN) /\ 1..3 \subseteq DOMAIN Insns(file, p)
  /\ \A s \in DOMAIN file : file[s].kind = "rel" => file[s].rels \in Seq([insn : 1..3, sym : 1..4])

\* A section keeps the type.
LEMMA SectionTyped ==
  ASSUME NEW file, NEW p, NEW offsets, Relocatable(file, p, offsets),
         NEW s \in 1..Len(file), NEW run \in Wirings(file, p)
  PROVE  SectionStep(run, file[s], file, p, offsets) \in Wirings(file, p)
<1>1. CASE file[s].kind # "rel" \/ file[s].info # p
  BY <1>1 DEF SectionStep
<1>2. CASE ~(file[s].kind # "rel" \/ file[s].info # p)
  <2> DEFINE R == [insn : 1..3, sym : 1..4]
  <2>1. file[s].rels \in Seq(R) /\ LastOf(file, "symtab") = 1 /\ DOMAIN offsets \subseteq Nat \ {0}
    BY <1>2 DEF Relocatable
  <2>2. \A rel \in R : rel.insn \in DOMAIN Insns(file, p)
    BY DEF Relocatable
  <2>3. ApplyAll(file, offsets, run, file[s].rels) \in Wirings(file, p)
    <3> HIDE DEF R
    <3> QED BY <2>1, <2>2, ApplyAllTyped
  <2> QED BY <1>2, <2>3 DEF SectionStep
<1> QED BY <1>1, <1>2

\* A section adds its own relocations.
LEMMA SectionWired ==
  ASSUME NEW file, NEW p, NEW offsets, Relocatable(file, p, offsets),
         NEW s \in 1..Len(file), NEW run, NEW N, Wired(file, p, offsets, run, N)
  PROVE  Wired(file, p, offsets, SectionStep(run, file[s], file, p, offsets), N \cup Own(file, p, s))
<1>1. CASE file[s].kind # "rel" \/ file[s].info # p
  <2>1. SectionStep(run, file[s], file, p, offsets) = run /\ N \cup Own(file, p, s) = N
    BY <1>1 DEF SectionStep, Own
  <2> QED BY <2>1
<1>2. CASE ~(file[s].kind # "rel" \/ file[s].info # p)
  <2> DEFINE R == [insn : 1..3, sym : 1..4]
             rels == file[s].rels
             M(i) == N \cup ({s} \X (1..i))
  <2>1. rels \in Seq(R) /\ LastOf(file, "symtab") = 1 /\ DOMAIN offsets \subseteq Nat \ {0}
    BY <1>2 DEF Relocatable
  <2>2. \A rel \in R : rel.insn \in DOMAIN Insns(file, p)
    BY DEF Relocatable
  <2>3. Len(rels) \in Nat /\ DOMAIN rels = 1..Len(rels) /\ \A i \in 1..Len(rels) : rels[i] \in R
    <3> HIDE DEF R, rels
    <3> QED BY <2>1, SeqIs
  <2>4. run \in Wirings(file, p)
    BY DEF Wired
  <2> HIDE DEF R
  <2> PICK r : RelsAppliedBy(r, file, offsets, run, rels)
    <3> HIDE DEF rels
    <3> QED BY <2>1, <2>2, <2>4, RelsApplied
  <2>5. /\ r[0] = [run EXCEPT !.ok = TRUE]
        /\ \A i \in 1..Len(rels) : r[i] = Apply(file, offsets, r[i - 1], rels[i])
        /\ ApplyAll(file, offsets, run, rels) = r[Len(rels)]
    BY DEF RelsAppliedBy
  <2> DEFINE A == {i \in Nat : i <= Len(rels) => Wired(file, p, offsets, r[i], M(i))}
  <2>6. 0 \in A
    <3>1. Wired(file, p, offsets, r[0], N)
      BY <2>5, WiredSection
    <3>2. M(0) = N
      OBVIOUS
    <3> HIDE DEF M
    <3> QED BY <3>1, <3>2
  <2>7. ASSUME NEW i \in Nat, i \in A PROVE i + 1 \in A
    <3> SUFFICES ASSUME i + 1 <= Len(rels) PROVE Wired(file, p, offsets, r[i + 1], M(i + 1))
      BY DEF A
    <3> DEFINE n == <<s, i + 1>>
    <3>1. i + 1 \in 1..Len(rels) /\ (i + 1) - 1 = i
      BY <2>3
    <3>2. Wired(file, p, offsets, r[i], M(i))
      BY <2>3, <2>7, <3>1
    <3>3. r[i + 1] = Apply(file, offsets, r[i], RelAt(file, n))
      BY <2>5, <3>1 DEF RelAt
    <3>4. RelAt(file, n).insn \in DOMAIN Insns(file, p)
      BY <2>2, <2>3, <3>1 DEF RelAt
    <3>5. M(i + 1) = M(i) \cup {n}
      <4>1. 1..(i + 1) = (1..i) \cup {i + 1}
        BY <2>7
      <4>2. {s} \X ((1..i) \cup {i + 1}) = ({s} \X (1..i)) \cup {<<s, i + 1>>}
        OBVIOUS
      <4> QED BY <4>1, <4>2
    <3> HIDE DEF M, n, rels
    <3>6. Wired(file, p, offsets, Apply(file, offsets, r[i], RelAt(file, n)), M(i) \cup {n})
      BY <2>1, <3>2, <3>4, WiredMore
    <3> QED BY <3>3, <3>5, <3>6
  <2>8. Len(rels) \in A
    <3>1. \A i \in Nat : i \in A
      <4> HIDE DEF A
      <4> QED BY <2>6, <2>7, NatInduct
    <3> HIDE DEF A
    <3> QED BY <2>3, <3>1
  <2>9. Wired(file, p, offsets, r[Len(rels)], M(Len(rels)))
    <3> HIDE DEF M, rels
    <3> QED BY <2>3, <2>8
  <2>10. M(Len(rels)) = N \cup Own(file, p, s)
    BY <1>2, <2>3 DEF Own
  <2>11. SectionStep(run, file[s], file, p, offsets) = r[Len(rels)]
    BY <1>2, <2>5 DEF SectionStep
  <2> QED BY <2>9, <2>10, <2>11
<1> QED BY <1>1, <1>2

Unwired(file, p) == [insns |-> [i \in DOMAIN file[p].insns |-> Unset], loads |-> file[p].insns, ok |-> TRUE]

\* The program as the file has it.
LEMMA UnwiredIs ==
  ASSUME NEW file, NEW p, NEW offsets
  PROVE  Wired(file, p, offsets, Unwired(file, p), {}) /\ Unwired(file, p) \in Wirings(file, p)
<1>1. /\ Unwired(file, p) \in Wirings(file, p) /\ Unwired(file, p).ok
      /\ \A i \in DOMAIN Insns(file, p) : Unwired(file, p).insns[i].imm = 0
  BY DEF Unwired, Wirings, Insns, Unset
<1> QED BY <1>1 DEF Wired

\* The relocation sections one by one.
SectionsDoneBy(r, file, p, offsets) ==
  /\ r[0] = Unwired(file, p)
  /\ \A i \in 1..Len(file) : r[i] = SectionStep(r[i - 1], file[i], file, p, offsets)
  /\ Relocated(file, offsets, p) = r[Len(file)].insns

\* There is such a function.
LEMMA SectionsDone ==
  ASSUME NEW file, NEW p, NEW offsets, Relocatable(file, p, offsets)
  PROVE  \E r : SectionsDoneBy(r, file, p, offsets)
<1> DEFINE n == Len(file)
           G == [x \in (1..n) \X Wirings(file, p) |-> SectionStep(x[2], file[x[1]], file, p, offsets)]
           P(f) == f = [s \in SUBSET (1..n) |-> IF s = {} THEN Unwired(file, p)
                                                ELSE SectionStep(f[s \ {Max(s)}], file[Max(s)], file, p, offsets)]
           f == CHOOSE f : P(f)
           r == [i \in 0..n |-> f[1..i]]
<1>1. n \in Nat /\ DOMAIN file = 1..n
  BY DEF Relocatable
<1>2. \A i \in 1..n, y \in Wirings(file, p) : G[<<i, y>>] = SectionStep(y, file[i], file, p, offsets) /\ G[<<i, y>>] \in Wirings(file, p)
  <2>1. \A i \in 1..n, y \in Wirings(file, p) : <<i, y>> \in (1..n) \X Wirings(file, p)
    OBVIOUS
  <2>2. \A i \in 1..n, y \in Wirings(file, p) : SectionStep(y, file[i], file, p, offsets) \in Wirings(file, p)
    BY SectionTyped
  <2> HIDE DEF n
  <2> QED BY <2>1, <2>2
<1>3. PICK g \in [SUBSET (1..n) -> Wirings(file, p)] : LeftBy(g, n, Wirings(file, p), Unwired(file, p), G)
  <2>1. Unwired(file, p) \in Wirings(file, p)
    BY UnwiredIs
  <2> HIDE DEF n, G
  <2> QED BY <1>1, <1>2, <2>1, LeftExists
<1>4. P(g)
  <2> HIDE DEF n, G
  <2> QED BY <1>2, <1>3 DEF LeftBy
<1>5. P(f)
  <2> HIDE DEF P
  <2> QED BY <1>4
<1>6. Relocated(file, offsets, p) = f[1..n].insns
  BY <1>1 DEF Relocated, SectionStep, ApplyAll, Unwired, FoldLeft, MapThenFoldSet
<1> HIDE DEF f
<1>7. \A i \in 0..n : r[i] = f[1..i]
  OBVIOUS
<1>8. r[0] = Unwired(file, p)
  <2>1. f[{}] = Unwired(file, p)
    BY <1>5
  <2> QED BY <1>1, <1>7, <2>1, PrefixSets
<1>9. ASSUME NEW i \in 1..n PROVE r[i] = SectionStep(r[i - 1], file[i], file, p, offsets)
  <2>1. 1..i \in SUBSET (1..n) /\ i \in 0..n /\ i - 1 \in 0..n
    BY <1>1
  <2>2. 1..i # {} /\ Max(1..i) = i /\ (1..i) \ {i} = 1..(i - 1)
    BY <1>1, PrefixSets
  <2>3. f[1..i] = SectionStep(f[1..(i - 1)], file[i], file, p, offsets)
    <3> HIDE DEF n, r
    <3> QED BY <1>5, <2>1, <2>2
  <2> QED BY <1>7, <2>1, <2>3
<1>10. SectionsDoneBy(r, file, p, offsets)
  <2> HIDE DEF r
  <2> QED BY <1>1, <1>6, <1>7, <1>8, <1>9 DEF SectionsDoneBy
<1> QED BY <1>10

RelsUpTo(file, p, i) ==
  UNION {{s} \X DOMAIN file[s].rels : s \in {s \in 1..i : file[s].kind = "rel" /\ file[s].info = p}}

\* The relocations up to one more section.
LEMMA RelsOneMore ==
  ASSUME NEW file, NEW p, NEW i \in Nat
  PROVE  RelsUpTo(file, p, i + 1) = RelsUpTo(file, p, i) \cup Own(file, p, i + 1)
<1> DEFINE ours(s) == file[s].kind = "rel" /\ file[s].info = p
           pairs(s) == {s} \X DOMAIN file[s].rels
<1>1. \A n, j : n \in RelsUpTo(file, p, j) <=> \E s \in 1..j : ours(s) /\ n \in pairs(s)
  BY DEF RelsUpTo
<1>2. \A n : n \in Own(file, p, i + 1) <=> ours(i + 1) /\ n \in pairs(i + 1)
  BY DEF Own
<1>3. \A s : s \in 1..(i + 1) <=> s \in 1..i \/ s = i + 1
  OBVIOUS
<1> HIDE DEF ours, pairs
<1>4. \A n : n \in RelsUpTo(file, p, i + 1) <=> n \in RelsUpTo(file, p, i) \/ n \in Own(file, p, i + 1)
  BY <1>1, <1>2, <1>3
<1> QED BY <1>4

\* The instructions of a program once all its relocations were looked at.
LEMMA AllWired ==
  ASSUME NEW file, NEW p, NEW offsets, Relocatable(file, p, offsets)
  PROVE  \E run : /\ Wired(file, p, offsets, run, RelsUpTo(file, p, Len(file)))
                  /\ Relocated(file, offsets, p) = run.insns
<1> PICK r : SectionsDoneBy(r, file, p, offsets)
  BY SectionsDone
<1>1. /\ r[0] = Unwired(file, p)
      /\ \A i \in 1..Len(file) : r[i] = SectionStep(r[i - 1], file[i], file, p, offsets)
      /\ Relocated(file, offsets, p) = r[Len(file)].insns
  BY DEF SectionsDoneBy
<1> DEFINE A == {i \in Nat : i <= Len(file) => Wired(file, p, offsets, r[i], RelsUpTo(file, p, i))}
<1>0. Len(file) \in Nat
  BY DEF Relocatable
<1>2. 0 \in A
  <2>1. RelsUpTo(file, p, 0) = {}
    BY DEF RelsUpTo
  <2> QED BY <1>1, <2>1, UnwiredIs
<1>3. ASSUME NEW i \in Nat, i \in A PROVE i + 1 \in A
  <2> SUFFICES ASSUME i + 1 <= Len(file) PROVE Wired(file, p, offsets, r[i + 1], RelsUpTo(file, p, i + 1))
    OBVIOUS
  <2>1. i + 1 \in 1..Len(file) /\ (i + 1) - 1 = i
    BY <1>0
  <2>2. Wired(file, p, offsets, r[i], RelsUpTo(file, p, i))
    BY <1>0, <1>3, <2>1
  <2>3. r[i + 1] = SectionStep(r[i], file[i + 1], file, p, offsets)
    BY <1>1, <2>1
  <2>4. Wired(file, p, offsets, SectionStep(r[i], file[i + 1], file, p, offsets),
              RelsUpTo(file, p, i) \cup Own(file, p, i + 1))
    BY <2>1, <2>2, SectionWired
  <2> QED BY <2>3, <2>4, RelsOneMore
<1>4. \A i \in Nat : i \in A
  <2> HIDE DEF A
  <2> QED BY <1>2, <1>3, NatInduct
<1>5. Wired(file, p, offsets, r[Len(file)], RelsUpTo(file, p, Len(file)))
  BY <1>0, <1>4
<1> QED BY <1>1, <1>5

\* parse_relo_and_apply: a loaded program works on no map its relocations do not
\* name by a symbol of the maps' section, unless one of the instruction's names a
\* symbol elsewhere that has a map's offset; and a program with a reference left
\* open had a bad relocation; for any number of sections and relocations.
THEOREM ReferencesRight == LibSpec => []RelocationsRight
<1>1. ItemsInv => RelocationsRight
  <2> DEFINE file   == ProgramFile
             loaded == LoadFile(file)
             rels(p) == UNION {{s} \X DOMAIN file[s].rels :
                                 s \in {s \in DOMAIN file : file[s].kind = "rel" /\ file[s].info = p}}
             rel(n)  == file[n[1]].rels[n[2]]
             sym(n)  == file[1].syms[rel(n).sym]
             inMaps(n) == sym(n).shndx = LastOf(file, "maps")
             taken(n)  == \E k \in DOMAIN loaded.maps : loaded.maps[k] = sym(n).value
             names(n, k) == inMaps(n) /\ sym(n).value = loaded.maps[k]
             mistaken(n) == ~inMaps(n) /\ taken(n)
             at(p, i) == {n \in rels(p) : rel(n).insn = i}
             good(p, n) == file[p].insns[rel(n).insn] /\ taken(n)
             Right(p, i) ==
               LET k == loaded.progs[p][i].imm
               IN  /\ (k # 0 /\ \A n \in at(p, i) : ~mistaken(n)) => \E n \in at(p, i) : names(n, k)
                   /\ (k = 0 /\ at(p, i) # {}) => \E n \in rels(p) : ~good(p, n)
  <2> SUFFICES ASSUME ItemsInv, part = "sections",
                      NEW p \in DOMAIN loaded.progs, NEW i \in DOMAIN loaded.progs[p]
               PROVE  Right(p, i)
    BY DEF RelocationsRight
  <2> DEFINE offsets == loaded.maps
  <2>1. /\ Len(file) \in Nat /\ DOMAIN file = 1..Len(file)
        /\ LastOf(file, "symtab") = 1 /\ LastOf(file, "maps") = 2
        /\ \A s \in DOMAIN file :
             /\ file[s].kind = "prog" => file[s].insns \in Seq(BOOLEAN) /\ Len(file[s].insns) >= 3
             /\ file[s].kind = "rel" => file[s].rels \in Seq([insn : 1..3, sym : 1..4])
    BY ProgramFileIs
  <2> HIDE DEF file
  <2>2. /\ loaded.result = "OK" /\ offsets = Offsets(file)
        /\ p \in DOMAIN file /\ file[p].kind = "prog"
        /\ loaded.progs[p] = Relocated(file, offsets, p)
    <3> DEFINE progs == {q \in DOMAIN file : file[q].kind = "prog" /\ file[q].named}
               hasMaps == LastOf(file, "maps") # 0
               result == IF \E x \in DOMAIN file : file[x].kind = "version" /\ ~file[x].valid
                         THEN "version"
                         ELSE IF LastOf(file, "symtab") = 0 THEN "no symbols"
                         ELSE IF hasMaps THEN MapsResult(file) ELSE "OK"
               offs == IF hasMaps /\ result = "OK" THEN Offsets(file) ELSE <<>>
    <3>1. /\ loaded.result = result /\ loaded.maps = offs
          /\ loaded.progs = IF result = "OK" THEN [q \in progs |-> Relocated(file, offs, q)] ELSE <<>>
      BY DEF LoadFile
    <3> HIDE DEF loaded, result, offs, progs
    <3>2. result = "OK"
      <4>1. DOMAIN <<>> = {}
        OBVIOUS
      <4> QED BY <3>1, <4>1
    <3>3. offs = Offsets(file)
      BY <2>1, <3>2 DEF offs
    <3>4. p \in progs /\ loaded.progs[p] = Relocated(file, offs, p)
      BY <3>1, <3>2
    <3> QED BY <3>1, <3>2, <3>3, <3>4 DEF progs
  <2> HIDE DEF loaded
  <2>3. DOMAIN offsets \subseteq Nat \ {0}
    <3>1. DOMAIN Offsets(file) = 1..Cardinality(MapSyms(file))
      BY DEF Offsets, ValuesBy
    <3>2. 1..Cardinality(MapSyms(file)) \subseteq Nat \ {0}
      OBVIOUS
    <3> QED BY <2>2, <3>1, <3>2
  <2>4. Relocatable(file, p, offsets)
    <3>1. Insns(file, p) \in Seq(BOOLEAN) /\ Len(Insns(file, p)) >= 3
      BY <2>1, <2>2 DEF Insns
    <3>2. 1..3 \subseteq DOMAIN Insns(file, p)
      <4>1. Len(Insns(file, p)) \in Nat /\ DOMAIN Insns(file, p) = 1..Len(Insns(file, p))
        BY <3>1, SeqIs
      <4> QED BY <3>1, <4>1
    <3> QED BY <2>1, <2>2, <2>3, <3>1, <3>2 DEF Relocatable
  <2>5. PICK run : /\ Wired(file, p, offsets, run, RelsUpTo(file, p, Len(file)))
                   /\ Relocated(file, offsets, p) = run.insns
    BY <2>4, AllWired
  <2>6. RelsUpTo(file, p, Len(file)) = rels(p)
    BY <2>1 DEF RelsUpTo
  <2>7. loaded.progs[p] = run.insns /\ i \in DOMAIN Insns(file, p)
    BY <2>2, <2>5 DEF Wired, Wirings
  <2>8. /\ \A n : RelAt(file, n) = rel(n) /\ SymbolValue(file, RelAt(file, n)) = sym(n).value
        /\ \A n : GoodRel(file, p, offsets, RelAt(file, n)) <=> good(p, n)
    BY DEF RelAt, SymbolValue, GoodRel, Insns
  <2>9. LET k == run.insns[i].imm
        IN  /\ k # 0 => /\ k \in DOMAIN offsets
                        /\ \E n \in rels(p) : RelAt(file, n).insn = i /\ SymbolValue(file, RelAt(file, n)) = offsets[k]
            /\ (k = 0 /\ \E n \in rels(p) : RelAt(file, n).insn = i)
                 => \E n \in rels(p) : ~GoodRel(file, p, offsets, RelAt(file, n))
    <3> HIDE DEF rels, offsets
    <3> QED BY <2>5, <2>6, <2>7 DEF Wired
  <2> DEFINE k == loaded.progs[p][i].imm
  <2>10. ASSUME k # 0, \A n \in at(p, i) : ~mistaken(n)
         PROVE  \E n \in at(p, i) : names(n, k)
    <3>1. k \in DOMAIN loaded.maps
      BY <2>7, <2>9, <2>10
    <3>2. PICK n \in rels(p) : rel(n).insn = i /\ sym(n).value = loaded.maps[k]
      <4> HIDE DEF rels, rel, sym
      <4> QED BY <2>7, <2>8, <2>9, <2>10
    <3> HIDE DEF rels, rel, sym, inMaps, k
    <3>3. n \in at(p, i) /\ taken(n)
      BY <3>1, <3>2
    <3>4. names(n, k)
      BY <2>10, <3>2, <3>3
    <3> QED BY <3>3, <3>4
  <2>11. ASSUME k = 0, at(p, i) # {}
         PROVE  \E n \in rels(p) : ~good(p, n)
    <3> HIDE DEF rels, rel, good
    <3> QED BY <2>7, <2>8, <2>9, <2>11
  <2> QED BY <2>10, <2>11
<1> QED BY <1>1, ItemsTyped, PTL

-----------------------------------------------------------------------------
(***************************************************************************)
(* Kernel symbols.                                                         *)
(***************************************************************************)
AddrAt(addrs, i) == IF i < Len(addrs) THEN addrs[i + 1] ELSE 0

\* One turn of the loop, where f stands for the turns after it.
Turn(f, addrs, key, x) ==
  LET start == x[1]
      end   == x[2]
      mid   == start + ((end - start) \div 2)
      d     == Difference(key, AddrAt(addrs, mid))
  IN  IF start >= end
      THEN IF start >= 1 /\ AddrAt(addrs, start - 1) < key /\ key < AddrAt(addrs, start)
           THEN start - 1 ELSE 0
      ELSE IF d < 0 THEN f[<<start, mid>>]
      ELSE IF d > 0 THEN f[<<mid + 1, end>>]
      ELSE mid

Ranges(n) == (0..n) \X (0..n)

\* A turn with symbols left looks at a shorter range.
LEMMA Halves ==
  ASSUME NEW n \in Nat, NEW x \in Ranges(n), x[1] < x[2]
  PROVE  LET mid == x[1] + ((x[2] - x[1]) \div 2)
         IN  /\ mid \in x[1]..(x[2] - 1) /\ mid \in 0..n /\ mid + 1 \in 0..n
             /\ <<x[1], mid>> \in Ranges(n) /\ <<mid + 1, x[2]>> \in Ranges(n)
             /\ mid - x[1] < x[2] - x[1] /\ x[2] - (mid + 1) < x[2] - x[1]
<1> DEFINE s == x[1]
           e == x[2]
           h == (e - s) \div 2
           mid == s + h
<1>1. s \in 0..n /\ e \in 0..n
  BY DEF Ranges
<1>2. h \in Nat /\ h < e - s
  BY <1>1
<1> HIDE DEF s, e, h
<1>3. mid \in s..(e - 1) /\ mid \in 0..n /\ mid + 1 \in 0..n /\ mid - s < e - s /\ e - (mid + 1) < e - s
  BY <1>1, <1>2 DEF s, e
<1> HIDE DEF mid
<1>4. <<s, mid>> \in Ranges(n) /\ <<mid + 1, e>> \in Ranges(n)
  BY <1>1, <1>3 DEF Ranges
<1> QED BY <1>3, <1>4 DEF s, e, h, mid

Settled(f, addrs, key, k) ==
  \A x \in Ranges(Len(addrs)) : x[2] - x[1] <= k => f[x] = Turn(f, addrs, key, x)

\* There is a function of ranges that makes each turn as the loop does.
LEMMA SearchEnds ==
  ASSUME NEW addrs \in Seq(Nat), NEW key
  PROVE  \E f : f = [x \in Ranges(Len(addrs)) |-> Turn(f, addrs, key, x)]
<1> DEFINE n == Len(addrs)
           A == {k \in Nat : \E f : Settled(f, addrs, key, k)}
<1>0. n \in Nat
  OBVIOUS
<1> HIDE DEF n
<1>1. 0 \in A
  <2> DEFINE g == [x \in Ranges(n) |-> Turn(<<>>, addrs, key, x)]
  <2>1. ASSUME NEW x \in Ranges(n), x[2] - x[1] <= 0 PROVE g[x] = Turn(g, addrs, key, x)
    <3>1. x[1] >= x[2]
      BY <1>0, <2>1 DEF Ranges
    <3>2. Turn(<<>>, addrs, key, x) = Turn(g, addrs, key, x)
      BY <3>1 DEF Turn
    <3> QED BY <3>2
  <2> HIDE DEF g
  <2>2. Settled(g, addrs, key, 0)
    BY <2>1 DEF Settled, n
  <2> QED BY <2>2
<1>2. ASSUME NEW k \in Nat, k \in A PROVE k + 1 \in A
  <2>1. PICK f : Settled(f, addrs, key, k)
    BY <1>2
  <2> DEFINE g == [x \in Ranges(n) |-> Turn(f, addrs, key, x)]
  <2>2. \A x \in Ranges(n) : x[2] - x[1] <= k => g[x] = f[x]
    BY <2>1 DEF Settled, n
  <2>3. ASSUME NEW x \in Ranges(n), x[2] - x[1] <= k + 1 PROVE g[x] = Turn(g, addrs, key, x)
    <3>1. g[x] = Turn(f, addrs, key, x)
      OBVIOUS
    <3>2. x[1] \in 0..n /\ x[2] \in 0..n
      BY DEF Ranges
    <3> HIDE DEF g
    <3>3. CASE x[1] >= x[2]
      BY <3>1, <3>3 DEF Turn
    <3>4. CASE x[1] < x[2]
      <4> DEFINE mid == x[1] + ((x[2] - x[1]) \div 2)
                 y   == <<x[1], mid>>
                 z   == <<mid + 1, x[2]>>
      <4>1. /\ y \in Ranges(n) /\ z \in Ranges(n) /\ mid \in 0..n
            /\ mid - x[1] < x[2] - x[1] /\ x[2] - (mid + 1) < x[2] - x[1]
        BY <1>0, <3>4, Halves
      <4>2. y[2] - y[1] <= k /\ z[2] - z[1] <= k
        <5>1. y[1] = x[1] /\ y[2] = mid /\ z[1] = mid + 1 /\ z[2] = x[2]
          OBVIOUS
        <5> HIDE DEF mid, y, z
        <5> QED BY <1>0, <2>3, <3>2, <4>1, <5>1
      <4>3. g[y] = f[y] /\ g[z] = f[z]
        <5> HIDE DEF y, z
        <5> QED BY <2>2, <4>1, <4>2
      <4>4. Turn(f, addrs, key, x) = Turn(g, addrs, key, x)
        BY <4>3 DEF Turn
      <4> QED BY <3>1, <4>4
    <3>5. x[1] >= x[2] \/ x[1] < x[2]
      BY <3>2
    <3> QED BY <3>3, <3>4, <3>5
  <2> HIDE DEF g
  <2>4. Settled(g, addrs, key, k + 1)
    BY <2>3 DEF Settled, n
  <2> QED BY <2>4
<1>3. n \in A
  <2> HIDE DEF A
  <2> QED BY <1>0, <1>1, <1>2, NatInduct
<1>4. PICK f : Settled(f, addrs, key, n)
  BY <1>3
<1> DEFINE g == [x \in Ranges(n) |-> Turn(f, addrs, key, x)]
<1>5. \A x \in Ranges(n) : g[x] = f[x] /\ x[1] \in 0..n /\ x[2] \in 0..n
  <2> SUFFICES ASSUME NEW x \in Ranges(n) PROVE g[x] = f[x] /\ x[1] \in 0..n /\ x[2] \in 0..n
    OBVIOUS
  <2>1. x[1] \in 0..n /\ x[2] \in 0..n
    BY DEF Ranges
  <2>2. x[2] - x[1] <= n
    BY <1>0, <2>1
  <2> QED BY <1>4, <2>1, <2>2 DEF Settled, n
<1>6. ASSUME NEW x \in Ranges(n) PROVE Turn(f, addrs, key, x) = Turn(g, addrs, key, x)
  <2> HIDE DEF g
  <2>1. CASE x[1] >= x[2]
    BY <2>1 DEF Turn
  <2>2. CASE x[1] < x[2]
    <3> DEFINE mid == x[1] + ((x[2] - x[1]) \div 2)
    <3>1. <<x[1], mid>> \in Ranges(n) /\ <<mid + 1, x[2]>> \in Ranges(n)
      BY <1>0, <2>2, Halves
    <3>2. g[<<x[1], mid>>] = f[<<x[1], mid>>] /\ g[<<mid + 1, x[2]>>] = f[<<mid + 1, x[2]>>]
      <4> HIDE DEF mid
      <4> QED BY <1>5, <3>1
    <3> QED BY <3>2 DEF Turn
  <2>3. x[1] >= x[2] \/ x[1] < x[2]
    BY <1>5
  <2> QED BY <2>1, <2>2, <2>3
<1>7. g = [x \in Ranges(n) |-> Turn(g, addrs, key, x)]
  <2> DEFINE h == [x \in Ranges(n) |-> Turn(g, addrs, key, x)]
  <2>1. h = g
    <3>1. \A x \in Ranges(n) : Turn(f, addrs, key, x) = Turn(g, addrs, key, x)
      BY <1>6
    <3> QED BY <3>1
  <2> QED BY <2>1
<1> QED BY <1>7 DEF n

\* The search is such a function.
LEMMA Searched ==
  ASSUME NEW addrs \in Seq(Nat), NEW key
  PROVE  \E f : /\ \A x \in Ranges(Len(addrs)) : f[x] = Turn(f, addrs, key, x)
                /\ KsymSearch(addrs, key) = f[<<0, Len(addrs)>>]
<1> DEFINE n == Len(addrs)
           P(f) == f = [x \in Ranges(n) |-> Turn(f, addrs, key, x)]
           f == CHOOSE f : P(f)
<1>1. P(f)
  <2>1. \E g : P(g)
    BY SearchEnds
  <2> HIDE DEF P
  <2> QED BY <2>1
<1>2. KsymSearch(addrs, key) = f[<<0, n>>]
  BY DEF KsymSearch, Turn, AddrAt, Ranges
<1> HIDE DEF f
<1>3. \A x \in Ranges(n) : f[x] = Turn(f, addrs, key, x)
  <2> SUFFICES ASSUME NEW x \in Ranges(n) PROVE f[x] = Turn(f, addrs, key, x)
    OBVIOUS
  <2> QED BY <1>1
<1> QED BY <1>2, <1>3

\* Of numbers less than half the range of an int apart the int has the difference.
LEMMA NearDifference ==
  ASSUME NEW key \in Nat, NEW addr \in Nat, key - addr < IntHalf, addr - key < IntHalf
  PROVE  Difference(key, addr) = key - addr
<1>1. ASSUME NEW u \in Nat, NEW x \in 0..u PROVE x % (u + 1) = x
  BY <1>1
<1> DEFINE u == 2 * IntHalf - 1
           x == key - addr + IntHalf
<1>2. IntHalf \in Nat /\ u \in Nat /\ x \in 0..u /\ u + 1 = 2 * IntHalf
  BY ElfAssumption
<1>3. x % (2 * IntHalf) = x
  <2> HIDE DEF u, x
  <2>1. x % (u + 1) = x
    BY <1>1, <1>2
  <2> QED BY <1>2, <2>1
<1> QED BY <1>2, <1>3 DEF Difference

\* The number of the symbol a key belongs to, and the range it is still in.
Sought(addrs, key) ==
  LET upTo == {i \in DOMAIN addrs : addrs[i] <= key}
  IN  IF upTo = {} \/ key > Last(addrs) THEN 0 ELSE Max(upTo) - 1

Within(addrs, key, x) ==
  /\ x[1] <= x[2]
  /\ \A i \in 1..Len(addrs) : /\ i <= x[1] => addrs[i] < key
                              /\ i > x[2] => addrs[i] > key

\* At k symbols from the first all those before are at most the key.
LEMMA SoughtAt ==
  ASSUME NEW addrs \in Seq(Nat), addrs # <<>>, NEW key \in Nat, NEW k \in 0..Len(addrs),
         \A i \in 1..Len(addrs) : addrs[i] <= key <=> i <= k
  PROVE  Sought(addrs, key) = IF k = 0 \/ addrs[Len(addrs)] < key THEN 0 ELSE k - 1
<1> DEFINE n    == Len(addrs)
           upTo == {i \in DOMAIN addrs : addrs[i] <= key}
<1>1. n \in Nat /\ n >= 1 /\ DOMAIN addrs = 1..n /\ Last(addrs) = addrs[n] /\ addrs[n] \in Nat
  BY DEF Last
<1>2. upTo = 1..k
  BY <1>1
<1>3. k # 0 => Max(1..k) = k
  <2>1. k \in Nat
    BY <1>1
  <2> QED BY <2>1, PrefixSets
<1>4. 1..k = {} <=> k = 0
  BY <1>1
<1>5. Sought(addrs, key) = IF upTo = {} \/ key > Last(addrs) THEN 0 ELSE Max(upTo) - 1
  BY DEF Sought
<1>6. key > Last(addrs) <=> addrs[n] < key
  BY <1>1
<1> HIDE DEF upTo, n
<1> QED BY <1>2, <1>3, <1>4, <1>5, <1>6 DEF n

\* The turns close in on the symbol.
LEMMA TurnsFind ==
  ASSUME NEW addrs \in Seq(Nat), addrs # <<>>, NEW key \in Nat,
         \A i, j \in 1..Len(addrs) : i < j => addrs[i] < addrs[j],
         \A i \in 1..Len(addrs) : key - addrs[i] < IntHalf /\ addrs[i] - key < IntHalf,
         NEW f, \A x \in Ranges(Len(addrs)) : f[x] = Turn(f, addrs, key, x)
  PROVE  \A x \in Ranges(Len(addrs)) : Within(addrs, key, x) => f[x] = Sought(addrs, key)
<1> DEFINE n == Len(addrs)
           A == {k \in Nat : \A x \in Ranges(n) : Within(addrs, key, x) /\ x[2] - x[1] <= k
                                                  => f[x] = Sought(addrs, key)}
<1>0. /\ n \in Nat /\ n >= 1 /\ DOMAIN addrs = 1..n /\ \A i \in 1..n : addrs[i] \in Nat
      /\ \A i, j \in 1..n : i < j => addrs[i] < addrs[j]
      /\ \A i \in 1..n : key - addrs[i] < IntHalf /\ addrs[i] - key < IntHalf
      /\ \A x \in Ranges(n) : f[x] = Turn(f, addrs, key, x)
  OBVIOUS
<1> HIDE DEF n
<1>1. ASSUME NEW x \in Ranges(n), Within(addrs, key, x), x[1] = x[2]
      PROVE  f[x] = Sought(addrs, key)
  <2> DEFINE k == x[1]
  <2>1. k \in 0..n /\ \A i \in 1..n : (i <= k => addrs[i] < key) /\ (i > k => addrs[i] > key)
    BY <1>1 DEF Ranges, Within, n
  <2>2. f[x] = IF k >= 1 /\ AddrAt(addrs, k - 1) < key /\ key < AddrAt(addrs, k) THEN k - 1 ELSE 0
    <3>1. f[x] = Turn(f, addrs, key, x) /\ x[1] >= x[2]
      BY <1>0, <1>1, <2>1
    <3> QED BY <3>1 DEF Turn
  <2> HIDE DEF k
  <2>3. \A i \in 1..n : addrs[i] <= key <=> i <= k
    BY <1>0, <2>1, SMTT(30)
  <2>4. Sought(addrs, key) = IF k = 0 \/ addrs[n] < key THEN 0 ELSE k - 1
    BY <1>0, <2>1, <2>3, SoughtAt DEF n
  <2>5. AddrAt(addrs, k) = IF k < n THEN addrs[k + 1] ELSE 0
    BY DEF AddrAt, n
  <2>6. k >= 1 => AddrAt(addrs, k - 1) = addrs[k]
    BY <1>0, <2>1 DEF AddrAt, n
  <2>7. CASE k = 0
    BY <2>2, <2>4, <2>7
  <2>8. CASE k = n
    <3>1. ~(key < AddrAt(addrs, k)) /\ addrs[n] < key
      BY <1>0, <2>1, <2>5, <2>8
    <3> QED BY <2>2, <2>4, <3>1
  <2>9. CASE k \in 1..(n - 1)
    <3>1. k >= 1 /\ k \in 1..n /\ k + 1 \in 1..n /\ n > k /\ n \in 1..n
      BY <1>0, <2>9
    <3>2. addrs[k] < key /\ addrs[k + 1] > key /\ addrs[n] > key
      BY <2>1, <3>1
    <3>3. AddrAt(addrs, k - 1) < key /\ key < AddrAt(addrs, k)
      BY <1>0, <2>5, <2>6, <3>1, <3>2
    <3>4. ~(addrs[n] < key)
      BY <1>0, <3>1, <3>2
    <3> QED BY <2>2, <2>4, <3>1, <3>3, <3>4
  <2> QED BY <1>0, <2>1, <2>7, <2>8, <2>9
<1>2. 0 \in A
  <2> SUFFICES ASSUME NEW x \in Ranges(n), Within(addrs, key, x), x[2] - x[1] <= 0
               PROVE  f[x] = Sought(addrs, key)
    OBVIOUS
  <2>1. x[1] = x[2]
    BY <1>0 DEF Ranges, Within
  <2> QED BY <1>1, <2>1
<1>3. ASSUME NEW k \in Nat, k \in A PROVE k + 1 \in A
  <2> SUFFICES ASSUME NEW x \in Ranges(n), Within(addrs, key, x), x[2] - x[1] <= k + 1
               PROVE  f[x] = Sought(addrs, key)
    OBVIOUS
  <2>0. x[1] \in 0..n /\ x[2] \in 0..n /\ x[1] <= x[2]
    BY DEF Ranges, Within
  <2>1. CASE x[1] = x[2]
    BY <1>1, <2>1
  <2>2. CASE x[1] < x[2]
    <3> DEFINE mid == x[1] + ((x[2] - x[1]) \div 2)
               y   == <<x[1], mid>>
               z   == <<mid + 1, x[2]>>
               a   == addrs[mid + 1]
    <3>1. /\ y \in Ranges(n) /\ z \in Ranges(n) /\ mid \in x[1]..(x[2] - 1)
          /\ mid - x[1] < x[2] - x[1] /\ x[2] - (mid + 1) < x[2] - x[1]
      BY <1>0, <2>2, Halves
    <3>2. y[1] = x[1] /\ y[2] = mid /\ z[1] = mid + 1 /\ z[2] = x[2]
      OBVIOUS
    <3>3. f[x] = Turn(f, addrs, key, x) /\ ~(x[1] >= x[2])
      BY <1>0, <2>0, <2>2, SMTT(30)
    <3>4. f[x] = IF Difference(key, AddrAt(addrs, mid)) < 0 THEN f[y]
                 ELSE IF Difference(key, AddrAt(addrs, mid)) > 0 THEN f[z] ELSE mid
      BY <3>3 DEF Turn
    <3> HIDE DEF mid, y, z
    <3>5. mid \in Nat /\ mid + 1 \in 1..n /\ mid < n
      <4>1. mid \in x[1]..(x[2] - 1)
        BY <3>1
      <4>2. \A p, q \in 0..n : \A m \in p..(q - 1) : m \in Nat /\ m + 1 \in 1..n /\ m < n
        BY <1>0
      <4> QED BY <2>0, <4>1, <4>2
    <3>6. AddrAt(addrs, mid) = a /\ a \in Nat
      BY <1>0, <3>5 DEF AddrAt, n
    <3>7. Difference(key, a) = key - a
      BY <1>0, <3>5, <3>6, NearDifference
    <3> HIDE DEF a
    <3>8. \A i \in 1..n : (i <= x[1] => addrs[i] < key) /\ (i > x[2] => addrs[i] > key)
      BY DEF Within, n
    <3>9. y[2] - y[1] <= k /\ z[2] - z[1] <= k
      BY <2>0, <3>1, <3>2, <3>5, SMTT(30)
    <3>10. CASE key < a
      <4>1. \A i \in 1..n : i > mid => addrs[i] > key
        <5> SUFFICES ASSUME NEW i \in 1..n, i > mid PROVE addrs[i] > key
          OBVIOUS
        <5>1. i = mid + 1 \/ mid + 1 < i
          BY <3>5
        <5>2. addrs[i] \in Nat /\ (i = mid + 1 \/ a < addrs[i])
          BY <1>0, <3>5, <5>1 DEF a
        <5> QED BY <3>6, <3>10, <5>1, <5>2 DEF a
      <4>2. Within(addrs, key, y)
        BY <2>0, <3>1, <3>2, <3>5, <3>8, <4>1, SMTT(30) DEF Within, n
      <4>3. f[x] = f[y]
        BY <3>4, <3>6, <3>7, <3>10
      <4> QED BY <1>3, <3>1, <3>9, <4>2, <4>3
    <3>11. CASE key > a
      <4>1. \A i \in 1..n : i <= mid + 1 => addrs[i] < key
        <5> SUFFICES ASSUME NEW i \in 1..n, i <= mid + 1 PROVE addrs[i] < key
          OBVIOUS
        <5>1. i = mid + 1 \/ i < mid + 1
          BY <3>5
        <5>2. addrs[i] \in Nat /\ (i = mid + 1 \/ addrs[i] < a)
          BY <1>0, <3>5, <5>1 DEF a
        <5> QED BY <3>6, <3>11, <5>1, <5>2 DEF a
      <4>2. Within(addrs, key, z)
        BY <2>0, <3>1, <3>2, <3>5, <3>8, <4>1 DEF Within, n
      <4>3. f[x] = f[z]
        BY <3>4, <3>6, <3>7, <3>11
      <4> QED BY <1>3, <3>1, <3>9, <4>2, <4>3
    <3>12. CASE key = a
      <4>1. f[x] = mid
        BY <3>4, <3>6, <3>7, <3>12
      <4>2. \A i \in 1..n : addrs[i] <= key <=> i <= mid + 1
        <5> SUFFICES ASSUME NEW i \in 1..n PROVE addrs[i] <= key <=> i <= mid + 1
          OBVIOUS
        <5>1. i = mid + 1 \/ i < mid + 1 \/ mid + 1 < i
          BY <3>5
        <5>2. addrs[i] \in Nat /\ (i < mid + 1 => addrs[i] < a) /\ (mid + 1 < i => a < addrs[i])
          BY <1>0, <3>5 DEF a
        <5>3. i = mid + 1 => addrs[i] = a
          BY DEF a
        <5> QED BY <3>5, <3>6, <3>12, <5>1, <5>2, <5>3
      <4>3. Sought(addrs, key) = IF mid + 1 = 0 \/ addrs[n] < key THEN 0 ELSE (mid + 1) - 1
        <5>1. mid + 1 \in 0..n
          BY <1>0, <3>5
        <5> QED BY <1>0, <4>2, <5>1, SoughtAt DEF n
      <4>4. ~(addrs[n] < key)
        <5>1. n \in 1..n /\ (mid + 1 = n \/ mid + 1 < n)
          BY <1>0, <3>5
        <5>2. addrs[n] \in Nat /\ (addrs[n] = a \/ a < addrs[n])
          BY <1>0, <3>5, <5>1 DEF a
        <5> QED BY <3>6, <3>12, <5>2
      <4>5. (mid + 1) - 1 = mid /\ mid + 1 # 0
        <5>1. \A m \in Nat : (m + 1) - 1 = m /\ m + 1 # 0
          OBVIOUS
        <5> QED BY <3>5, <5>1
      <4> QED BY <4>1, <4>3, <4>4, <4>5
    <3> QED BY <3>6, <3>10, <3>11, <3>12
  <2> QED BY <2>0, <2>1, <2>2
<1>4. \A k \in Nat : k \in A
  <2> HIDE DEF A
  <2> QED BY <1>2, <1>3, NatInduct
<1>5. ASSUME NEW x \in Ranges(n), Within(addrs, key, x) PROVE f[x] = Sought(addrs, key)
  <2>1. x[2] - x[1] \in Nat
    BY <1>0, <1>5, SMTT(30) DEF Ranges, Within
  <2> QED BY <1>4, <1>5, <2>1
<1> QED BY <1>5 DEF n

\* The binary search finds the symbol an address belongs to, for any number of
\* symbols whose addresses lie within half the range of an int.
THEOREM SymbolsFound == LibSpec => []KsymFound
<1>1. ASSUME ItemsInv, part = "ksyms", NEW key \in Addresses, items # <<>>,
             Max(Range(items) \cup {key}) - Min(Range(items) \cup {key}) < IntHalf
      PROVE  KsymSearch(items, key) = Sought(items, key)
  <2> DEFINE n == Len(items)
             S == Range(items) \cup {key}
  <2>1. /\ items \in Seq(Nat) /\ key \in Nat /\ n \in Nat /\ n >= 1 /\ IntHalf \in Nat /\ DOMAIN items = 1..n
        /\ \A i \in 1..n : items[i] \in Nat
        /\ \A i, j \in 1..n : i < j => items[i] < items[j]
    <3>1. items \in Seq(Addresses) /\ Addresses \subseteq Nat /\ IntHalf \in Nat
      BY <1>1, InputOf, ElfAssumption
    <3>2. items \in Seq(Nat) /\ key \in Nat
      <4>1. Len(items) \in Nat /\ items \in [1..Len(items) -> Addresses]
        BY <3>1
      <4>2. items \in [1..Len(items) -> Nat]
        BY <3>1, <4>1
      <4> QED BY <3>1, <4>1, <4>2
    <3>3. n \in Nat /\ n >= 1 /\ DOMAIN items = 1..n /\ \A i \in 1..n : items[i] \in Nat
      BY <1>1, <3>2
    <3> QED BY <1>1, <3>1, <3>2, <3>3 DEF ItemsInv
  <2> HIDE DEF n
  <2>2. \A a, b \in S : a \in Nat /\ b \in Nat /\ a - b < IntHalf
    <3> DEFINE N == items[n] + key
    <3>1. S \subseteq 0..N /\ N \in Nat /\ S # {}
      <4>1. n \in 1..n /\ items[n] \in Nat /\ \A i \in 1..n : items[i] <= items[n]
        <5>1. n \in 1..n
          BY <2>1
        <5>2. \A i \in 1..n : i = n \/ i < n
          BY <2>1
        <5> QED BY <2>1, <5>1, <5>2
      <4>2. N \in Nat
        BY <2>1, <4>1
      <4>3. \A i \in 1..n : items[i] \in 0..N
        BY <2>1, <4>1
      <4>4. key \in 0..N
        BY <2>1, <4>1
      <4> HIDE DEF N
      <4> QED BY <2>1, <4>2, <4>3, <4>4 DEF Range
    <3> HIDE DEF N, S
    <3>2. (\A y \in S : y <= Max(S)) /\ Max(S) \in S
      BY <3>1, MaxOf
    <3>3. (\A y \in S : Min(S) <= y) /\ Min(S) \in S
      <4>1. S \subseteq Nat
        BY <3>1
      <4> QED BY <3>1, <4>1, MinOf
    <3>4. Max(S) - Min(S) < IntHalf
      BY <1>1 DEF S
    <3>5. \A a \in S : a \in Nat
      BY <3>1
    <3> QED BY <2>1, <3>2, <3>3, <3>4, <3>5
  <2>3. \A i \in 1..n : key - items[i] < IntHalf /\ items[i] - key < IntHalf
    <3>1. \A i \in 1..n : items[i] \in S /\ key \in S
      BY <2>1 DEF Range
    <3> HIDE DEF S
    <3> QED BY <2>2, <3>1
  <2>4. PICK f : /\ \A x \in Ranges(n) : f[x] = Turn(f, items, key, x)
                 /\ KsymSearch(items, key) = f[<<0, n>>]
    BY <2>1, Searched DEF n
  <2>5. <<0, n>> \in Ranges(n) /\ Within(items, key, <<0, n>>)
    BY <2>1 DEF Ranges, Within
  <2> QED BY <1>1, <2>1, <2>3, <2>4, <2>5, TurnsFind DEF n
<1>2. ItemsInv => KsymFound
  BY <1>1 DEF KsymFound, Sought, Positions
<1> QED BY <1>2, ItemsTyped, PTL
=============================================================================
