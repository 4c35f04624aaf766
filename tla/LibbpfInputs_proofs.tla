------------------------ MODULE LibbpfInputs_proofs ------------------------
(***************************************************************************)
(* What libbpf makes of the attributes of a netlink message and of the     *)
(* types of a BTF section, for inputs of every length, with the limits as  *)
(* parameters.  The loops are followed as in ToolInputs_proofs.            *)
(***************************************************************************)
EXTENDS ToolInputs_proofs

-----------------------------------------------------------------------------
(***************************************************************************)
(* Netlink attributes.                                                     *)
(***************************************************************************)
LEMMA Aligned ==
  ASSUME NEW k \in Nat
  PROVE  Align(k) \in Nat /\ k <= Align(k)
BY DEF Align

\* The length of an attribute and its aligned length.
LEMMA AttrTyped ==
  ASSUME NEW attrs \in Seq(Attributes), NEW i \in 1..Len(attrs)
  PROVE  /\ attrs[i] \in Attributes /\ attrs[i].len \in Nat
         /\ Align(attrs[i].len) \in Nat /\ attrs[i].len <= Align(attrs[i].len)
<1>1. attrs[i] \in Attributes /\ attrs[i].len \in Nat
  BY NetlinkAssumption
<1> QED BY <1>1, Aligned

Extent(attrs) == FoldLeft(LAMBDA pos, a : pos + Align(a.len), 0, attrs)

\* Attribute by attribute.
LaidOutBy(r, attrs) ==
  /\ r[0] = 0
  /\ \A i \in 1..Len(attrs) : r[i] = (r[i - 1] + Align(attrs[i].len))
  /\ Extent(attrs) = r[Len(attrs)]

\* There is such a function.
LEMMA LaidOut ==
  ASSUME NEW attrs \in Seq(Attributes)
  PROVE  \E r : LaidOutBy(r, attrs)
<1> DEFINE n == Len(attrs)
           G == [x \in (1..n) \X Nat |-> (x[2] + Align(attrs[x[1]].len))]
           P(f) == f = [s \in SUBSET (1..n) |-> IF s = {} THEN 0
                                                ELSE (f[s \ {Max(s)}] + Align(attrs[Max(s)].len))]
           f == CHOOSE f : P(f)
           r == [i \in 0..n |-> f[1..i]]
<1>1. n \in Nat /\ DOMAIN attrs = 1..n
  OBVIOUS
<1>2. \A i \in 1..n, p \in Nat : G[<<i, p>>] = (p + Align(attrs[i].len)) /\ G[<<i, p>>] \in Nat
  <2>1. \A i \in 1..n, p \in Nat : <<i, p>> \in (1..n) \X Nat
    OBVIOUS
  <2>2. \A i \in 1..n, p \in Nat : (p + Align(attrs[i].len)) \in Nat
    BY AttrTyped
  <2> HIDE DEF n
  <2> QED BY <2>1, <2>2
<1>3. PICK g \in [SUBSET (1..n) -> Nat] : LeftBy(g, n, Nat, 0, G)
  <2>1. 0 \in Nat
    OBVIOUS
  <2> HIDE DEF n, G
  <2> QED BY <1>1, <1>2, <2>1, LeftExists
<1>4. P(g)
  <2> HIDE DEF n, G
  <2> QED BY <1>2, <1>3 DEF LeftBy
<1>5. P(f)
  <2> HIDE DEF P
  <2> QED BY <1>4
<1>6. Extent(attrs) = f[1..n]
  BY <1>1 DEF Extent, FoldLeft, MapThenFoldSet
<1> HIDE DEF f
<1>7. \A i \in 0..n : r[i] = f[1..i]
  OBVIOUS
<1>8. r[0] = 0
  <2>1. f[{}] = 0
    BY <1>5
  <2> QED BY <1>1, <1>7, <2>1, PrefixSets
<1>9. ASSUME NEW i \in 1..n PROVE r[i] = (r[i - 1] + Align(attrs[i].len))
  <2>1. 1..i \in SUBSET (1..n) /\ i \in 0..n /\ i - 1 \in 0..n
    BY <1>1
  <2>2. 1..i # {} /\ Max(1..i) = i /\ (1..i) \ {i} = 1..(i - 1)
    BY <1>1, PrefixSets
  <2>3. f[1..i] = (f[1..(i - 1)] + Align(attrs[i].len))
    <3> HIDE DEF n, r
    <3> QED BY <1>5, <2>1, <2>2
  <2> QED BY <1>7, <2>1, <2>3
<1>10. LaidOutBy(r, attrs)
  <2> HIDE DEF r
  <2> QED BY <1>1, <1>6, <1>7, <1>8, <1>9 DEF LaidOutBy
<1> QED BY <1>10

\* Where each attribute begins: the sums of the aligned lengths before it.
PlacedBy(q, attrs) ==
  /\ q[0] = 0 /\ \A i \in 1..Len(attrs) : q[i] = q[i - 1] + Align(attrs[i].len)
  /\ \A i \in 0..Len(attrs) : q[i] \in Nat /\ PosOf(attrs, i + 1) = q[i]

\* There is such a function.
LEMMA Placed ==
  ASSUME NEW attrs \in Seq(Attributes)
  PROVE  \E q : PlacedBy(q, attrs)
<1> DEFINE n == Len(attrs)
<1>0. n \in Nat /\ DOMAIN attrs = 1..n
  OBVIOUS
<1> PICK q : LaidOutBy(q, attrs)
  BY LaidOut
<1>1. q[0] = 0 /\ \A i \in 1..n : q[i] = q[i - 1] + Align(attrs[i].len)
  BY DEF LaidOutBy
<1>t. \A i \in 1..n : Align(attrs[i].len) \in Nat
  BY AttrTyped
<1> HIDE DEF n
<1>2. \A i \in 0..n : q[i] \in Nat
  <2> DEFINE A == {i \in Nat : i <= n => q[i] \in Nat}
  <2>1. 0 \in A
    BY <1>1
  <2>2. ASSUME NEW i \in Nat, i \in A PROVE i + 1 \in A
    <3> SUFFICES ASSUME i + 1 <= n PROVE q[i + 1] \in Nat
      OBVIOUS
    <3>1. i + 1 \in 1..n /\ (i + 1) - 1 = i /\ q[i] \in Nat
      BY <1>0, <2>2
    <3>2. q[i + 1] = q[i] + Align(attrs[i + 1].len)
      BY <1>1, <3>1
    <3>3. Align(attrs[i + 1].len) \in Nat
      BY <1>t, <3>1
    <3> QED BY <3>1, <3>2, <3>3
  <2>3. \A i \in Nat : i \in A
    <3> HIDE DEF A
    <3> QED BY <2>1, <2>2, NatInduct
  <2> QED BY <1>0, <2>3
<1>3. ASSUME NEW m \in 0..n PROVE PosOf(attrs, m + 1) = q[m]
  <2> DEFINE s == SubSeq(attrs, 1, m)
  <2>1. s \in Seq(Attributes) /\ Len(s) = m /\ m \in Nat /\ \A i \in 1..m : s[i] = attrs[i]
    BY <1>0 DEF n
  <2> HIDE DEF s
  <2> PICK r : LaidOutBy(r, s)
    BY <2>1, LaidOut
  <2>2. r[0] = 0 /\ (\A i \in 1..m : r[i] = r[i - 1] + Align(attrs[i].len)) /\ Extent(s) = r[m]
    BY <2>1 DEF LaidOutBy
  <2> DEFINE A == {i \in Nat : i <= m => r[i] = q[i]}
  <2>3. 0 \in A
    BY <1>1, <2>2
  <2>4. ASSUME NEW i \in Nat, i \in A PROVE i + 1 \in A
    <3> SUFFICES ASSUME i + 1 <= m PROVE r[i + 1] = q[i + 1]
      OBVIOUS
    <3>1. i + 1 \in 1..m /\ i + 1 \in 1..n /\ (i + 1) - 1 = i /\ r[i] = q[i]
      BY <1>0, <2>1, <2>4
    <3>2. q[i + 1] = q[i] + Align(attrs[i + 1].len)
      BY <1>1, <3>1
    <3>3. r[i + 1] = r[i] + Align(attrs[i + 1].len)
      BY <2>2, <3>1
    <3> QED BY <3>1, <3>2, <3>3
  <2>5. r[m] = q[m]
    <3>1. m \in A
      <4> HIDE DEF A
      <4> QED BY <2>1, <2>3, <2>4, NatInduct
    <3> QED BY <2>1, <3>1
  <2>6. PosOf(attrs, m + 1) = Extent(s)
    <3>1. (m + 1) - 1 = m
      BY <2>1
    <3> QED BY <3>1 DEF PosOf, Extent, s
  <2> QED BY <2>2, <2>5, <2>6
<1>4. PlacedBy(q, attrs)
  BY <1>1, <1>2, <1>3 DEF PlacedBy, n
<1> QED BY <1>4

\* Every attribute ends no later than the one after it begins.
LEMMA PlacesGrow ==
  ASSUME NEW attrs \in Seq(Attributes), NEW q, PlacedBy(q, attrs)
  PROVE  \A i \in 1..Len(attrs) : q[i - 1] + attrs[i].len <= q[Len(attrs)]
<1> DEFINE n == Len(attrs)
           A == {k \in Nat : k < n => q[(n - k) - 1] + attrs[n - k].len <= q[n]}
<1>0. n \in Nat
  OBVIOUS
<1>1. /\ \A i \in 1..n : q[i] = q[i - 1] + Align(attrs[i].len)
      /\ \A i \in 0..n : q[i] \in Nat
  BY DEF PlacedBy
<1>2. \A i \in 1..n : attrs[i].len \in Nat /\ Align(attrs[i].len) \in Nat /\ attrs[i].len <= Align(attrs[i].len)
  BY AttrTyped
<1> HIDE DEF n
<1>3. \A i \in 1..n : q[i - 1] + attrs[i].len <= q[i] /\ q[i - 1] \in Nat /\ q[i] \in Nat
  <2> SUFFICES ASSUME NEW i \in 1..n
               PROVE  q[i - 1] + attrs[i].len <= q[i] /\ q[i - 1] \in Nat /\ q[i] \in Nat
    OBVIOUS
  <2>1. i - 1 \in 0..n /\ i \in 0..n
    BY <1>0
  <2>2. q[i - 1] \in Nat /\ q[i] \in Nat /\ q[i] = q[i - 1] + Align(attrs[i].len)
    BY <1>1, <2>1
  <2> QED BY <1>2, <2>2
<1>4. 0 \in A
  <2> SUFFICES ASSUME 0 < n PROVE q[(n - 0) - 1] + attrs[n - 0].len <= q[n]
    OBVIOUS
  <2>1. n \in 1..n /\ n - 0 = n
    BY <1>0
  <2> QED BY <1>3, <2>1
<1>5. ASSUME NEW k \in Nat, k \in A PROVE k + 1 \in A
  <2> SUFFICES ASSUME k + 1 < n
               PROVE  q[(n - (k + 1)) - 1] + attrs[n - (k + 1)].len <= q[n]
    OBVIOUS
  <2> DEFINE i == n - (k + 1)
  <2>1. i \in 1..n /\ i + 1 \in 1..n /\ n - k = i + 1 /\ (n - k) - 1 = i /\ k < n
    BY <1>0
  <2> HIDE DEF i
  <2>2. q[i] + attrs[i + 1].len <= q[n]
    BY <1>5, <2>1
  <2>3. q[i - 1] + attrs[i].len <= q[i] /\ q[i] \in Nat /\ q[i - 1] \in Nat
    BY <1>3, <2>1
  <2>4. attrs[i + 1].len \in Nat /\ attrs[i].len \in Nat /\ q[n] \in Nat
    <3>1. n \in 0..n
      BY <1>0
    <3> QED BY <1>1, <1>2, <2>1, <3>1
  <2>5. q[i - 1] + attrs[i].len <= q[n]
    BY <2>2, <2>3, <2>4, SMTT(30)
  <2> QED BY <2>5 DEF i
<1>6. \A k \in Nat : k \in A
  <2> HIDE DEF A
  <2> QED BY <1>4, <1>5, NatInduct
<1>7. ASSUME NEW i \in 1..n PROVE q[i - 1] + attrs[i].len <= q[n]
  <2>1. n - i \in Nat /\ n - i < n /\ n - (n - i) = i
    BY <1>0
  <2> QED BY <1>6, <2>1
<1> QED BY <1>7 DEF n

ParseStep(run, i, attrs, len) ==
  IF ~run.going \/ ~NlaOk(attrs[i], len - PosOf(attrs, i)) THEN [run EXCEPT !.going = FALSE]
  ELSE IF attrs[i].type \notin AttrTypes THEN run
  ELSE IF ~Valid(attrs[i]) THEN [run EXCEPT !.going = FALSE, !.ok = FALSE]
  ELSE [run EXCEPT !.tb = Store(@, attrs[i].type, i)]

NlaRuns == [tb : [AttrTypes -> Nat], ok : BOOLEAN, going : BOOLEAN]
NothingParsed == [tb |-> [t \in AttrTypes |-> 0], ok |-> TRUE, going |-> TRUE]

\* What a step leaves in each of its cases.
LEMMA ParseStepIs ==
  ASSUME NEW run \in NlaRuns, NEW i \in Nat, NEW attrs, NEW len
  PROVE  LET q  == ParseStep(run, i, attrs, len)
             a  == attrs[i]
             on == run.going /\ NlaOk(a, len - PosOf(attrs, i))
         IN  /\ q \in NlaRuns
             /\ q.going <=> on /\ (a.type \in AttrTypes => Valid(a))
             /\ q.ok <=> run.ok /\ (on => (a.type \in AttrTypes => Valid(a)))
             /\ q.tb["MSG"] = IF on /\ a.type = "MSG" /\ Valid(a) THEN i ELSE run.tb["MSG"]
<1> DEFINE q  == ParseStep(run, i, attrs, len)
           a  == attrs[i]
           on == run.going /\ NlaOk(a, len - PosOf(attrs, i))
           Done == /\ q \in NlaRuns
                   /\ q.going <=> on /\ (a.type \in AttrTypes => Valid(a))
                   /\ q.ok <=> run.ok /\ (on => (a.type \in AttrTypes => Valid(a)))
                   /\ q.tb["MSG"] = IF on /\ a.type = "MSG" /\ Valid(a) THEN i ELSE run.tb["MSG"]
<1>1. run.tb \in [AttrTypes -> Nat] /\ run.ok \in BOOLEAN /\ run.going \in BOOLEAN /\ "MSG" \in AttrTypes
  BY DEF NlaRuns, AttrTypes
<1>2. q = IF ~on THEN [run EXCEPT !.going = FALSE]
          ELSE IF a.type \notin AttrTypes THEN run
          ELSE IF ~Valid(a) THEN [run EXCEPT !.going = FALSE, !.ok = FALSE]
          ELSE [run EXCEPT !.tb = [run.tb EXCEPT ![a.type] = i]]
  BY DEF ParseStep, Store
<1> HIDE DEF q, a, on
<1>3. ASSUME ~on PROVE Done
  BY <1>1, <1>2, <1>3 DEF NlaRuns
<1>4. ASSUME on, a.type \notin AttrTypes PROVE Done
  <2>1. q = run /\ run.going
    BY <1>2, <1>4 DEF on
  <2> QED BY <1>1, <1>4, <2>1
<1>5. ASSUME on, a.type \in AttrTypes, ~Valid(a) PROVE Done
  BY <1>1, <1>2, <1>5 DEF NlaRuns
<1>6. ASSUME on, a.type \in AttrTypes, Valid(a) PROVE Done
  <2> DEFINE tb == [run.tb EXCEPT ![a.type] = i]
  <2>1. q = [run EXCEPT !.tb = tb] /\ run.going
    BY <1>2, <1>6 DEF on
  <2>2. tb \in [AttrTypes -> Nat] /\ tb["MSG"] = IF a.type = "MSG" THEN i ELSE run.tb["MSG"]
    BY <1>1, <1>6
  <2> HIDE DEF tb
  <2>3. q \in NlaRuns /\ q.tb = tb /\ q.going = run.going /\ q.ok = run.ok
    BY <1>1, <2>1, <2>2 DEF NlaRuns
  <2> QED BY <1>1, <1>6, <2>1, <2>2, <2>3
<1> HIDE DEF Done
<1>7. Done
  BY <1>3, <1>4, <1>5, <1>6
<1> QED BY <1>7 DEF Done, q, a, on

Numbers(attrs) == [i \in DOMAIN attrs |-> i]

\* A step of nla_parse keeps the run of its type.
LEMMA ParseStepTyped ==
  ASSUME NEW attrs \in Seq(Attributes), NEW len, NEW i \in 1..Len(attrs), NEW run \in NlaRuns
  PROVE  ParseStep(run, Numbers(attrs)[i], attrs, len) \in NlaRuns /\ Numbers(attrs)[i] = i
<1>1. Numbers(attrs)[i] = i /\ i \in Nat
  BY DEF Numbers
<1> QED BY <1>1, ParseStepIs

\* The messages attribute by attribute.
AttrsParsedBy(r, attrs, len) ==
  /\ r[0] = NothingParsed
  /\ \A i \in 1..Len(attrs) : r[i] = ParseStep(r[i - 1], Numbers(attrs)[i], attrs, len)
  /\ NlaParse(attrs, len) = r[Len(attrs)]

\* There is such a function.
LEMMA AttrsParsed ==
  ASSUME NEW attrs \in Seq(Attributes),
         NEW len
  PROVE  \E r : AttrsParsedBy(r, attrs, len)
<1> DEFINE n == Len(attrs)
           G == [x \in (1..n) \X NlaRuns |-> ParseStep(x[2], Numbers(attrs)[x[1]], attrs, len)]
           P(f) == f = [s \in SUBSET (1..n) |-> IF s = {} THEN NothingParsed
                                                ELSE ParseStep(f[s \ {Max(s)}], Numbers(attrs)[Max(s)], attrs, len)]
           f == CHOOSE f : P(f)
           r == [i \in 0..n |-> f[1..i]]
<1>1. n \in Nat /\ DOMAIN attrs = 1..n
  OBVIOUS
<1>2. \A i \in 1..n, p \in NlaRuns : G[<<i, p>>] = ParseStep(p, Numbers(attrs)[i], attrs, len) /\ G[<<i, p>>] \in NlaRuns
  <2>1. \A i \in 1..n, p \in NlaRuns : <<i, p>> \in (1..n) \X NlaRuns
    OBVIOUS
  <2>2. \A i \in 1..n, p \in NlaRuns : ParseStep(p, Numbers(attrs)[i], attrs, len) \in NlaRuns
    BY ParseStepTyped, <1>1
  <2> HIDE DEF n
  <2> QED BY <2>1, <2>2
<1>3. PICK g \in [SUBSET (1..n) -> NlaRuns] : LeftBy(g, n, NlaRuns, NothingParsed, G)
  <2>1. NothingParsed \in NlaRuns
    BY DEF NothingParsed, NlaRuns
  <2> HIDE DEF n, G
  <2> QED BY <1>1, <1>2, <2>1, LeftExists
<1>4. P(g)
  <2> HIDE DEF n, G
  <2> QED BY <1>2, <1>3 DEF LeftBy
<1>5. P(f)
  <2> HIDE DEF P
  <2> QED BY <1>4
<1>6. NlaParse(attrs, len) = f[1..n]
  BY <1>1 DEF NlaParse, ParseStep, NothingParsed, Numbers, FoldLeft, MapThenFoldSet
<1> HIDE DEF f
<1>7. \A i \in 0..n : r[i] = f[1..i]
  OBVIOUS
<1>8. r[0] = NothingParsed
  <2>1. f[{}] = NothingParsed
    BY <1>5
  <2> QED BY <1>1, <1>7, <2>1, PrefixSets
<1>9. ASSUME NEW i \in 1..n PROVE r[i] = ParseStep(r[i - 1], Numbers(attrs)[i], attrs, len)
  <2>1. 1..i \in SUBSET (1..n) /\ i \in 0..n /\ i - 1 \in 0..n
    BY <1>1
  <2>2. 1..i # {} /\ Max(1..i) = i /\ (1..i) \ {i} = 1..(i - 1)
    BY <1>1, PrefixSets
  <2>3. f[1..i] = ParseStep(f[1..(i - 1)], Numbers(attrs)[i], attrs, len)
    <3> HIDE DEF n, r
    <3> QED BY <1>5, <2>1, <2>2
  <2> QED BY <1>7, <2>1, <2>3
<1>10. AttrsParsedBy(r, attrs, len)
  <2> HIDE DEF r
  <2> QED BY <1>1, <1>6, <1>7, <1>8, <1>9 DEF AttrsParsedBy
<1> QED BY <1>10

\* An attribute nla_parse goes on behind.
Whole(attrs, i) == attrs[i].len >= HdrLen /\ (attrs[i].type \in AttrTypes => Valid(attrs[i]))
Inside(attrs, q, len, i) == q[i - 1] + attrs[i].len <= len
Texts(attrs, i) == {k \in 1..i : attrs[k].type = "MSG"}
Fits(attrs, q, len) == \A j \in 1..Len(attrs) : Whole(attrs, j) /\ Inside(attrs, q, len, j)

\* What is known after the first i attributes.
ParsedAt(r, attrs, q, len, i) ==
  LET t == r[i].tb["MSG"]
  IN  /\ r[i] \in NlaRuns
      /\ t \in 0..i
      /\ t > 0 => /\ attrs[t].type = "MSG" /\ Valid(attrs[t])
                  /\ \A j \in 1..t : Whole(attrs, j)
                  /\ Inside(attrs, q, len, t)
      /\ r[i].going => \A j \in 1..i : Whole(attrs, j)
      /\ Fits(attrs, q, len) =>
           r[i].going /\ r[i].ok /\ t = LastPosition(Texts(attrs, i))

\* One more attribute.
LEMMA ParsedOneMore ==
  ASSUME NEW attrs \in Seq(Attributes), NEW q, PlacedBy(q, attrs), NEW len \in Int,
         NEW r, AttrsParsedBy(r, attrs, len),
         NEW i \in Nat, i + 1 <= Len(attrs), ParsedAt(r, attrs, q, len, i)
  PROVE  ParsedAt(r, attrs, q, len, i + 1)
<1> DEFINE k  == i + 1
           a  == attrs[k]
           s  == r[k]
           p  == r[i]
           on == p.going /\ NlaOk(a, len - PosOf(attrs, k))
           hit == on /\ a.type = "MSG" /\ Valid(a)
<1>0. k \in 1..Len(attrs) /\ k - 1 = i /\ k \in Nat /\ i \in 0..Len(attrs) /\ k # 0
  OBVIOUS
<1>1. q[i] \in Nat /\ PosOf(attrs, k) = q[i]
  BY <1>0 DEF PlacedBy
<1>2. a.len \in Nat
  BY <1>0, AttrTyped
<1>3. s = ParseStep(p, k, attrs, len) /\ p \in NlaRuns
  <2>1. Numbers(attrs)[k] = k
    BY <1>0 DEF Numbers
  <2> QED BY <1>0, <2>1 DEF AttrsParsedBy, ParsedAt
<1>4. /\ s \in NlaRuns
      /\ s.going <=> on /\ (a.type \in AttrTypes => Valid(a))
      /\ s.ok <=> p.ok /\ (on => (a.type \in AttrTypes => Valid(a)))
      /\ s.tb["MSG"] = IF hit THEN k ELSE p.tb["MSG"]
  <2> HIDE DEF k, s, p
  <2> QED BY <1>0, <1>3, ParseStepIs
<1>5. on => p.going /\ a.len >= HdrLen /\ Inside(attrs, q, len, k)
  <2>1. NlaOk(a, len - q[i]) => a.len >= HdrLen /\ q[i] + a.len <= len
    BY <1>1, <1>2 DEF NlaOk
  <2> QED BY <1>0, <1>1, <2>1 DEF Inside
<1>6. Fits(attrs, q, len) => a.len >= HdrLen /\ NlaOk(a, len - PosOf(attrs, k)) /\ (a.type \in AttrTypes => Valid(a))
  <2> SUFFICES ASSUME Fits(attrs, q, len)
               PROVE  a.len >= HdrLen /\ NlaOk(a, len - q[i]) /\ (a.type \in AttrTypes => Valid(a))
    BY <1>1
  <2>1. Whole(attrs, k) /\ Inside(attrs, q, len, k)
    BY <1>0 DEF Fits
  <2>2. a.len >= HdrLen /\ (a.type \in AttrTypes => Valid(a)) /\ q[i] + a.len <= len
    BY <1>0, <2>1 DEF Whole, Inside
  <2>3. NlaOk(a, len - q[i])
    <3> HIDE DEF a
    <3> QED BY <1>1, <1>2, <2>2 DEF NlaOk, HdrLen
  <2> QED BY <2>2, <2>3
<1>7. p.going => \A j \in 1..i : Whole(attrs, j)
  BY DEF ParsedAt
<1>8. s.going => \A j \in 1..k : Whole(attrs, j)
  <2> SUFFICES ASSUME s.going, NEW j \in 1..k PROVE Whole(attrs, j)
    OBVIOUS
  <2>1. on /\ (a.type \in AttrTypes => Valid(a))
    BY <1>4
  <2>2. CASE j = k
    <3>1. Whole(attrs, k)
      BY <1>5, <2>1 DEF Whole
    <3> QED BY <2>2, <3>1
  <2>3. CASE j # k
    BY <1>0, <1>5, <1>7, <2>1, <2>3
  <2> QED BY <2>2, <2>3
<1> DEFINE t == s.tb["MSG"]
           u == p.tb["MSG"]
<1>9. /\ u \in 0..i
      /\ u > 0 => /\ attrs[u].type = "MSG" /\ Valid(attrs[u])
                  /\ \A j \in 1..u : Whole(attrs, j)
                  /\ Inside(attrs, q, len, u)
      /\ Fits(attrs, q, len) => p.going /\ p.ok /\ u = LastPosition(Texts(attrs, i))
  BY DEF ParsedAt
<1> DEFINE Known1 == t > 0 => /\ attrs[t].type = "MSG" /\ Valid(attrs[t])
                              /\ \A j \in 1..t : Whole(attrs, j)
                              /\ Inside(attrs, q, len, t)
<1>10. t \in 0..k /\ Known1
  <2>1. ASSUME hit PROVE t \in 0..k /\ Known1
    <3>1. t = k
      BY <1>4, <2>1
    <3>2. s.going
      BY <1>4, <2>1
    <3>3. a.type = "MSG" /\ Valid(a) /\ Inside(attrs, q, len, k)
      BY <1>5, <2>1
    <3> HIDE DEF s, k, hit, on
    <3> QED BY <1>0, <1>8, <3>1, <3>2, <3>3 DEF k
  <2>2. ASSUME ~hit PROVE t \in 0..k /\ Known1
    <3>1. t = u
      BY <1>4, <2>2
    <3> HIDE DEF s, p, t, u, hit, on
    <3> QED BY <1>0, <1>9, <3>1
  <2> HIDE DEF Known1, hit, t
  <2> QED BY <2>1, <2>2
<1>11. Fits(attrs, q, len) => s.going /\ s.ok /\ t = LastPosition(Texts(attrs, k))
  <2> SUFFICES ASSUME Fits(attrs, q, len)
               PROVE  s.going /\ s.ok /\ t = LastPosition(Texts(attrs, k))
    OBVIOUS
  <2>1. on /\ (a.type \in AttrTypes => Valid(a))
    BY <1>6, <1>9
  <2>2. s.going /\ s.ok /\ t = IF a.type = "MSG" THEN k ELSE u
    <3>1. "MSG" \in AttrTypes
      BY DEF AttrTypes
    <3> HIDE DEF s, p, a, on
    <3> QED BY <1>4, <1>9, <2>1, <3>1
  <2>3. Texts(attrs, i) \subseteq 1..i
    BY DEF Texts
  <2>4. CASE a.type = "MSG"
    <3>1. Texts(attrs, k) = Texts(attrs, i) \cup {i + 1}
      BY <1>0, <2>4 DEF Texts
    <3> QED BY <2>2, <2>3, <2>4, <3>1, LastOfMore, ZenonT(40)
  <2>5. CASE a.type # "MSG"
    <3>1. Texts(attrs, k) = Texts(attrs, i)
      BY <1>0, <2>5 DEF Texts
    <3> QED BY <1>9, <2>2, <2>5, <3>1
  <2> QED BY <2>4, <2>5
<1> HIDE DEF s, t, k
<1> QED BY <1>4, <1>8, <1>10, <1>11 DEF ParsedAt, s, t, k

\* All attributes.
LEMMA ParsedAll ==
  ASSUME NEW attrs \in Seq(Attributes), NEW q, PlacedBy(q, attrs), NEW len \in Int,
         NEW r, AttrsParsedBy(r, attrs, len)
  PROVE  ParsedAt(r, attrs, q, len, Len(attrs))
<1> DEFINE A == {i \in Nat : i <= Len(attrs) => ParsedAt(r, attrs, q, len, i)}
<1>1. 0 \in A
  <2>1. r[0] = NothingParsed
    BY DEF AttrsParsedBy
  <2>2. NothingParsed \in NlaRuns /\ NothingParsed.going /\ NothingParsed.ok /\ NothingParsed.tb["MSG"] = 0
    BY DEF NothingParsed, NlaRuns, AttrTypes
  <2>3. Texts(attrs, 0) = {} /\ 1..0 = {}
    BY DEF Texts
  <2>4. LastPosition({}) = 0
    <3>1. {} \subseteq 1..0 /\ 0 \in Nat
      OBVIOUS
    <3> QED BY <3>1, LastOfMore
  <2>5. ParsedAt(r, attrs, q, len, 0)
    <3>1. r[0] \in NlaRuns /\ r[0].going /\ r[0].ok /\ r[0].tb["MSG"] = 0
      BY <2>1, <2>2
    <3>2. LastPosition(Texts(attrs, 0)) = 0
      BY <2>3, <2>4
    <3>3. r[0].tb["MSG"] \in 0..0 /\ ~(r[0].tb["MSG"] > 0)
      BY <3>1
    <3>4. \A j \in 1..0 : Whole(attrs, j)
      OBVIOUS
    <3> QED BY <3>1, <3>2, <3>3, <3>4, ZenonT(30) DEF ParsedAt
  <2> QED BY <2>5
<1>2. ASSUME NEW i \in Nat, i \in A PROVE i + 1 \in A
  <2> SUFFICES ASSUME i + 1 <= Len(attrs) PROVE ParsedAt(r, attrs, q, len, i + 1)
    OBVIOUS
  <2>1. ParsedAt(r, attrs, q, len, i)
    BY <1>2
  <2> QED BY <2>1, ParsedOneMore
<1>3. \A i \in Nat : i \in A
  <2> HIDE DEF A
  <2> QED BY <1>1, <1>2, NatInduct
<1> QED BY <1>3

\* nla_dump_errormsg prints the last whole message behind nothing broken, and it
\* lies in the room nla_parse was given, for any number of attributes.
THEOREM AttributesIndexed == LibSpec => []NlaIndexed
<1>1. ItemsInv => NlaIndexed
  <2> SUFFICES ASSUME ItemsInv, part = "attributes",
                      NEW n \in 0..Len(items), NEW inner \in {0, 20}, NEW capped \in BOOLEAN
               PROVE LET area  == PosOf(items, n + 1)
                         reply == [tlvs |-> TRUE, capped |-> capped, request |-> inner, attrs |-> items,
                                   len  |-> MsgHdrLen + ErrLen + (IF capped THEN 0 ELSE inner) + area]
                         text  == ErrorMessage(reply)
                         sound(i) == items[i].len >= HdrLen /\ (items[i].type \in AttrTypes => Valid(items[i]))
                         texts == {i \in 1..n : items[i].type = "MSG"}
                     IN  /\ text > 0 =>
                              /\ items[text].type = "MSG" /\ Valid(items[text])
                              /\ \A j \in 1..text : sound(j)
                              /\ PosOf(items, text) + items[text].len <= area + MsgHdrLen
                         /\ (n = Len(items) /\ \A i \in 1..n : sound(i)) =>
                              text = LastPosition(texts)
    BY DEF NlaIndexed
  <2> DEFINE area  == PosOf(items, n + 1)
             reply == [tlvs |-> TRUE, capped |-> capped, request |-> inner, attrs |-> items,
                       len  |-> MsgHdrLen + ErrLen + (IF capped THEN 0 ELSE inner) + area]
             text  == ErrorMessage(reply)
             room  == MsgHdrLen + area
  <2>1. items \in Seq(Attributes) /\ Len(items) \in Nat
    BY InputOf
  <2> PICK q : PlacedBy(q, items)
    BY <2>1, Placed
  <2>2. area = q[n] /\ area \in Nat /\ room \in Int
    BY <2>1 DEF PlacedBy, MsgHdrLen
  <2>3. AttrRoom(reply) = room
    <3> HIDE DEF area
    <3> QED BY <2>2 DEF AttrRoom, MsgHdrLen, ErrLen
  <2> PICK r : AttrsParsedBy(r, items, room)
    BY <2>1, AttrsParsed
  <2> DEFINE last == r[Len(items)]
  <2>4. text = IF ~last.ok THEN -1 ELSE last.tb["MSG"]
    <3>1. NlaParse(items, room) = last
      BY DEF AttrsParsedBy
    <3> HIDE DEF area, room
    <3> QED BY <2>3, <3>1 DEF ErrorMessage
  <2>5. ParsedAt(r, items, q, room, Len(items))
    BY <2>1, <2>2, ParsedAll
  <2> HIDE DEF text, area, room, reply
  <2>6. last.ok \in BOOLEAN /\ last.tb["MSG"] \in 0..Len(items)
    BY <2>5 DEF ParsedAt, NlaRuns
  <2>7. ASSUME text > 0
        PROVE  /\ items[text].type = "MSG" /\ Valid(items[text])
               /\ \A j \in 1..text : Whole(items, j)
               /\ PosOf(items, text) + items[text].len <= area + MsgHdrLen
    <3>1. text = last.tb["MSG"] /\ text \in 1..Len(items)
      BY <2>1, <2>4, <2>6, <2>7
    <3>2. /\ items[text].type = "MSG" /\ Valid(items[text])
          /\ (\A j \in 1..text : Whole(items, j)) /\ Inside(items, q, room, text)
      BY <2>5, <2>7, <3>1 DEF ParsedAt
    <3>3. text - 1 \in 0..Len(items) /\ (text - 1) + 1 = text
      BY <2>1, <3>1
    <3>4. PosOf(items, text) = q[text - 1]
      BY <3>3 DEF PlacedBy
    <3>5. room = area + MsgHdrLen
      BY <2>2 DEF room, MsgHdrLen
    <3> QED BY <3>2, <3>4, <3>5 DEF Inside
  <2>8. ASSUME n = Len(items), \A i \in 1..n : Whole(items, i)
        PROVE  text = LastPosition(Texts(items, n))
    <3>1. \A i \in 1..Len(items) : q[i - 1] + items[i].len <= q[Len(items)]
      BY <2>1, PlacesGrow
    <3>2. \A i \in 1..Len(items) : q[i - 1] \in Nat /\ items[i].len \in Nat
      <4> TAKE i \in 1..Len(items)
      <4>1. i - 1 \in 0..Len(items)
        BY <2>1
      <4> QED BY <2>1, <4>1, AttrTyped DEF PlacedBy
    <3>3. room = q[Len(items)] + 16 /\ q[Len(items)] \in Nat
      BY <2>2, <2>8 DEF room, MsgHdrLen
    <3>4. Fits(items, q, room)
      BY <2>8, <3>1, <3>2, <3>3 DEF Fits, Inside
    <3> QED BY <2>4, <2>5, <2>8, <3>4 DEF ParsedAt
  <2> QED BY <2>7, <2>8 DEF Whole, Texts, area, text, reply
<1> QED BY <1>1, ItemsTyped, PTL

-----------------------------------------------------------------------------
(***************************************************************************)
(* The table of BTF types.                                                 *)
(***************************************************************************)
LEMMA OfTwo ==
  ASSUME NEW a \in Nat, NEW b \in Nat
  PROVE  /\ Min({a, b}) = IF a <= b THEN a ELSE b
         /\ Max({a, b}) = IF a <= b THEN b ELSE a
<1>1. Min({a, b}) \in {a, b} /\ \A y \in {a, b} : Min({a, b}) <= y
  BY MinOf
<1>2. Max({a, b}) \in {a, b} /\ \A y \in {a, b} : y <= Max({a, b})
  <2>1. {a, b} \subseteq 0..(a + b) /\ {a, b} # {} /\ a + b \in Nat
    OBVIOUS
  <2> QED BY <2>1, MaxOf
<1>3. Min({a, b}) = IF a <= b THEN a ELSE b
  BY <1>1
<1>4. Max({a, b}) = IF a <= b THEN b ELSE a
  BY <1>2
<1> QED BY <1>3, <1>4

Tables == [types_size : 0..MaxTypes, nr_types : Nat, entries : SUBSET Nat,
           result : {"OK", "E2BIG", "EINVAL"}]

StepType(table, t) ==
  IF table.result # "OK" THEN table
  ELSE IF t.kind \notin Kinds THEN [table EXCEPT !.result = "EINVAL"]
  ELSE AddType(table)

\* What adding a type does: growing makes room for it and for void.
LEMMA Adding ==
  ASSUME NEW table \in Tables, table.result = "OK",
         table.nr_types = 0 \/ table.nr_types < table.types_size
  PROVE  LET q == AddType(table)
         IN  /\ q \in Tables /\ q.result \in {"OK", "E2BIG"}
             /\ q.result = "E2BIG" => /\ table.nr_types = MaxTypes - 1
                                      /\ q.types_size = table.types_size
                                      /\ q.nr_types = table.nr_types /\ q.entries = table.entries
             /\ q.result = "OK" => /\ q.nr_types = table.nr_types + 1
                                   /\ q.entries = table.entries \cup {table.nr_types + 1}
                                   /\ q.nr_types < q.types_size
<1> DEFINE size == table.types_size
           nr   == table.nr_types
           q    == AddType(table)
           more == Min({MaxTypes, size + Max({size \div 4, ExpandBy})})
<1>1. size \in 0..MaxTypes /\ nr \in Nat /\ MaxTypes \in Nat /\ MaxTypes >= 2 /\ ExpandBy \in Nat /\ ExpandBy >= 2
  BY BtfAssumption DEF Tables
<1>2. more \in 0..MaxTypes /\ (more = MaxTypes \/ more >= size + 2)
  <2> DEFINE by == Max({size \div 4, ExpandBy})
  <2>1. size \div 4 \in Nat
    BY <1>1
  <2>2. by \in Nat /\ by >= 2
    BY <1>1, <2>1, OfTwo
  <2> HIDE DEF by
  <2>3. MaxTypes \in Nat /\ size + by \in Nat
    BY <1>1, <2>2
  <2>4. more = IF MaxTypes <= size + by THEN MaxTypes ELSE size + by
    BY <2>3, OfTwo DEF by
  <2> HIDE DEF more
  <2> QED BY <1>1, <2>2, <2>4
<1> HIDE DEF more
<1>3. CASE TableFull(table) /\ size = MaxTypes
  <2>1. q = [table EXCEPT !.result = "E2BIG"]
    BY <1>3 DEF AddType
  <2>2. size - nr < 2
    BY <1>3 DEF TableFull
  <2>3. nr = MaxTypes - 1
    BY <1>1, <1>3, <2>2
  <2> HIDE DEF q
  <2> QED BY <2>1, <2>3 DEF Tables, q
<1>4. CASE TableFull(table) /\ size # MaxTypes
  <2>1. q = [[table EXCEPT !.types_size = more] EXCEPT !.nr_types = nr + 1, !.entries = table.entries \cup {nr + 1}]
    BY <1>4 DEF AddType, Grown, Entry, more, Tables
  <2>2. nr + 1 < more
    BY <1>1, <1>2, <1>4
  <2>3. q \in Tables
    <3> DEFINE e == table.entries \cup {nr + 1}
               n == nr + 1
    <3>1. e \in SUBSET Nat /\ n \in Nat
      BY <1>1 DEF Tables
    <3>2. q = [[table EXCEPT !.types_size = more] EXCEPT !.nr_types = n, !.entries = e]
      BY <2>1
    <3> HIDE DEF e, n, q
    <3> QED BY <1>2, <3>1, <3>2 DEF Tables
  <2>4. q.result = "OK" /\ q.nr_types = nr + 1 /\ q.entries = table.entries \cup {nr + 1} /\ q.types_size = more
    BY <2>1 DEF Tables
  <2> HIDE DEF q
  <2> QED BY <2>2, <2>3, <2>4 DEF q
<1>5. CASE ~TableFull(table)
  <2>1. q = [table EXCEPT !.nr_types = nr + 1, !.entries = table.entries \cup {nr + 1}]
    BY <1>5 DEF AddType, Entry, Tables
  <2>2. nr + 1 < size
    BY <1>1, <1>5 DEF TableFull
  <2>3. q \in Tables
    <3> DEFINE e == table.entries \cup {nr + 1}
               n == nr + 1
    <3>1. e \in SUBSET Nat /\ n \in Nat
      BY <1>1 DEF Tables
    <3>2. q = [table EXCEPT !.nr_types = n, !.entries = e]
      BY <2>1
    <3> HIDE DEF e, n, q
    <3> QED BY <3>1, <3>2 DEF Tables
  <2>4. q.result = "OK" /\ q.nr_types = nr + 1 /\ q.entries = table.entries \cup {nr + 1} /\ q.types_size = size
    BY <2>1 DEF Tables
  <2> HIDE DEF q
  <2> QED BY <2>2, <2>3, <2>4 DEF q
<1> QED BY <1>3, <1>4, <1>5

\* The tables that hold every type they count.
Sound(table) == /\ table.entries = 1..table.nr_types
                /\ table.nr_types = 0 \/ table.nr_types < table.types_size

SoundTables == {table \in Tables : Sound(table)}

\* The table before the first type.
LEMMA NoneSound == NoTypes \in SoundTables
<1>1. NoTypes \in Tables
  BY BtfAssumption DEF NoTypes, Tables
<1>2. Sound(NoTypes)
  BY DEF Sound, NoTypes
<1> QED BY <1>1, <1>2 DEF SoundTables

\* Adding a type keeps the table sound.
LEMMA StepSound ==
  ASSUME NEW table \in SoundTables, NEW t
  PROVE  /\ StepType(table, t) \in SoundTables
         /\ table.result = "OK" /\ t.kind \in Kinds =>
              LET q == StepType(table, t)
              IN  /\ q.result \in {"OK", "E2BIG"}
                  /\ q.nr_types = IF q.result = "OK" THEN table.nr_types + 1 ELSE table.nr_types
                  /\ q.result = "E2BIG" => table.nr_types = MaxTypes - 1
         /\ table.result # "OK" => StepType(table, t) = table
<1> DEFINE q == AddType(table)
<1>1. table \in Tables /\ Sound(table) /\ table.nr_types \in Nat
  BY DEF SoundTables, Tables
<1>2. CASE table.result # "OK"
  BY <1>2 DEF StepType
<1>3. CASE table.result = "OK" /\ t.kind \notin Kinds
  <2>1. StepType(table, t) = [table EXCEPT !.result = "EINVAL"]
    BY <1>3 DEF StepType
  <2>2. [table EXCEPT !.result = "EINVAL"] \in SoundTables
    BY <1>1 DEF SoundTables, Sound, Tables
  <2> QED BY <1>3, <2>1, <2>2
<1>4. CASE table.result = "OK" /\ t.kind \in Kinds
  <2>1. StepType(table, t) = q
    BY <1>4 DEF StepType
  <2>2. /\ q \in Tables /\ q.result \in {"OK", "E2BIG"}
        /\ q.result = "E2BIG" => /\ table.nr_types = MaxTypes - 1
                                 /\ q.types_size = table.types_size
                                 /\ q.nr_types = table.nr_types /\ q.entries = table.entries
        /\ q.result = "OK" => /\ q.nr_types = table.nr_types + 1
                              /\ q.entries = table.entries \cup {table.nr_types + 1}
                              /\ q.nr_types < q.types_size
    <3> HIDE DEF q
    <3> QED BY <1>1, <1>4, Adding DEF q, Sound
  <2> HIDE DEF q
  <2>3. q.result = "OK" => Sound(q)
    <3>1. (1..table.nr_types) \cup {table.nr_types + 1} = 1..(table.nr_types + 1)
      BY <1>1
    <3> QED BY <1>1, <2>2, <3>1 DEF Sound
  <2>4. q.result = "E2BIG" => Sound(q)
    BY <1>1, <2>2 DEF Sound
  <2>5. q \in SoundTables
    BY <2>2, <2>3, <2>4 DEF SoundTables
  <2> QED BY <1>4, <2>1, <2>2, <2>5
<1> QED BY <1>2, <1>3, <1>4

TypesAddedBy(r, types) ==
  /\ r[0] = NoTypes
  /\ \A i \in 1..Len(types) : r[i] = StepType(r[i - 1], types[i])
  /\ ParseTypes(types) = r[Len(types)]

\* There is such a function.
LEMMA TypesAdded ==
  ASSUME NEW types \in Seq(Types)
  PROVE  \E r : TypesAddedBy(r, types)
<1> DEFINE n == Len(types)
           G == [x \in (1..n) \X SoundTables |-> StepType(x[2], types[x[1]])]
           P(f) == f = [s \in SUBSET (1..n) |-> IF s = {} THEN NoTypes
                                                ELSE StepType(f[s \ {Max(s)}], types[Max(s)])]
           f == CHOOSE f : P(f)
           r == [i \in 0..n |-> f[1..i]]
<1>1. n \in Nat /\ DOMAIN types = 1..n
  OBVIOUS
<1>2. \A i \in 1..n, p \in SoundTables :
        G[<<i, p>>] = StepType(p, types[i]) /\ G[<<i, p>>] \in SoundTables
  <2>1. \A i \in 1..n, p \in SoundTables : <<i, p>> \in (1..n) \X SoundTables
    OBVIOUS
  <2> QED BY <1>1, <2>1, StepSound
<1>3. PICK g \in [SUBSET (1..n) -> SoundTables] : LeftBy(g, n, SoundTables, NoTypes, G)
  <2>1. NoTypes \in SoundTables
    BY NoneSound
  <2> HIDE DEF n, G
  <2> QED BY <1>1, <1>2, <2>1, LeftExists
<1>4. P(g)
  <2> HIDE DEF n, G
  <2> QED BY <1>2, <1>3 DEF LeftBy
<1>5. P(f)
  <2> HIDE DEF P
  <2> QED BY <1>4
<1>6. ParseTypes(types) = f[1..n]
  BY <1>1 DEF ParseTypes, FoldLeft, MapThenFoldSet, StepType
<1> HIDE DEF f
<1>7. \A i \in 0..n : r[i] = f[1..i]
  OBVIOUS
<1>8. r[0] = NoTypes
  <2>1. f[{}] = NoTypes
    BY <1>5
  <2> QED BY <1>1, <1>7, <2>1, PrefixSets
<1>9. ASSUME NEW i \in 1..n PROVE r[i] = StepType(r[i - 1], types[i])
  <2>1. 1..i \in SUBSET (1..n) /\ i \in 0..n /\ i - 1 \in 0..n
    BY <1>1
  <2>2. 1..i # {} /\ Max(1..i) = i /\ (1..i) \ {i} = 1..(i - 1)
    BY <1>1, PrefixSets
  <2>3. f[1..i] = StepType(f[1..(i - 1)], types[i])
    <3> HIDE DEF n, r
    <3> QED BY <1>5, <2>1, <2>2
  <2> QED BY <1>7, <2>1, <2>3
<1>10. TypesAddedBy(r, types)
  <2> HIDE DEF r
  <2> QED BY <1>1, <1>6, <1>7, <1>8, <1>9 DEF TypesAddedBy
<1> QED BY <1>10

\* The table of types after any number of them; the type one too many is
\* refused, and nothing changes after it.
LEMMA TypesCounted ==
  ASSUME NEW types \in Seq(Types), \A i \in DOMAIN types : types[i].kind \in Kinds
  PROVE  LET t == ParseTypes(types)
             n == Len(types)
         IN  /\ t \in SoundTables /\ t.result \in {"OK", "E2BIG"}
             /\ t.nr_types = IF n < MaxTypes THEN n ELSE MaxTypes - 1
             /\ t.result = "E2BIG" <=> n >= MaxTypes
<1> PICK r : TypesAddedBy(r, types)
  BY TypesAdded
<1> DEFINE n == Len(types)
           Right(i) == /\ r[i] \in SoundTables /\ r[i].result \in {"OK", "E2BIG"}
                       /\ r[i].nr_types = IF i < MaxTypes THEN i ELSE MaxTypes - 1
                       /\ r[i].result = "E2BIG" <=> i >= MaxTypes
           A == {i \in Nat : i <= n => Right(i)}
<1>0. MaxTypes \in Nat /\ MaxTypes >= 2 /\ n \in Nat
  BY BtfAssumption
<1>1. 0 \in A
  <2>1. NoTypes \in SoundTables
    BY NoneSound
  <2> QED BY <1>0, <2>1 DEF TypesAddedBy, NoTypes
<1>2. ASSUME NEW i \in Nat, i \in A PROVE i + 1 \in A
  <2> SUFFICES ASSUME i + 1 <= n PROVE Right(i + 1)
    OBVIOUS
  <2>1. Right(i) /\ i + 1 \in 1..n /\ types[i + 1].kind \in Kinds
    BY <1>0, <1>2
  <2>2. r[i + 1] = StepType(r[i], types[i + 1])
    BY <2>1 DEF TypesAddedBy
  <2>3. r[i + 1] \in SoundTables /\ r[i + 1].nr_types \in Nat /\ r[i + 1].nr_types < MaxTypes
    <3>1. r[i + 1] \in SoundTables
      BY <2>1, <2>2, StepSound
    <3> QED BY <1>0, <3>1 DEF SoundTables, Tables, Sound
  <2>4. CASE r[i].result = "OK"
    <3>1. /\ r[i + 1].result \in {"OK", "E2BIG"}
          /\ r[i + 1].nr_types = IF r[i + 1].result = "OK" THEN r[i].nr_types + 1 ELSE r[i].nr_types
          /\ r[i + 1].result = "E2BIG" => r[i].nr_types = MaxTypes - 1
      <4> DEFINE t == types[i + 1]
      <4>1. r[i] \in SoundTables /\ t.kind \in Kinds /\ r[i + 1] = StepType(r[i], t)
        BY <2>1, <2>2
      <4> HIDE DEF t, A, Right, n
      <4> QED BY <2>4, <4>1, StepSound, SMTT(30)
    <3>2. i < MaxTypes /\ r[i].nr_types = i
      BY <1>0, <2>1, <2>4
    <3> QED BY <1>0, <2>3, <3>1, <3>2
  <2>5. CASE r[i].result # "OK"
    <3>1. r[i + 1] = r[i]
      BY <2>1, <2>2, <2>5, StepSound
    <3>2. i >= MaxTypes /\ r[i].result = "E2BIG" /\ r[i].nr_types = MaxTypes - 1
      BY <1>0, <2>1, <2>5
    <3> QED BY <1>0, <2>3, <3>1, <3>2
  <2> QED BY <2>4, <2>5
<1>3. Right(n)
  <2> HIDE DEF A
  <2>1. n \in A
    BY <1>0, <1>1, <1>2, NatInduct
  <2> QED BY <1>0, <2>1 DEF A
<1>4. ParseTypes(types) = r[n]
  BY DEF TypesAddedBy
<1> HIDE DEF n
<1> QED BY <1>3, <1>4 DEF n

\* The table of types is in bounds and complete for any limits and any number
\* of types.
THEOREM TableFits == LibSpec => []BtfTableFits
<1>1. ItemsInv => BtfTableFits
  <2> SUFFICES ASSUME ItemsInv, part = "types", \A i \in DOMAIN items : items[i].kind \in Kinds
               PROVE  LET t == ParseTypes(items)
                      IN  /\ t.entries = 1..t.nr_types
                          /\ \A n \in t.entries : n < t.types_size
                          /\ t.types_size <= MaxTypes
                          /\ t.nr_types = Min({Len(items), MaxTypes - 1})
                          /\ t.result = "E2BIG" <=> Len(items) >= MaxTypes
    BY DEF BtfTableFits
  <2> DEFINE t == ParseTypes(items)
             n == Len(items)
  <2>1. items \in Seq(Types) /\ n \in Nat
    BY InputOf
  <2>2. /\ t \in SoundTables /\ t.result \in {"OK", "E2BIG"}
        /\ t.nr_types = IF n < MaxTypes THEN n ELSE MaxTypes - 1
        /\ t.result = "E2BIG" <=> n >= MaxTypes
    <3> HIDE DEF t, n
    <3> QED BY <2>1, TypesCounted DEF t, n
  <2>3. Min({n, MaxTypes - 1}) = IF n <= MaxTypes - 1 THEN n ELSE MaxTypes - 1
    <3>1. MaxTypes - 1 \in Nat
      BY BtfAssumption
    <3> HIDE DEF n
    <3> QED BY <2>1, <3>1, OfTwo
  <2>4. t.nr_types = Min({n, MaxTypes - 1})
    <3> HIDE DEF t, n
    <3> QED BY <2>1, <2>2, <2>3, BtfAssumption
  <2> HIDE DEF t
  <2>5. /\ t.entries = 1..t.nr_types
        /\ \A k \in t.entries : k < t.types_size
        /\ t.types_size <= MaxTypes
    BY <2>2, BtfAssumption DEF SoundTables, Tables, Sound
  <2> QED BY <2>2, <2>4, <2>5 DEF t
<1> QED BY <1>1, ItemsTyped, PTL

-----------------------------------------------------------------------------
(***************************************************************************)
(* The size of a type.                                                     *)
(***************************************************************************)
\* The checks before each multiplication are right.
LEMMA ExceedsMeans ==
  ASSUME NEW a \in Nat, NEW b \in Nat
  PROVE  /\ Exceeds(a, b) <=> a * b > UintMax
         /\ ~Exceeds(a, b) => (a * b) % (UintMax + 1) = a * b
<1>1. UintMax \in Nat
  BY BtfAssumption
<1>2. ASSUME NEW u \in Nat, a # 0 PROVE b > u \div a <=> a * b > u
  BY <1>2
<1>3. ASSUME NEW u \in Nat, NEW x \in 0..u PROVE x % (u + 1) = x
  BY <1>3
<1>4. a * b \in Nat /\ (a = 0 => a * b = 0)
  BY TimesNat
<1>5. Exceeds(a, b) <=> a * b > UintMax
  <2>1. CASE a = 0
    BY <1>1, <1>4, <2>1 DEF Exceeds
  <2>2. CASE a # 0
    BY <1>1, <1>2, <2>2 DEF Exceeds
  <2> QED BY <2>1, <2>2
<1>6. ~Exceeds(a, b) => a * b \in 0..UintMax
  <2> DEFINE ab == a * b
  <2>1. ab \in Nat /\ (Exceeds(a, b) <=> ab > UintMax)
    BY <1>4, <1>5
  <2> HIDE DEF ab
  <2>2. ~Exceeds(a, b) => ab \in 0..UintMax
    BY <1>1, <2>1
  <2> QED BY <2>2 DEF ab
<1> QED BY <1>1, <1>3, <1>5, <1>6

\* A type has a size or none.
LEMMA TypeSizeTyped == \A t \in Types : TypeSize(t) \in Nat \cup {-1}
BY BtfAssumption DEF TypeSize, Sized, PtrSize

Runs == [id : Nat, nelems : 0..UintMax, size : Nat, result : {"go", "OK", "E2BIG"}]

\* Not a type to look into, and one with a size of its own.
Void(types, id)  == IsVoidOrNull(types, id)
Ended(types, id) == ~Void(types, id) /\ TypeSize(types[id]) >= 0

\* A number that is not void leads to a type.
LEMMA Looked ==
  ASSUME NEW types \in Seq(Types), NEW id \in Nat, ~Void(types, id)
  PROVE  id \in 1..Len(types) /\ types[id] \in Types
BY DEF Void, IsVoidOrNull

\* One step, with the words of the checks replaced by what they mean.
LEMMA Resolving ==
  ASSUME NEW types \in Seq(Types), NEW run \in Runs, run.result = "go", ~Void(types, run.id),
         types[run.id].kind \in Kinds
  PROVE  LET t == types[run.id]
             q == ResolveStep(types, run)
             by == IF t.kind = "ARRAY" THEN t.nelems ELSE IF TypeSize(t) >= 0 THEN TypeSize(t) ELSE 1
         IN  /\ by \in Nat
             /\ run.nelems * by > UintMax => q = [run EXCEPT !.result = "E2BIG"]
             /\ run.nelems * by <= UintMax /\ Ended(types, run.id) =>
                  q = [run EXCEPT !.result = "OK", !.size = run.nelems * by]
             /\ run.nelems * by <= UintMax /\ ~Ended(types, run.id) =>
                  q = [run EXCEPT !.id = t.type, !.nelems = run.nelems * by]
<1> DEFINE t == types[run.id]
           q == ResolveStep(types, run)
           by == IF t.kind = "ARRAY" THEN t.nelems ELSE IF TypeSize(t) >= 0 THEN TypeSize(t) ELSE 1
           nelems == run.nelems
           ended == Ended(types, run.id)
           Done == /\ by \in Nat
                   /\ nelems * by > UintMax => q = [run EXCEPT !.result = "E2BIG"]
                   /\ nelems * by <= UintMax /\ ended =>
                        q = [run EXCEPT !.result = "OK", !.size = nelems * by]
                   /\ nelems * by <= UintMax /\ ~ended =>
                        q = [run EXCEPT !.id = t.type, !.nelems = nelems * by]
<1>1. t \in Types /\ nelems \in 0..UintMax /\ nelems \in Nat /\ UintMax \in Nat
  BY Looked, BtfAssumption DEF Runs
<1>2. TypeSize(t) \in Nat \cup {-1} /\ t.nelems \in Nat /\ t.type \in Nat
  BY <1>1, TypeSizeTyped, BtfAssumption
<1>3. by \in Nat
  <2> HIDE DEF t
  <2> QED BY <1>2
<1>4. nelems * by \in Nat
  <2> HIDE DEF by
  <2> QED BY <1>1, <1>3, TimesNat
<1>5. /\ Exceeds(nelems, by) <=> nelems * by > UintMax
      /\ ~Exceeds(nelems, by) => (nelems * by) % (UintMax + 1) = nelems * by
  <2> HIDE DEF by, nelems
  <2> QED BY <1>1, <1>3, ExceedsMeans
<1>6. t.kind = "ARRAY" => TypeSize(t) = -1
  BY DEF TypeSize, Sized
<1>7. Ended(types, run.id) <=> TypeSize(t) >= 0
  BY DEF Ended
<1>8. ASSUME ended PROVE Done
  <2>1. q = IF Exceeds(nelems, TypeSize(t)) THEN [run EXCEPT !.result = "E2BIG"]
            ELSE [run EXCEPT !.result = "OK", !.size = nelems * TypeSize(t)]
    BY <1>7, <1>8 DEF ResolveStep, Void
  <2>2. by = TypeSize(t)
    <3> HIDE DEF t
    <3> QED BY <1>2, <1>6, <1>7, <1>8
  <2> HIDE DEF by, q, t, nelems, ended
  <2>3. ~(nelems * by > UintMax /\ nelems * by <= UintMax)
    BY <1>1, <1>4
  <2> QED BY <1>3, <1>4, <1>5, <1>8, <2>1, <2>2, <2>3
<1>9. ASSUME ~ended, t.kind \in Modifiers PROVE Done
  <2>1. q = [run EXCEPT !.id = t.type]
    BY <1>7, <1>9 DEF ResolveStep, Void
  <2>2. by = 1 /\ TypeSize(t) = -1 /\ t.kind # "ARRAY"
    BY <1>2, <1>7, <1>9 DEF Modifiers
  <2>3. nelems * by = nelems
    BY <1>1, <2>2
  <2>4. [run EXCEPT !.id = t.type] = [run EXCEPT !.id = t.type, !.nelems = nelems]
    BY DEF Runs
  <2> HIDE DEF by, q, t, nelems, ended
  <2>5. ~(nelems * by > UintMax)
    BY <1>1, <2>3
  <2> QED BY <1>3, <1>9, <2>1, <2>3, <2>4, <2>5
<1>10. ASSUME ~ended, t.kind \notin Modifiers PROVE Done
  <2>1. t.kind = "ARRAY"
    <3>1. t.kind \notin Sized /\ t.kind # "PTR"
      BY <1>1, <1>2, <1>7, <1>10, BtfAssumption DEF TypeSize, PtrSize, Sized
    <3>2. t.kind # "FWD"
      BY DEF Void, IsVoidOrNull
    <3> QED BY <1>10, <3>1, <3>2 DEF Kinds
  <2>2. by = t.nelems
    BY <2>1
  <2>3. q = IF Exceeds(nelems, t.nelems) THEN [run EXCEPT !.result = "E2BIG"]
            ELSE [run EXCEPT !.id = t.type, !.nelems = (nelems * t.nelems) % (UintMax + 1)]
    BY <1>7, <1>10 DEF ResolveStep, Void
  <2> HIDE DEF by, q, t, nelems, ended
  <2>4. ~(nelems * by > UintMax /\ nelems * by <= UintMax)
    BY <1>1, <1>4
  <2> QED BY <1>3, <1>4, <1>5, <1>10, <2>2, <2>3, <2>4
<1> HIDE DEF Done
<1>11. Done
  BY <1>8, <1>9, <1>10
<1> QED BY <1>11 DEF Done

Known(types) == \A i \in DOMAIN types : types[i].kind \in Kinds

\* A step of btf__resolve_size keeps the types, and rests at the end.
LEMMA ResolveTyped ==
  ASSUME NEW types \in Seq(Types), Known(types), NEW run \in Runs
  PROVE  /\ ResolveStep(types, run) \in Runs
         /\ run.result # "go" \/ Void(types, run.id) => ResolveStep(types, run) = run
<1>1. run.result # "go" \/ Void(types, run.id) => ResolveStep(types, run) = run
  BY DEF ResolveStep, Void
<1>2. CASE run.result = "go" /\ ~Void(types, run.id)
  <2> DEFINE t == types[run.id]
             q == ResolveStep(types, run)
             by == IF t.kind = "ARRAY" THEN t.nelems ELSE IF TypeSize(t) >= 0 THEN TypeSize(t) ELSE 1
             x == run.nelems * by
  <2>1. run.id \in Nat /\ run.nelems \in 0..UintMax
    BY DEF Runs
  <2>2. run.id \in DOMAIN types /\ t \in Types
    BY <1>2, <2>1, Looked
  <2>3. t.kind \in Kinds /\ t.type \in Nat
    BY <2>2, BtfAssumption DEF Known
  <2>4. /\ by \in Nat
        /\ x > UintMax => q = [run EXCEPT !.result = "E2BIG"]
        /\ x <= UintMax /\ Ended(types, run.id) => q = [run EXCEPT !.result = "OK", !.size = x]
        /\ x <= UintMax /\ ~Ended(types, run.id) => q = [run EXCEPT !.id = t.type, !.nelems = x]
    <3> HIDE DEF q, by
    <3> QED BY <1>2, <2>3, Resolving DEF q, by
  <2> HIDE DEF q, by, t
  <2>5. x \in Nat /\ UintMax \in Nat
    BY <2>1, <2>4, TimesNat, BtfAssumption
  <2> HIDE DEF x
  <2>6. x > UintMax \/ (x \in 0..UintMax /\ x <= UintMax)
    BY <2>5
  <2>7. q \in Runs
    BY <2>3, <2>4, <2>5, <2>6 DEF Runs
  <2> QED BY <1>2, <2>7 DEF q
<1> QED BY <1>1, <1>2

Start(id) == [id |-> id, nelems |-> 1, size |-> 0, result |-> "go"]
Run(types, id) == FoldLeft(LAMBDA r, i : ResolveStep(types, r), Start(id), [i \in 1..ResolveDepth |-> i])

\* The steps of the loop.
RanBy(r, types, id) ==
  /\ r[0] = Start(id)
  /\ \A i \in 1..ResolveDepth : r[i] = ResolveStep(types, r[i - 1])
  /\ Run(types, id) = r[ResolveDepth]

\* There is such a function.
LEMMA Ran ==
  ASSUME NEW types \in Seq(Types),
         Known(types),
         NEW id \in Nat
  PROVE  \E r : RanBy(r, types, id)
<1> DEFINE n == ResolveDepth
           G == [x \in (1..n) \X Runs |-> ResolveStep(types, x[2])]
           P(f) == f = [s \in SUBSET (1..n) |-> IF s = {} THEN Start(id)
                                                ELSE ResolveStep(types, f[s \ {Max(s)}])]
           f == CHOOSE f : P(f)
           r == [i \in 0..n |-> f[1..i]]
<1>1. n \in Nat
  BY BtfAssumption
<1>2. \A i \in 1..n, p \in Runs : G[<<i, p>>] = ResolveStep(types, p) /\ G[<<i, p>>] \in Runs
  <2>1. \A i \in 1..n, p \in Runs : <<i, p>> \in (1..n) \X Runs
    OBVIOUS
  <2>2. \A i \in 1..n, p \in Runs : ResolveStep(types, p) \in Runs
    BY ResolveTyped
  <2> HIDE DEF n
  <2> QED BY <2>1, <2>2
<1>3. PICK g \in [SUBSET (1..n) -> Runs] : LeftBy(g, n, Runs, Start(id), G)
  <2>1. Start(id) \in Runs
    BY BtfAssumption DEF Start, Runs
  <2> HIDE DEF n, G
  <2> QED BY <1>1, <1>2, <2>1, LeftExists
<1>4. P(g)
  <2> HIDE DEF n, G
  <2> QED BY <1>2, <1>3 DEF LeftBy
<1>5. P(f)
  <2> HIDE DEF P
  <2> QED BY <1>4
<1>6. Run(types, id) = f[1..n]
  BY <1>1 DEF Run, FoldLeft, MapThenFoldSet, Start
<1> HIDE DEF f
<1>7. \A i \in 0..n : r[i] = f[1..i]
  OBVIOUS
<1>8. r[0] = Start(id)
  <2>1. f[{}] = Start(id)
    BY <1>5
  <2> QED BY <1>1, <1>7, <2>1, PrefixSets
<1>9. ASSUME NEW i \in 1..n PROVE r[i] = ResolveStep(types, r[i - 1])
  <2>1. 1..i \in SUBSET (1..n) /\ i \in 0..n /\ i - 1 \in 0..n
    BY <1>1
  <2>2. 1..i # {} /\ Max(1..i) = i /\ (1..i) \ {i} = 1..(i - 1)
    BY <1>1, PrefixSets
  <2>3. f[1..i] = ResolveStep(types, f[1..(i - 1)])
    <3> HIDE DEF n, r
    <3> QED BY <1>5, <2>1, <2>2
  <2> QED BY <1>7, <2>1, <2>3
<1>10. RanBy(r, types, id)
  <2> HIDE DEF r
  <2> QED BY <1>1, <1>6, <1>7, <1>8, <1>9 DEF RanBy
<1> QED BY <1>10

\* The types from one on, as many as the depth allows.
NextId(types, id) == IF Void(types, id) \/ TypeSize(types[id]) >= 0 THEN 0 ELSE types[id].type
Walk(types, id) == FoldLeft(LAMBDA c, i : Append(c, NextId(types, Last(c))), <<id>>,
                            [i \in 1..(ResolveDepth - 1) |-> i])
Walks == Seq(Nat) \ {<<>>}

\* The next number is a number.
LEMMA NextNat ==
  ASSUME NEW types \in Seq(Types), NEW x \in Nat
  PROVE  NextId(types, x) \in Nat
BY Looked, BtfAssumption DEF NextId

\* The walk grows by numbers.
LEMMA NextTyped ==
  ASSUME NEW types \in Seq(Types), NEW c \in Walks
  PROVE  /\ Append(c, NextId(types, Last(c))) \in Walks
         /\ Last(c) = c[Len(c)]
<1>1. Last(c) \in Nat
  BY DEF Walks, Last
<1>2. NextId(types, Last(c)) \in Nat
  BY <1>1, NextNat
<1> QED BY <1>2, SMTT(30) DEF Walks, Last

\* It grows by one type at a time.
WalkedBy(r, types, id) ==
  /\ r[0] = <<id>>
  /\ \A i \in 1..(ResolveDepth - 1) : r[i] = Append(r[i - 1], NextId(types, Last(r[i - 1])))
  /\ Walk(types, id) = r[ResolveDepth - 1]

\* There is such a function.
LEMMA Walked ==
  ASSUME NEW types \in Seq(Types),
         NEW id \in Nat
  PROVE  \E r : WalkedBy(r, types, id)
<1> DEFINE n == ResolveDepth - 1
           G == [x \in (1..n) \X Walks |-> Append(x[2], NextId(types, Last(x[2])))]
           P(f) == f = [s \in SUBSET (1..n) |-> IF s = {} THEN <<id>>
                                                ELSE Append(f[s \ {Max(s)}], NextId(types, Last(f[s \ {Max(s)}])))]
           f == CHOOSE f : P(f)
           r == [i \in 0..n |-> f[1..i]]
<1>1. n \in Nat
  BY BtfAssumption
<1>2. \A i \in 1..n, p \in Walks : G[<<i, p>>] = Append(p, NextId(types, Last(p))) /\ G[<<i, p>>] \in Walks
  <2>1. \A i \in 1..n, p \in Walks : <<i, p>> \in (1..n) \X Walks
    OBVIOUS
  <2>2. \A i \in 1..n, p \in Walks : Append(p, NextId(types, Last(p))) \in Walks
    BY NextTyped
  <2> HIDE DEF n
  <2> QED BY <2>1, <2>2
<1>3. PICK g \in [SUBSET (1..n) -> Walks] : LeftBy(g, n, Walks, <<id>>, G)
  <2>1. <<id>> \in Walks
    BY DEF Walks
  <2> HIDE DEF n, G
  <2> QED BY <1>1, <1>2, <2>1, LeftExists
<1>4. P(g)
  <2> HIDE DEF n, G
  <2> QED BY <1>2, <1>3 DEF LeftBy
<1>5. P(f)
  <2> HIDE DEF P
  <2> QED BY <1>4
<1>6. Walk(types, id) = f[1..n]
  BY <1>1 DEF Walk, FoldLeft, MapThenFoldSet
<1> HIDE DEF f
<1>7. \A i \in 0..n : r[i] = f[1..i]
  OBVIOUS
<1>8. r[0] = <<id>>
  <2>1. f[{}] = <<id>>
    BY <1>5
  <2> QED BY <1>1, <1>7, <2>1, PrefixSets
<1>9. ASSUME NEW i \in 1..n PROVE r[i] = Append(r[i - 1], NextId(types, Last(r[i - 1])))
  <2>1. 1..i \in SUBSET (1..n) /\ i \in 0..n /\ i - 1 \in 0..n
    BY <1>1
  <2>2. 1..i # {} /\ Max(1..i) = i /\ (1..i) \ {i} = 1..(i - 1)
    BY <1>1, PrefixSets
  <2>3. f[1..i] = Append(f[1..(i - 1)], NextId(types, Last(f[1..(i - 1)])))
    <3> HIDE DEF n, r
    <3> QED BY <1>5, <2>1, <2>2
  <2> QED BY <1>7, <2>1, <2>3
<1>10. WalkedBy(r, types, id)
  <2> HIDE DEF r
  <2> QED BY <1>1, <1>6, <1>7, <1>8, <1>9 DEF WalkedBy
<1> QED BY <1>10

\* What that sequence is.
LEMMA WalkIs ==
  ASSUME NEW types \in Seq(Types), NEW id \in Nat
  PROVE  LET w == Walk(types, id)
         IN  /\ w \in Seq(Nat) /\ Len(w) = ResolveDepth /\ w[1] = id
             /\ \A j \in 1..(ResolveDepth - 1) : w[j + 1] = NextId(types, w[j])
<1> PICK r : WalkedBy(r, types, id)
  BY Walked
<1> DEFINE n == ResolveDepth - 1
           Right(i) == /\ r[i] \in Walks /\ Len(r[i]) = i + 1 /\ r[i][1] = id
                       /\ \A j \in 1..i : r[i][j + 1] = NextId(types, r[i][j])
           A == {i \in Nat : i <= n => Right(i)}
<1>0. n \in Nat
  BY BtfAssumption
<1>1. 0 \in A
  <2>1. r[0] = <<id>>
    BY DEF WalkedBy
  <2>2. <<id>> \in Walks /\ Len(<<id>>) = 1 /\ <<id>>[1] = id
    BY DEF Walks
  <2> QED BY <2>1, <2>2
<1>2. ASSUME NEW i \in Nat, i \in A PROVE i + 1 \in A
  <2> SUFFICES ASSUME i + 1 <= n PROVE Right(i + 1)
    OBVIOUS
  <2> DEFINE c == r[i]
             x == NextId(types, Last(c))
  <2>1. Right(i) /\ i + 1 \in 1..n
    BY <1>0, <1>2
  <2>2. r[i + 1] = Append(c, x)
    BY <2>1 DEF WalkedBy
  <2>3. c \in Walks /\ Len(c) = i + 1 /\ c[1] = id /\ c \in Seq(Nat)
    BY <2>1 DEF Walks
  <2>4. Append(c, x) \in Walks /\ x = NextId(types, c[i + 1])
    BY <2>3, NextTyped
  <2>5. x \in Nat
    <3>1. c[i + 1] \in Nat
      BY <2>3
    <3> QED BY <2>4, <3>1, NextNat
  <2>6. \A j \in 1..i : c[j + 1] = NextId(types, c[j])
    BY <2>1
  <2> HIDE DEF c, x, n, A
  <2>7. Len(Append(c, x)) = i + 2 /\ \A j \in 1..(i + 1) : Append(c, x)[j] = c[j]
    BY <2>3, <2>5
  <2>8. Append(c, x)[i + 2] = x
    BY <2>3, <2>5
  <2>9. ASSUME NEW j \in 1..(i + 1) PROVE Append(c, x)[j + 1] = NextId(types, Append(c, x)[j])
    <3>1. CASE j \in 1..i
      <4>1. j + 1 \in 1..(i + 1)
        BY <3>1
      <4> QED BY <2>6, <2>7, <3>1, <4>1
    <3>2. CASE j = i + 1
      BY <2>4, <2>7, <2>8, <3>2
    <3>3. j \in 1..i \/ j = i + 1
      OBVIOUS
    <3> QED BY <3>1, <3>2, <3>3
  <2> QED BY <2>2, <2>3, <2>4, <2>7, <2>9
<1>3. Right(n)
  <2> HIDE DEF A
  <2>1. n \in A
    BY <1>0, <1>1, <1>2, NatInduct
  <2> QED BY <1>0, <2>1 DEF A
<1>4. Walk(types, id) = r[n]
  BY DEF WalkedBy
<1>5. n + 1 = ResolveDepth
  BY BtfAssumption
<1>6. r[n] \in Seq(Nat)
  BY <1>3 DEF Walks
<1> HIDE DEF n
<1> QED BY <1>3, <1>4, <1>5, <1>6 DEF n

\* The walk goes through numbers.
LEMMA WalkTyped ==
  ASSUME NEW types \in Seq(Types), NEW id \in Nat, NEW j \in 1..ResolveDepth
  PROVE  Walk(types, id)[j] \in Nat
<1> DEFINE w == Walk(types, id)
<1>1. w \in Seq(Nat) /\ Len(w) = ResolveDepth
  BY WalkIs
<1> HIDE DEF w
<1> QED BY <1>1 DEF w

\* What has no type to look into leads to nothing.
LEMMA VoidLasts ==
  ASSUME NEW types \in Seq(Types), NEW id \in Nat, NEW j \in 1..ResolveDepth,
         Void(types, Walk(types, id)[j])
  PROVE  \A k \in j..ResolveDepth : Void(types, Walk(types, id)[k])
<1> DEFINE w == Walk(types, id)
           A == {k \in Nat : j + k <= ResolveDepth => Void(types, w[j + k])}
<1>1. \A k \in 1..(ResolveDepth - 1) : w[k + 1] = NextId(types, w[k])
  BY WalkIs
<1> HIDE DEF w
<1>2. 0 \in A
  BY DEF w
<1>3. ASSUME NEW k \in Nat, k \in A PROVE k + 1 \in A
  <2> SUFFICES ASSUME j + (k + 1) <= ResolveDepth PROVE Void(types, w[j + (k + 1)])
    OBVIOUS
  <2>1. Void(types, w[j + k]) /\ j + k \in 1..(ResolveDepth - 1) /\ j + (k + 1) = (j + k) + 1
    BY <1>3, BtfAssumption
  <2>2. w[j + (k + 1)] = 0
    BY <1>1, <2>1 DEF NextId
  <2> QED BY <2>2 DEF Void, IsVoidOrNull
<1>4. \A k \in Nat : k \in A
  <2> HIDE DEF A
  <2> QED BY <1>2, <1>3, NatInduct
<1>5. ASSUME NEW k \in j..ResolveDepth PROVE Void(types, w[k])
  <2>1. k - j \in Nat /\ j + (k - j) = k /\ k <= ResolveDepth
    BY BtfAssumption
  <2> QED BY <1>4, <2>1
<1> QED BY <1>5 DEF w

\* How far the loop has come after i steps.
Follows(r, types, id, i) ==
  LET w == Walk(types, id)
  IN  /\ r[i] \in Runs
      /\ r[i].result = "go" =>
           /\ \A j \in 1..i : ~Ended(types, w[j])
           /\ i < ResolveDepth => \/ r[i].id = w[i + 1]
                                  \/ Void(types, r[i].id) /\ Void(types, w[i + 1])
      /\ r[i].result = "OK" => \E j \in 1..i : Ended(types, w[j])

\* btf__resolve_size follows the walk.
LEMMA RunFollows ==
  ASSUME NEW types \in Seq(Types), Known(types), NEW id \in Nat, NEW r, RanBy(r, types, id)
  PROVE  \A i \in 0..ResolveDepth : Follows(r, types, id, i)
<1> DEFINE w == Walk(types, id)
           A == {i \in Nat : i <= ResolveDepth => Follows(r, types, id, i)}
<1>0. ResolveDepth \in Nat /\ ResolveDepth >= 1 /\ UintMax \in Nat /\ 1 <= UintMax
  BY BtfAssumption
<1>w. w[1] = id /\ \A j \in 1..(ResolveDepth - 1) : w[j + 1] = NextId(types, w[j])
  BY WalkIs
<1>n. \A j \in 1..ResolveDepth : w[j] \in Nat
  BY WalkTyped
<1> HIDE DEF w
<1>1. 0 \in A
  <2>1. r[0] = Start(id)
    BY DEF RanBy
  <2>2. Start(id) \in Runs /\ Start(id).result = "go" /\ Start(id).id = id
    BY <1>0 DEF Start, Runs
  <2> QED BY <1>w, <2>1, <2>2 DEF Follows, w
<1>2. ASSUME NEW i \in Nat, i \in A PROVE i + 1 \in A
  <2> SUFFICES ASSUME i + 1 <= ResolveDepth PROVE Follows(r, types, id, i + 1)
    OBVIOUS
  <2> DEFINE a == r[i]
             b == r[i + 1]
             x == w[i + 1]
  <2>1. /\ a \in Runs
        /\ a.result = "go" => /\ \A j \in 1..i : ~Ended(types, w[j])
                              /\ a.id = x \/ (Void(types, a.id) /\ Void(types, x))
        /\ a.result = "OK" => \E j \in 1..i : Ended(types, w[j])
    BY <1>0, <1>2 DEF Follows, w
  <2>2. b = ResolveStep(types, a) /\ b \in Runs /\ x \in Nat
    <3>1. b = ResolveStep(types, a) /\ x \in Nat
      BY <1>0, <1>n DEF RanBy
    <3> HIDE DEF a, b
    <3> QED BY <2>1, <3>1, ResolveTyped
  <2>3. i + 1 < ResolveDepth => w[(i + 1) + 1] = NextId(types, x)
    BY <1>0, <1>w
  <2>4. \A j : j \in 1..(i + 1) <=> j \in 1..i \/ j = i + 1
    OBVIOUS
  <2> DEFINE Goal == /\ b.result = "go" =>
                          /\ \A j \in 1..i : ~Ended(types, w[j])
                          /\ ~Ended(types, x)
                          /\ i + 1 < ResolveDepth => \/ b.id = w[(i + 1) + 1]
                                                     \/ Void(types, b.id) /\ Void(types, w[(i + 1) + 1])
                     /\ b.result = "OK" => Ended(types, x) \/ \E j \in 1..i : Ended(types, w[j])
  <2> HIDE DEF a, b, x, A
  <2>5. ASSUME a.result # "go" PROVE Goal
    <3>1. b = a
      BY <2>1, <2>2, <2>5, ResolveTyped
    <3> QED BY <2>1, <2>5, <3>1
  <2>6. ASSUME a.result = "go", Void(types, a.id) PROVE Goal
    <3>1. b = a
      BY <2>1, <2>2, <2>6, ResolveTyped
    <3>2. Void(types, x) /\ ~Ended(types, x)
      BY <2>1, <2>6 DEF Ended
    <3>3. NextId(types, x) = 0 /\ Void(types, 0)
      BY <3>2 DEF NextId, Void, IsVoidOrNull
    <3> QED BY <2>1, <2>3, <2>6, <3>1, <3>2, <3>3
  <2>7. ASSUME a.result = "go", ~Void(types, a.id) PROVE Goal
    <3> DEFINE t  == types[x]
               by == IF t.kind = "ARRAY" THEN t.nelems ELSE IF TypeSize(t) >= 0 THEN TypeSize(t) ELSE 1
               y  == a.nelems * by
    <3>1. a.id = x /\ ~Void(types, x)
      BY <2>1, <2>7
    <3>2. t.kind \in Kinds /\ t \in Types
      BY <2>2, <3>1, Looked DEF Known
    <3>3. /\ y > UintMax => b = [a EXCEPT !.result = "E2BIG"]
          /\ y <= UintMax /\ Ended(types, x) => b = [a EXCEPT !.result = "OK", !.size = y]
          /\ y <= UintMax /\ ~Ended(types, x) => b = [a EXCEPT !.id = t.type, !.nelems = y]
          /\ by \in Nat
      <4> HIDE DEF by
      <4> QED BY <2>1, <2>2, <2>7, <3>1, <3>2, Resolving DEF by
    <3> HIDE DEF by, t
    <3>4. y > UintMax \/ y <= UintMax
      <4>1. a.nelems \in Nat
        BY <1>0, <2>1 DEF Runs
      <4>2. y \in Nat
        BY <3>3, <4>1, TimesNat
      <4> QED BY <1>0, <4>2
    <3> HIDE DEF y
    <3>5. CASE y > UintMax
      <4>1. b.result = "E2BIG"
        BY <2>1, <3>3, <3>5 DEF Runs
      <4> QED BY <4>1
    <3>6. CASE y <= UintMax /\ Ended(types, x)
      <4>1. b.result = "OK"
        BY <2>1, <3>3, <3>6 DEF Runs
      <4> QED BY <3>6, <4>1
    <3>7. CASE y <= UintMax /\ ~Ended(types, x)
      <4>1. b.result = "go" /\ b.id = t.type
        BY <2>1, <2>7, <3>3, <3>7 DEF Runs
      <4>2. NextId(types, x) = t.type
        BY <3>1, <3>7 DEF NextId, Ended, t
      <4> QED BY <2>1, <2>3, <2>7, <3>7, <4>1, <4>2
    <3> QED BY <3>4, <3>5, <3>6, <3>7
  <2>8. Goal
    <3> HIDE DEF Goal
    <3> QED BY <2>5, <2>6, <2>7
  <2> QED BY <2>2, <2>4, <2>8 DEF Follows, w, b, x
<1>3. \A i \in Nat : i \in A
  <2> HIDE DEF A
  <2> QED BY <1>1, <1>2, NatInduct
<1> QED BY <1>0, <1>3

\* The product of a sequence, and that of its members that are not zero.
Product(fs) == FoldLeft(LAMBDA p, f : p * f, 1, fs)
TimesUnlessZero(p, f) == IF f = 0 THEN p ELSE p * f
Nonzero(fs) == FoldLeft(LAMBDA p, f : IF f = 0 THEN p ELSE p * f, 1, fs)

\* Factor by factor.
MultipliedBy(r, fs) ==
  /\ r[0] = 1
  /\ \A i \in 1..Len(fs) : r[i] = (r[i - 1] * fs[i])
  /\ Product(fs) = r[Len(fs)]

\* There is such a function.
LEMMA Multiplied ==
  ASSUME NEW fs \in Seq(Nat)
  PROVE  \E r : MultipliedBy(r, fs)
<1> DEFINE n == Len(fs)
           G == [x \in (1..n) \X Nat |-> (x[2] * fs[x[1]])]
           P(f) == f = [s \in SUBSET (1..n) |-> IF s = {} THEN 1
                                                ELSE (f[s \ {Max(s)}] * fs[Max(s)])]
           f == CHOOSE f : P(f)
           r == [i \in 0..n |-> f[1..i]]
<1>1. n \in Nat /\ DOMAIN fs = 1..n
  OBVIOUS
<1>2. \A i \in 1..n, p \in Nat : G[<<i, p>>] = (p * fs[i]) /\ G[<<i, p>>] \in Nat
  <2>1. \A i \in 1..n, p \in Nat : <<i, p>> \in (1..n) \X Nat
    OBVIOUS
  <2>2. \A i \in 1..n, p \in Nat : (p * fs[i]) \in Nat
    BY TimesNat
  <2> HIDE DEF n
  <2> QED BY <2>1, <2>2
<1>3. PICK g \in [SUBSET (1..n) -> Nat] : LeftBy(g, n, Nat, 1, G)
  <2>1. 1 \in Nat
    OBVIOUS
  <2> HIDE DEF n, G
  <2> QED BY <1>1, <1>2, <2>1, LeftExists
<1>4. P(g)
  <2> HIDE DEF n, G
  <2> QED BY <1>2, <1>3 DEF LeftBy
<1>5. P(f)
  <2> HIDE DEF P
  <2> QED BY <1>4
<1>6. Product(fs) = f[1..n]
  BY <1>1 DEF Product, FoldLeft, MapThenFoldSet
<1> HIDE DEF f
<1>7. \A i \in 0..n : r[i] = f[1..i]
  OBVIOUS
<1>8. r[0] = 1
  <2>1. f[{}] = 1
    BY <1>5
  <2> QED BY <1>1, <1>7, <2>1, PrefixSets
<1>9. ASSUME NEW i \in 1..n PROVE r[i] = (r[i - 1] * fs[i])
  <2>1. 1..i \in SUBSET (1..n) /\ i \in 0..n /\ i - 1 \in 0..n
    BY <1>1
  <2>2. 1..i # {} /\ Max(1..i) = i /\ (1..i) \ {i} = 1..(i - 1)
    BY <1>1, PrefixSets
  <2>3. f[1..i] = (f[1..(i - 1)] * fs[i])
    <3> HIDE DEF n, r
    <3> QED BY <1>5, <2>1, <2>2
  <2> QED BY <1>7, <2>1, <2>3
<1>10. MultipliedBy(r, fs)
  <2> HIDE DEF r
  <2> QED BY <1>1, <1>6, <1>7, <1>8, <1>9 DEF MultipliedBy
<1> QED BY <1>10

\* Factor by factor.
NonzeroBy(r, fs) ==
  /\ r[0] = 1
  /\ \A i \in 1..Len(fs) : r[i] = TimesUnlessZero(r[i - 1], fs[i])
  /\ Nonzero(fs) = r[Len(fs)]

\* There is such a function.
LEMMA MultipliedNonzero ==
  ASSUME NEW fs \in Seq(Nat)
  PROVE  \E r : NonzeroBy(r, fs)
<1> DEFINE n == Len(fs)
           G == [x \in (1..n) \X Nat |-> TimesUnlessZero(x[2], fs[x[1]])]
           P(f) == f = [s \in SUBSET (1..n) |-> IF s = {} THEN 1
                                                ELSE TimesUnlessZero(f[s \ {Max(s)}], fs[Max(s)])]
           f == CHOOSE f : P(f)
           r == [i \in 0..n |-> f[1..i]]
<1>1. n \in Nat /\ DOMAIN fs = 1..n
  OBVIOUS
<1>2. \A i \in 1..n, p \in Nat : G[<<i, p>>] = TimesUnlessZero(p, fs[i]) /\ G[<<i, p>>] \in Nat
  <2>1. \A i \in 1..n, p \in Nat : <<i, p>> \in (1..n) \X Nat
    OBVIOUS
  <2>2. \A i \in 1..n, p \in Nat : TimesUnlessZero(p, fs[i]) \in Nat
    BY TimesNat DEF TimesUnlessZero
  <2> HIDE DEF n
  <2> QED BY <2>1, <2>2
<1>3. PICK g \in [SUBSET (1..n) -> Nat] : LeftBy(g, n, Nat, 1, G)
  <2>1. 1 \in Nat
    OBVIOUS
  <2> HIDE DEF n, G
  <2> QED BY <1>1, <1>2, <2>1, LeftExists
<1>4. P(g)
  <2> HIDE DEF n, G
  <2> QED BY <1>2, <1>3 DEF LeftBy
<1>5. P(f)
  <2> HIDE DEF P
  <2> QED BY <1>4
<1>6. Nonzero(fs) = f[1..n]
  BY <1>1 DEF Nonzero, TimesUnlessZero, FoldLeft, MapThenFoldSet
<1> HIDE DEF f
<1>7. \A i \in 0..n : r[i] = f[1..i]
  OBVIOUS
<1>8. r[0] = 1
  <2>1. f[{}] = 1
    BY <1>5
  <2> QED BY <1>1, <1>7, <2>1, PrefixSets
<1>9. ASSUME NEW i \in 1..n PROVE r[i] = TimesUnlessZero(r[i - 1], fs[i])
  <2>1. 1..i \in SUBSET (1..n) /\ i \in 0..n /\ i - 1 \in 0..n
    BY <1>1
  <2>2. 1..i # {} /\ Max(1..i) = i /\ (1..i) \ {i} = 1..(i - 1)
    BY <1>1, PrefixSets
  <2>3. f[1..i] = TimesUnlessZero(f[1..(i - 1)], fs[i])
    <3> HIDE DEF n, r
    <3> QED BY <1>5, <2>1, <2>2
  <2> QED BY <1>7, <2>1, <2>3
<1>10. NonzeroBy(r, fs)
  <2> HIDE DEF r
  <2> QED BY <1>1, <1>6, <1>7, <1>8, <1>9 DEF NonzeroBy
<1> QED BY <1>10

\* The product without zeros never falls, and is the product until one comes.
LEMMA ProductsGrow ==
  ASSUME NEW fs \in Seq(Nat), NEW p, MultipliedBy(p, fs), NEW z, NonzeroBy(z, fs)
  PROVE  /\ \A i \in 0..Len(fs) : /\ p[i] \in Nat /\ z[i] \in Nat
                                  /\ p[i] # 0 => z[i] = p[i]
         /\ \A i \in 0..Len(fs) : z[i] <= z[Len(fs)]
<1> DEFINE n == Len(fs)
           A == {i \in Nat : i <= n => /\ p[i] \in Nat /\ z[i] \in Nat
                                       /\ p[i] # 0 => z[i] = p[i]}
           B == {i \in Nat : i <= n => z[n - i] <= z[n]}
<1>0. n \in Nat /\ \A i \in 1..n : fs[i] \in Nat
  OBVIOUS
<1>1. p[0] = 1 /\ z[0] = 1 /\ \A i \in 1..n : p[i] = p[i - 1] * fs[i] /\ z[i] = TimesUnlessZero(z[i - 1], fs[i])
  BY DEF MultipliedBy, NonzeroBy
<1>p. \A a, b \in Nat : /\ a * b \in Nat
                        /\ a * b # 0 => a # 0 /\ b # 0
                        /\ b # 0 => a <= a * b
  OBVIOUS
<1> HIDE DEF n
<1>2. 0 \in A
  BY <1>1
<1>3. ASSUME NEW i \in Nat, i \in A PROVE i + 1 \in A
  <2> SUFFICES ASSUME i + 1 <= n PROVE /\ p[i + 1] \in Nat /\ z[i + 1] \in Nat
                                       /\ p[i + 1] # 0 => z[i + 1] = p[i + 1]
    OBVIOUS
  <2>1. /\ p[i] \in Nat /\ z[i] \in Nat /\ (p[i] # 0 => z[i] = p[i]) /\ fs[i + 1] \in Nat
        /\ p[i + 1] = p[i] * fs[i + 1] /\ z[i + 1] = TimesUnlessZero(z[i], fs[i + 1])
    <3>1. i + 1 \in 1..n /\ (i + 1) - 1 = i /\ i <= n
      BY <1>0
    <3> QED BY <1>0, <1>1, <1>3, <3>1
  <2>2. p[i + 1] \in Nat /\ z[i + 1] \in Nat
    <3>1. p[i + 1] \in Nat
      BY <1>p, <2>1
    <3>2. z[i] * fs[i + 1] \in Nat
      BY <1>p, <2>1
    <3> QED BY <2>1, <3>1, <3>2 DEF TimesUnlessZero
  <2>3. p[i + 1] # 0 => p[i] # 0 /\ fs[i + 1] # 0
    BY <1>p, <2>1
  <2> QED BY <2>1, <2>2, <2>3 DEF TimesUnlessZero
<1>4. \A i \in Nat : i \in A
  <2> HIDE DEF A
  <2> QED BY <1>2, <1>3, NatInduct
<1>5. \A i \in 0..n : z[i] \in Nat /\ p[i] \in Nat /\ (p[i] # 0 => z[i] = p[i])
  BY <1>0, <1>4
<1>6. 0 \in B
  BY <1>0, <1>5
<1>7. ASSUME NEW i \in Nat, i \in B PROVE i + 1 \in B
  <2> SUFFICES ASSUME i + 1 <= n PROVE z[n - (i + 1)] <= z[n]
    OBVIOUS
  <2>1. /\ n - i \in 1..n /\ (n - i) - 1 = n - (i + 1) /\ n - (i + 1) \in 0..n /\ i <= n /\ n \in 0..n
        /\ n - i \in 0..n
    BY <1>0
  <2>2. z[n - i] = TimesUnlessZero(z[n - (i + 1)], fs[n - i])
    BY <1>1, <2>1
  <2>3. z[n - (i + 1)] <= z[n - i]
    <3>1. z[n - (i + 1)] \in Nat /\ fs[n - i] \in Nat
      BY <1>0, <1>5, <2>1
    <3> QED BY <1>p, <2>2, <3>1, SMTT(30) DEF TimesUnlessZero
  <2>4. z[n - i] <= z[n]
    BY <1>7, <2>1
  <2>5. z[n - (i + 1)] \in Nat /\ z[n - i] \in Nat /\ z[n] \in Nat
    BY <1>5, <2>1
  <2> QED BY <2>3, <2>4, <2>5
<1>8. \A i \in Nat : i \in B
  <2> HIDE DEF B
  <2> QED BY <1>6, <1>7, NatInduct
<1>9. ASSUME NEW i \in 0..n PROVE z[i] <= z[n]
  <2>1. n - i \in Nat /\ n - i <= n /\ n - (n - i) = i
    BY <1>0
  <2> QED BY <1>8, <2>1
<1> QED BY <1>5, <1>9 DEF n

\* What a type multiplies the size by.
FactorOf(types, x) ==
  LET t == types[x]
  IN  IF t.kind = "ARRAY" THEN t.nelems ELSE IF TypeSize(t) >= 0 THEN TypeSize(t) ELSE 1

\* What the loop has multiplied after i steps, on the way to the m-th type.
Counts(r, p, z, m, i) ==
  /\ r[i].result = "go" => i < m /\ r[i].nelems = p[i]
  /\ r[i].result = "OK" => r[i].size = p[m] /\ p[m] <= UintMax
  /\ r[i].result = "E2BIG" => z[m] > UintMax

\* At the end of the walk btf__resolve_size has the product, or E2BIG.
LEMMA RunMultiplies ==
  ASSUME NEW types \in Seq(Types), Known(types), NEW id \in Nat, NEW r, RanBy(r, types, id),
         NEW m \in 1..ResolveDepth, Ended(types, Walk(types, id)[m]),
         \A j \in 1..(m - 1) : ~Ended(types, Walk(types, id)[j]),
         NEW fs \in Seq(Nat), Len(fs) = m, \A j \in 1..m : fs[j] = FactorOf(types, Walk(types, id)[j]),
         NEW p, MultipliedBy(p, fs), NEW z, NonzeroBy(z, fs)
  PROVE  \A i \in 0..ResolveDepth : Counts(r, p, z, m, i)
<1> DEFINE w == Walk(types, id)
           A == {i \in Nat : i <= ResolveDepth => Counts(r, p, z, m, i)}
<1>0. ResolveDepth \in Nat /\ ResolveDepth >= 1 /\ UintMax \in Nat /\ 1 <= UintMax
  BY BtfAssumption
<1>n. \A j \in 1..ResolveDepth : w[j] \in Nat
  BY WalkTyped
<1>e. Ended(types, w[m]) /\ (\A j \in 1..(m - 1) : ~Ended(types, w[j])) /\ \A j \in 1..m : fs[j] = FactorOf(types, w[j])
  OBVIOUS
<1>v. \A j \in 1..m : ~Void(types, w[j])
  <2> SUFFICES ASSUME NEW j \in 1..m, Void(types, w[j]) PROVE FALSE
    OBVIOUS
  <2>1. j \in 1..ResolveDepth /\ m \in j..ResolveDepth
    BY <1>0
  <2>2. Void(types, w[m])
    BY <2>1, VoidLasts
  <2> QED BY <1>e, <2>2 DEF Ended
<1>f. \A i \in 0..ResolveDepth : Follows(r, types, id, i)
  BY RunFollows
<1>p. /\ \A i \in 0..m : p[i] \in Nat /\ z[i] \in Nat /\ (p[i] # 0 => z[i] = p[i]) /\ z[i] <= z[m]
      /\ p[0] = 1 /\ \A i \in 1..m : p[i] = p[i - 1] * fs[i]
  <2>1. /\ \A i \in 0..Len(fs) : p[i] \in Nat /\ z[i] \in Nat /\ (p[i] # 0 => z[i] = p[i])
        /\ \A i \in 0..Len(fs) : z[i] <= z[Len(fs)]
    BY ProductsGrow
  <2>2. p[0] = 1 /\ \A i \in 1..Len(fs) : p[i] = p[i - 1] * fs[i]
    BY DEF MultipliedBy
  <2>3. Len(fs) = m
    OBVIOUS
  <2> QED BY <2>1, <2>2, <2>3
<1> HIDE DEF w
<1>1. 0 \in A
  <2>1. r[0] = Start(id)
    BY DEF RanBy
  <2>2. Start(id).result = "go" /\ Start(id).nelems = 1
    BY DEF Start
  <2> QED BY <1>p, <2>1, <2>2 DEF Counts
<1>2. ASSUME NEW i \in Nat, i \in A PROVE i + 1 \in A
  <2> SUFFICES ASSUME i + 1 <= ResolveDepth PROVE Counts(r, p, z, m, i + 1)
    OBVIOUS
  <2> DEFINE a == r[i]
             b == r[i + 1]
             x == w[i + 1]
  <2>1. /\ a.result = "go" => i < m /\ a.nelems = p[i]
        /\ a.result = "OK" => a.size = p[m] /\ p[m] <= UintMax
        /\ a.result = "E2BIG" => z[m] > UintMax
    BY <1>0, <1>2 DEF Counts
  <2>2. a \in Runs /\ b = ResolveStep(types, a)
    <3>1. i \in 0..ResolveDepth /\ i + 1 \in 1..ResolveDepth /\ (i + 1) - 1 = i
      BY <1>0
    <3>2. Follows(r, types, id, i)
      BY <1>f, <3>1
    <3> QED BY <3>1, <3>2 DEF RanBy, Follows
  <2>3. a.result = "go" => a.id = x \/ Void(types, x)
    <3>1. Follows(r, types, id, i) /\ i < ResolveDepth
      BY <1>0, <1>f
    <3> QED BY <3>1 DEF Follows, w
  <2> DEFINE Goal == /\ b.result = "go" => i + 1 < m /\ b.nelems = p[i + 1]
                     /\ b.result = "OK" => b.size = p[m] /\ p[m] <= UintMax
                     /\ b.result = "E2BIG" => z[m] > UintMax
  <2> HIDE DEF a, b, x, A
  <2>4. ASSUME a.result # "go" PROVE Goal
    <3>1. b = a
      BY <2>2, <2>4, ResolveTyped
    <3> QED BY <2>1, <2>4, <3>1
  <2>5. ASSUME a.result = "go" PROVE Goal
    <3> DEFINE t  == types[x]
               by == IF t.kind = "ARRAY" THEN t.nelems ELSE IF TypeSize(t) >= 0 THEN TypeSize(t) ELSE 1
               y  == a.nelems * by
    <3>1. i < m /\ i + 1 \in 1..m /\ i \in 0..m /\ i + 1 \in 0..m
      BY <2>1, <2>5
    <3>2. ~Void(types, x)
      BY <1>v, <3>1 DEF x
    <3>3. a.id = x /\ x \in Nat
      BY <1>0, <1>n, <2>3, <2>5, <3>1, <3>2 DEF x
    <3>4. t.kind \in Kinds /\ t \in Types
      BY <3>2, <3>3, Looked DEF Known
    <3>5. /\ y > UintMax => b = [a EXCEPT !.result = "E2BIG"]
          /\ y <= UintMax /\ Ended(types, x) => b = [a EXCEPT !.result = "OK", !.size = y]
          /\ y <= UintMax /\ ~Ended(types, x) => b = [a EXCEPT !.id = t.type, !.nelems = y]
          /\ by \in Nat
      <4> HIDE DEF by
      <4> QED BY <2>2, <2>5, <3>2, <3>3, <3>4, Resolving, ZenonT(40) DEF by
    <3>6. by = fs[i + 1]
      BY <1>e, <3>1 DEF FactorOf, x
    <3> HIDE DEF by, t
    <3>7. y = p[i + 1] /\ y \in Nat
      <4>1. p[i + 1] = p[i] * fs[i + 1] /\ a.nelems = p[i]
        BY <1>p, <2>1, <2>5, <3>1
      <4> QED BY <1>p, <3>1, <3>6, <4>1
    <3> HIDE DEF y
    <3>8. CASE y > UintMax
      <4>1. b.result = "E2BIG"
        BY <2>2, <3>5, <3>8 DEF Runs
      <4>2. z[i + 1] = p[i + 1] /\ z[i + 1] \in Nat /\ z[m] \in Nat /\ z[i + 1] <= z[m]
        <5>1. p[i + 1] # 0 /\ m \in 0..m
          BY <1>0, <3>7, <3>8
        <5> QED BY <1>p, <3>1, <5>1
      <4>3. z[m] > UintMax
        BY <1>0, <3>7, <3>8, <4>2
      <4> QED BY <4>1, <4>3
    <3>9. CASE y <= UintMax /\ Ended(types, x)
      <4>1. b.result = "OK" /\ b.size = y
        BY <2>2, <3>5, <3>9 DEF Runs
      <4>2. i + 1 = m
        <5>1. i + 1 \notin 1..(m - 1)
          BY <1>e, <3>9 DEF x
        <5> QED BY <3>1, <5>1
      <4> QED BY <3>7, <3>9, <4>1, <4>2
    <3>10. CASE y <= UintMax /\ ~Ended(types, x)
      <4>1. b.result = "go" /\ b.nelems = y
        BY <2>2, <2>5, <3>5, <3>10 DEF Runs
      <4>2. i + 1 # m
        BY <1>e, <3>10 DEF x
      <4>3. i + 1 < m
        BY <3>1, <4>2
      <4> QED BY <3>7, <4>1, <4>3
    <3>11. y > UintMax \/ y <= UintMax
      BY <1>0, <3>7
    <3> QED BY <3>8, <3>9, <3>10, <3>11
  <2>6. Goal
    <3> HIDE DEF Goal
    <3> QED BY <2>4, <2>5
  <2> QED BY <2>6 DEF Counts, b
<1>3. \A i \in Nat : i \in A
  <2> HIDE DEF A
  <2> QED BY <1>1, <1>2, NatInduct
<1> QED BY <1>0, <1>3

\* A section that parses holds types of the known kinds.
LEMMA ParsedKnown ==
  ASSUME NEW types \in Seq(Types), ParseTypes(types).result = "OK"
  PROVE  Known(types)
<1> PICK r : TypesAddedBy(r, types)
  BY TypesAdded
<1> DEFINE n == Len(types)
           Right(i) == /\ r[i] \in SoundTables
                       /\ r[i].result = "OK" => \A j \in 1..i : types[j].kind \in Kinds
           A == {i \in Nat : i <= n => Right(i)}
<1>0. n \in Nat /\ DOMAIN types = 1..n
  OBVIOUS
<1>1. 0 \in A
  BY NoneSound DEF TypesAddedBy
<1>2. ASSUME NEW i \in Nat, i \in A PROVE i + 1 \in A
  <2> SUFFICES ASSUME i + 1 <= n PROVE Right(i + 1)
    OBVIOUS
  <2> DEFINE t == types[i + 1]
             a == r[i]
             b == r[i + 1]
  <2>1. Right(i) /\ i + 1 \in 1..n
    BY <1>0, <1>2
  <2>2. b = StepType(a, t)
    BY <2>1 DEF TypesAddedBy
  <2>3. b \in SoundTables /\ (a.result # "OK" => b = a)
    <3>1. a \in SoundTables
      BY <2>1
    <3> HIDE DEF a, b, t, A, Right
    <3> QED BY <2>2, <3>1, StepSound
  <2>4. b.result = "OK" => a.result = "OK" /\ t.kind \in Kinds
    <3>1. a \in Tables
      BY <2>1 DEF SoundTables
    <3> HIDE DEF a, b, t, A, Right
    <3>2. CASE a.result = "OK" /\ t.kind \notin Kinds
      <4>1. b = [a EXCEPT !.result = "EINVAL"]
        BY <2>2, <3>2 DEF StepType
      <4> QED BY <3>1, <4>1 DEF Tables
    <3> QED BY <2>3, <3>2
  <2>5. \A j : j \in 1..(i + 1) <=> j \in 1..i \/ j = i + 1
    OBVIOUS
  <2> QED BY <2>1, <2>3, <2>4, <2>5
<1>3. Right(n)
  <2> HIDE DEF A
  <2>1. n \in A
    BY <1>0, <1>1, <1>2, NatInduct
  <2> QED BY <1>0, <2>1 DEF A
<1>4. ParseTypes(types) = r[n]
  BY DEF TypesAddedBy
<1> QED BY <1>0, <1>3, <1>4 DEF Known

\* The chain a type starts: up to the first that has a size of its own.
LEMMA ChainIs ==
  ASSUME ItemsInv, part = "types", Known(items), NEW id \in Nat
  PROVE  LET w    == Walk(items, id)
             ends == {i \in 1..ResolveDepth : Ended(items, w[i])}
             m    == Min(ends)
             c    == Chain(id)
         IN  /\ ends = {} <=> c = <<>>
             /\ c # <<>> => /\ m \in 1..ResolveDepth /\ Ended(items, w[m])
                            /\ \A j \in 1..(m - 1) : ~Ended(items, w[j])
                            /\ DOMAIN c = 1..m
                            /\ \A j \in 1..m : c[j] = w[j]
<1> DEFINE w    == Walk(items, id)
           ends == {i \in 1..ResolveDepth : Ended(items, w[i])}
           m    == Min(ends)
           c    == Chain(id)
<1>1. items \in Seq(Types) /\ ResolveDepth \in Nat
  BY InputOf, BtfAssumption
<1>2. w \in Seq(Nat) /\ Len(w) = ResolveDepth /\ DOMAIN w = 1..ResolveDepth
  BY <1>1, WalkIs
<1>3. c = IF ends = {} THEN <<>> ELSE SubSeq(w, 1, m)
  <2> DEFINE next(t) == IF IsVoidOrNull(items, t) \/ TypeSize(items[t]) >= 0 THEN 0 ELSE items[t].type
             walk    == FoldLeft(LAMBDA q, i : Append(q, next(Last(q))), <<id>>,
                                 [i \in 1..(ResolveDepth - 1) |-> i])
             e       == {i \in DOMAIN walk : ~IsVoidOrNull(items, walk[i]) /\ TypeSize(items[walk[i]]) >= 0}
  <2>1. walk = w
    BY DEF Walk, NextId, Void, FoldLeft, MapThenFoldSet
  <2>2. c = IF e = {} THEN <<>> ELSE SubSeq(walk, 1, Min(e))
    BY DEF Chain, FoldLeft, MapThenFoldSet
  <2> HIDE DEF walk, w, c
  <2>3. e = ends
    BY <1>2, <2>1 DEF Ended, Void
  <2> HIDE DEF e, ends
  <2> QED BY <2>1, <2>2, <2>3
<1> HIDE DEF w
<1>4. ends # {} => m \in ends /\ \A j \in ends : m <= j
  <2>1. ends \subseteq Nat
    OBVIOUS
  <2> HIDE DEF ends
  <2> QED BY <2>1, MinOf
<1> HIDE DEF m
<1>5. ASSUME ends # {}
      PROVE  /\ m \in 1..ResolveDepth /\ Ended(items, w[m])
             /\ \A j \in 1..(m - 1) : ~Ended(items, w[j])
             /\ SubSeq(w, 1, m) # <<>> /\ DOMAIN SubSeq(w, 1, m) = 1..m
             /\ \A j \in 1..m : SubSeq(w, 1, m)[j] = w[j]
  <2>1. m \in 1..ResolveDepth /\ Ended(items, w[m])
    BY <1>4, <1>5
  <2>2. \A j \in 1..(m - 1) : j \notin ends /\ j \in 1..ResolveDepth
    <3> HIDE DEF ends
    <3> QED BY <1>1, <1>4, <1>5, <2>1
  <2>3. SubSeq(w, 1, m) = [j \in 1..m |-> w[j]]
    BY <1>2, <2>1
  <2>4. DOMAIN SubSeq(w, 1, m) = 1..m /\ 1 \in 1..m
    BY <2>1, <2>3
  <2>5. DOMAIN <<>> = {}
    OBVIOUS
  <2>6. SubSeq(w, 1, m) # <<>>
    BY <2>4, <2>5
  <2>7. \A j \in 1..m : SubSeq(w, 1, m)[j] = w[j]
    BY <2>3
  <2>8. \A j \in 1..(m - 1) : ~Ended(items, w[j])
    BY <2>2
  <2> QED BY <2>1, <2>4, <2>6, <2>7, <2>8
<1> HIDE DEF ends, c
<1> QED BY <1>3, <1>5 DEF w, ends, m, c

\* A size that is given is the product of the array lengths and the element's
\* size, and one that is refused exceeds 32 bits, for types of any depth.
THEOREM SizesExact == LibSpec => []ResolveSizeExact
<1>1. ASSUME ItemsInv, part = "types", ParseTypes(items).result = "OK", NEW id \in 0..(Len(items) + 1)
      PROVE
    LET chain   == Chain(id)
        factors == [i \in DOMAIN chain |->
                      LET t == items[chain[i]]
                      IN  IF t.kind = "ARRAY" THEN t.nelems
                          ELSE IF TypeSize(t) >= 0 THEN TypeSize(t) ELSE 1]
        product == FoldLeft(LAMBDA p, f : p * f, 1, factors)
        nonzero == FoldLeft(LAMBDA p, f : IF f = 0 THEN p ELSE p * f, 1, factors)
        found   == ResolveSize(items, id)
    IN  /\ found.result = "EINVAL" <=> chain = <<>> /\ found.result # "E2BIG"
        /\ found.result = "OK" => found.size = product /\ product <= UintMax
        /\ found.result = "E2BIG" => chain = <<>> \/ nonzero > UintMax
        /\ chain # <<>> /\ product > UintMax => found.result = "E2BIG"
  <2> DEFINE c     == Chain(id)
             fs    == [i \in DOMAIN c |-> FactorOf(items, c[i])]
             found == ResolveSize(items, id)
             w     == Walk(items, id)
             D     == ResolveDepth
             ends  == {i \in 1..D : Ended(items, w[i])}
             m     == Min(ends)
             run   == Run(items, id)
  <2>1. items \in Seq(Types) /\ id \in Nat /\ Known(items) /\ D \in Nat /\ D >= 1 /\ UintMax \in Nat
    BY <1>1, InputOf, ParsedKnown, BtfAssumption
  <2>2. PICK r : RanBy(r, items, id)
    BY <2>1, Ran
  <2>3. run = r[D] /\ Follows(r, items, id, D)
    <3>1. run = r[D]
      BY <2>2 DEF RanBy
    <3>2. D \in 0..D
      BY <2>1
    <3> QED BY <2>1, <2>2, <3>1, <3>2, RunFollows
  <2>4. found = [result |-> IF run.result = "go" THEN "EINVAL" ELSE run.result, size |-> run.size]
    BY DEF ResolveSize, Run, Start, FoldLeft, MapThenFoldSet
  <2>5. /\ ends = {} <=> c = <<>>
        /\ c # <<>> => /\ m \in 1..D /\ Ended(items, w[m])
                       /\ \A j \in 1..(m - 1) : ~Ended(items, w[j])
                       /\ DOMAIN c = 1..m
                       /\ \A j \in 1..m : c[j] = w[j]
    <3> HIDE DEF c, ends, m, w
    <3> QED BY <1>1, <2>1, ChainIs DEF c, ends, m, w
  <2> HIDE DEF found, run, c, m, w
  <2>6. /\ run.result \in {"go", "OK", "E2BIG"}
        /\ run.result = "go" => ends = {}
        /\ run.result = "OK" => ends # {}
    BY <2>3 DEF Follows, Runs, w
  <2>7. /\ found.result = IF run.result = "go" THEN "EINVAL" ELSE run.result
        /\ found.size = run.size
    BY <2>4
  <2> HIDE DEF ends, fs
  <2>8. found.result = "EINVAL" <=> c = <<>> /\ found.result # "E2BIG"
    BY <2>5, <2>6, <2>7
  <2>9. ASSUME c # <<>>
        PROVE  /\ found.result = "OK" => found.size = Product(fs) /\ Product(fs) <= UintMax
               /\ found.result = "E2BIG" => Nonzero(fs) > UintMax
               /\ Product(fs) \in Nat
    <3>1. m \in 1..D /\ m \in Nat /\ DOMAIN fs = 1..m /\ fs = [j \in 1..m |-> FactorOf(items, w[j])]
      BY <2>1, <2>5, <2>9 DEF fs
    <3>2. \A j \in 1..m : w[j] \in Nat /\ ~Void(items, w[j])
      <4> SUFFICES ASSUME NEW j \in 1..m PROVE w[j] \in Nat /\ ~Void(items, w[j])
        OBVIOUS
      <4>1. j \in 1..D /\ m \in j..D
        BY <2>1, <3>1
      <4>2. w[j] \in Nat
        BY <2>1, <4>1, WalkTyped DEF w
      <4>3. Void(items, w[j]) => Void(items, w[m])
        BY <2>1, <4>1, VoidLasts DEF w
      <4> QED BY <2>5, <2>9, <4>2, <4>3 DEF Ended
    <3>3. \A j \in 1..m : FactorOf(items, w[j]) \in Nat
      <4> SUFFICES ASSUME NEW j \in 1..m PROVE FactorOf(items, w[j]) \in Nat
        OBVIOUS
      <4> DEFINE t == items[w[j]]
      <4>1. t \in Types
        BY <2>1, <3>2, Looked
      <4>2. t.nelems \in Nat /\ TypeSize(t) \in Nat \cup {-1}
        BY <4>1, TypeSizeTyped, BtfAssumption
      <4> HIDE DEF t
      <4> QED BY <4>2 DEF FactorOf, t
    <3>4. fs \in Seq(Nat) /\ Len(fs) = m /\ \A j \in 1..m : fs[j] = FactorOf(items, w[j])
      BY <3>1, <3>3
    <3>5. PICK p : MultipliedBy(p, fs)
      BY <3>4, Multiplied
    <3>6. PICK z : NonzeroBy(z, fs)
      BY <3>4, MultipliedNonzero
    <3>7. Product(fs) = p[m] /\ Nonzero(fs) = z[m]
      BY <3>4, <3>5, <3>6 DEF MultipliedBy, NonzeroBy
    <3>8. p[m] \in Nat
      <4>1. \A i \in 0..Len(fs) : p[i] \in Nat
        BY <3>4, <3>5, <3>6, ProductsGrow
      <4> QED BY <3>1, <3>4, <4>1
    <3>9. Counts(r, p, z, m, D)
      <4>1. /\ Ended(items, Walk(items, id)[m])
            /\ \A j \in 1..(m - 1) : ~Ended(items, Walk(items, id)[j])
            /\ \A j \in 1..m : fs[j] = FactorOf(items, Walk(items, id)[j])
        BY <2>5, <2>9, <3>4 DEF w
      <4>2. D \in 0..D
        BY <2>1
      <4>3. \A i \in 0..D : Counts(r, p, z, m, i)
        BY <2>1, <2>2, <3>1, <3>4, <3>5, <3>6, <4>1, RunMultiplies
      <4> QED BY <4>2, <4>3
    <3> QED BY <2>3, <2>6, <2>7, <3>7, <3>8, <3>9 DEF Counts
  <2>10. /\ found.result = "OK" => found.size = Product(fs) /\ Product(fs) <= UintMax
         /\ found.result = "E2BIG" => c = <<>> \/ Nonzero(fs) > UintMax
         /\ c # <<>> /\ Product(fs) > UintMax => found.result = "E2BIG"
    <3>1. found.result = "OK" => c # <<>>
      BY <2>5, <2>6, <2>7
    <3>2. c # <<>> => found.result \in {"OK", "E2BIG"}
      BY <2>5, <2>6, <2>7
    <3> QED BY <2>1, <2>9, <3>1, <3>2
  <2> QED BY <2>8, <2>10 DEF found, c, fs, FactorOf, Product, Nonzero, FoldLeft, MapThenFoldSet
<1>2. ItemsInv => ResolveSizeExact
  BY <1>1 DEF ResolveSizeExact
<1> QED BY <1>2, ItemsTyped, PTL
=============================================================================
