-------------------------- MODULE PerfRing_proofs ---------------------------
(***************************************************************************)
(* That PerfRing implements PerfQueue, for every number of rings, every    *)
(* size of a ring and all sizes of samples that fit it; and on the way,    *)
(* that the reader's positions keep inside the ring.                       *)
(***************************************************************************)
EXTENDS PerfRing, WellFoundedInduction, SequenceTheorems, TLAPS

USE SizesAssumption

-----------------------------------------------------------------------------
(***************************************************************************)
(* Arithmetic of positions.                                                *)
(***************************************************************************)

\* A number is its remainder when it differs from it by a multiple.
LEMMA ModUnique ==
  ASSUME NEW m \in Nat \ {0}, NEW a \in Int, NEW k \in Int, NEW r \in 0..(m-1),
         a = m * k + r
  PROVE  a % m = r
<1> DEFINE r2 == a % m
           k2 == a \div m
<1>1. a = m * k2 + r2 /\ r2 \in 0..(m - 1) /\ k2 \in Int
  OBVIOUS
<1> HIDE DEF r2, k2
<1>2. CASE k2 >= k + 1
  <2>1. m * k2 >= m * (k + 1)
    BY <1>1, <1>2
  <2> QED BY <1>1, <2>1
<1>3. CASE k2 <= k - 1
  <2>1. m * k2 <= m * (k - 1)
    BY <1>1, <1>3
  <2> QED BY <1>1, <2>1
<1>4. CASE k2 = k
  <2> QED BY <1>1, <1>4 DEF r2
<1> QED BY <1>1, <1>2, <1>3, <1>4

\* Going on by less than a ring leaves the remainder in the ring, or wraps it once.
LEMMA ModAdd ==
  ASSUME NEW m \in Nat \ {0}, NEW a \in Int, NEW d \in 0..(m - 1)
  PROVE  /\ a % m \in 0..(m - 1)
         /\ (a + d) % m = IF (a % m) + d < m THEN (a % m) + d ELSE (a % m) + d - m
<1> DEFINE r == a % m
           k == a \div m
           b == a + d
           s == IF r + d < m THEN r + d ELSE r + d - m
           q == IF r + d < m THEN k ELSE k + 1
<1>1. a = m * k + r /\ r \in 0..(m - 1) /\ k \in Int
  OBVIOUS
<1> HIDE DEF r, k
<1>2. b \in Int /\ s \in 0..(m - 1) /\ q \in Int
  BY <1>1
<1>3. b = m * q + s
  <2>1. m * (k + 1) = m * k + m
    BY <1>1
  <2> QED BY <1>1, <2>1
<1>4. b % m = s
  <2> HIDE DEF b, s, q
  <2> QED BY <1>2, <1>3, ModUnique
<1> QED BY <1>1, <1>4 DEF r

\* Where position p lies in what is stored from position h on.
LEMMA ModBack ==
  ASSUME NEW m \in Nat \ {0}, NEW p \in Nat, NEW h \in Nat
  PROVE  /\ p >= h /\ p - h < m => ((p % m) - h) % m = p - h
         /\ p < h /\ h - p < m => ((p % m) - h) % m = p - h + m
<1> DEFINE r == p % m
           k == p \div m
           b == r - h
<1>1. p = m * k + r /\ r \in 0..(m - 1) /\ k \in Int
  OBVIOUS
<1> HIDE DEF r, k
<1>2. b = m * (-k) + (p - h) /\ b = m * (-k - 1) + (p - h + m)
  <2>1. m * (-k) = -(m * k) /\ m * (-k - 1) = -(m * k) - m
    BY <1>1
  <2> QED BY <1>1, <2>1
<1>3. b \in Int /\ -k \in Int /\ -k - 1 \in Int
  BY <1>1
<1> HIDE DEF b
<1>4. ASSUME p >= h, p - h < m PROVE b % m = p - h
  <2>1. p - h \in 0..(m - 1)
    BY <1>4
  <2> QED BY <1>2, <1>3, <2>1, ModUnique
<1>5. ASSUME p < h, h - p < m PROVE b % m = p - h + m
  <2>1. p - h + m \in 0..(m - 1)
    BY <1>5
  <2> QED BY <1>2, <1>3, <2>1, ModUnique
<1> QED BY <1>4, <1>5 DEF b, r

\* The poller's loop finds the smallest ring left.
LEMMA MinIsElement ==
  ASSUME NEW S, S \subseteq Nat, S # {}
  PROVE  Min(S) \in S /\ \A y \in S : Min(S) <= y
<1>1. PICK x \in S : \A y \in S : ~ (<<y, x>> \in OpToRel(<, Nat))
  BY NatLessThanWellFounded, WFMin
<1>2. \A y \in S : x <= y
  <2> TAKE y \in S
  <2>1. ~(y < x)
    BY <1>1 DEF OpToRel
  <2> QED BY <2>1
<1> QED BY <1>2 DEF Min

-----------------------------------------------------------------------------
(***************************************************************************)
(* How the records lie in a ring.                                          *)
(***************************************************************************)

Recs == [kind : Kinds \cup {"LOST"}, size : 1..(Size - 1), n : Nat]

\* start is where each record of o begins, and, one further, where the next one
\* will: they follow each other without a gap up to hd, and those from tl on are
\* in the ring's words m, whole and untouched.
Laid(m, tl, hd, o, start) ==
  /\ start \in [1..(Len(o) + 1) -> Nat]
  /\ start[Len(o) + 1] = hd
  /\ \A i \in 1..Len(o) : start[i + 1] = start[i] + o[i].size
  /\ \A i, j \in 1..(Len(o) + 1) : i < j => start[i] < start[j]
  /\ \A i \in 1..Len(o) : start[i] >= tl =>
       \A k \in 1..o[i].size : m[(start[i] + k - 1) % Size] = <<o[i], k>>

\* Storing the words of one more record in free room leaves the others as they are.
LEMMA Extend ==
  ASSUME NEW m, DOMAIN m = 0..(Size - 1),
         NEW tl \in Nat, NEW hd \in Nat, NEW o \in Seq(Recs), NEW start,
         Laid(m, tl, hd, o, start), tl <= hd,
         NEW rec \in Recs, hd - tl + rec.size <= Size - 1
  PROVE  /\ DOMAIN Stored(m, hd, Words(rec)) = 0..(Size - 1)
         /\ \E next : /\ Laid(Stored(m, hd, Words(rec)), tl, hd + rec.size, Append(o, rec), next)
                       /\ \A i \in 1..(Len(o) + 1) : next[i] = start[i]
<1> DEFINE n == Len(o)
           w == Words(rec)
           m2 == Stored(m, hd, w)
           o2 == Append(o, rec)
           next == [i \in 1..(n + 2) |-> IF i = n + 2 THEN hd + rec.size ELSE start[i]]
<1>1. n \in Nat /\ Len(o2) = n + 1 /\ o2[n + 1] = rec /\ \A i \in 1..n : o2[i] = o[i] /\ o[i] \in Recs
  OBVIOUS
<1>2. rec.size \in 1..(Size - 1) /\ Size \in Nat \ {0}
  BY DEF Recs
<1>3. DOMAIN m2 = 0..(Size - 1)
  BY DEF Stored
<1>4. /\ start \in [1..(n + 1) -> Nat] /\ start[n + 1] = hd
      /\ \A i \in 1..n : start[i + 1] = start[i] + o[i].size
      /\ \A i, j \in 1..(n + 1) : i < j => start[i] < start[j]
      /\ \A i \in 1..n : start[i] >= tl =>
           \A k \in 1..o[i].size : m[(start[i] + k - 1) % Size] = <<o[i], k>>
  BY DEF Laid
<1>5. \A i \in 1..(n + 1) : next[i] = start[i] /\ start[i] <= hd
  BY <1>1, <1>4, SMTT(30)
<1>6. next[n + 2] = hd + rec.size /\ next \in [1..(n + 2) -> Nat]
  BY <1>1, <1>2, <1>4
<1>7. \A i \in 1..n : o[i].size \in 1..(Size - 1)
  BY <1>1 DEF Recs
<1> HIDE DEF next, n, o2
<1>8. ASSUME NEW i \in 1..(n + 1)
      PROVE  next[i + 1] = next[i] + o2[i].size
  <2>1. CASE i = n + 1
    <3>1. i + 1 = n + 2
      BY <2>1, <1>1
    <3> QED BY <2>1, <3>1, <1>1, <1>4, <1>5, <1>6
  <2>2. CASE i # n + 1
    <3>1. i \in 1..n /\ i + 1 \in 1..(n + 1)
      BY <2>2, <1>1
    <3>2. next[i + 1] = start[i + 1] /\ next[i] = start[i] /\ o2[i] = o[i]
      BY <3>1, <1>1, <1>5
    <3> QED BY <3>1, <3>2, <1>4
  <2> QED BY <2>1, <2>2
<1>9. ASSUME NEW i \in 1..(n + 2), NEW j \in 1..(n + 2), i < j
      PROVE  next[i] < next[j]
  <2>1. i \in 1..(n + 1) /\ start[i] \in Nat
    BY <1>1, <1>4, <1>9
  <2>2. CASE j = n + 2
    BY <2>1, <2>2, <1>2, <1>5, <1>6, SMTT(30)
  <2>3. CASE j # n + 2
    <3>1. j \in 1..(n + 1)
      BY <2>3, <1>1
    <3> QED BY <2>1, <3>1, <1>4, <1>5, <1>9
  <2> QED BY <2>2, <2>3
<1>10. ASSUME NEW k \in 1..rec.size
      PROVE  m2[(hd + k - 1) % Size] = <<rec, k>>
  <2> DEFINE x == (hd + k - 1) % Size
  <2>1. x \in 0..(Size - 1) /\ (x - hd) % Size = k - 1
    <3> DEFINE p == hd + k - 1
    <3>1. p \in Nat /\ p >= hd /\ p - hd = k - 1 /\ k - 1 < Size
      BY <1>2, <1>10
    <3>2. p % Size \in 0..(Size - 1)
      BY <3>1, <1>2
    <3> HIDE DEF p
    <3>3. ((p % Size) - hd) % Size = p - hd
      BY <3>1, <1>2, ModBack
    <3> QED BY <3>1, <3>2, <3>3 DEF p
  <2> HIDE DEF x
  <2>2. k - 1 + 1 = k /\ k \in DOMAIN w /\ w[k] = <<rec, k>>
    BY <1>2, <1>10 DEF Words
  <2>3. m2[x] = w[k]
    BY <2>1, <2>2 DEF Stored
  <2> QED BY <2>2, <2>3 DEF x
<1>11. ASSUME NEW i \in 1..n, start[i] >= tl, NEW k \in 1..o[i].size
       PROVE  m2[(start[i] + k - 1) % Size] = <<o[i], k>>
  <2> DEFINE p == start[i] + k - 1
             x == p % Size
  <2>1. i + 1 \in 1..(n + 1) /\ start[i] \in Nat /\ o[i].size \in Nat
    <3>1. i \in 1..(n + 1)
      BY <1>1
    <3>2. start[i] \in Nat
      BY <3>1, <1>4
    <3>3. o[i].size \in Nat
      BY <1>7
    <3> QED BY <3>2, <3>3, <1>1, SMTT(30)
  <2>2. start[i] + o[i].size <= hd
    BY <2>1, <1>4, <1>5
  <2>3. p \in Nat /\ p < hd /\ hd - p < Size /\ p - hd + Size >= rec.size
    <3>1. k \in Nat /\ 1 <= k /\ k <= o[i].size
      BY <2>1
    <3>2. p \in Nat /\ p < hd /\ p >= tl
      BY <2>1, <2>2, <1>11, <3>1, SMTT(30)
    <3> HIDE DEF p
    <3> QED BY <3>2, <1>2
  <2>4. x \in 0..(Size - 1) /\ (x - hd) % Size = p - hd + Size
    <3> HIDE DEF p
    <3>1. x \in 0..(Size - 1)
      BY <2>3, <1>2
    <3>2. ((p % Size) - hd) % Size = p - hd + Size
      BY <2>3, <1>2, ModBack
    <3> QED BY <3>1, <3>2
  <2>5. m[x] = <<o[i], k>>
    BY <1>4, <1>11
  <2> HIDE DEF p, x
  <2>6. ((x - hd) % Size) + 1 \notin DOMAIN w
    BY <2>3, <2>4, <1>2 DEF Words
  <2>7. m2[x] = m[x]
    BY <2>4, <2>6 DEF Stored
  <2> QED BY <2>5, <2>7 DEF x, p
<1>12. \A i \in 1..(n + 1) : next[i] >= tl =>
         \A k \in 1..o2[i].size : m2[(next[i] + k - 1) % Size] = <<o2[i], k>>
  <2> TAKE i \in 1..(n + 1)
  <2>1. CASE i = n + 1
    BY <2>1, <1>1, <1>4, <1>5, <1>10
  <2>2. CASE i # n + 1
    <3>1. i \in 1..n
      BY <2>2, <1>1
    <3>2. next[i] = start[i] /\ o2[i] = o[i]
      BY <3>1, <1>1, <1>5
    <3> QED BY <3>1, <3>2, <1>11
  <2> QED BY <2>1, <2>2
<1>13. Laid(m2, tl, hd + rec.size, o2, next)
  <2>1. Len(o2) + 1 = n + 2
    BY <1>1 DEF o2
  <2> QED BY <2>1, <1>1, <1>6, <1>8, <1>9, <1>12 DEF Laid
<1> QED BY <1>3, <1>5, <1>13 DEF o2, n

\* Two records stored at once are two stored one after the other.
LEMMA StoredTwice ==
  ASSUME NEW m, DOMAIN m = 0..(Size - 1), NEW hd \in Nat,
         NEW a \in Recs, NEW b \in Recs, a.size + b.size <= Size - 1
  PROVE  /\ Len(Words(a) \o Words(b)) = a.size + b.size
         /\ Stored(m, hd, Words(a) \o Words(b)) =
              Stored(Stored(m, hd, Words(a)), hd + a.size, Words(b))
<1> DEFINE w1 == Words(a)
           w2 == Words(b)
           w  == w1 \o w2
<1>1. /\ a.size \in Nat /\ b.size \in Nat /\ Size \in Nat \ {0}
      /\ a.size + b.size < Size
  BY DEF Recs
<1>2. /\ w1 \in Seq({a, b} \X Nat) /\ Len(w1) = a.size
      /\ w2 \in Seq({a, b} \X Nat) /\ Len(w2) = b.size
  <2>1. ASSUME NEW c \in {a, b}
        PROVE  Words(c) \in Seq({a, b} \X Nat) /\ Len(Words(c)) = c.size
    <3>1. c.size \in Nat
      BY <1>1
    <3>2. Words(c) \in [1..c.size -> {a, b} \X Nat]
      BY <3>1 DEF Words
    <3> QED BY <3>1, <3>2
  <2> QED BY <2>1 DEF w1, w2
<1> HIDE DEF w1, w2
<1>3. /\ DOMAIN w1 = 1..a.size /\ DOMAIN w2 = 1..b.size
      /\ DOMAIN w = 1..(a.size + b.size) /\ Len(w) = a.size + b.size
      /\ \A k \in 1..(a.size + b.size) : w[k] = IF k <= a.size THEN w1[k] ELSE w2[k - a.size]
  <2>1. DOMAIN w1 = 1..a.size /\ DOMAIN w2 = 1..b.size
    BY <1>2
  <2>2. /\ w \in Seq({a, b} \X Nat) /\ Len(w) = Len(w1) + Len(w2)
        /\ \A k \in 1..(Len(w1) + Len(w2)) :
             w[k] = IF k <= Len(w1) THEN w1[k] ELSE w2[k - Len(w1)]
    <3> HIDE SizesAssumption
    <3> QED BY <1>2, ConcatProperties
  <2> HIDE DEF w
  <2>3. DOMAIN w = 1..(a.size + b.size)
    BY <1>2, <2>2
  <2> QED BY <1>2, <2>1, <2>2, <2>3
<1> HIDE DEF w
<1>4. ASSUME NEW x \in 0..(Size - 1)
      PROVE  Stored(m, hd, w)[x] = Stored(Stored(m, hd, w1), hd + a.size, w2)[x]
  <2> DEFINE d == (x - hd) % Size
             e == (x - (hd + a.size)) % Size
  <2>1. d \in 0..(Size - 1) /\ e = IF d >= a.size THEN d - a.size ELSE d - a.size + Size
    <3> DEFINE z == x - (hd + a.size)
    <3>1. z \in Int /\ x - hd = z + a.size /\ a.size \in 0..(Size - 1)
      BY <1>1
    <3> HIDE DEF z
    <3>2. /\ z % Size \in 0..(Size - 1)
          /\ (z + a.size) % Size = IF (z % Size) + a.size < Size THEN (z % Size) + a.size
                                   ELSE (z % Size) + a.size - Size
      BY <3>1, <1>1, ModAdd
    <3>3. e = z % Size /\ d = (z + a.size) % Size
      BY <3>1 DEF z
    <3> HIDE DEF d, e
    <3> QED BY <3>2, <3>3, <1>1
  <2>2. Stored(m, hd, w)[x] = IF d + 1 \in DOMAIN w THEN w[d + 1] ELSE m[x]
    BY DEF Stored
  <2>3. DOMAIN Stored(m, hd, w1) = 0..(Size - 1)
    BY DEF Stored
  <2>4. Stored(m, hd, w1)[x] = IF d + 1 \in DOMAIN w1 THEN w1[d + 1] ELSE m[x]
    BY DEF Stored
  <2>5. Stored(Stored(m, hd, w1), hd + a.size, w2)[x] =
          IF e + 1 \in DOMAIN w2 THEN w2[e + 1] ELSE Stored(m, hd, w1)[x]
    BY <2>3 DEF Stored
  <2> HIDE DEF d, e
  <2>6. d \in Nat /\ e \in Nat
    BY <2>1, <1>1
  <2>7. d + 1 \in DOMAIN w <=> (d + 1 \in DOMAIN w1 \/ e + 1 \in DOMAIN w2)
    <3>1. d + 1 \in DOMAIN w <=> d < a.size + b.size
      BY <2>6, <1>1, <1>3
    <3>2. d + 1 \in DOMAIN w1 <=> d < a.size
      BY <2>6, <1>1, <1>3
    <3>3. e + 1 \in DOMAIN w2 <=> e < b.size
      BY <2>6, <1>1, <1>3
    <3> QED BY <3>1, <3>2, <3>3, <2>1, <2>6, <1>1
  <2>8. d + 1 \in DOMAIN w1 => e + 1 \notin DOMAIN w2 /\ w[d + 1] = w1[d + 1]
    BY <2>1, <1>1, <1>3, SMTT(30)
  <2>9. ASSUME e + 1 \in DOMAIN w2 PROVE w[d + 1] = w2[e + 1]
    <3>1. e < b.size
      BY <2>9, <2>6, <1>1, <1>3
    <3>2. d = e + a.size
      BY <3>1, <2>1, <2>6, <1>1
    <3> DEFINE k == d + 1
    <3>3. k \in 1..(a.size + b.size) /\ ~(k <= a.size) /\ k - a.size = e + 1
      BY <3>1, <3>2, <2>6, <1>1, SMTT(30)
    <3> HIDE DEF k
    <3>4. w[k] = w2[e + 1]
      BY <3>3, <1>3
    <3> QED BY <3>4 DEF k
  <2> QED BY <2>2, <2>4, <2>5, <2>7, <2>8, <2>9
<1>5. Stored(m, hd, w) = Stored(Stored(m, hd, w1), hd + a.size, w2)
  BY <1>4 DEF Stored
<1> QED BY <1>3, <1>5 DEF w, w1, w2

-----------------------------------------------------------------------------
(***************************************************************************)
(* The invariant.                                                          *)
(***************************************************************************)

\* What TypeOK leaves open
Typed ==
  /\ DOMAIN mem = Rings /\ \A r \in Rings : DOMAIN mem[r] = 0..(Size - 1)
  /\ out \in [Rings -> Seq(Recs)]
  /\ seen \in [Rings -> Seq({Words(rec) : rec \in Recs})]

\* The reader is between its reading of the positions and its writing of one.
Reading(r) == pc \in {"record", "store", "crashed"} /\ r = ring

\* A ring holds what was output, and the reader is at the record behind those
\* it has seen: data_tail before it begins, its own copy from then on.  The end
\* it is heading for is where a record it has not seen begins or will begin.
RingOK(r) ==
  /\ head[r] - tail[r] \in 0..(Size - 1)
  /\ Len(seen[r]) <= Len(out[r])
  /\ \E start :
       /\ Laid(mem[r], tail[r], head[r], out[r], start)
       /\ ~Reading(r) => tail[r] = start[Len(seen[r]) + 1]
       /\ Reading(r) => tail[r] <= dataTail /\ dataTail = start[Len(seen[r]) + 1]
       /\ Reading(r) /\ pc = "record" =>
            /\ begin = dataTail % Size
            /\ \E j \in (Len(seen[r]) + 1)..(Len(out[r]) + 1) : end = start[j] % Size

RingInv == TypeOK /\ Typed /\ \A r \in Rings : RingOK(r)

\* Unless it waits for poll, the loop is at a ring.
LEMMA AtRing ==
  ASSUME TypeOK, pc # "poll"
  PROVE  ring \in revents /\ ring \in Rings
<1>1. revents # {} /\ revents \subseteq Rings
  BY DEF TypeOK
<1>2. revents \subseteq Nat
  BY <1>1
<1>3. Min(revents) \in revents
  BY <1>1, <1>2, MinIsElement
<1> QED BY <1>1, <1>3 DEF ring

LEMMA RingInit ==
  ASSUME Init
  PROVE  RingInv
<1>1. Size \in Nat \ {0} /\ 0 \in 0..(Size - 1)
  OBVIOUS
<1>2. TypeOK
  <2>1. /\ head \in [Rings -> Nat] /\ tail \in [Rings -> Nat] /\ lost \in [Rings -> Nat]
        /\ ready \in [Rings -> BOOLEAN]
    BY DEF Init
  <2>2. frames \in 0..MaxFrames /\ waking \subseteq Rings /\ revents = {} /\ pc = "poll"
    BY DEF Init
  <2>3. begin \in 0..(Size - 1) /\ end \in 0..(Size - 1) /\ dataTail \in Nat
    BY <1>1 DEF Init
  <2>4. bufLen \in Nat /\ buf \in Nat /\ broken \subseteq Rings /\ oom \in BOOLEAN
    BY DEF Init
  <2> QED BY <2>1, <2>2, <2>3, <2>4 DEF TypeOK
<1>3. Typed
  BY DEF Init, Typed
<1>4. ASSUME NEW r \in Rings PROVE RingOK(r)
  <2> DEFINE start == [i \in 1..1 |-> 0]
  <2>1. out[r] = <<>> /\ seen[r] = <<>> /\ head[r] = 0 /\ tail[r] = 0 /\ ~Reading(r)
    BY DEF Init, Reading
  <2>2. Laid(mem[r], 0, 0, <<>>, start)
    BY DEF Laid
  <2>3. start[Len(seen[r]) + 1] = 0
    BY <2>1
  <2> HIDE DEF start
  <2> QED BY <2>1, <2>2, <2>3, <1>1 DEF RingOK
<1> QED BY <1>2, <1>3, <1>4 DEF RingInv

-----------------------------------------------------------------------------
(***************************************************************************)
(* An output.                                                              *)
(***************************************************************************)

\* One or two records more: what becomes of the ring
LEMMA OutputExtends ==
  ASSUME TypeOK, Typed, NEW r \in Rings, RingOK(r), Output(r), out' # out,
         NEW start, Laid(mem[r], tail[r], head[r], out[r], start)
  PROVE  /\ DOMAIN mem' = Rings /\ DOMAIN mem'[r] = 0..(Size - 1)
         /\ head' \in [Rings -> Nat] /\ out' \in [Rings -> Seq(Recs)]
         /\ \A q \in Rings \ {r} : mem'[q] = mem[q] /\ head'[q] = head[q] /\ out'[q] = out[q]
         /\ head[r] <= head'[r] /\ head'[r] - tail[r] <= Size - 1
         /\ \E more \in Seq(Recs) : more # <<>> /\ out'[r] = out[r] \o more
         /\ \E next : /\ Laid(mem'[r], tail[r], head'[r], out'[r], next)
                       /\ \A i \in 1..(Len(out[r]) + 1) : next[i] = start[i]
<1>1. PICK kind \in Kinds, size \in Sizes : Output(r)!(kind, size)
  BY DEF Output
<1> DEFINE report == Record("LOST", LostSize, lost[r])
           sample == Record(kind, size, Len(out[r]) + 1)
           o  == out[r]
           tl == tail[r]
           hd == head[r]
           mr == mem[r]
<1>2. /\ report \in Recs /\ sample \in Recs /\ o \in Seq(Recs) /\ Len(o) \in Nat
      /\ report.size = LostSize /\ sample.size = size
      /\ LostSize \in 1..(Size - 1) /\ size \in 1..(Size - 1)
      /\ tl \in Nat /\ hd \in Nat /\ tl <= hd /\ DOMAIN mr = 0..(Size - 1)
      /\ Laid(mr, tl, hd, o, start)
  <2>1. lost[r] \in Nat /\ o \in Seq(Recs) /\ tl \in Nat /\ hd \in Nat
    BY DEF TypeOK, Typed
  <2>2. Len(o) \in Nat
    BY <2>1
  <2>3. hd - tl \in 0..(Size - 1)
    BY DEF RingOK
  <2> QED BY <2>1, <2>2, <2>3 DEF Typed, Record, Recs
<1>3. CASE lost[r] = 0
  <2> DEFINE w == Words(sample)
             m == Stored(mr, hd, w)
             more == <<sample>>
  <2>1. Len(w) = size
    BY <1>2 DEF Words
  <2>2. /\ HasRoom(r, Len(w))
        /\ mem' = [mem EXCEPT ![r] = m] /\ head' = [head EXCEPT ![r] = hd + Len(w)]
        /\ out' = [out EXCEPT ![r] = o \o more]
    BY <1>1, <1>3
  <2>3. hd - tl + size <= Size - 1
    BY <2>1, <2>2, <1>2 DEF HasRoom
  <2>4. /\ DOMAIN m = 0..(Size - 1)
        /\ \E next : /\ Laid(m, tl, hd + sample.size, Append(o, sample), next)
                      /\ \A i \in 1..(Len(o) + 1) : next[i] = start[i]
    <3>1. hd - tl + sample.size <= Size - 1
      BY <2>3, <1>2
    <3> HIDE DEF sample, report, mr, o, hd, tl
    <3> QED BY <3>1, <1>2, Extend, SMTT(30)
  <2>5. Append(o, sample) = o \o more /\ more \in Seq(Recs) /\ more # <<>>
    <3> HIDE DEF sample, report, o
    <3> QED BY <1>2
  <2>6. hd + size \in Nat /\ hd <= hd + size /\ (hd + size) - tl <= Size - 1
    BY <2>3, <1>2, SMTT(30)
  <2>7. \E next : /\ Laid(m, tl, hd + Len(w), o \o more, next)
                  /\ \A i \in 1..(Len(o) + 1) : next[i] = start[i]
    <3> HIDE DEF sample, report, m, w, more, o, hd, tl
    <3> QED BY <2>1, <2>4, <2>5, <1>2
  <2>8. hd + Len(w) \in Nat /\ hd <= hd + Len(w) /\ (hd + Len(w)) - tl <= Size - 1
    <3> HIDE DEF w
    <3> QED BY <2>1, <2>6
  <2> DEFINE h == hd + Len(w)
  <2> HIDE DEF sample, report, m, w, more, h
  <2>9. /\ mem'[r] = m /\ head'[r] = h /\ out'[r] = o \o more
        /\ \A q \in Rings \ {r} : mem'[q] = mem[q] /\ head'[q] = head[q] /\ out'[q] = out[q]
        /\ DOMAIN mem' = Rings
    <3>1. mem'[r] = m /\ DOMAIN mem' = Rings /\ \A q \in Rings \ {r} : mem'[q] = mem[q]
      BY <2>2 DEF Typed
    <3>2. head'[r] = h /\ \A q \in Rings \ {r} : head'[q] = head[q]
      BY <2>2 DEF TypeOK, h
    <3>3. out'[r] = o \o more /\ \A q \in Rings \ {r} : out'[q] = out[q]
      BY <2>2 DEF Typed
    <3> QED BY <3>1, <3>2, <3>3
  <2>10. h \in Nat /\ hd <= h /\ h - tl <= Size - 1
    BY <2>8 DEF h
  <2>11. head' \in [Rings -> Nat]
    <3>1. head' = [head EXCEPT ![r] = h]
      BY <2>2 DEF h
    <3> QED BY <3>1, <2>10 DEF TypeOK
  <2>12. out' \in [Rings -> Seq(Recs)]
    <3>1. o \o more \in Seq(Recs)
      BY <2>5, <1>2
    <3> QED BY <3>1, <2>2 DEF Typed
  <2>13. \E next : /\ Laid(m, tl, h, o \o more, next)
                   /\ \A i \in 1..(Len(o) + 1) : next[i] = start[i]
    BY <2>7 DEF h
  <2> QED BY <2>4, <2>5, <2>9, <2>10, <2>11, <2>12, <2>13
<1>4. CASE lost[r] # 0
  <2> DEFINE w == Words(report) \o Words(sample)
             m1 == Stored(mr, hd, Words(report))
             m == Stored(mr, hd, w)
             more == <<report, sample>>
             h1 == hd + LostSize
             o1 == Append(o, report)
  <2>1. /\ HasRoom(r, Len(w))
        /\ mem' = [mem EXCEPT ![r] = m] /\ head' = [head EXCEPT ![r] = hd + Len(w)]
        /\ out' = [out EXCEPT ![r] = o \o more]
    BY <1>1, <1>4
  <2> HIDE DEF sample, report, o, tl, hd, mr
  <2>2. /\ Words(report) \in Seq({report, sample} \X Nat) /\ Len(Words(report)) = LostSize
        /\ Words(sample) \in Seq({report, sample} \X Nat) /\ Len(Words(sample)) = size
    <3>1. Words(report) \in Seq({report, sample} \X Nat) /\ Len(Words(report)) = LostSize
      BY <1>2 DEF Words
    <3>2. Words(sample) \in Seq({report, sample} \X Nat) /\ Len(Words(sample)) = size
      BY <1>2 DEF Words
    <3> QED BY <3>1, <3>2
  <2>3. Len(w) = LostSize + size
    BY <2>2, ConcatProperties
  <2>4. hd - tl + LostSize + size <= Size - 1
    BY <2>3, <2>1, <1>2, SMTT(30) DEF HasRoom, hd, tl
  <2>5. m = Stored(m1, h1, Words(sample))
    <3>1. LostSize + size <= Size - 1
      BY <2>4, <1>2
    <3> QED BY <3>1, <1>2, StoredTwice
  <2>6. /\ DOMAIN m1 = 0..(Size - 1)
        /\ \E next : /\ Laid(m1, tl, h1, o1, next)
                      /\ \A i \in 1..(Len(o) + 1) : next[i] = start[i]
    <3>1. hd - tl + report.size <= Size - 1
      BY <2>4, <1>2
    <3> QED BY <3>1, <1>2, Extend
  <2>7. PICK first : /\ Laid(m1, tl, h1, o1, first)
                     /\ \A i \in 1..(Len(o) + 1) : first[i] = start[i]
    BY <2>6
  <2>8. h1 \in Nat /\ tl <= h1 /\ h1 - tl + sample.size <= Size - 1
        /\ o1 \in Seq(Recs) /\ Len(o1) = Len(o) + 1
    BY <2>4, <1>2
  <2>9. /\ Append(o1, sample) = o \o more /\ more \in Seq(Recs) /\ more # <<>>
    BY <1>2, SMTT(30)
  <2>10. hd + (LostSize + size) \in Nat /\ h1 + size = hd + (LostSize + size)
        /\ hd <= h1 + size /\ (h1 + size) - tl <= Size - 1
    BY <2>4, <1>2
  <2> HIDE DEF m1, m, h1, o1, w, more
  <2>11. /\ DOMAIN m = 0..(Size - 1)
         /\ \E next : /\ Laid(m, tl, h1 + sample.size, Append(o1, sample), next)
                       /\ \A i \in 1..(Len(o1) + 1) : next[i] = first[i]
    <3> HIDE DEF h1
    <3>1. DOMAIN m1 = 0..(Size - 1) /\ Laid(m1, tl, h1, o1, first)
      BY <2>6, <2>7
    <3> QED BY <3>1, <2>5, <2>8, <1>2, Extend, SMTT(30)
  <2>12. \E next : /\ Laid(m, tl, hd + Len(w), o \o more, next)
                   /\ \A i \in 1..(Len(o) + 1) : next[i] = start[i]
    <3>1. PICK next : /\ Laid(m, tl, h1 + sample.size, Append(o1, sample), next)
                      /\ \A i \in 1..(Len(o1) + 1) : next[i] = first[i]
      BY <2>11
    <3>2. \A i \in 1..(Len(o) + 1) : next[i] = start[i]
      BY <3>1, <2>7, <2>8, <1>2
    <3> QED BY <3>1, <3>2, <2>3, <2>9, <2>10, <1>2
  <2>13. hd + Len(w) \in Nat /\ hd <= hd + Len(w) /\ (hd + Len(w)) - tl <= Size - 1
    BY <2>3, <2>4, <1>2
  <2> DEFINE h == hd + Len(w)
  <2> HIDE DEF h
  <2>14. /\ mem'[r] = m /\ head'[r] = h /\ out'[r] = o \o more
         /\ \A q \in Rings \ {r} : mem'[q] = mem[q] /\ head'[q] = head[q] /\ out'[q] = out[q]
         /\ DOMAIN mem' = Rings
    <3>1. mem'[r] = m /\ DOMAIN mem' = Rings /\ \A q \in Rings \ {r} : mem'[q] = mem[q]
      BY <2>1 DEF Typed
    <3>2. head'[r] = h /\ \A q \in Rings \ {r} : head'[q] = head[q]
      BY <2>1 DEF TypeOK, h, tl, hd, o
    <3>3. out'[r] = o \o more /\ \A q \in Rings \ {r} : out'[q] = out[q]
      BY <2>1 DEF Typed, o
    <3> QED BY <3>1, <3>2, <3>3
  <2>15. h \in Nat /\ hd <= h /\ h - tl <= Size - 1
    BY <2>13 DEF h
  <2>16. head' \in [Rings -> Nat]
    <3>1. head' = [head EXCEPT ![r] = h]
      BY <2>1 DEF h
    <3> QED BY <3>1, <2>15 DEF TypeOK
  <2>17. out' \in [Rings -> Seq(Recs)]
    <3>1. o \o more \in Seq(Recs)
      BY <2>9, <1>2
    <3> QED BY <3>1, <2>1 DEF Typed
  <2>18. \E next : /\ Laid(m, tl, h, o \o more, next)
                   /\ \A i \in 1..(Len(o) + 1) : next[i] = start[i]
    BY <2>12 DEF h
  <2>19. \E next : /\ Laid(mem'[r], tail[r], head'[r], out'[r], next)
                   /\ \A i \in 1..(Len(out[r]) + 1) : next[i] = start[i]
    BY <2>14, <2>18 DEF o, tl
  <2>20. head[r] <= head'[r] /\ head'[r] - tail[r] <= Size - 1
    BY <2>14, <2>15 DEF hd, tl
  <2>21. \E extra \in Seq(Recs) : extra # <<>> /\ out'[r] = out[r] \o extra
    BY <2>9, <2>14 DEF o
  <2>22. DOMAIN mem'[r] = 0..(Size - 1)
    BY <2>11, <2>14
  <2>23. /\ DOMAIN mem' = Rings
         /\ \A q \in Rings \ {r} : mem'[q] = mem[q] /\ head'[q] = head[q] /\ out'[q] = out[q]
    BY <2>14
  <2> HIDE DEF h, hd, tl, o, SizesAssumption
  <2> QED BY <2>16, <2>17, <2>19, <2>20, <2>21, <2>22, <2>23
<1> QED BY <1>3, <1>4

\* A step that leaves a ring and the reader's place in it alone
LEMMA RingUnchanged ==
  ASSUME NEW r \in Rings, RingOK(r),
         mem'[r] = mem[r], head'[r] = head[r], tail'[r] = tail[r],
         out'[r] = out[r], seen'[r] = seen[r],
         Reading(r)' <=> Reading(r),
         Reading(r) => /\ dataTail' = dataTail
                       /\ pc' = "record" => pc = "record" /\ begin' = begin /\ end' = end
  PROVE  RingOK(r)'
<1>1. PICK start :
       /\ Laid(mem[r], tail[r], head[r], out[r], start)
       /\ ~Reading(r) => tail[r] = start[Len(seen[r]) + 1]
       /\ Reading(r) => tail[r] <= dataTail /\ dataTail = start[Len(seen[r]) + 1]
       /\ Reading(r) /\ pc = "record" =>
            /\ begin = dataTail % Size
            /\ \E j \in (Len(seen[r]) + 1)..(Len(out[r]) + 1) : end = start[j] % Size
  BY DEF RingOK
<1>2. Laid(mem'[r], tail'[r], head'[r], out'[r], start)
  BY <1>1
<1>3. ~Reading(r)' => tail'[r] = start[Len(seen'[r]) + 1]
  BY <1>1
<1>4. Reading(r)' => tail'[r] <= dataTail' /\ dataTail' = start[Len(seen'[r]) + 1]
  BY <1>1
<1>5. ASSUME Reading(r)', pc' = "record"
      PROVE  /\ begin' = dataTail' % Size
             /\ \E j \in (Len(seen'[r]) + 1)..(Len(out'[r]) + 1) : end' = start[j] % Size
  BY <1>1, <1>5
<1>6. head'[r] - tail'[r] \in 0..(Size - 1) /\ Len(seen'[r]) <= Len(out'[r])
  BY DEF RingOK
<1> QED BY <1>2, <1>3, <1>4, <1>5, <1>6 DEF RingOK

LEMMA OutputKeeps ==
  ASSUME RingInv, NEW r \in Rings, Output(r)
  PROVE  /\ RingInv'
         /\ seen' = seen
         /\ \A q \in Rings \ {r} : out'[q] = out[q]
         /\ out'[r] # out[r] => \E more \in Seq(Recs) : more # <<>> /\ out'[r] = out[r] \o more
<1>1. TypeOK /\ Typed /\ \A q \in Rings : RingOK(q)
  BY DEF RingInv
<1>2. PICK kind \in Kinds, size \in Sizes : Output(r)!(kind, size)
  BY DEF Output
<1>3. /\ UNCHANGED <<tail, pc, revents, begin, end, dataTail, seen>>
      /\ frames < MaxFrames /\ frames' = frames + 1
      /\ UNCHANGED <<ready, bufLen, buf, broken, oom>>
      /\ waking' \in {waking, waking \cup {r}}
      /\ lost' \in {[lost EXCEPT ![r] = 0], [lost EXCEPT ![r] = @ + 1]}
  BY <1>2 DEF reader, buffer
<1>4. CASE out' = out
  <2>1. UNCHANGED <<mem, head>>
    <3>1. out'[r] = out[r] /\ out[r] \in Seq(Recs)
      BY <1>1, <1>4 DEF Typed
    <3> DEFINE sample == Record(kind, size, Len(out[r]) + 1)
               report == Record("LOST", LostSize, lost[r])
    <3>2. sample \in Recs /\ report \in Recs
      <4>1. lost[r] \in Nat /\ Len(out[r]) + 1 \in Nat
        <5>1. lost[r] \in Nat
          BY <1>1 DEF TypeOK
        <5> QED BY <3>1, <5>1
      <4>2. LostSize \in 1..(Size - 1) /\ size \in 1..(Size - 1)
        OBVIOUS
      <4> QED BY <4>1, <4>2 DEF Record, Recs
    <3>3. ASSUME NEW recs \in Seq(Recs), recs # <<>>
          PROVE  out[r] \o recs # out[r]
      BY <3>1, <3>3, ConcatEqualIffEmpty
    <3> DEFINE recs == IF lost[r] = 0 THEN <<sample>> ELSE <<report, sample>>
    <3>4. recs \in Seq(Recs) /\ recs # <<>>
      <4> HIDE DEF sample, report
      <4> QED BY <3>2
    <3>5. out' # [out EXCEPT ![r] = @ \o recs]
      <4> HIDE DEF recs
      <4> QED BY <1>1, <3>1, <3>3, <3>4 DEF Typed
    <3> QED BY <1>2, <3>5
  <2>2. TypeOK'
    BY <1>1, <1>3, <2>1 DEF TypeOK
  <2>3. Typed'
    BY <1>1, <1>3, <1>4, <2>1 DEF Typed
  <2>4. ASSUME NEW q \in Rings PROVE RingOK(q)'
    <3>1. Reading(q)' <=> Reading(q)
      BY <1>3 DEF Reading, ring
    <3> QED BY <1>1, <3>1, <1>3, <1>4, <2>1, RingUnchanged
  <2> QED BY <1>3, <1>4, <2>2, <2>3, <2>4 DEF RingInv
<1>5. CASE out' # out
  <2>1. PICK start :
          /\ Laid(mem[r], tail[r], head[r], out[r], start)
          /\ ~Reading(r) => tail[r] = start[Len(seen[r]) + 1]
          /\ Reading(r) => tail[r] <= dataTail /\ dataTail = start[Len(seen[r]) + 1]
          /\ Reading(r) /\ pc = "record" =>
               /\ begin = dataTail % Size
               /\ \E j \in (Len(seen[r]) + 1)..(Len(out[r]) + 1) : end = start[j] % Size
    BY <1>1 DEF RingOK
  <2>2. /\ DOMAIN mem' = Rings /\ DOMAIN mem'[r] = 0..(Size - 1)
        /\ head' \in [Rings -> Nat] /\ out' \in [Rings -> Seq(Recs)]
        /\ \A q \in Rings \ {r} : mem'[q] = mem[q] /\ head'[q] = head[q] /\ out'[q] = out[q]
        /\ head[r] <= head'[r] /\ head'[r] - tail[r] <= Size - 1
        /\ \E more \in Seq(Recs) : more # <<>> /\ out'[r] = out[r] \o more
        /\ \E next : /\ Laid(mem'[r], tail[r], head'[r], out'[r], next)
                      /\ \A i \in 1..(Len(out[r]) + 1) : next[i] = start[i]
    BY <1>1, <2>1, <1>5, OutputExtends, ZenonT(40)
  <2>3. PICK next : /\ Laid(mem'[r], tail[r], head'[r], out'[r], next)
                    /\ \A i \in 1..(Len(out[r]) + 1) : next[i] = start[i]
    BY <2>2
  <2>4. TypeOK'
    <3>1. lost' \in [Rings -> Nat]
      BY <1>1, <1>3 DEF TypeOK
    <3>2. frames' \in 0..MaxFrames /\ waking' \subseteq Rings
      BY <1>1, <1>3 DEF TypeOK
    <3> QED BY <1>1, <1>3, <2>2, <3>1, <3>2 DEF TypeOK
  <2>5. /\ out[r] \in Seq(Recs) /\ Len(out[r]) \in Nat
        /\ Len(out'[r]) \in Nat /\ Len(out[r]) <= Len(out'[r])
    <3>1. PICK more \in Seq(Recs) : out'[r] = out[r] \o more
      BY <2>2
    <3>2. out[r] \in Seq(Recs)
      BY <1>1 DEF Typed
    <3> QED BY <3>1, <3>2
  <2>6. Typed'
    BY <1>1, <1>3, <2>2 DEF Typed
  <2>7. ASSUME NEW q \in Rings PROVE Reading(q)' <=> Reading(q)
    BY <1>3 DEF Reading, ring
  <2>8. RingOK(r)'
    <3>1. Len(seen[r]) \in Nat /\ Len(seen[r]) <= Len(out[r])
      BY <1>1 DEF RingOK, Typed
    <3>2. Len(seen[r]) + 1 \in 1..(Len(out[r]) + 1)
      BY <3>1, <2>5
    <3>3. next[Len(seen[r]) + 1] = start[Len(seen[r]) + 1]
      BY <3>2, <2>3
    <3>4. head'[r] - tail[r] \in 0..(Size - 1)
      <4>1. head[r] \in Nat /\ tail[r] \in Nat /\ head[r] - tail[r] \in 0..(Size - 1)
        BY <1>1 DEF TypeOK, RingOK
      <4>2. head'[r] \in Nat
        BY <2>2
      <4> QED BY <4>1, <4>2, <2>2, SMTT(30)
    <3>5. ASSUME Reading(r), pc = "record"
          PROVE  \E j \in (Len(seen[r]) + 1)..(Len(out'[r]) + 1) : end = next[j] % Size
      <4>1. PICK j \in (Len(seen[r]) + 1)..(Len(out[r]) + 1) : end = start[j] % Size
        BY <2>1, <3>5
      <4>2. j \in 1..(Len(out[r]) + 1) /\ j \in (Len(seen[r]) + 1)..(Len(out'[r]) + 1)
        BY <3>1, <2>5
      <4> QED BY <4>1, <4>2, <2>3
    <3>6. Laid(mem'[r], tail'[r], head'[r], out'[r], next)
      BY <1>3, <2>3
    <3>7. ~Reading(r)' => tail'[r] = next[Len(seen'[r]) + 1]
      BY <1>3, <2>1, <2>7, <3>3
    <3>8. Reading(r)' => tail'[r] <= dataTail' /\ dataTail' = next[Len(seen'[r]) + 1]
      BY <1>3, <2>1, <2>7, <3>3
    <3>9. Reading(r)' /\ pc' = "record" =>
            /\ begin' = dataTail' % Size
            /\ \E j \in (Len(seen'[r]) + 1)..(Len(out'[r]) + 1) : end' = next[j] % Size
      BY <1>3, <2>1, <2>7, <3>5
    <3>10. head'[r] - tail'[r] \in 0..(Size - 1) /\ Len(seen'[r]) <= Len(out'[r])
      <4>1. Len(seen[r]) <= Len(out'[r])
        BY <3>1, <2>5
      <4> QED BY <4>1, <1>3, <3>4
    <3> QED BY <3>6, <3>7, <3>8, <3>9, <3>10 DEF RingOK
  <2>9. ASSUME NEW q \in Rings, q # r PROVE RingOK(q)'
    <3>1. mem'[q] = mem[q] /\ head'[q] = head[q] /\ out'[q] = out[q]
      BY <2>2, <2>9
    <3> QED BY <1>1, <3>1, <1>3, <2>7, RingUnchanged
  <2> QED BY <1>3, <2>2, <2>4, <2>6, <2>8, <2>9 DEF RingInv
<1> QED BY <1>4, <1>5

-----------------------------------------------------------------------------
(***************************************************************************)
(* The reader.                                                             *)
(***************************************************************************)

\* What the reader finds at begin is the first record it has not seen: its header,
\* its words put together, and the place behind it.
LEMMA NextRecord ==
  ASSUME RingInv, pc = "record", begin # end,
         NEW start, Laid(mem[ring], tail[ring], head[ring], out[ring], start),
         tail[ring] <= dataTail, dataTail = start[Len(seen[ring]) + 1],
         begin = dataTail % Size,
         \E j \in (Len(seen[ring]) + 1)..(Len(out[ring]) + 1) : end = start[j] % Size
  PROVE  /\ Len(seen[ring]) + 1 \in 1..Len(out[ring])
         /\ out[ring][Len(seen[ring]) + 1] \in Recs
         /\ ehdr = out[ring][Len(seen[ring]) + 1]
         /\ Assembled = Words(ehdr)
         /\ NextBegin = (dataTail + ehdr.size) % Size
         /\ start[Len(seen[ring]) + 2] = dataTail + ehdr.size
         /\ \E j \in (Len(seen[ring]) + 2)..(Len(out[ring]) + 1) : end = start[j] % Size
<1> DEFINE n == Len(seen[ring]) + 1
           o == out[ring]
           rec == o[n]
<1>1. ring \in Rings /\ TypeOK /\ Typed /\ RingOK(ring)
  BY AtRing DEF RingInv
<1>2. /\ o \in Seq(Recs) /\ Len(o) \in Nat /\ n \in Nat /\ 1 <= n /\ n <= Len(o) + 1
      /\ DOMAIN mem[ring] = 0..(Size - 1) /\ Size \in Nat \ {0}
  <2>1. o \in Seq(Recs) /\ DOMAIN mem[ring] = 0..(Size - 1)
    BY <1>1 DEF Typed
  <2>2. Len(seen[ring]) \in Nat /\ Len(seen[ring]) <= Len(o)
    BY <1>1 DEF Typed, RingOK
  <2> QED BY <2>1, <2>2
<1>3. /\ start \in [1..(Len(o) + 1) -> Nat]
      /\ \A i \in 1..Len(o) : start[i + 1] = start[i] + o[i].size
      /\ \A i \in 1..Len(o) : start[i] >= tail[ring] =>
           \A k \in 1..o[i].size : mem[ring][(start[i] + k - 1) % Size] = <<o[i], k>>
  BY DEF Laid
<1>4. PICK j \in n..(Len(o) + 1) : end = start[j] % Size
  OBVIOUS
<1>5. j # n
  BY <1>4
<1> HIDE DEF n, o
<1>6. n \in 1..Len(o) /\ j \in (n + 1)..(Len(o) + 1)
  BY <1>2, <1>4, <1>5
<1>7. rec \in Recs /\ rec.size \in 1..(Size - 1)
  <2>1. rec \in Recs
    BY <1>2, <1>6
  <2> HIDE DEF rec
  <2> QED BY <2>1 DEF Recs
<1>8. dataTail \in Nat /\ dataTail = start[n] /\ dataTail >= tail[ring]
  <2>1. dataTail \in Nat /\ tail[ring] \in Nat
    BY <1>1 DEF TypeOK
  <2> QED BY <2>1 DEF n
<1>9. \A k \in 1..rec.size : mem[ring][(dataTail + k - 1) % Size] = <<rec, k>>
  BY <1>3, <1>6, <1>8
<1> HIDE DEF rec
<1>10. begin \in 0..(Size - 1)
  BY <1>1 DEF TypeOK
<1>11. ASSUME NEW d \in 0..(Size - 1)
       PROVE  (dataTail + d) % Size = IF begin + d < Size THEN begin + d ELSE begin + d - Size
  <2>1. dataTail \in Int /\ Size \in Nat \ {0}
    BY <1>2, <1>8
  <2>2. (dataTail + d) % Size = IF (dataTail % Size) + d < Size THEN (dataTail % Size) + d
                                ELSE (dataTail % Size) + d - Size
    BY <2>1, ModAdd, Zenon
  <2> QED BY <2>2, Zenon
<1>12. ehdr = rec
  <2>1. mem[ring][(dataTail + 1 - 1) % Size] = <<rec, 1>>
    <3>1. 1 \in 1..rec.size
      BY <1>7
    <3> QED BY <3>1, <1>9
  <2>2. (dataTail + 1 - 1) % Size = begin
    BY <1>8
  <2> QED BY <2>1, <2>2 DEF ehdr
<1>13. Assembled = Words(rec)
  <2> DEFINE len == Size - begin
  <2>1. ASSUME NEW k \in 1..rec.size
        PROVE  /\ (~Wraps \/ k <= len) => mem[ring][begin + k - 1] = <<rec, k>>
               /\ ~(~Wraps \/ k <= len) => mem[ring][k - len - 1] = <<rec, k>>
    <3>1. k \in 1..Size /\ k <= rec.size
      BY <1>7
    <3>2. mem[ring][(dataTail + k - 1) % Size] = <<rec, k>>
      BY <1>9
    <3> DEFINE d == k - 1
    <3>3. d \in 0..(Size - 1) /\ k - 1 = d
      BY <3>1, <1>2
    <3>4. mem[ring][(dataTail + d) % Size] = <<rec, k>>
      BY <3>2
    <3>5. begin + k - 1 = begin + d /\ k - len - 1 = begin + d - Size
      BY <3>1, <1>2, <1>10
    <3>6. Wraps <=> begin + rec.size > Size
      BY <1>12 DEF Wraps
    <3>7. k <= len <=> begin + d < Size
      BY <3>1, <1>2, <1>10, SMTT(30)
    <3>8. begin + rec.size <= Size => begin + d < Size
      BY <3>1, <1>2, <1>7, <1>10, SMTT(30)
    <3> HIDE DEF d, len
    <3>9. (dataTail + d) % Size = IF begin + d < Size THEN begin + d ELSE begin + d - Size
      BY <3>3, <1>11
    <3>10. ~Wraps => begin + rec.size <= Size
      BY <3>6, <1>2, <1>7, <1>10
    <3> QED BY <3>4, <3>5, <3>6, <3>7, <3>8, <3>9, <3>10
  <2> QED BY <2>1, <1>12 DEF Assembled, Words
<1>14. NextBegin = (dataTail + rec.size) % Size
  <2> DEFINE d == rec.size
  <2>1. d \in 0..(Size - 1) /\ d >= 1
    BY <1>7
  <2> HIDE DEF d
  <2>2. (dataTail + d) % Size = IF begin + d < Size THEN begin + d ELSE begin + d - Size
    BY <2>1, <1>11
  <2>3. NextBegin = IF begin + d > Size THEN d - (Size - begin)
                    ELSE IF begin + d = Size THEN 0 ELSE begin + d
    BY <1>12 DEF NextBegin, Wraps, d
  <2>4. begin + d \in Nat /\ begin + d - Size = d - (Size - begin)
    BY <2>1, <1>2, <1>10, SMTT(30)
  <2> DEFINE e == begin + d
             x == (dataTail + d) % Size
  <2>5. e \in Nat /\ Size \in Nat
    BY <2>4, <1>2
  <2>6. x = IF e < Size THEN e ELSE e - Size
    BY <2>2, <2>4, <2>1, <1>10, SMTT(30)
  <2>7. NextBegin = IF e > Size THEN e - Size ELSE IF e = Size THEN 0 ELSE e
    BY <2>3, <2>4, <2>1, <1>10
  <2> HIDE DEF e, x
  <2>8. NextBegin = x
    BY <2>5, <2>6, <2>7
  <2> QED BY <2>8 DEF d, x
<1>15. start[n + 1] = dataTail + rec.size
  BY <1>3, <1>6, <1>8 DEF rec
<1>16. n + 1 = Len(seen[ring]) + 2
  BY <1>2 DEF n
<1> QED BY <1>4, <1>6, <1>7, <1>12, <1>13, <1>14, <1>15, <1>16 DEF n, o, rec

\* The loop leaves a ring: no ring is being read any more.
LEMMA GoesOn ==
  ASSUME TypeOK, NEW left, left \subseteq Rings, GoOn(left), NEW r
  PROVE  /\ revents' \subseteq Rings /\ (revents' = {} <=> pc' = "poll")
         /\ pc' \in {"poll", "rings"} /\ ~Reading(r)'
         /\ begin' \in 0..(Size - 1) /\ end' \in 0..(Size - 1) /\ dataTail' \in Nat
<1>1. 0 \in 0..(Size - 1)
  OBVIOUS
<1> QED BY <1>1 DEF GoOn, Reading

LEMMA PollKeeps ==
  ASSUME RingInv, Poll
  PROVE  RingInv'
<1>1. TypeOK /\ Typed /\ \A q \in Rings : RingOK(q)
  BY DEF RingInv
<1>2. TypeOK'
  BY <1>1 DEF TypeOK, Poll, reader, buffer
<1>3. Typed'
  BY <1>1 DEF Typed, Poll
<1>4. ASSUME NEW q \in Rings PROVE RingOK(q)'
  <2>1. ~Reading(q) /\ ~Reading(q)'
    BY DEF Reading, Poll
  <2> QED BY <1>1, <2>1, RingUnchanged DEF Poll
<1> QED BY <1>2, <1>3, <1>4 DEF RingInv

LEMMA EnterKeeps ==
  ASSUME RingInv, Enter
  PROVE  RingInv'
<1>1. TypeOK /\ Typed /\ \A q \in Rings : RingOK(q)
  BY DEF RingInv
<1>2. pc = "rings" /\ ring \in revents /\ ring \in Rings
  BY <1>1, AtRing DEF Enter
<1>3. /\ UNCHANGED <<mem, head, lost, ready, frames, waking, out>>
      /\ UNCHANGED <<tail, bufLen, buf, seen, broken, oom>>
  BY DEF Enter, kernel, buffer
<1>4. Typed'
  BY <1>1, <1>3 DEF Typed
<1>5. \A q \in Rings : ~Reading(q)
  BY <1>2 DEF Reading
<1>6. CASE head[ring] = tail[ring]
  <2>1. GoOn(revents \ {ring})
    BY <1>6 DEF Enter
  <2>2. revents \ {ring} \subseteq Rings
    BY <1>1 DEF TypeOK
  <2>3. TypeOK'
    BY <1>1, <1>3, <2>1, <2>2, GoesOn DEF TypeOK
  <2>4. ASSUME NEW q \in Rings PROVE RingOK(q)'
    <3>1. ~Reading(q)'
      BY <1>1, <2>1, <2>2, GoesOn
    <3> QED BY <1>1, <1>3, <1>5, <3>1, RingUnchanged
  <2> QED BY <1>4, <2>3, <2>4 DEF RingInv
<1>7. CASE head[ring] # tail[ring]
  <2>1. /\ begin' = tail[ring] % Size /\ end' = head[ring] % Size
        /\ dataTail' = tail[ring] /\ pc' = "record" /\ revents' = revents
    BY <1>7 DEF Enter
  <2>2. tail[ring] \in Nat /\ head[ring] \in Nat /\ Size \in Nat \ {0}
    BY <1>1, <1>2 DEF TypeOK
  <2>3. begin' \in 0..(Size - 1) /\ end' \in 0..(Size - 1)
    BY <2>1, <2>2
  <2>4. TypeOK'
    BY <1>1, <1>2, <1>3, <2>1, <2>2, <2>3 DEF TypeOK
  <2>5. ring' = ring
    BY <2>1 DEF ring
  <2>6. ASSUME NEW q \in Rings, q # ring PROVE RingOK(q)'
    <3>1. ~Reading(q)'
      BY <2>5, <2>6 DEF Reading
    <3> QED BY <1>1, <1>3, <1>5, <3>1, RingUnchanged
  <2>7. ASSUME NEW r \in Rings, r = ring PROVE RingOK(r)'
    <3>1. r \in Rings /\ RingOK(r) /\ ~Reading(r)
      BY <1>1, <1>5, <2>7
    <3>2. PICK start :
            /\ Laid(mem[r], tail[r], head[r], out[r], start)
            /\ ~Reading(r) => tail[r] = start[Len(seen[r]) + 1]
      BY <3>1 DEF RingOK
    <3>3. start[Len(out[r]) + 1] = head[r]
      BY <3>2 DEF Laid
    <3>4. Len(seen[r]) \in Nat /\ Len(out[r]) \in Nat /\ Len(seen[r]) <= Len(out[r])
      BY <1>1, <3>1 DEF RingOK, Typed
    <3>5. Len(out[r]) + 1 \in (Len(seen[r]) + 1)..(Len(out[r]) + 1)
      BY <3>4
    <3>6. \E j \in (Len(seen[r]) + 1)..(Len(out[r]) + 1) : end' = start[j] % Size
      BY <2>1, <2>7, <3>3, <3>5
    <3>7. tail[r] <= dataTail' /\ dataTail' = start[Len(seen[r]) + 1] /\ begin' = dataTail' % Size
      BY <2>1, <2>2, <2>7, <3>1, <3>2
    <3>8. head[r] - tail[r] \in 0..(Size - 1)
      BY <3>1 DEF RingOK
    <3>9. Reading(r)'
      BY <2>1, <2>5, <2>7 DEF Reading
    <3>10. Laid(mem'[r], tail'[r], head'[r], out'[r], start)
      BY <1>3, <3>2
    <3>11. tail'[r] <= dataTail' /\ dataTail' = start[Len(seen'[r]) + 1]
      BY <1>3, <3>7
    <3>12. /\ begin' = dataTail' % Size
           /\ \E j \in (Len(seen'[r]) + 1)..(Len(out'[r]) + 1) : end' = start[j] % Size
      BY <1>3, <3>6, <3>7
    <3>13. head'[r] - tail'[r] \in 0..(Size - 1) /\ Len(seen'[r]) <= Len(out'[r])
      BY <1>3, <3>4, <3>8
    <3> QED BY <3>9, <3>10, <3>11, <3>12, <3>13 DEF RingOK
  <2> QED BY <1>2, <1>4, <2>4, <2>5, <2>6, <2>7 DEF RingInv
<1> QED BY <1>6, <1>7

\* Where an invariant of the reader's own steps needs the ring it is at
LEMMA AtRecord ==
  ASSUME RingInv, pc \in {"record", "store", "crashed"}, NEW r \in Rings, r = ring
  PROVE  /\ Reading(r)
         /\ \A q \in Rings : q # r => ~Reading(q)
         /\ \E start :
              /\ Laid(mem[r], tail[r], head[r], out[r], start)
              /\ tail[r] <= dataTail /\ dataTail = start[Len(seen[r]) + 1]
              /\ pc = "record" =>
                   /\ begin = dataTail % Size
                   /\ \E j \in (Len(seen[r]) + 1)..(Len(out[r]) + 1) : end = start[j] % Size
<1>1. Reading(r) /\ RingOK(r)
  BY DEF Reading, RingInv
<1>2. \A q \in Rings : q # r => ~Reading(q)
  BY DEF Reading
<1> QED BY <1>1, <1>2 DEF RingOK

\* A step within a ring that sees nothing new
LEMMA StaysAtRing ==
  ASSUME RingInv, pc = "record", pc' \in {"store", "crashed"},
         UNCHANGED <<mem, head, out, tail, seen, revents, dataTail>>
  PROVE  \A q \in Rings : RingOK(q)'
<1>1. ring' = ring
  BY DEF ring
<1>2. ASSUME NEW q \in Rings PROVE RingOK(q)'
  <2>1. RingOK(q)
    BY DEF RingInv
  <2>2. Reading(q)' <=> Reading(q)
    BY <1>1 DEF Reading
  <2> QED BY <2>1, <2>2, RingUnchanged
<1> QED BY <1>2

LEMMA MallocFailsKeeps ==
  ASSUME RingInv, MallocFails
  PROVE  RingInv'
<1>1. TypeOK /\ Typed /\ ring \in Rings
  BY AtRing DEF RingInv, MallocFails
<1>2. /\ pc = "record" /\ pc' = "store" /\ buf' = 0 /\ oom' = TRUE /\ broken' = broken \cup {ring}
      /\ UNCHANGED <<mem, head, lost, ready, frames, waking, out>>
      /\ UNCHANGED <<tail, revents, begin, end, dataTail, bufLen, seen>>
  BY DEF MallocFails, BreakOff, kernel, reader
<1>3. TypeOK' /\ Typed'
  BY <1>1, <1>2 DEF TypeOK, Typed
<1> QED BY <1>2, <1>3, StaysAtRing DEF RingInv

LEMMA OverrunKeeps ==
  ASSUME RingInv, Overrun
  PROVE  RingInv'
<1>1. TypeOK /\ Typed
  BY DEF RingInv
<1>2. /\ pc = "record" /\ pc' = "crashed"
      /\ UNCHANGED <<mem, head, lost, ready, frames, waking, out>>
      /\ UNCHANGED <<tail, revents, begin, end, dataTail, bufLen, buf, seen, broken, oom>>
  BY DEF Overrun, kernel, reader, buffer
<1>3. TypeOK' /\ Typed'
  BY <1>1, <1>2 DEF TypeOK, Typed
<1> QED BY <1>2, <1>3, StaysAtRing DEF RingInv

LEMMA HandOverKeeps ==
  ASSUME RingInv, HandOver
  PROVE  /\ RingInv'
         /\ out' = out
         /\ \/ seen' = seen
            \/ \E r \in Rings :
                 /\ Len(seen[r]) < Len(out[r])
                 /\ seen' = [seen EXCEPT ![r] = Append(@, Words(out[r][Len(seen[r]) + 1]))]
<1>1. TypeOK /\ Typed /\ ring \in Rings /\ pc = "record" /\ begin # end
  BY AtRing DEF RingInv, HandOver
<1>2. PICK r \in Rings : r = ring
  BY <1>1
<1>3. PICK start :
       /\ Laid(mem[r], tail[r], head[r], out[r], start)
       /\ tail[r] <= dataTail /\ dataTail = start[Len(seen[r]) + 1]
       /\ begin = dataTail % Size
       /\ \E j \in (Len(seen[r]) + 1)..(Len(out[r]) + 1) : end = start[j] % Size
  BY <1>1, <1>2, AtRecord
<1>4. /\ Len(seen[r]) + 1 \in 1..Len(out[r])
      /\ out[r][Len(seen[r]) + 1] \in Recs
      /\ ehdr = out[r][Len(seen[r]) + 1]
      /\ Assembled = Words(ehdr)
      /\ NextBegin = (dataTail + ehdr.size) % Size
      /\ start[Len(seen[r]) + 2] = dataTail + ehdr.size
      /\ \E j \in (Len(seen[r]) + 2)..(Len(out[r]) + 1) : end = start[j] % Size
  BY <1>1, <1>2, <1>3, NextRecord
<1>5. /\ UNCHANGED <<mem, head, lost, ready, frames, waking, out, tail, revents, end, oom>>
      /\ begin' = NextBegin
      /\ \/ bufLen' = ehdr.size /\ buf' = ehdr.size
         \/ UNCHANGED <<bufLen, buf>>
      /\ \/ /\ seen' = [seen EXCEPT ![ring] = Append(@, Assembled)]
            /\ dataTail' = dataTail + ehdr.size
            /\ UNCHANGED <<pc, broken>>
         \/ /\ pc' = "store" /\ broken' = broken \cup {ring}
            /\ UNCHANGED <<seen, dataTail>>
  BY DEF HandOver, kernel, buffer, BreakOff
<1>6. ehdr.size \in 1..(Size - 1) /\ dataTail \in Nat /\ Size \in Nat \ {0}
  <2>1. ehdr \in Recs
    BY <1>4
  <2> QED BY <2>1, <1>1 DEF Recs, TypeOK
<1>7. begin' \in 0..(Size - 1)
  <2> DEFINE p == dataTail + ehdr.size
  <2>1. p \in Nat
    BY <1>6
  <2>2. begin' = p % Size
    BY <1>4, <1>5
  <2> HIDE DEF p
  <2> QED BY <2>1, <2>2, <1>6
<1>8. TypeOK'
  <2>1. /\ dataTail' \in Nat /\ bufLen' \in Nat /\ buf' \in Nat
        /\ pc' \in {"record", "store"} /\ broken' \subseteq Rings
    <3>1. dataTail + ehdr.size \in Nat /\ ehdr.size \in Nat
      BY <1>6
    <3> QED BY <3>1, <1>1, <1>5 DEF TypeOK
  <2> QED BY <1>1, <1>5, <1>7, <2>1 DEF TypeOK
<1>9. ring' = ring
  BY <1>5 DEF ring
<1>10. \A q \in Rings : Reading(q)' <=> Reading(q)
  BY <1>1, <1>5, <1>9 DEF Reading
<1>11. CASE seen' = seen /\ dataTail' = dataTail /\ pc' = "store"
  <2>1. Typed'
    BY <1>1, <1>5, <1>11 DEF Typed
  <2>2. \A q \in Rings : RingOK(q)'
    BY <1>1, <1>5, <1>11, StaysAtRing
  <2> QED BY <1>5, <1>8, <1>11, <2>1, <2>2 DEF RingInv
<1>12. CASE /\ seen' = [seen EXCEPT ![ring] = Append(@, Assembled)]
            /\ dataTail' = dataTail + ehdr.size /\ pc' = pc
  <2> DEFINE S == {Words(rec) : rec \in Recs}
             w == Words(out[r][Len(seen[r]) + 1])
  <2>1. w \in S /\ seen' = [seen EXCEPT ![r] = Append(@, w)]
    BY <1>2, <1>4, <1>12
  <2>2. seen[r] \in Seq(S) /\ seen \in [Rings -> Seq(S)] /\ out[r] \in Seq(Recs)
    BY <1>1 DEF Typed
  <2> HIDE DEF S, w
  <2>3. /\ Append(seen[r], w) \in Seq(S) /\ Len(Append(seen[r], w)) = Len(seen[r]) + 1
        /\ Len(seen[r]) \in Nat /\ Len(out[r]) \in Nat
    BY <2>1, <2>2
  <2>4. seen' \in [Rings -> Seq(S)] /\ Len(seen'[r]) = Len(seen[r]) + 1
        /\ \A q \in Rings : q # r => seen'[q] = seen[q]
    BY <2>1, <2>2, <2>3
  <2>5. Typed'
    BY <1>1, <1>5, <2>4 DEF Typed, S
  <2>6. ASSUME NEW q \in Rings, q # r PROVE RingOK(q)'
    <3>1. RingOK(q) /\ ~Reading(q) /\ ~Reading(q)'
      BY <1>2, <1>9, <2>6 DEF RingInv, Reading
    <3> QED BY <3>1, <1>5, <2>4, <2>6, RingUnchanged
  <2>7. RingOK(r)'
    <3>1. Reading(r)'
      BY <1>1, <1>2, <1>9, <1>12 DEF Reading
    <3>2. Laid(mem'[r], tail'[r], head'[r], out'[r], start)
      BY <1>3, <1>5
    <3>3. Len(seen'[r]) + 1 = Len(seen[r]) + 2
      BY <2>3, <2>4
    <3>4. tail'[r] <= dataTail' /\ dataTail' = start[Len(seen'[r]) + 1]
      <4>1. tail[r] \in Nat /\ tail[r] <= dataTail + ehdr.size
        <5>1. tail[r] \in Nat
          BY <1>1 DEF TypeOK
        <5> QED BY <5>1, <1>3, <1>6, SMTT(30)
      <4> QED BY <4>1, <3>3, <1>4, <1>5, <1>12
    <3>5. /\ begin' = dataTail' % Size
          /\ \E j \in (Len(seen'[r]) + 1)..(Len(out'[r]) + 1) : end' = start[j] % Size
      BY <3>3, <1>4, <1>5, <1>12
    <3>6. head'[r] - tail'[r] \in 0..(Size - 1) /\ Len(seen'[r]) <= Len(out'[r])
      <4>1. head[r] - tail[r] \in 0..(Size - 1)
        BY DEF RingInv, RingOK
      <4> QED BY <4>1, <1>4, <1>5, <2>3, <2>4
    <3> QED BY <3>1, <3>2, <3>4, <3>5, <3>6 DEF RingOK
  <2>8. Len(seen[r]) < Len(out[r])
    BY <1>4, <2>3
  <2> QED BY <1>5, <1>8, <2>1, <2>5, <2>6, <2>7, <2>8 DEF RingInv, w
<1> QED BY <1>5, <1>11, <1>12

LEMMA StoreTailKeeps ==
  ASSUME RingInv, StoreTail
  PROVE  RingInv'
<1>1. TypeOK /\ Typed /\ ring \in Rings /\ pc \in {"record", "store"}
  BY AtRing DEF RingInv, StoreTail
<1>2. PICK r \in Rings : r = ring
  BY <1>1
<1>3. PICK start :
       /\ Laid(mem[r], tail[r], head[r], out[r], start)
       /\ tail[r] <= dataTail /\ dataTail = start[Len(seen[r]) + 1]
  BY <1>1, <1>2, AtRecord
<1>4. /\ UNCHANGED <<mem, head, lost, ready, frames, waking, out, bufLen, buf, seen, broken, oom>>
      /\ tail' = [tail EXCEPT ![r] = dataTail]
  BY <1>2 DEF StoreTail, kernel, buffer
<1>5. PICK left \in SUBSET Rings : GoOn(left)
  <2>1. revents \subseteq Rings
    BY <1>1 DEF TypeOK
  <2>2. {} \in SUBSET Rings /\ revents \ {ring} \in SUBSET Rings
    BY <2>1
  <2> QED BY <2>2 DEF StoreTail
<1>6. /\ revents' \subseteq Rings /\ (revents' = {} <=> pc' = "poll")
      /\ pc' \in {"poll", "rings"}
      /\ begin' \in 0..(Size - 1) /\ end' \in 0..(Size - 1) /\ dataTail' \in Nat
  BY <1>1, <1>5, GoesOn
<1>7. \A q \in Rings : ~Reading(q)'
  BY <1>6 DEF Reading
<1>8. dataTail \in Nat /\ tail[r] \in Nat /\ head[r] \in Nat
  BY <1>1 DEF TypeOK
<1>9. TypeOK'
  <2>1. tail' \in [Rings -> Nat]
    BY <1>1, <1>4, <1>8 DEF TypeOK
  <2> QED BY <1>1, <1>4, <1>6, <2>1 DEF TypeOK
<1>10. Typed'
  BY <1>1, <1>4 DEF Typed
<1>11. tail'[r] = dataTail /\ \A q \in Rings : q # r => tail'[q] = tail[q]
  BY <1>1, <1>4 DEF TypeOK
<1>12. ASSUME NEW q \in Rings, q # r PROVE RingOK(q)'
  <2>1. RingOK(q) /\ ~Reading(q)
    BY <1>2, <1>12 DEF RingInv, Reading
  <2> QED BY <2>1, <1>4, <1>7, <1>11, <1>12, RingUnchanged
<1>13. RingOK(r)'
  <2>1. Len(seen[r]) \in Nat /\ Len(out[r]) \in Nat /\ Len(seen[r]) <= Len(out[r])
    BY <1>1 DEF RingInv, RingOK, Typed
  <2>2. head[r] - tail[r] \in 0..(Size - 1)
    BY DEF RingInv, RingOK
  <2>3. /\ start \in [1..(Len(out[r]) + 1) -> Nat] /\ start[Len(out[r]) + 1] = head[r]
        /\ \A i, j \in 1..(Len(out[r]) + 1) : i < j => start[i] < start[j]
    BY <1>3 DEF Laid
  <2>4. dataTail <= head[r]
    <3>1. CASE Len(seen[r]) = Len(out[r])
      BY <3>1, <1>3, <1>8, <2>3
    <3>2. CASE Len(seen[r]) # Len(out[r])
      <4>1. Len(seen[r]) + 1 \in 1..(Len(out[r]) + 1) /\ Len(out[r]) + 1 \in 1..(Len(out[r]) + 1)
            /\ Len(seen[r]) + 1 < Len(out[r]) + 1
        BY <3>2, <2>1
      <4>2. start[Len(seen[r]) + 1] < start[Len(out[r]) + 1]
        BY <4>1, <2>3
      <4> QED BY <4>2, <1>3, <1>8, <2>3
    <3> QED BY <3>1, <3>2
  <2>5. head'[r] - tail'[r] \in 0..(Size - 1)
    BY <1>3, <1>4, <1>8, <1>11, <2>2, <2>4, SMTT(30)
  <2>6. Laid(mem'[r], tail'[r], head'[r], out'[r], start)
    <3>1. Laid(mem[r], dataTail, head[r], out[r], start)
      <4>1. ASSUME NEW i \in 1..Len(out[r]), start[i] >= dataTail PROVE start[i] >= tail[r]
        <5>1. start[i] \in Nat
          BY <2>1, <2>3
        <5> QED BY <5>1, <4>1, <1>3, <1>8
      <4> QED BY <4>1, <1>3 DEF Laid
    <3> QED BY <3>1, <1>4, <1>11
  <2>7. tail'[r] = start[Len(seen'[r]) + 1]
    BY <1>3, <1>4, <1>11
  <2> QED BY <1>4, <1>7, <2>1, <2>5, <2>6, <2>7 DEF RingOK
<1> QED BY <1>9, <1>10, <1>12, <1>13 DEF RingInv

LEMMA WakeKeeps ==
  ASSUME RingInv, NEW r \in Rings, Wake(r)
  PROVE  RingInv'
<1>1. TypeOK /\ Typed
  BY DEF RingInv
<1>2. /\ waking' = waking \ {r} /\ ready' = [ready EXCEPT ![r] = TRUE]
      /\ UNCHANGED <<mem, head, lost, frames, out, tail, pc, revents>>
      /\ UNCHANGED <<begin, end, dataTail, bufLen, buf, seen, broken, oom>>
  BY DEF Wake, reader, buffer
<1>3. TypeOK' /\ Typed'
  BY <1>1, <1>2 DEF TypeOK, Typed
<1>4. ASSUME NEW q \in Rings PROVE RingOK(q)'
  <2>1. RingOK(q)
    BY DEF RingInv
  <2>2. Reading(q)' <=> Reading(q)
    BY <1>2 DEF Reading, ring
  <2> QED BY <2>1, <2>2, <1>2, RingUnchanged
<1> QED BY <1>3, <1>4 DEF RingInv

LEMMA NothingKeeps ==
  ASSUME RingInv, UNCHANGED vars
  PROVE  RingInv'
<1>1. TypeOK /\ Typed
  BY DEF RingInv
<1>2. /\ UNCHANGED <<mem, head, lost, ready, frames, waking, out, tail, pc, revents>>
      /\ UNCHANGED <<begin, end, dataTail, bufLen, buf, seen, broken, oom>>
  BY DEF vars, kernel, reader, buffer
<1>3. TypeOK' /\ Typed'
  BY <1>1, <1>2 DEF TypeOK, Typed
<1>4. ASSUME NEW q \in Rings PROVE RingOK(q)'
  <2>1. RingOK(q)
    BY DEF RingInv
  <2>2. Reading(q)' <=> Reading(q)
    BY <1>2 DEF Reading, ring
  <2> QED BY <2>1, <2>2, <1>2, RingUnchanged
<1> QED BY <1>3, <1>4 DEF RingInv

-----------------------------------------------------------------------------
(***************************************************************************)
(* The ring as a queue.                                                    *)
(***************************************************************************)

\* What is in the queue of a ring where o was output and s seen
Queued(o, s) == [i \in 1..(Len(o) - Len(s)) |-> Words(o[Len(s) + i])]

Contents == {Words(rec) : rec \in Recs}

LEMMA QueuedIsSequence ==
  ASSUME NEW o \in Seq(Recs), NEW s \in Seq(Contents), Len(s) <= Len(o)
  PROVE  /\ Queued(o, s) \in Seq(Contents) /\ Len(Queued(o, s)) = Len(o) - Len(s)
         /\ \A i \in 1..(Len(o) - Len(s)) : Queued(o, s)[i] = Words(o[Len(s) + i])
         /\ Len(s) \in Nat /\ Len(o) \in Nat
<1> DEFINE n == Len(o) - Len(s)
<1>1. Len(s) \in Nat /\ Len(o) \in Nat /\ n \in Nat
  OBVIOUS
<1>2. ASSUME NEW i \in 1..n PROVE Words(o[Len(s) + i]) \in Contents
  <2>1. Len(s) + i \in 1..Len(o)
    BY <1>1
  <2>2. o[Len(s) + i] \in Recs
    BY <2>1
  <2> QED BY <2>2 DEF Contents
<1> HIDE DEF n
<1>3. [i \in 1..n |-> Words(o[Len(s) + i])] \in Seq(Contents)
  BY <1>1, <1>2
<1>4. Len([i \in 1..n |-> Words(o[Len(s) + i])]) = n
  BY <1>1
<1> QED BY <1>1, <1>3, <1>4 DEF Queued, n

\* More output: the queue is longer, and begins as before.
LEMMA QueueGrows ==
  ASSUME NEW o \in Seq(Recs), NEW s \in Seq(Contents), Len(s) <= Len(o),
         NEW more \in Seq(Recs), more # <<>>
  PROVE  IsStrictPrefix(Queued(o, s), Queued(o \o more, s))
<1> DEFINE q == Queued(o, s)
           p == o \o more
           t == Queued(p, s)
<1>1. /\ p \in Seq(Recs) /\ Len(p) = Len(o) + Len(more) /\ Len(more) \in Nat /\ Len(more) > 0
      /\ Len(s) \in Nat /\ Len(o) \in Nat /\ Len(s) <= Len(p)
  OBVIOUS
<1>2. \A i \in 1..Len(o) : p[i] = o[i]
  OBVIOUS
<1> HIDE DEF p
<1>3. /\ q \in Seq(Contents) /\ Len(q) = Len(o) - Len(s)
      /\ \A i \in 1..(Len(o) - Len(s)) : q[i] = Words(o[Len(s) + i])
  BY QueuedIsSequence
<1>4. /\ t \in Seq(Contents) /\ Len(t) = Len(p) - Len(s)
      /\ \A i \in 1..(Len(p) - Len(s)) : t[i] = Words(p[Len(s) + i])
  BY <1>1, QueuedIsSequence
<1> HIDE DEF q, t
<1>5. ASSUME NEW i \in 1..(Len(o) - Len(s)) PROVE q[i] = t[i]
  <2>1. i \in 1..(Len(p) - Len(s)) /\ Len(s) + i \in 1..Len(o)
    BY <1>1
  <2> QED BY <2>1, <1>2, <1>3, <1>4
<1>6. Len(q) <= Len(t) /\ q # t /\ Len(q) \in Nat
  BY <1>1, <1>3, <1>4
<1>7. SubSeq(q, 1, Len(q)) = SubSeq(t, 1, Len(q))
  <2>1. \A i \in 1..Len(q) : q[i] = t[i]
    BY <1>3, <1>5
  <2> QED BY <1>3, <1>4, <1>6, <2>1
<1> QED BY <1>6, <1>7 DEF IsStrictPrefix, IsPrefix, q, t, p

\* One more seen: the queue loses its first.
LEMMA QueueShrinks ==
  ASSUME NEW o \in Seq(Recs), NEW s \in Seq(Contents), Len(s) < Len(o), NEW w \in Contents
  PROVE  /\ Queued(o, s) # <<>>
         /\ Head(Queued(o, s)) = Words(o[Len(s) + 1])
         /\ Queued(o, Append(s, w)) = Tail(Queued(o, s))
<1> DEFINE q == Queued(o, s)
           r == Append(s, w)
           t == Queued(o, r)
<1>1. /\ r \in Seq(Contents) /\ Len(r) = Len(s) + 1 /\ Len(s) \in Nat /\ Len(o) \in Nat
      /\ Len(r) <= Len(o) /\ Len(s) <= Len(o)
  OBVIOUS
<1> HIDE DEF r
<1>2. /\ q \in Seq(Contents) /\ Len(q) = Len(o) - Len(s)
      /\ \A i \in 1..(Len(o) - Len(s)) : q[i] = Words(o[Len(s) + i])
  BY <1>1, QueuedIsSequence
<1>3. /\ t \in Seq(Contents) /\ Len(t) = Len(o) - Len(r)
      /\ \A i \in 1..(Len(o) - Len(r)) : t[i] = Words(o[Len(r) + i])
  BY <1>1, QueuedIsSequence
<1> HIDE DEF q, t
<1>4. 1 \in 1..(Len(o) - Len(s)) /\ Len(q) > 0
  BY <1>1, <1>2
<1>5. q # <<>> /\ Head(q) = q[1] /\ q[1] = Words(o[Len(s) + 1])
  BY <1>2, <1>4
<1>6. ASSUME NEW i \in 1..(Len(o) - Len(r)) PROVE t[i] = q[i + 1]
  <2>1. i + 1 \in 1..(Len(o) - Len(s)) /\ Len(r) + i = Len(s) + (i + 1)
    BY <1>1
  <2> QED BY <2>1, <1>2, <1>3
<1>7. Len(t) = Len(q) - 1
  BY <1>1, <1>2, <1>3
<1>8. t = Tail(q)
  <2>1. \A i \in 1..Len(t) : t[i] = q[i + 1]
    BY <1>3, <1>6
  <2>2. /\ Tail(q) \in Seq(Contents) /\ Len(Tail(q)) = Len(q) - 1
        /\ \A i \in 1..(Len(q) - 1) : Tail(q)[i] = q[i + 1]
    BY <1>2, <1>4
  <2> QED BY <2>1, <2>2, <1>3, <1>7, SMTT(30)
<1> QED BY <1>5, <1>8 DEF q, t, r

\* A step changes the queues as PerfQueue's does, or not at all.
LEMMA StepOfQueue ==
  ASSUME RingInv, [Next]_vars
  PROVE  RingInv' /\ [Queue!Next]_(Queue!vars)
<1> DEFINE Same == out' = out /\ seen' = seen
<1>1. ASSUME Same PROVE UNCHANGED Queue!vars
  BY <1>1 DEF Queue!vars
<1>2. CASE UNCHANGED vars
  <2>1. RingInv'
    BY <1>2, NothingKeeps
  <2>2. Same
    BY <1>2 DEF vars, kernel
  <2> QED BY <2>1, <2>2, <1>1
<1>3. CASE Poll \/ Enter \/ MallocFails \/ Overrun \/ StoreTail
  <2>1. RingInv'
    BY <1>3, PollKeeps, EnterKeeps, MallocFailsKeeps, OverrunKeeps, StoreTailKeeps
  <2>2. Same
    BY <1>3 DEF Poll, Enter, MallocFails, Overrun, StoreTail, kernel
  <2> QED BY <2>1, <2>2, <1>1
<1>4. ASSUME NEW r \in Rings, Wake(r)
      PROVE  RingInv' /\ [Queue!Next]_(Queue!vars)
  <2>1. RingInv'
    BY <1>4, WakeKeeps
  <2>2. Same
    BY <1>4 DEF Wake
  <2> QED BY <2>1, <2>2, <1>1
<1>5. ASSUME NEW r \in Rings, Output(r)
      PROVE  RingInv' /\ [Queue!Next]_(Queue!vars)
  <2>1. /\ RingInv' /\ seen' = seen
        /\ \A q \in Rings \ {r} : out'[q] = out[q]
        /\ out'[r] # out[r] => \E more \in Seq(Recs) : more # <<>> /\ out'[r] = out[r] \o more
    BY <1>5, OutputKeeps
  <2>2. CASE out'[r] = out[r]
    <3>1. \A q \in Rings : out'[q] = out[q]
      BY <2>1, <2>2
    <3>2. Typed /\ Typed'
      BY <2>1 DEF RingInv
    <3>3. out' = out
      <4>1. out \in [Rings -> Seq(Recs)] /\ out' \in [Rings -> Seq(Recs)]
        BY <3>2 DEF Typed
      <4>2. out = [q \in Rings |-> out[q]] /\ out' = [q \in Rings |-> out'[q]]
        BY <4>1
      <4>3. [q \in Rings |-> out[q]] = [q \in Rings |-> out'[q]]
        BY <3>1
      <4> QED BY <4>2, <4>3, Zenon
    <3> QED BY <2>1, <3>3, <1>1
  <2>3. CASE out'[r] # out[r]
    <3>1. PICK more \in Seq(Recs) : more # <<>> /\ out'[r] = out[r] \o more
      BY <2>1, <2>3
    <3>2. out[r] \in Seq(Recs) /\ seen[r] \in Seq(Contents) /\ Len(seen[r]) <= Len(out[r])
      BY DEF RingInv, RingOK, Typed, Contents
    <3>3. IsStrictPrefix(Queued(out[r], seen[r]), Queued(out'[r], seen'[r]))
      BY <2>1, <3>1, <3>2, QueueGrows
    <3>4. \A q \in Rings : q # r => Queued(out'[q], seen'[q]) = Queued(out[q], seen[q])
      BY <2>1
    <3>5. [q \in Rings |-> Queued(out'[q], seen'[q])] =
            [[q \in Rings |-> Queued(out[q], seen[q])] EXCEPT ![r] = Queued(out'[r], seen'[r])]
      BY <3>4
    <3>6. Queue!Output(r)
      <4>1. [q \in Rings |-> Queued(out'[q], seen'[q])] =
              [[q \in Rings |-> Queued(out[q], seen[q])] EXCEPT
                 ![r] = [q \in Rings |-> Queued(out'[q], seen'[q])][r]]
        BY <3>5
      <4>2. Queue!IsStrictPrefix([q \in Rings |-> Queued(out[q], seen[q])][r],
                                 [q \in Rings |-> Queued(out'[q], seen'[q])][r])
        BY <3>3 DEF Queue!IsStrictPrefix, Queue!IsPrefix, IsStrictPrefix, IsPrefix
      <4> QED BY <2>1, <4>1, <4>2 DEF Queue!Output, Queued
    <3> QED BY <2>1, <3>6 DEF Queue!Next
  <2> QED BY <2>2, <2>3
<1>6. CASE HandOver
  <2>1. /\ RingInv' /\ out' = out
        /\ \/ seen' = seen
           \/ \E r \in Rings :
                /\ Len(seen[r]) < Len(out[r])
                /\ seen' = [seen EXCEPT ![r] = Append(@, Words(out[r][Len(seen[r]) + 1]))]
    BY <1>6, HandOverKeeps
  <2>2. CASE seen' = seen
    BY <2>1, <2>2, <1>1
  <2>3. ASSUME NEW r \in Rings, Len(seen[r]) < Len(out[r]),
               seen' = [seen EXCEPT ![r] = Append(@, Words(out[r][Len(seen[r]) + 1]))]
        PROVE  Queue!HandOver(r)
    <3> DEFINE w == Words(out[r][Len(seen[r]) + 1])
    <3>1. /\ out[r] \in Seq(Recs) /\ seen[r] \in Seq(Contents)
          /\ seen \in [Rings -> Seq(Contents)]
      BY DEF RingInv, Typed, Contents
    <3>2. w \in Contents
      <4>1. Len(seen[r]) \in Nat /\ Len(out[r]) \in Nat
        BY <3>1
      <4>2. Len(seen[r]) + 1 \in 1..Len(out[r])
        BY <4>1, <2>3
      <4>3. out[r][Len(seen[r]) + 1] \in Recs
        BY <3>1, <4>2
      <4> QED BY <4>3 DEF Contents
    <3>3. /\ seen' = [seen EXCEPT ![r] = Append(@, w)] /\ seen'[r] = Append(seen[r], w)
          /\ \A q \in Rings : q # r => seen'[q] = seen[q]
      BY <2>3, <3>1
    <3> HIDE DEF w
    <3>4. /\ Queued(out[r], seen[r]) # <<>>
          /\ Head(Queued(out[r], seen[r])) = w
          /\ Queued(out[r], Append(seen[r], w)) = Tail(Queued(out[r], seen[r]))
      BY <2>3, <3>1, <3>2, QueueShrinks DEF w
    <3>5. \A q \in Rings : q # r => Queued(out'[q], seen'[q]) = Queued(out[q], seen[q])
      BY <2>1, <3>3
    <3>6. [q \in Rings |-> Queued(out'[q], seen'[q])] =
            [[q \in Rings |-> Queued(out[q], seen[q])] EXCEPT ![r] = Tail(@)]
      BY <2>1, <3>3, <3>4, <3>5
    <3> QED BY <3>3, <3>4, <3>6 DEF Queue!HandOver, Queued
  <2> QED BY <2>1, <2>2, <2>3 DEF Queue!Next
<1> QED BY <1>2, <1>3, <1>4, <1>5, <1>6 DEF Next, Poller

LEMMA InitOfQueue ==
  ASSUME Init
  PROVE  Queue!Init
<1>1. \A r \in Rings : out[r] = <<>> /\ seen[r] = <<>>
  BY DEF Init
<1>2. ASSUME NEW r \in Rings PROVE Queued(out[r], seen[r]) = <<>>
  <2>1. out[r] = <<>> /\ seen[r] = <<>>
    BY <1>1
  <2> DEFINE e == <<>>
  <2>2. e \in Seq(Recs) /\ e \in Seq(Contents) /\ Len(e) = 0
    OBVIOUS
  <2> HIDE DEF e
  <2>3. Len(e) <= Len(e) /\ Len(e) - Len(e) = 0
    BY <2>2
  <2>4. Queued(e, e) \in Seq(Contents) /\ Len(Queued(e, e)) = 0
    BY <2>2, <2>3, QueuedIsSequence
  <2>5. Queued(e, e) = <<>>
    BY <2>4
  <2> QED BY <2>1, <2>5 DEF e
<1>3. seen = [r \in Rings |-> <<>>]
  BY DEF Init
<1>4. [r \in Rings |-> Queued(out[r], seen[r])] = [r \in Rings |-> <<>>]
  BY <1>2
<1> QED BY <1>3, <1>4 DEF Queue!Init, Queued

-----------------------------------------------------------------------------
(***************************************************************************)
(* The theorems.                                                           *)
(***************************************************************************)

\* The reader's positions keep inside the ring (libbpf.c:2293), the loop over
\* the descriptors is at one of them until it waits again, and no count leaves
\* its range.
THEOREM PositionsStayInside == Spec => []TypeOK
<1>1. Init => RingInv
  BY RingInit
<1>2. RingInv /\ [Next]_vars => RingInv'
  BY StepOfQueue
<1>3. RingInv => TypeOK
  BY DEF RingInv
<1> QED BY <1>1, <1>2, <1>3, PTL DEF Spec

\* bpf_perf_event_read_simple makes a queue of every ring: for any size of ring
\* and record, wherever records end, and whatever the kernel writes meanwhile,
\* the callback is handed the records in the order of their output, whole, each
\* once, and a refused one stays.
THEOREM RingsAreQueues == Spec => RingIsQueue
<1>1. Init => RingInv /\ Queue!Init
  BY RingInit, InitOfQueue
<1>2. RingInv /\ [Next]_vars => RingInv' /\ [Queue!Next]_(Queue!vars)
  BY StepOfQueue
<1> QED BY <1>1, <1>2, PTL DEF Spec, RingIsQueue, Queue!Spec

\* The buffer is as large as *buf_len says, until an allocation has failed.
BufferInv == oom \/ (buf = bufLen /\ pc # "crashed")

\* A wrapped record is copied to a buffer that holds it, whatever the sizes of
\* the records before, in every ring, unless an allocation has failed.
THEOREM CopiesFit == Spec => []CopyFits
<1>1. Init => BufferInv
  BY DEF Init, BufferInv
<1>2. ASSUME BufferInv, [Next]_vars PROVE BufferInv'
  <2>1. CASE MallocFails
    BY <2>1 DEF MallocFails, BufferInv
  <2>2. CASE Overrun
    <3>1. ~(buf = bufLen)
      BY <2>2 DEF Overrun, NeedsBuffer
    <3>2. oom' = oom
      BY <2>2 DEF Overrun
    <3> QED BY <1>2, <3>1, <3>2, Zenon DEF BufferInv
  <2>3. CASE HandOver
    <3>1. oom' = oom /\ (buf' = bufLen' \/ (buf' = buf /\ bufLen' = bufLen)) /\ pc' \in {pc, "store"}
      BY <2>3 DEF HandOver, BreakOff, buffer
    <3> QED BY <1>2, <3>1, Zenon DEF BufferInv
  <2>4. CASE Poll \/ Enter \/ StoreTail
    <3>1. oom' = oom /\ buf' = buf /\ bufLen' = bufLen /\ pc' # "crashed"
      BY <2>4 DEF Poll, Enter, StoreTail, GoOn, buffer
    <3> QED BY <1>2, <3>1, Zenon DEF BufferInv
  <2>5. CASE (\E r \in Rings : Output(r) \/ Wake(r)) \/ UNCHANGED vars
    <3>1. ASSUME NEW r \in Rings, Output(r) \/ Wake(r)
          PROVE  oom' = oom /\ buf' = buf /\ bufLen' = bufLen /\ pc' = pc
      BY <3>1 DEF Output, Wake, buffer
    <3>2. ASSUME UNCHANGED vars
          PROVE  oom' = oom /\ buf' = buf /\ bufLen' = bufLen /\ pc' = pc
      BY <3>2 DEF vars, buffer
    <3>3. oom' = oom /\ buf' = buf /\ bufLen' = bufLen /\ pc' = pc
      BY <2>5, <3>1, <3>2
    <3> QED BY <1>2, <3>3, Zenon DEF BufferInv
  <2> QED BY <1>2, <2>1, <2>2, <2>3, <2>4, <2>5 DEF Next, Poller
<1>3. BufferInv => CopyFits
  BY Zenon DEF BufferInv, CopyFits
<1> QED BY <1>1, <1>2, <1>3, PTL DEF Spec

-----------------------------------------------------------------------------
(***************************************************************************)
(* No wake-up is lost.  NoWakeUpLost says nothing of what the kernel has   *)
(* published behind the data_head the reader has read; that it is          *)
(* announced again is what holds when the reader leaves the ring.          *)
(***************************************************************************)
Announced(r) == ready[r] \/ r \in waking

BrokenBefore(r) == \E s \in broken : s <= r

WakeOK(r) ==
  /\ head[r] # tail[r] => Announced(r) \/ r \in revents \/ BrokenBefore(r)
  /\ pc = "record" /\ r = ring /\ head[r] % Size # end => Announced(r)
  /\ pc = "store" /\ r = ring => r \in broken

WakeInv == \A r \in Rings : WakeOK(r)

LEMMA PollWakes ==
  ASSUME RingInv, WakeInv, Poll
  PROVE  WakeInv'
<1>1. TypeOK
  BY DEF RingInv
<1>2. ASSUME NEW r \in Rings PROVE WakeOK(r)'
  <2>1. WakeOK(r)
    BY DEF WakeInv
  <2>2. /\ ready[r] => r \in revents' /\ pc' = "rings"
        /\ head' = head /\ tail' = tail /\ waking' = waking /\ broken' = broken
        /\ pc = "poll" /\ pc' = "rings"
    BY DEF Poll
  <2>3. revents = {}
    BY <1>1, <2>2 DEF TypeOK
  <2> QED BY <2>1, <2>2, <2>3 DEF WakeOK, Announced, BrokenBefore
<1> QED BY <1>2 DEF WakeInv

LEMMA EnterWakes ==
  ASSUME RingInv, WakeInv, Enter
  PROVE  WakeInv'
<1>1. TypeOK /\ pc = "rings"
  BY DEF RingInv, Enter
<1>2. /\ head' = head /\ tail' = tail /\ ready' = ready /\ waking' = waking /\ broken' = broken
  BY DEF Enter, kernel
<1>3. ASSUME NEW r \in Rings PROVE WakeOK(r)'
  <2>1. WakeOK(r)
    BY DEF WakeInv
  <2>2. CASE head[ring] = tail[ring]
    <3>1. revents' = revents \ {ring} /\ pc' \in {"poll", "rings"}
      BY <2>2 DEF Enter, GoOn
    <3>2. head[r] # tail[r] /\ r \in revents => r \in revents'
      BY <2>2, <3>1
    <3> QED BY <1>2, <2>1, <3>1, <3>2 DEF WakeOK, Announced, BrokenBefore
  <2>3. CASE head[ring] # tail[ring]
    <3>1. revents' = revents /\ pc' = "record" /\ end' = head[ring] % Size
      BY <2>3 DEF Enter
    <3>2. ring' = ring
      BY <3>1 DEF ring
    <3> QED BY <1>2, <2>1, <3>1, <3>2 DEF WakeOK, Announced, BrokenBefore
  <2> QED BY <2>2, <2>3
<1> QED BY <1>3 DEF WakeInv

\* A turn of the reader's loop, or its end by a failure.
LEMMA ReadingWakes ==
  ASSUME RingInv, WakeInv, MallocFails \/ Overrun \/ HandOver
  PROVE  WakeInv'
<1>1. /\ head' = head /\ tail' = tail /\ ready' = ready /\ waking' = waking
      /\ revents' = revents /\ end' = end /\ pc = "record"
      /\ \/ pc' \in {"record", "crashed"} /\ broken' = broken
         \/ pc' = "store" /\ broken' = broken \cup {ring}
  BY DEF MallocFails, Overrun, HandOver, BreakOff, kernel, reader
<1>2. ring' = ring
  BY <1>1 DEF ring
<1>3. ASSUME NEW r \in Rings PROVE WakeOK(r)'
  <2>1. WakeOK(r)
    BY DEF WakeInv
  <2>2. broken \subseteq broken'
    BY <1>1
  <2>3. BrokenBefore(r) => BrokenBefore(r)'
    BY <2>2 DEF BrokenBefore
  <2> QED BY <1>1, <1>2, <2>1, <2>3 DEF WakeOK, Announced
<1> QED BY <1>3 DEF WakeInv

\* What the ring holds when the reader has stored its position is what was
\* published behind the data_head it had read.
LEMMA StoreTailWakes ==
  ASSUME RingInv, WakeInv, StoreTail
  PROVE  WakeInv'
<1>1. TypeOK /\ ring \in Rings /\ ring \in revents /\ pc \in {"record", "store"}
  BY AtRing DEF RingInv, StoreTail
<1>2. /\ head' = head /\ ready' = ready /\ waking' = waking /\ broken' = broken
      /\ tail' = [tail EXCEPT ![ring] = dataTail]
  BY DEF StoreTail, kernel
<1>3. pc' \in {"poll", "rings"}
  BY DEF StoreTail, GoOn
<1>4. /\ tail'[ring] = dataTail /\ \A q \in Rings : q # ring => tail'[q] = tail[q]
      /\ head[ring] \in Nat /\ tail[ring] \in Nat /\ dataTail \in Nat
  BY <1>1, <1>2 DEF TypeOK
<1>5. RingInv'
  BY StoreTailKeeps
<1>6. head[ring] - dataTail \in 0..(Size - 1)
  <2>1. PICK r \in Rings : r = ring
    BY <1>1
  <2>2. RingOK(r)'
    BY <1>5 DEF RingInv
  <2>3. head'[r] - tail'[r] \in 0..(Size - 1)
    BY <2>2 DEF RingOK
  <2> QED BY <1>2, <1>4, <2>1, <2>3
<1>7. ASSUME pc = "record", head[ring] % Size = end PROVE head[ring] = dataTail
  <2>1. begin = end
    BY <1>7 DEF StoreTail
  <2>2. PICK r \in Rings : r = ring
    BY <1>1
  <2>3. begin = dataTail % Size
    BY <1>7, <2>2, AtRecord
  <2> DEFINE d == head[ring] - dataTail
  <2>4. d \in 0..(Size - 1) /\ head[ring] = dataTail + d /\ Size \in Nat \ {0}
    BY <1>4, <1>6, SizesAssumption
  <2>5. (dataTail + d) % Size = dataTail % Size
    BY <1>7, <2>1, <2>3, <2>4
  <2> HIDE DEF d
  <2>6. dataTail % Size \in 0..(Size - 1)
    BY <1>4, <2>4
  <2>7. (dataTail + d) % Size = IF (dataTail % Size) + d < Size THEN (dataTail % Size) + d
                                ELSE (dataTail % Size) + d - Size
    <3>1. dataTail \in Int
      BY <1>4
    <3> HIDE DEF SizesAssumption
    <3> QED BY <2>4, <3>1, ModAdd
  <2>8. d = 0
    BY <2>4, <2>5, <2>6, <2>7
  <2> QED BY <1>4, <2>4, <2>8
<1>8. ASSUME NEW r \in Rings PROVE WakeOK(r)'
  <2>1. WakeOK(r) /\ WakeOK(ring)
    BY <1>1 DEF WakeInv
  <2>2. CASE pc = "store"
    <3>1. revents \subseteq Nat /\ revents # {} /\ ring \in broken
      BY <1>1, <2>1, <2>2 DEF TypeOK, WakeOK
    <3>2. r \in revents => ring <= r
      BY <3>1, MinIsElement DEF ring
    <3>3. r \in revents => BrokenBefore(r)
      BY <3>1, <3>2 DEF BrokenBefore
    <3>4. r = ring => BrokenBefore(r)
      BY <1>1, <3>3
    <3>5. r # ring => tail'[r] = tail[r]
      BY <1>4
    <3> QED BY <1>2, <1>3, <2>1, <3>3, <3>4, <3>5 DEF WakeOK, Announced, BrokenBefore
  <2>3. CASE pc = "record"
    <3>1. revents' = revents \ {ring}
      BY <2>3 DEF StoreTail, GoOn
    <3>2. CASE r = ring
      <4>1. head'[r] # tail'[r] => head[r] % Size # end
        BY <1>2, <1>4, <1>7, <2>3, <3>2
      <4>2. head'[r] # tail'[r] => Announced(r)
        BY <2>1, <2>3, <3>2, <4>1 DEF WakeOK
      <4> QED BY <1>2, <1>3, <4>2 DEF WakeOK, Announced
    <3>3. CASE r # ring
      <4>1. tail'[r] = tail[r] /\ (r \in revents => r \in revents')
        BY <1>4, <3>1, <3>3
      <4> QED BY <1>2, <1>3, <2>1, <4>1 DEF WakeOK, Announced, BrokenBefore
    <3> QED BY <3>2, <3>3
  <2> QED BY <1>1, <2>2, <2>3
<1> QED BY <1>8 DEF WakeInv

\* What a CPU publishes is announced before it counts as published.
LEMMA KernelWakes ==
  ASSUME RingInv, WakeInv, NEW q \in Rings, Output(q) \/ Wake(q)
  PROVE  WakeInv'
<1>1. /\ tail' = tail /\ pc' = pc /\ revents' = revents /\ end' = end /\ broken' = broken
  BY DEF Output, Wake, reader
<1>2. ring' = ring
  BY <1>1 DEF ring
<1>3. ASSUME NEW r \in Rings PROVE /\ Announced(r) => Announced(r)'
                                   /\ head'[r] # head[r] => Announced(r)'
  <2>0. head \in [Rings -> Nat] /\ ready \in [Rings -> BOOLEAN]
    BY DEF RingInv, TypeOK
  <2>1. CASE Output(q)
    <3>1. /\ ready' = ready
          /\ \/ waking' = waking \cup {q} /\ \E n : head' = [head EXCEPT ![q] = n]
             \/ waking' = waking /\ head' = head
      BY <2>1 DEF Output
    <3>2. r # q => head'[r] = head[r] \/ head' = head
      BY <2>0, <3>1
    <3> QED BY <3>1, <3>2 DEF Announced
  <2>2. CASE Wake(q)
    <3>1. head' = head /\ waking' = waking \ {q} /\ ready' = [ready EXCEPT ![q] = TRUE]
      BY <2>2 DEF Wake
    <3>2. ready'[q] /\ (r # q => ready'[r] = ready[r])
      BY <2>0, <3>1
    <3> QED BY <3>1, <3>2 DEF Announced
  <2> QED BY <2>1, <2>2
<1>4. ASSUME NEW r \in Rings PROVE WakeOK(r)'
  <2>1. WakeOK(r)
    BY DEF WakeInv
  <2> QED BY <1>1, <1>2, <1>3, <2>1 DEF WakeOK, BrokenBefore
<1> QED BY <1>4 DEF WakeInv

\* No wake-up is lost: whatever is published between poll and the reading of
\* data_head, or while the ring is read, is announced, or the poller has yet to
\* come to it, unless a reading of this ring or one before it was broken off.
THEOREM WakeUpsKept == Spec => []NoWakeUpLost
<1>1. Init => RingInv /\ WakeInv
  <2>1. Init => WakeInv
    BY DEF Init, WakeInv, WakeOK
  <2> QED BY <2>1, RingInit
<1>2. ASSUME RingInv, WakeInv, [Next]_vars PROVE RingInv' /\ WakeInv'
  <2>1. RingInv'
    BY <1>2, StepOfQueue
  <2>2. CASE Poller
    BY <1>2, <2>1, <2>2, PollWakes, EnterWakes, ReadingWakes, StoreTailWakes DEF Poller
  <2>3. CASE \E r \in Rings : Output(r) \/ Wake(r)
    BY <1>2, <2>1, <2>3, KernelWakes
  <2>4. CASE UNCHANGED vars
    <3>1. /\ head' = head /\ tail' = tail /\ ready' = ready /\ waking' = waking /\ broken' = broken
          /\ revents' = revents /\ pc' = pc /\ end' = end
      BY <2>4 DEF vars, kernel, reader
    <3>2. ring' = ring
      BY <3>1 DEF ring
    <3>3. ASSUME NEW r \in Rings PROVE WakeOK(r)'
      <4>1. WakeOK(r)
        BY <1>2 DEF WakeInv
      <4> QED BY <3>1, <3>2, <4>1 DEF WakeOK, Announced, BrokenBefore
    <3> QED BY <2>1, <3>3 DEF WakeInv
  <2> QED BY <1>2, <2>1, <2>2, <2>3, <2>4 DEF Next
<1>3. WakeInv => NoWakeUpLost
  BY DEF WakeInv, WakeOK, Announced, BrokenBefore, NoWakeUpLost
<1> QED BY <1>1, <1>2, <1>3, PTL DEF Spec
=============================================================================
