--------------------------- MODULE PlacePlanProofs ---------------------------
(***************************************************************************)
(* The hole pool of rewrite/editor.rs over any sequence of placements, for *)
(* every pool, plan and section: no byte is handed out twice, what is      *)
(* written stays in its span unless a branch out of the plan is widened    *)
(* only at the hole, a call that places nothing gives back what it took,   *)
(* and what is placed stays connected.                                     *)
(***************************************************************************)
EXTENDS PlacePlan, EmitProofs, WellFoundedInduction, SequenceTheorems

\* The span of n bytes at a lies in a hole of pool s; no hole of s overlaps it.
Within(a, n, s) ==
  \E h \in DOMAIN s : s[h].va <= a /\ a + n <= s[h].va + s[h].size

ClearOf(a, n, s) ==
  \A h \in DOMAIN s : Apart(a, n, s[h].va, s[h].size)

\* What is left of pool s.
LeftOf(t, s) == IsPool(t) /\ \A j \in DOMAIN t : Within(t[j].va, t[j].size, s)

\* What is written lies in its span, or the layout outgrew the probe.
PlacedSpan ==
  {e \in [va : Nat, need : Nat, written : Int, outgrew : BOOLEAN] :
     e.written <= e.need \/ e.outgrew}

\* Spans q lie in the freed pool f, apart from each other and clear of pool s.
SpansOK(q, s, f) ==
  /\ q \in Seq(PlacedSpan)
  /\ \A i \in 1 .. Len(q) :
       Within(q[i].va, q[i].need, f) /\ ClearOf(q[i].va, q[i].need, s)
  /\ \A i, j \in 1 .. Len(q) :
       i # j => Apart(q[i].va, q[i].need, q[j].va, q[j].need)

\* The room of block b, and the blocks of p that were given addresses a out of
\* pool s when t is what is left of it.
Room(p, b) == round4(block_sizes(p)[b])

Taken(a, p, t, s) ==
  /\ LeftOf(t, s)
  /\ \A b \in 1 .. Len(a) : Within(a[b], Room(p, b), s) /\ ClearOf(a[b], Room(p, b), t)
  /\ \A b, c \in 1 .. Len(a) :
       b # c => Apart(a[b], Room(p, b), a[c], Room(p, c))

\* The reservation in progress is one hole of the pool the call found, and
\* the pool is what reserve_hole left of it.
Reserved ==
  \E i \in DOMAIN before, n \in Nat :
    /\ n > 0 /\ n <= before[i].size
    /\ holes = take_hole(before, i, n)
    /\ resv = HoleReservation(before, i, n)
    /\ base = before[i].va

\* The spans handed out stay clear of the pool, and of the pool a call that is
\* running may have to go back to.
PoolInv ==
  /\ freed \in Pools
  /\ LeftOf(holes, freed) /\ LeftOf(before, freed)
  /\ SpansOK(placed, holes, freed)
  /\ phase # "idle" => SpansOK(placed, before, freed)

CallInv ==
  /\ phase \in {"idle", "probe", "place", "take", "scatter"}
  /\ phase \in {"probe", "take", "scatter"} => holes = before
  /\ lifted => PoolRestored
  /\ phase = "probe" => mode = "lay_out_for_size"
  /\ phase = "place" => Reserved
  /\ phase = "take" =>
       /\ wanted \in Plans /\ wanted.starts # <<>>
       /\ addrs \in Seq(Nat) /\ Len(addrs) <= Len(wanted.starts)
       /\ Taken(addrs, wanted, tentative, holes)
  /\ phase = "scatter" => Scattered /\ Taken(place, plan, tentative, holes)

\* A conditional branch inside the plan that the probe has not widened reaches.
ShortReaches(j) ==
  (/\ ops[j].kind = "branch" /\ ops[j].invertible /\ ops[j].target.kind = "block"
   /\ strategy[j] = "Normal") => ops[j].range = 0 \/ ~OutOfReach(j, address)

ProbeInv ==
  mode = "lay_out_for_size" =>
    /\ pc = "widen" /\ ~grew => \A j \in 1 .. (k - 1) : ShortReaches(j)
    /\ pc = "done" => \A j \in 1 .. NumOps : ShortReaches(j)

\* Addresses a and sizes n are a layout of the plan, in which every conditional
\* branch inside the plan is widened or need not be.
Sized(a, n) ==
  /\ a \in [1 .. (NumOps + 1) -> Nat] /\ n \in [1 .. NumOps -> Nat]
  /\ \A j \in 1 .. NumOps : a[j + 1] = a[j] + n[j]
  /\ \A j \in 1 .. NumOps :
       (ops[j].kind = "branch" /\ ops[j].invertible /\ ops[j].target.kind = "block") =>
         n[j] = WidenedSize \/ ops[j].range = 0 \/ ~OutOfReach(j, a)

\* No op is larger at the hole than the probe found it.
NoneLarger == \A j \in 1 .. NumOps : size[j] <= probed.size[j]

\* The room is that of the probe's layout, which the layout at the hole outgrows
\* only by a branch out of the plan, and the emission does not outgrow the layout.
HoleInv ==
  phase = "place" =>
    /\ mode = "lay_out"
    /\ Sized(probed.address, probed.size)
    /\ resv.need = round4(probed.address[NumOps + 1] - probed.address[1])
    /\ OutgrewProbe \/ NoneLarger
    /\ \A j \in 1 .. Len(out) : out[j].at + out[j].len <= address[j] + size[j]

PInv == LayoutInv /\ GrowthInv /\ EmitInv /\ PoolInv /\ CallInv /\ ProbeInv /\ HoleInv

-----------------------------------------------------------------------------
(* Numbers.                                                                *)

LEMMA LeastElement ==
  ASSUME NEW T \in SUBSET Nat, T # {}
  PROVE  \E m \in T : \A n \in T : m <= n
<1>1. \E x \in T : \A y \in T : ~ (<<y, x>> \in OpToRel(<, Nat))
  BY NatLessThanWellFounded, WFMin
<1>2. PICK x \in T : \A y \in T : ~ (<<y, x>> \in OpToRel(<, Nat))
  BY <1>1
<1>3. \A y \in T : ~ (y < x)
  BY <1>2 DEF OpToRel
<1> QED
  BY <1>3

LEMMA Round4 ==
  ASSUME NEW n \in Nat
  PROVE  round4(n) \in Nat /\ round4(n) >= n
<1>1. (n + 3) \div 4 \in Nat /\ n + 3 < 4 * ((n + 3) \div 4) + 4
  OBVIOUS
<1> QED
  BY <1>1 DEF round4

-----------------------------------------------------------------------------
(* Pools.                                                                  *)

LEMMA HoleFacts ==
  ASSUME NEW s, IsPool(s)
  PROVE  /\ DOMAIN s = 1 .. Len(s) /\ Len(s) \in Nat
         /\ \A i \in DOMAIN s :
              /\ s[i] \in Hole /\ s[i].va \in Nat /\ s[i].size \in Nat
              /\ s[i].size > 0
              /\ s[i] = [va |-> s[i].va, size |-> s[i].size]
<1>1. s \in Seq(Hole)
  BY DEF IsPool
<1>2. DOMAIN s = 1 .. Len(s) /\ Len(s) \in Nat /\ \A i \in DOMAIN s : s[i] \in Hole
  BY <1>1
<1> QED
  BY <1>2 DEF IsPool, Hole

\* The first of the smallest holes that fit.
LEMMA BestFit ==
  ASSUME NEW s, IsPool(s), NEW need \in Nat, best_fit(s, need) # 0
  PROVE  /\ need # 0
         /\ best_fit(s, need) \in DOMAIN s
         /\ s[best_fit(s, need)].size >= need
<1>1. need # 0 /\ Fits(s, need) # {}
  BY DEF best_fit
<1> DEFINE F == Fits(s, need)
           sizes == {s[i].size : i \in F}
<1>2. /\ DOMAIN s \subseteq Nat /\ F \subseteq DOMAIN s
      /\ \A i \in DOMAIN s : s[i].size \in Nat
      /\ \A i \in F : s[i].size >= need
  BY HoleFacts DEF Fits
<1>3. PICK m \in sizes : \A n \in sizes : m <= n
  <2>1. sizes \in SUBSET Nat /\ sizes # {}
    BY <1>1, <1>2
  <2> QED
    BY <2>1, LeastElement
<1> DEFINE smallest == {i \in F : s[i].size = m}
<1>4. PICK i \in smallest : \A j \in smallest : i <= j
  <2>1. smallest \in SUBSET Nat /\ smallest # {}
    BY <1>2, <1>3
  <2> QED
    BY <2>1, LeastElement
<1>5. \A j \in F : \/ s[i].size < s[j].size
                   \/ s[i].size = s[j].size /\ i <= j
  <2> TAKE j \in F
  <2>1. m <= s[j].size /\ s[i].size = m /\ s[j].size \in Nat /\ m \in Nat
    BY <1>2, <1>3, <1>4
  <2>2. s[j].size = m => i <= j
    BY <1>4
  <2> QED
    BY <2>1, <2>2
<1>6. i \in F
  BY <1>4
<1>7. best_fit(s, need) \in F
  BY <1>1, <1>5, <1>6 DEF best_fit
<1> QED
  BY <1>1, <1>2, <1>7

\* Where the holes go when one is removed or put back.
LEMMA RemoveFacts ==
  ASSUME NEW s \in Seq(Hole), NEW i \in 1 .. Len(s)
  PROVE  /\ RemoveAt(s, i) \in Seq(Hole)
         /\ Len(RemoveAt(s, i)) = Len(s) - 1
         /\ \A j \in 1 .. (Len(s) - 1) :
              RemoveAt(s, i)[j] = IF j < i THEN s[j] ELSE s[j + 1]
<1> DEFINE a == SubSeq(s, 1, i - 1)
           b == SubSeq(s, i + 1, Len(s))
<1>1. /\ Len(s) \in Nat /\ i - 1 \in Int /\ i + 1 \in Int
      /\ \A j \in 1 .. (i - 1) : s[j] \in Hole
      /\ \A j \in (i + 1) .. Len(s) : s[j] \in Hole
  OBVIOUS
<1>2. /\ a \in Seq(Hole) /\ Len(a) = i - 1 /\ \A j \in 1 .. (i - 1) : a[j] = s[j]
  BY <1>1
<1>3. /\ b \in Seq(Hole) /\ Len(b) = Len(s) - i
      /\ \A j \in 1 .. (Len(s) - i) : b[j] = s[j + i]
  BY <1>1
<1>4. RemoveAt(s, i) = a \o b
  BY DEF RemoveAt
<1> HIDE DEF a, b
<1>5. /\ a \o b \in Seq(Hole) /\ Len(a \o b) = Len(s) - 1
      /\ \A j \in 1 .. (Len(s) - 1) :
           (a \o b)[j] = IF j <= i - 1 THEN a[j] ELSE b[j - (i - 1)]
  <2>1. /\ a \o b \in Seq(Hole) /\ Len(a \o b) = Len(a) + Len(b)
        /\ \A j \in 1 .. (Len(a) + Len(b)) :
             (a \o b)[j] = IF j <= Len(a) THEN a[j] ELSE b[j - Len(a)]
    BY <1>2, <1>3, ConcatProperties
  <2>2. Len(a) + Len(b) = Len(s) - 1
    BY <1>1, <1>2, <1>3
  <2> QED
    BY <2>1, <2>2, <1>2
<1>6. ASSUME NEW j \in 1 .. (Len(s) - 1)
      PROVE  (a \o b)[j] = IF j < i THEN s[j] ELSE s[j + 1]
  <2>1. CASE j < i
    BY <2>1, <1>2, <1>5
  <2>2. CASE ~(j < i)
    <3>1. j - (i - 1) \in 1 .. (Len(s) - i) /\ (j - (i - 1)) + i = j + 1
      BY <2>2, <1>1
    <3>2. (a \o b)[j] = b[j - (i - 1)]
      BY <2>2, <1>5
    <3> QED
      BY <2>2, <3>1, <3>2, <1>3
  <2> QED
    BY <2>1, <2>2
<1> QED
  BY <1>4, <1>5, <1>6

LEMMA InsertFacts ==
  ASSUME NEW s \in Seq(Hole), NEW i \in 1 .. (Len(s) + 1), NEW e \in Hole
  PROVE  /\ InsertAt(s, i, e) \in Seq(Hole)
         /\ Len(InsertAt(s, i, e)) = Len(s) + 1
         /\ \A j \in 1 .. (Len(s) + 1) :
              InsertAt(s, i, e)[j] = IF j < i THEN s[j]
                                     ELSE IF j = i THEN e ELSE s[j - 1]
<1> DEFINE a == SubSeq(s, 1, i - 1)
           b == SubSeq(s, i, Len(s))
           c == a \o <<e>>
<1>1. Len(s) \in Nat
  OBVIOUS
<1>2. /\ a \in Seq(Hole) /\ Len(a) = i - 1 /\ \A j \in 1 .. (i - 1) : a[j] = s[j]
  BY <1>1
<1>3. /\ b \in Seq(Hole) /\ Len(b) = Len(s) - i + 1
      /\ \A j \in 1 .. (Len(s) - i + 1) : b[j] = s[j + i - 1]
  BY <1>1
<1>4. InsertAt(s, i, e) = c \o b
  BY DEF InsertAt
<1> HIDE DEF a, b
<1>5. /\ c \in Seq(Hole) /\ Len(c) = i
      /\ \A j \in 1 .. i : c[j] = IF j < i THEN s[j] ELSE e
  BY <1>1, <1>2
<1> HIDE DEF c
<1>6. /\ c \o b \in Seq(Hole) /\ Len(c \o b) = Len(s) + 1
      /\ \A j \in 1 .. (Len(s) + 1) : (c \o b)[j] = IF j <= i THEN c[j] ELSE b[j - i]
  BY <1>1, <1>3, <1>5
<1>7. ASSUME NEW j \in 1 .. (Len(s) + 1)
      PROVE  (c \o b)[j] = IF j < i THEN s[j] ELSE IF j = i THEN e ELSE s[j - 1]
  <2>1. CASE j <= i
    BY <2>1, <1>5, <1>6
  <2>2. CASE ~(j <= i)
    <3>1. j - i \in 1 .. (Len(s) - i + 1) /\ (j - i) + i - 1 = j - 1
      BY <2>2, <1>1
    <3>2. (c \o b)[j] = b[j - i]
      BY <2>2, <1>6
    <3> QED
      BY <2>2, <3>1, <3>2, <1>3
  <2> QED
    BY <2>1, <2>2
<1> QED
  BY <1>4, <1>6, <1>7

\* A taken span lies in the pool it was taken from and nothing that is left
\* overlaps it.
LEMMA TakeFacts ==
  ASSUME NEW s, IsPool(s), NEW i \in DOMAIN s, NEW n \in Nat,
         n > 0, n <= s[i].size
  PROVE  /\ LeftOf(take_hole(s, i, n), s)
         /\ ClearOf(s[i].va, n, take_hole(s, i, n))
         /\ Within(s[i].va, n, s)
<1> DEFINE t == take_hole(s, i, n)
<1>1. /\ s \in Seq(Hole) /\ DOMAIN s = 1 .. Len(s) /\ Len(s) \in Nat
      /\ \A j \in DOMAIN s : s[j].va \in Nat /\ s[j].size \in Nat /\ s[j].size > 0
      /\ \A j, m \in DOMAIN s :
           j # m => Apart(s[j].va, s[j].size, s[m].va, s[m].size)
  BY HoleFacts DEF IsPool
<1>2. Within(s[i].va, n, s)
  BY <1>1 DEF Within
<1>3. CASE s[i].size - n < 4
  <2>1. t = RemoveAt(s, i)
    BY <1>3 DEF take_hole
  <2>2. /\ t \in Seq(Hole) /\ Len(t) = Len(s) - 1
        /\ \A j \in 1 .. (Len(s) - 1) : t[j] = IF j < i THEN s[j] ELSE s[j + 1]
    <3> HIDE DEF t
    <3>1. i \in 1 .. Len(s)
      BY <1>1
    <3> QED
      BY <2>1, <3>1, <1>1, RemoveFacts
  <2> HIDE DEF t
  <2> DEFINE from(j) == IF j < i THEN j ELSE j + 1
  <2>3. \A j \in DOMAIN t : from(j) \in DOMAIN s /\ from(j) # i /\ t[j] = s[from(j)]
    BY <2>2, <1>1
  <2>4. \A j, m \in DOMAIN t : j # m => from(j) # from(m)
    BY <2>2, <1>1
  <2> HIDE DEF from
  <2>5. IsPool(t)
    BY <2>2, <2>3, <2>4, <1>1 DEF IsPool
  <2>6. \A j \in DOMAIN t : Within(t[j].va, t[j].size, s)
    BY <2>3, <1>1 DEF Within
  <2>7. ClearOf(s[i].va, n, t)
    <3> SUFFICES ASSUME NEW j \in DOMAIN t
                 PROVE  Apart(s[i].va, n, t[j].va, t[j].size)
      BY DEF ClearOf
    <3>1. Apart(s[i].va, s[i].size, t[j].va, t[j].size)
      BY <2>3, <1>1
    <3>2. t[j].va \in Nat /\ t[j].size \in Nat
      BY <2>3, <1>1
    <3> QED
      BY <3>1, <3>2, <1>1 DEF Apart
  <2> QED
    BY <2>5, <2>6, <2>7, <1>2 DEF LeftOf, t
<1>4. CASE ~(s[i].size - n < 4)
  <2> DEFINE e == Shrunk(s[i], n)
  <2>1. t = [s EXCEPT ![i] = e]
    BY <1>4 DEF take_hole
  <2>2. e \in Hole /\ e.va = s[i].va + n /\ e.size = s[i].size - n /\ e.size > 0
    BY SMTT(30), <1>1, <1>4 DEF Shrunk, Hole
  <2> HIDE DEF e
  <2>3. /\ t \in Seq(Hole) /\ DOMAIN t = DOMAIN s
        /\ \A j \in DOMAIN s : t[j] = IF j = i THEN e ELSE s[j]
    BY <2>1, <2>2, <1>1
  <2> HIDE DEF t
  <2>4. \A j \in DOMAIN t :
          /\ t[j].va \in Nat /\ t[j].size \in Nat /\ t[j].size > 0
          /\ s[j].va <= t[j].va
          /\ t[j].va + t[j].size <= s[j].va + s[j].size
    <3> TAKE j \in DOMAIN t
    <3>1. s[j].va \in Nat /\ s[j].size \in Nat /\ s[j].size > 0
      BY <2>3, <1>1
    <3>2. CASE j = i
      <4>1. t[j] = e
        BY <3>2, <2>3
      <4> QED
        BY <3>1, <3>2, <4>1, <2>2
    <3>3. CASE j # i
      <4>1. t[j] = s[j]
        BY <3>3, <2>3
      <4> QED
        BY <3>1, <4>1
    <3> QED
      BY <3>2, <3>3
  <2>5. ASSUME NEW j \in DOMAIN t, NEW m \in DOMAIN t, j # m
        PROVE  Apart(t[j].va, t[j].size, t[m].va, t[m].size)
    <3>1. Apart(s[j].va, s[j].size, s[m].va, s[m].size)
      BY <2>3, <2>5, <1>1
    <3>2. /\ s[j].va \in Nat /\ s[j].size \in Nat /\ s[m].va \in Nat
          /\ s[m].size \in Nat
      BY <2>3, <1>1
    <3> QED
      BY <3>1, <3>2, <2>4 DEF Apart
  <2>6. IsPool(t)
    BY <2>3, <2>4, <2>5 DEF IsPool
  <2>7. \A j \in DOMAIN t : Within(t[j].va, t[j].size, s)
    BY <2>3, <2>4 DEF Within
  <2>8. ClearOf(s[i].va, n, t)
    <3> SUFFICES ASSUME NEW j \in DOMAIN t
                 PROVE  Apart(s[i].va, n, t[j].va, t[j].size)
      BY DEF ClearOf
    <3>1. CASE j = i
      BY <3>1, <2>2, <2>3, <1>1 DEF Apart
    <3>2. CASE j # i
      <4>1. t[j] = s[j] /\ Apart(s[i].va, s[i].size, s[j].va, s[j].size)
        BY <3>2, <2>3, <1>1
      <4> QED
        BY <4>1, <2>3, <2>4, <1>1 DEF Apart
    <3> QED
      BY <3>1, <3>2
  <2> QED
    BY <2>6, <2>7, <2>8, <1>2 DEF LeftOf, t
<1> QED
  BY <1>3, <1>4

\* In a pool no two holes begin at the same address.
LEMMA DistinctStarts ==
  ASSUME NEW t, IsPool(t), NEW i \in DOMAIN t, NEW j \in DOMAIN t,
         t[i].va = t[j].va
  PROVE  i = j
<1>1. /\ t[i].va \in Nat /\ t[i].size \in Nat /\ t[i].size > 0
      /\ t[j].va \in Nat /\ t[j].size \in Nat /\ t[j].size > 0
  BY HoleFacts
<1>2. i # j => Apart(t[i].va, t[i].size, t[j].va, t[j].size)
  BY DEF IsPool
<1> QED
  BY <1>1, <1>2 DEF Apart

\* release_hole undoes reserve_hole, the order of the pool included.
LEMMA ReleaseFacts ==
  ASSUME NEW s, IsPool(s), NEW i \in DOMAIN s, NEW n \in Nat,
         n > 0, n <= s[i].size
  PROVE  release_hole(take_hole(s, i, n), HoleReservation(s, i, n)) = s
<1> DEFINE t == take_hole(s, i, n)
           r == HoleReservation(s, i, n)
<1>1. /\ s \in Seq(Hole) /\ DOMAIN s = 1 .. Len(s) /\ Len(s) \in Nat
      /\ \A j \in DOMAIN s :
           /\ s[j] \in Hole /\ s[j].va \in Nat /\ s[j].size \in Nat
           /\ s[j] = [va |-> s[j].va, size |-> s[j].size]
  BY HoleFacts DEF IsPool
<1>2. /\ r.va = s[i].va /\ r.need = n /\ r.idx = i /\ r.entry = s[i]
      /\ s[i].size - n < 4 => r.removed
      /\ ~(s[i].size - n < 4) => ~r.removed
  BY DEF HoleReservation
<1>3. IsPool(t)
  BY TakeFacts DEF LeftOf
<1> HIDE DEF r
<1>4. CASE s[i].size - n < 4
  <2>1. t = RemoveAt(s, i) /\ i \in 1 .. Len(s)
    BY <1>1, <1>4 DEF take_hole
  <2> HIDE DEF t
  <2>2. /\ t \in Seq(Hole) /\ Len(t) = Len(s) - 1
        /\ \A j \in 1 .. (Len(s) - 1) : t[j] = IF j < i THEN s[j] ELSE s[j + 1]
    BY <2>1, <1>1, RemoveFacts
  <2>3. release_hole(t, r) = InsertAt(t, i, s[i])
    <3>1. r.removed /\ ~(i > Len(t) + 1)
      BY <2>1, <2>2, <1>1, <1>2, <1>4
    <3> QED
      BY <3>1, <1>2 DEF release_hole
  <2> DEFINE u == InsertAt(t, i, s[i])
  <2>4. /\ u \in Seq(Hole) /\ Len(u) = Len(t) + 1
        /\ \A j \in 1 .. (Len(t) + 1) :
             u[j] = IF j < i THEN t[j] ELSE IF j = i THEN s[i] ELSE t[j - 1]
    <3>1. i \in 1 .. (Len(t) + 1) /\ s[i] \in Hole
      BY <2>1, <2>2, <1>1
    <3>2. t \in Seq(Hole)
      BY <2>2
    <3> QED
      BY <3>1, <3>2, InsertFacts, SMTT(60)
  <2> HIDE DEF u
  <2>5. ASSUME NEW j \in 1 .. Len(s)
        PROVE  u[j] = s[j]
    <3>1. u[j] = IF j < i THEN t[j] ELSE IF j = i THEN s[i] ELSE t[j - 1]
      BY <2>2, <2>4, <1>1
    <3>2. CASE j < i
      <4>1. j \in 1 .. (Len(s) - 1)
        BY <3>2, <2>1, <1>1
      <4> QED
        BY <3>1, <3>2, <4>1, <2>2
    <3>3. CASE j = i
      BY <3>1, <3>3
    <3>4. CASE j > i
      <4>1. j - 1 \in 1 .. (Len(s) - 1) /\ ~(j - 1 < i) /\ (j - 1) + 1 = j
        BY <3>4, <2>1, <1>1
      <4>2. t[j - 1] = s[j]
        BY <4>1, <2>2
      <4> QED
        BY <3>1, <3>4, <4>2, <2>1
    <3> QED
      BY <3>2, <3>3, <3>4, <2>1
  <2>6. u = s
    <3>1. Len(u) = Len(s)
      BY <2>2, <2>4, <1>1
    <3> QED
      BY <3>1, <2>4, <2>5, <1>1, SeqEqual
  <2> QED
    BY <2>3, <2>6 DEF u, t, r
<1>5. CASE ~(s[i].size - n < 4)
  <2> DEFINE e == Shrunk(s[i], n)
  <2>1. t = [s EXCEPT ![i] = e]
    BY <1>5 DEF take_hole
  <2>2. e \in Hole /\ e.va = s[i].va + n /\ e.size = s[i].size - n
    BY <1>1, <1>5 DEF Shrunk, Hole
  <2> HIDE DEF e, t
  <2>3. /\ t \in Seq(Hole) /\ DOMAIN t = DOMAIN s /\ Len(t) = Len(s)
        /\ \A j \in DOMAIN s : t[j] = IF j = i THEN e ELSE s[j]
    BY <2>1, <2>2, <1>1
  <2>4. {j \in 1 .. Len(t) : t[j].va = s[i].va + n} = {i}
    <3>1. \A j \in DOMAIN t : t[j].va = t[i].va => j = i
      BY <2>3, <1>3, DistinctStarts
    <3>2. t[i].va = s[i].va + n
      BY <2>2, <2>3
    <3> QED
      BY <3>1, <3>2, <2>3, <1>1
  <2>5. Min({i}) = i
    <3>1. \A x \in {i} : x <= i
      BY <1>1
    <3> QED
      BY <3>1 DEF Min
  <2>6. SelectInSeq(t, LAMBDA h : h.va = r.va + r.need) = i
    BY <2>4, <2>5, <1>2 DEF SelectInSeq
  <2> DEFINE f == [va |-> r.va, size |-> t[i].size + r.need]
             u == [t EXCEPT ![i] = f]
  <2>7. release_hole(t, r) = u
    <3>1. i # 0
      BY <1>1
    <3>2. ~r.removed
      BY <1>2, <1>5
    <3> QED
      BY <2>6, <3>1, <3>2 DEF release_hole
  <2>8. f = s[i]
    <3>1. t[i].size + r.need = s[i].size /\ r.va = s[i].va
      <4>1. t[i] = e
        BY <2>3
      <4> QED
        BY <4>1, <2>2, <1>1, <1>2
    <3> QED
      BY <3>1, <1>1
  <2> HIDE DEF f
  <2>9. u = s
    <3>1. u \in Seq(Hole) /\ Len(u) = Len(s) /\ \A j \in 1 .. Len(s) : u[j] = s[j]
      BY <2>3, <2>8, <1>1
    <3> QED
      BY <3>1, <1>1, SeqEqual
  <2> QED
    BY <2>7, <2>9 DEF t, r
<1> QED
  BY <1>4, <1>5

\* Containment and separation of spans carry over to what is left of a pool.
LEMMA LeftFacts ==
  ASSUME NEW t, NEW s, LeftOf(t, s), IsPool(s), NEW a \in Nat, NEW n \in Nat
  PROVE  /\ Within(a, n, t) => Within(a, n, s)
         /\ ClearOf(a, n, s) => ClearOf(a, n, t)
<1>1. /\ \A i \in DOMAIN t : /\ t[i].va \in Nat /\ t[i].size \in Nat
                            /\ Within(t[i].va, t[i].size, s)
      /\ \A i \in DOMAIN s : s[i].va \in Nat /\ s[i].size \in Nat
  BY HoleFacts DEF LeftOf
<1>2. ASSUME NEW i \in DOMAIN t
      PROVE  \E h \in DOMAIN s : /\ s[h].va <= t[i].va
                                 /\ t[i].va + t[i].size <= s[h].va + s[h].size
  BY <1>1 DEF Within
<1>3. ASSUME Within(a, n, t) PROVE Within(a, n, s)
  <2>1. PICK i \in DOMAIN t : t[i].va <= a /\ a + n <= t[i].va + t[i].size
    BY <1>3 DEF Within
  <2>2. PICK h \in DOMAIN s : /\ s[h].va <= t[i].va
                             /\ t[i].va + t[i].size <= s[h].va + s[h].size
    BY <1>2
  <2>3. s[h].va <= a /\ a + n <= s[h].va + s[h].size
    BY <2>1, <2>2, <1>1
  <2> QED
    BY <2>3 DEF Within
<1>4. ASSUME ClearOf(a, n, s), NEW i \in DOMAIN t
      PROVE  Apart(a, n, t[i].va, t[i].size)
  <2>1. PICK h \in DOMAIN s : /\ s[h].va <= t[i].va
                             /\ t[i].va + t[i].size <= s[h].va + s[h].size
    BY <1>2
  <2>2. Apart(a, n, s[h].va, s[h].size)
    BY <1>4 DEF ClearOf
  <2> QED
    BY <2>1, <2>2, <1>1 DEF Apart
<1> QED
  BY <1>3, <1>4 DEF ClearOf

LEMMA LeftTransitive ==
  ASSUME NEW u, NEW t, NEW s, LeftOf(u, t), LeftOf(t, s), IsPool(s)
  PROVE  LeftOf(u, s)
<1>1. \A j \in DOMAIN u : u[j].va \in Nat /\ u[j].size \in Nat
  BY HoleFacts DEF LeftOf
<1> QED
  BY <1>1, LeftFacts DEF LeftOf

LEMMA LeftReflexive ==
  ASSUME NEW s, IsPool(s)
  PROVE  LeftOf(s, s)
<1>1. \A j \in DOMAIN s : s[j].va \in Nat /\ s[j].size \in Nat
  BY HoleFacts
<1> QED
  BY <1>1 DEF LeftOf, Within

\* A span inside a pool is apart from one that is clear of it.
LEMMA WithinClear ==
  ASSUME NEW s, IsPool(s), NEW a \in Nat, NEW n \in Nat, NEW b \in Nat,
         NEW m \in Nat, Within(a, n, s), ClearOf(b, m, s)
  PROVE  Apart(a, n, b, m) /\ Apart(b, m, a, n)
<1>1. PICK h \in DOMAIN s : s[h].va <= a /\ a + n <= s[h].va + s[h].size
  BY DEF Within
<1>2. s[h].va \in Nat /\ s[h].size \in Nat
  BY HoleFacts
<1>3. Apart(b, m, s[h].va, s[h].size)
  BY DEF ClearOf
<1> QED
  BY <1>1, <1>2, <1>3 DEF Apart

-----------------------------------------------------------------------------
(* Sizes of blocks.                                                        *)

\* The sum of the sizes of a run of ops is a natural number.
LEMMA SourceSize ==
  ASSUME NEW p \in Plans, NEW first \in 1 .. (Len(p.ops) + 1),
         NEW last \in first .. (Len(p.ops) + 1)
  PROVE  source_size(p, first, last) \in Nat
<1>1. /\ Len(p.ops) \in Nat
      /\ \A j \in 1 .. Len(p.ops) : p.ops[j].size \in Nat
  BY LayoutAssumption DEF IsPlan, IsOp
<1> DEFINE sz(j) == p.ops[j].size
           Sums(f, n) == \A j \in n .. last :
                           f[j] = IF j = last THEN 0 ELSE sz(j) + f[j + 1]
           Bad == {n \in Nat : /\ first + n <= last
                               /\ ~\E f \in [(last - n) .. last -> Nat] :
                                     Sums(f, last - n)}
<1>2. Bad = {}
  <2> SUFFICES ASSUME Bad # {} PROVE FALSE
    OBVIOUS
  <2>1. PICK m \in Bad : \A n \in Bad : m <= n
    BY LeastElement
  <2>2. m \in Nat /\ first + m <= last
    BY <2>1
  <2>3. CASE m = 0
    <3> DEFINE g == [j \in (last - 0) .. last |-> 0]
    <3>1. g \in [(last - m) .. last -> Nat]
      BY <2>3
    <3>2. Sums(g, last - m)
      BY <2>3
    <3> QED
      BY <3>1, <3>2, <2>1
  <2>4. CASE m # 0
    <3>1. m - 1 \in Nat /\ first + (m - 1) <= last /\ m - 1 \notin Bad
      <4> HIDE DEF Bad
      <4>1. m - 1 \in Nat /\ first + (m - 1) <= last /\ ~(m <= m - 1)
        BY <2>2, <2>4, <1>1
      <4> QED
        BY <2>1, <4>1
    <3>2. PICK f \in [(last - (m - 1)) .. last -> Nat] : Sums(f, last - (m - 1))
      BY <3>1
    <3> DEFINE d == last - m
               g == [j \in d .. last |-> IF j = d THEN sz(d) + f[d + 1] ELSE f[j]]
    <3>3. /\ d \in 1 .. Len(p.ops) /\ d + 1 = last - (m - 1) /\ d < last
          /\ d \in Int /\ last \in Int /\ sz(d) \in Nat
      <4>1. /\ d \in 1 .. Len(p.ops) /\ d + 1 = last - (m - 1) /\ d < last
            /\ d \in Int /\ last \in Int
        BY SMTT(30), <2>2, <2>4, <1>1
      <4> QED
        BY <4>1, <1>1
    <3> HIDE DEF d
    <3>4. f \in [(d + 1) .. last -> Nat] /\ Sums(f, d + 1)
      BY <3>2, <3>3
    <3> HIDE DEF sz
    <3>5. g \in [d .. last -> Nat]
      BY <3>3, <3>4
    <3>6. ASSUME NEW j \in d .. last
          PROVE  g[j] = IF j = last THEN 0 ELSE sz(j) + g[j + 1]
      <4>1. CASE j = d
        <5>1. d + 1 \in d .. last /\ d + 1 # d
          BY <3>3
        <5> QED
          BY <4>1, <5>1, <3>3
      <4>2. CASE j # d
        <5>1. j \in (d + 1) .. last
          BY <4>2, <3>3
        <5>2. f[j] = IF j = last THEN 0 ELSE sz(j) + f[j + 1]
          BY <5>1, <3>4
        <5>3. g[j] = f[j]
          BY <4>2
        <5>4. j # last => j + 1 \in d .. last /\ j + 1 # d
          BY <5>1, <3>3
        <5>5. j # last => g[j + 1] = f[j + 1]
          BY <5>4
        <5> QED
          BY <5>2, <5>3, <5>5
      <4> QED
        BY <4>1, <4>2
    <3> HIDE DEF g
    <3>7. \E h \in [(last - m) .. last -> Nat] : Sums(h, last - m)
      BY <3>5, <3>6 DEF d
    <3> QED
      BY <3>7, <2>1
  <2> QED
    BY <2>3, <2>4
<1>3. PICK f \in [first .. last -> Nat] : Sums(f, first)
  <2>1. last - first \in Nat /\ first + (last - first) <= last
        /\ last - (last - first) = first
    BY <1>1
  <2> QED
    <3>1. last - first \notin Bad
      BY <1>2
    <3>2. \E f \in [(last - (last - first)) .. last -> Nat] :
            Sums(f, last - (last - first))
      <4> HIDE DEF Sums
      <4> QED
        BY <3>1, <2>1
    <3> HIDE DEF Sums
    <3> QED
      BY <3>2, <2>1
<1> DEFINE sum == CHOOSE g : g = [j \in first .. last |->
                                   IF j = last THEN 0 ELSE p.ops[j].size + g[j + 1]]
<1>4. f = [j \in first .. last |-> IF j = last THEN 0 ELSE p.ops[j].size + f[j + 1]]
  BY <1>3
<1>5. sum = [j \in first .. last |-> IF j = last THEN 0 ELSE p.ops[j].size + sum[j + 1]]
  BY <1>4
<1>6. source_size(p, first, last) = sum[first]
  BY DEF source_size
<1> HIDE DEF sum
<1>7. \A j \in first .. last :
        sum[j] = IF j = last THEN 0 ELSE p.ops[j].size + sum[j + 1]
  BY <1>5
<1> DEFINE Off == {n \in Nat : first + n <= last /\ sum[last - n] \notin Nat}
<1>8. Off = {}
  <2> SUFFICES ASSUME Off # {} PROVE FALSE
    OBVIOUS
  <2>1. PICK m \in Off : \A n \in Off : m <= n
    BY LeastElement
  <2>2. m \in Nat /\ first + m <= last /\ sum[last - m] \notin Nat
    BY <2>1
  <2>3. CASE m = 0
    BY <2>2, <2>3, <1>7
  <2>4. CASE m # 0
    <3>1. m - 1 \in Nat /\ first + (m - 1) <= last /\ m - 1 \notin Off
      <4> HIDE DEF Off
      <4>1. m - 1 \in Nat /\ first + (m - 1) <= last /\ ~(m <= m - 1)
        BY <2>2, <2>4, <1>1
      <4> QED
        BY <2>1, <4>1
    <3>2. sum[last - (m - 1)] \in Nat
      BY <3>1
    <3> DEFINE d == last - m
    <3>3. /\ d \in first .. last /\ d # last /\ d + 1 = last - (m - 1)
          /\ d \in 1 .. Len(p.ops)
      BY <2>2, <2>4, <1>1
    <3> HIDE DEF d
    <3>4. sum[d] = p.ops[d].size + sum[d + 1]
      BY <3>3, <1>7
    <3>5. sum[d] \in Nat
      <4>1. p.ops[d].size \in Nat /\ sum[d + 1] \in Nat
        BY <3>2, <3>3, <1>1
      <4> QED
        BY SMTT(30), <4>1, <3>4
    <3> QED
      BY <3>5, <2>2 DEF d
  <2> QED
    BY <2>3, <2>4
<1>9. sum[first] \in Nat
  <2>1. last - first \in Nat /\ first + (last - first) <= last
        /\ last - (last - first) = first
    BY <1>1
  <2> QED
    BY <1>8, <2>1
<1> QED
  BY <1>6, <1>9

LEMMA BlockSizes ==
  ASSUME NEW p \in Plans, NEW b \in DOMAIN p.starts
  PROVE  block_sizes(p)[b] \in Nat
<1> DEFINE last == IF b + 1 \in DOMAIN p.starts THEN p.starts[b + 1]
                   ELSE Len(p.ops) + 1
<1>1. /\ Len(p.ops) \in Nat
      /\ DOMAIN p.starts = 1 .. Len(p.starts) /\ Len(p.starts) \in Nat
      /\ \A c \in DOMAIN p.starts : p.starts[c] \in 1 .. (Len(p.ops) + 1)
      /\ \A c, d \in DOMAIN p.starts : c <= d => p.starts[c] <= p.starts[d]
  BY SMTT(30), LayoutAssumption DEF IsPlan
<1>2. p.starts[b] \in 1 .. (Len(p.ops) + 1) /\ last \in p.starts[b] .. (Len(p.ops) + 1)
  BY <1>1
<1>3. source_size(p, p.starts[b], last) \in Nat
  BY <1>2, SourceSize
<1> QED
  BY <1>3 DEF block_sizes

-----------------------------------------------------------------------------
(* Spans.                                                                  *)

LEMMA SpanFacts ==
  ASSUME NEW q \in Seq(PlacedSpan)
  PROVE  /\ Len(q) \in Nat /\ DOMAIN q = 1 .. Len(q)
         /\ \A i \in 1 .. Len(q) :
              /\ q[i].va \in Nat /\ q[i].need \in Nat
              /\ q[i].written <= q[i].need \/ q[i].outgrew
<1>1. \A i \in 1 .. Len(q) : q[i] \in PlacedSpan
  OBVIOUS
<1> QED
  BY <1>1 DEF PlacedSpan

\* Fewer holes leave the spans that were clear of them clear.
LEMMA SpansShrink ==
  ASSUME NEW q, NEW s, NEW t, NEW f, SpansOK(q, s, f), LeftOf(t, s), IsPool(s)
  PROVE  SpansOK(q, t, f)
<1>1. \A i \in 1 .. Len(q) : q[i].va \in Nat /\ q[i].need \in Nat
  BY SpanFacts DEF SpansOK
<1>2. \A i \in 1 .. Len(q) : ClearOf(q[i].va, q[i].need, t)
  BY <1>1, LeftFacts DEF SpansOK
<1> QED
  BY <1>2 DEF SpansOK

\* Spans r taken out of pool s join the spans q that were clear of it.
LEMMA SpansJoin ==
  ASSUME NEW q, NEW r \in Seq(PlacedSpan), NEW s, NEW t, NEW f,
         SpansOK(q, s, f), LeftOf(t, s), LeftOf(s, f), IsPool(f),
         \A i \in 1 .. Len(r) :
           Within(r[i].va, r[i].need, s) /\ ClearOf(r[i].va, r[i].need, t),
         \A i, j \in 1 .. Len(r) :
           i # j => Apart(r[i].va, r[i].need, r[j].va, r[j].need)
  PROVE  SpansOK(q \o r, t, f)
<1> DEFINE u == q \o r
<1>1. /\ q \in Seq(PlacedSpan) /\ Len(q) \in Nat /\ Len(r) \in Nat /\ IsPool(s)
      /\ SpansOK(q, t, f)
  <2>1. IsPool(s)
    BY DEF LeftOf
  <2>2. SpansOK(q, t, f)
    BY <2>1, SpansShrink
  <2>3. q \in Seq(PlacedSpan)
    BY DEF SpansOK
  <2> QED
    BY <2>1, <2>2, <2>3, SpanFacts
<1>2. /\ u \in Seq(PlacedSpan) /\ Len(u) = Len(q) + Len(r)
      /\ \A i \in 1 .. (Len(q) + Len(r)) :
           u[i] = IF i <= Len(q) THEN q[i] ELSE r[i - Len(q)]
  BY <1>1, ConcatProperties
<1> HIDE DEF u
<1>3. \A i \in 1 .. Len(u) :
        \/ i \in 1 .. Len(q) /\ u[i] = q[i]
        \/ i - Len(q) \in 1 .. Len(r) /\ u[i] = r[i - Len(q)]
  <2> SUFFICES ASSUME NEW i \in 1 .. Len(u)
               PROVE  \/ i \in 1 .. Len(q) /\ u[i] = q[i]
                      \/ i - Len(q) \in 1 .. Len(r) /\ u[i] = r[i - Len(q)]
    OBVIOUS
  <2>1. /\ i \in 1 .. (Len(q) + Len(r))
        /\ i <= Len(q) => i \in 1 .. Len(q)
        /\ ~(i <= Len(q)) => i - Len(q) \in 1 .. Len(r)
    BY <1>1, <1>2
  <2>2. u[i] = IF i <= Len(q) THEN q[i] ELSE r[i - Len(q)]
    BY <1>2, <2>1
  <2> QED
    BY <2>1, <2>2
<1>4. /\ \A i \in 1 .. Len(q) : q[i].va \in Nat /\ q[i].need \in Nat
      /\ \A i \in 1 .. Len(r) : r[i].va \in Nat /\ r[i].need \in Nat
  BY <1>1, SpanFacts
<1>5. \A i \in 1 .. Len(r) : Within(r[i].va, r[i].need, f)
  BY <1>4, LeftFacts
<1>6. \A i \in 1 .. Len(u) : Within(u[i].va, u[i].need, f) /\ ClearOf(u[i].va, u[i].need, t)
  BY <1>1, <1>3, <1>5 DEF SpansOK
<1>7. \A i \in 1 .. Len(q), j \in 1 .. Len(r) :
        /\ Apart(q[i].va, q[i].need, r[j].va, r[j].need)
        /\ Apart(r[j].va, r[j].need, q[i].va, q[i].need)
  BY <1>1, <1>4, WithinClear DEF SpansOK
<1>8. ASSUME NEW i \in 1 .. Len(u), NEW j \in 1 .. Len(u), i # j
      PROVE  Apart(u[i].va, u[i].need, u[j].va, u[j].need)
  <2>1. CASE i \in 1 .. Len(q) /\ u[i] = q[i] /\ j \in 1 .. Len(q) /\ u[j] = q[j]
    BY <2>1, <1>8 DEF SpansOK
  <2>2. CASE /\ i \in 1 .. Len(q) /\ u[i] = q[i]
             /\ j - Len(q) \in 1 .. Len(r) /\ u[j] = r[j - Len(q)]
    BY <2>2, <1>7
  <2>3. CASE /\ i - Len(q) \in 1 .. Len(r) /\ u[i] = r[i - Len(q)]
             /\ j \in 1 .. Len(q) /\ u[j] = q[j]
    BY <2>3, <1>7
  <2>4. CASE /\ i - Len(q) \in 1 .. Len(r) /\ u[i] = r[i - Len(q)]
             /\ j - Len(q) \in 1 .. Len(r) /\ u[j] = r[j - Len(q)]
    <3>1. i - Len(q) # j - Len(q)
      BY <1>1, <1>2, <1>8
    <3> QED
      BY <3>1, <2>4
  <2> QED
    BY <2>1, <2>2, <2>3, <2>4, <1>3
<1> QED
  BY <1>2, <1>6, <1>8 DEF SpansOK, u

LEMMA SpansAppend ==
  ASSUME NEW q, NEW e \in PlacedSpan, NEW s, NEW t, NEW f,
         SpansOK(q, s, f), LeftOf(t, s), LeftOf(s, f), IsPool(f),
         Within(e.va, e.need, s), ClearOf(e.va, e.need, t)
  PROVE  SpansOK(Append(q, e), t, f)
<1> DEFINE r == <<e>>
<1>1. r \in Seq(PlacedSpan) /\ Len(r) = 1 /\ r[1] = e
  OBVIOUS
<1>2. q \in Seq(PlacedSpan)
  BY DEF SpansOK
<1>3. Append(q, e) = q \o r
  BY <1>2, AppendIsConcat
<1> HIDE DEF r
<1>4. \A i \in 1 .. Len(r) : i = 1
  BY <1>1
<1>5. SpansOK(q \o r, t, f)
  BY <1>1, <1>4, SpansJoin
<1> QED
  BY <1>3, <1>5

-----------------------------------------------------------------------------
(* The probe and the layout at the hole.                                   *)

\* Steps of b that are no longer than those of a add up to no more than theirs.
LEMMA Between ==
  ASSUME NEW n \in Nat, NEW a \in [1 .. (n + 1) -> Nat], NEW b \in [1 .. (n + 1) -> Nat],
         \A j \in 1 .. n : b[j + 1] - b[j] <= a[j + 1] - a[j],
         NEW x \in 1 .. (n + 1), NEW y \in 1 .. (n + 1), x <= y
  PROVE  b[y] - b[x] <= a[y] - a[x]
<1> DEFINE T == {m \in Nat : /\ x <= m /\ m <= n + 1 /\ ~(b[m] - b[x] <= a[m] - a[x])}
<1> SUFFICES ASSUME T # {} PROVE FALSE
  <2>1. y \in Nat /\ y <= n + 1
    OBVIOUS
  <2> QED
    BY <2>1
<1>1. PICK m \in T : \A l \in T : m <= l
  <2>1. T \in SUBSET Nat
    OBVIOUS
  <2> QED
    BY <2>1, LeastElement
<1>2. m \in Nat /\ x <= m /\ m <= n + 1 /\ ~(b[m] - b[x] <= a[m] - a[x])
  BY <1>1
<1>3. m # x /\ a[x] \in Nat /\ b[x] \in Nat
  BY <1>2
<1>4. m - 1 \in 1 .. n /\ x <= m - 1 /\ (m - 1) + 1 = m
  BY <1>2, <1>3
<1>5. m - 1 \notin T
  BY <1>1, <1>2, <1>4
<1>6. b[m - 1] - b[x] <= a[m - 1] - a[x]
  BY <1>4, <1>5
<1>7. b[m] - b[m - 1] <= a[m] - a[m - 1]
  BY <1>4
<1>8. /\ a[m] \in Nat /\ b[m] \in Nat /\ a[m - 1] \in Nat /\ b[m - 1] \in Nat
  BY <1>2, <1>4
<1> HIDE DEF T
<1> DEFINE ax == a[x]  am == a[m]  al == a[m - 1]
           bx == b[x]  bm == b[m]  bl == b[m - 1]
<1>9. /\ ax \in Nat /\ am \in Nat /\ al \in Nat /\ bx \in Nat /\ bm \in Nat /\ bl \in Nat
      /\ bl - bx <= al - ax /\ bm - bl <= am - al /\ ~(bm - bx <= am - ax)
  BY <1>2, <1>3, <1>6, <1>7, <1>8
<1> HIDE DEF ax, am, al, bx, bm, bl
<1> QED
  BY <1>9

\* A branch that the pass passes over, and that could be widened, reaches.
LEMMA PassedOver ==
  ASSUME LayoutInv, ~Scattered, NEW j \in 1 .. NumOps, PassesOver(j)
  PROVE  ShortReaches(j)
<1> SUFFICES ASSUME ops[j].kind = "branch", ops[j].invertible, strategy[j] = "Normal",
                    ops[j].target.kind = "block", ops[j].range # 0
             PROVE  ~OutOfReach(j, address)
  BY DEF ShortReaches
<1>1. ResolveError(ops[j].target) = "none"
  BY DEF ResolveError
<1>2. effective_range(j) = ops[j].range
  BY DEF effective_range
<1>3. InRange(j)
  BY <1>1, <1>2 DEF PassesOver
<1>4. resolve_target(ops[j].target) = address[plan.starts[ops[j].target.v]]
  BY DEF resolve_target, block_address, Scattered
<1> DEFINE d == address[plan.starts[ops[j].target.v]] - address[j]
<1>5. d = displacement(j)
  BY <1>4 DEF displacement
<1>6. /\ ops[j].range \in Nat /\ address[j] \in Nat
      /\ address[plan.starts[ops[j].target.v]] \in Nat
  <2>1. /\ plan \in Plans /\ address \in [1 .. (NumOps + 1) -> Nat]
        /\ j \in 1 .. (NumOps + 1)
    BY PlanFacts DEF LayoutInv, LayoutType
  <2>2. plan.starts[ops[j].target.v] \in 1 .. (NumOps + 1) /\ ops[j].range \in Nat
    BY <2>1, PlanFacts
  <2> QED
    BY <2>1, <2>2
<1>7. d \in Int
  BY <1>6
<1> HIDE DEF d
<1>8. d >= - ops[j].range /\ d < ops[j].range
  BY <1>2, <1>3, <1>5 DEF InRange
<1>9. ~(d < - ops[j].range \/ d >= ops[j].range)
  BY <1>6, <1>7, <1>8
<1> QED
  BY <1>9 DEF OutOfReach, d

LEMMA ProbeFrame ==
  ASSUME ProbeInv, UNCHANGED vars
  PROVE  ProbeInv'
<1>1. /\ plan' = plan /\ mode' = mode /\ pc' = pc /\ k' = k /\ address' = address
      /\ strategy' = strategy /\ grew' = grew
  BY DEF vars, layoutVars
<1>2. ops' = ops /\ NumOps' = NumOps /\ \A j : ShortReaches(j)' = ShortReaches(j)
  BY <1>1 DEF ops, NumOps, ShortReaches, OutOfReach
<1> QED
  BY <1>1, <1>2 DEF ProbeInv

LEMMA ProbeStep ==
  ASSUME LayoutInv, ProbeInv, LayoutStep
  PROVE  ProbeInv'
<1> SUFFICES ASSUME mode' = "lay_out_for_size"
             PROVE  /\ pc' = "widen" /\ ~grew' => \A j \in 1 .. (k' - 1) : ShortReaches(j)'
                    /\ pc' = "done" => \A j \in 1 .. NumOps' : ShortReaches(j)'
  BY DEF ProbeInv
<1>1. UNCHANGED args /\ mode = "lay_out_for_size" /\ ~Scattered
  BY DEF LayoutStep, assign_addresses, AssignEnd, SkipOp, WidenOp, FailOp, PassEnd,
         args, Scattered
<1>2. NumOps' = NumOps /\ ops' = ops /\ plan' = plan
  BY <1>1 DEF args, NumOps, ops
<1>3. NumOps \in Nat /\ k \in 1 .. (NumOps + 1)
  BY PlanFacts DEF LayoutInv, LayoutType
<1>4. CASE assign_addresses
  BY <1>4 DEF assign_addresses
<1>5. CASE AssignEnd
  BY <1>5 DEF AssignEnd
<1>6. CASE SkipOp
  <2>1. /\ pc = "widen" /\ pc' = "widen" /\ k' = k + 1 /\ k <= NumOps /\ PassesOver(k)
        /\ grew' = grew /\ address' = address /\ strategy' = strategy
    BY <1>6 DEF SkipOp
  <2>2. \A j : ShortReaches(j)' = ShortReaches(j)
    BY <1>2, <2>1 DEF ShortReaches, OutOfReach
  <2>3. ShortReaches(k)
    BY <1>1, <1>3, <2>1, PassedOver
  <2>4. ASSUME ~grew, NEW j \in 1 .. k
        PROVE  ShortReaches(j)
    <3>1. j = k \/ j \in 1 .. (k - 1)
      BY <1>3
    <3> QED
      BY <3>1, <1>1, <2>1, <2>3, <2>4 DEF ProbeInv
  <2>5. k' - 1 = k
    BY <1>3, <2>1
  <2> QED
    BY <2>1, <2>2, <2>4, <2>5
<1>7. CASE WidenOp
  BY <1>7 DEF WidenOp
<1>8. CASE FailOp
  BY <1>8 DEF FailOp
<1>9. CASE PassEnd
  <2>1. /\ pc = "widen" /\ pc' = PassOutcome /\ k = NumOps + 1
        /\ address' = address /\ strategy' = strategy
    BY <1>9 DEF PassEnd
  <2>2. pc' # "widen" /\ (pc' = "done" => ~grew)
    BY <2>1, <1>3 DEF PassOutcome, LayoutInv, LayoutType
  <2>3. \A j : ShortReaches(j)' = ShortReaches(j)
    BY <1>2, <2>1 DEF ShortReaches, OutOfReach
  <2>4. k - 1 = NumOps
    BY <2>1, <1>3
  <2> QED
    BY <1>1, <1>2, <2>1, <2>2, <2>3, <2>4 DEF ProbeInv
<1> QED
  BY <1>4, <1>5, <1>6, <1>7, <1>8, <1>9 DEF LayoutStep

\* The probe is never emitted: the emitter works on no layout that is only a size.
LEMMA ProbeEmitStep ==
  ASSUME EmitStep
  PROVE  ProbeInv'
<1>1. pc' \notin {"widen", "done"}
  BY DEF EmitStep, StartEmit, EmitOp, EmitFail, EmitEnd, EmitInv, Emitting
<1> QED
  BY <1>1 DEF ProbeInv

\* What the probe found is a layout, and no op of it is smaller than its source.
LEMMA ProbeIsSized ==
  ASSUME LayoutInv, ProbeInv, pc = "done", mode = "lay_out_for_size"
  PROVE  /\ Sized(address, size)
         /\ \A j \in 1 .. NumOps : ops[j].size <= size[j]
         /\ address[1] = base
<1>1. ~Scattered /\ Accepted /\ LayoutType /\ SizeInv /\ AddressInv
  BY DEF LayoutInv, Scattered, Accepted
<1>2. /\ NumOps \in Nat /\ address \in [1 .. (NumOps + 1) -> Nat]
      /\ size \in [1 .. NumOps -> Nat]
      /\ \A j \in 1 .. NumOps :
           /\ strategy[j] \in {"Normal", "InvertedConditional"} /\ ops[j].size \in Nat
           /\ ops[j].kind = "branch" /\ ops[j].invertible => ops[j].size <= WidenedSize
  BY <1>1, PlanFacts DEF LayoutType
<1>3. \A j \in 1 .. NumOps : address[j + 1] = address[j] + size[j]
  BY <1>1 DEF AddressInv, Follows
<1>4. address[1] = base
  BY <1>1, <1>2 DEF AddressInv, FirstAtBase
<1>5. ASSUME NEW j \in 1 .. NumOps
      PROVE  ops[j].size <= size[j]
  BY <1>1, <1>2 DEF SizeInv
<1>6. ASSUME NEW j \in 1 .. NumOps,
             ops[j].kind = "branch", ops[j].invertible, ops[j].target.kind = "block"
      PROVE  size[j] = WidenedSize \/ ops[j].range = 0 \/ ~OutOfReach(j, address)
  <2>1. ShortReaches(j)
    BY DEF ProbeInv
  <2> QED
    BY <2>1, <1>1, <1>6 DEF SizeInv, ShortReaches
<1> QED
  BY <1>2, <1>3, <1>4, <1>5, <1>6 DEF Sized

\* At the hole the ops are nowhere further apart than the probe put them.
LEMMA NotFurther ==
  ASSUME LayoutInv, GrowthInv, mode = "lay_out", pc = "widen" \/ Accepted,
         Sized(probed.address, probed.size), NoneLarger,
         NEW x \in 1 .. (NumOps + 1), NEW y \in 1 .. (NumOps + 1), x <= y
  PROVE  /\ address[y] - address[x] <= probed.address[y] - probed.address[x]
         /\ address[x] <= address[y]
<1> DEFINE a == probed.address
<1>1. ~Scattered /\ EarlierPass(address)
  BY DEF Scattered, GrowthInv
<1>2. /\ NumOps \in Nat /\ address \in [1 .. (NumOps + 1) -> Nat]
      /\ size \in [1 .. NumOps -> Nat] /\ a \in [1 .. (NumOps + 1) -> Nat]
      /\ probed.size \in [1 .. NumOps -> Nat]
      /\ \A j \in 1 .. NumOps : a[j + 1] = a[j] + probed.size[j]
  BY PlanFacts DEF LayoutInv, LayoutType, Sized
<1> HIDE DEF a
<1>3. ASSUME NEW j \in 1 .. NumOps
      PROVE  address[j + 1] - address[j] <= a[j + 1] - a[j]
  <2>1. address[j + 1] - address[j] <= size[j] /\ size[j] <= probed.size[j]
    BY <1>1 DEF EarlierPass, NoneLarger
  <2>2. a[j + 1] = a[j] + probed.size[j] /\ j + 1 \in 1 .. (NumOps + 1) /\ j \in 1 .. (NumOps + 1)
    BY <1>2
  <2>3. /\ address[j + 1] \in Nat /\ address[j] \in Nat /\ a[j] \in Nat
        /\ size[j] \in Nat /\ probed.size[j] \in Nat
    BY <1>2, <2>2
  <2> QED
    BY <2>1, <2>2, <2>3
<1>4. address[y] - address[x] <= a[y] - a[x]
  BY <1>2, <1>3, Between
<1>5. address[x] <= address[y]
  BY <1>1 DEF EarlierPass
<1> QED
  BY <1>4, <1>5 DEF a

\* A branch inside the plan that is widened at the hole was widened by the probe.
LEMMA WidenedBefore ==
  ASSUME LayoutInv, GrowthInv, mode = "lay_out", WidenOp,
         Sized(probed.address, probed.size), NoneLarger,
         ops[k].target.kind = "block"
  PROVE  probed.size[k] = WidenedSize
<1> DEFINE a == probed.address
           s == plan.starts[ops[k].target.v]
<1>1. /\ pc = "widen" /\ k <= NumOps /\ ~PassesOver(k)
      /\ ResolveError(ops[k].target) = "none"
      /\ strategy[k] = "Normal" /\ ops[k].invertible
  BY DEF WidenOp
<1>2. /\ NumOps \in Nat /\ k \in 1 .. NumOps /\ k \in 1 .. (NumOps + 1)
      /\ ops[k].range \in Nat /\ s \in 1 .. (NumOps + 1)
      /\ address[k] \in Nat /\ address[s] \in Nat /\ a[k] \in Nat /\ a[s] \in Nat
  <2>1. /\ plan \in Plans /\ address \in [1 .. (NumOps + 1) -> Nat] /\ NumOps \in Nat
        /\ a \in [1 .. (NumOps + 1) -> Nat] /\ k \in 1 .. NumOps /\ k \in 1 .. (NumOps + 1)
    BY <1>1, PlanFacts DEF LayoutInv, LayoutType, Sized
  <2>2. s \in 1 .. (NumOps + 1) /\ ops[k].range \in Nat
    BY <2>1, PlanFacts
  <2> QED
    BY <2>1, <2>2
<1>3. ops[k].kind = "branch" /\ ops[k].range # 0 /\ ~InRange(k)
  BY <1>1 DEF PassesOver, effective_range
<1>4. displacement(k) = address[s] - address[k] /\ effective_range(k) = ops[k].range
  BY <1>1 DEF displacement, resolve_target, block_address, effective_range
<1> HIDE DEF a, s
<1>5. address[s] - address[k] < - ops[k].range \/ address[s] - address[k] >= ops[k].range
  BY <1>2, <1>3, <1>4 DEF InRange
<1>6. CASE k <= s
  <2>1. address[s] - address[k] <= a[s] - a[k] /\ address[k] <= address[s]
    BY <1>1, <1>2, <1>6, NotFurther DEF a
  <2>2. a[s] - a[k] >= ops[k].range
    BY <2>1, <1>2, <1>3, <1>5
  <2> QED
    BY <2>2, <1>1, <1>2, <1>3 DEF Sized, OutOfReach, a, s
<1>7. CASE ~(k <= s)
  <2>1. address[k] - address[s] <= a[k] - a[s] /\ address[s] <= address[k]
    <3>1. s <= k
      BY <1>2, <1>7
    <3> QED
      BY <3>1, <1>1, <1>2, NotFurther DEF a
  <2>2. a[s] - a[k] < - ops[k].range
    BY <2>1, <1>2, <1>3, <1>5
  <2> QED
    BY <2>2, <1>1, <1>2, <1>3 DEF Sized, OutOfReach, a, s
<1> QED
  BY <1>6, <1>7

LEMMA HoleFrame ==
  ASSUME HoleInv, UNCHANGED <<args, address, size, out, phase, resv, probed>>
  PROVE  HoleInv'
<1>1. /\ plan' = plan /\ mode' = mode /\ address' = address /\ size' = size
      /\ out' = out /\ phase' = phase /\ resv' = resv /\ probed' = probed
  BY DEF args
<1>2. ops' = ops /\ NumOps' = NumOps
  BY <1>1 DEF ops, NumOps
<1>3. /\ Sized(probed.address, probed.size)' = Sized(probed.address, probed.size)
      /\ OutgrewProbe' = OutgrewProbe /\ NoneLarger' = NoneLarger
  BY <1>1, <1>2 DEF Sized, OutOfReach, OutgrewProbe, NoneLarger
<1> QED
  BY <1>1, <1>2, <1>3 DEF HoleInv

LEMMA HoleLayoutStep ==
  ASSUME LayoutInv, GrowthInv, EmitInv, HoleInv, LayoutStep,
         UNCHANGED <<out, phase, resv, probed>>
  PROVE  HoleInv'
<1> SUFFICES ASSUME phase = "place" PROVE HoleInv'
  BY DEF HoleInv
<1>1. UNCHANGED args /\ pc \in {"assign", "widen"}
  BY DEF LayoutStep, assign_addresses, AssignEnd, SkipOp, WidenOp, FailOp, PassEnd
<1>2. /\ plan' = plan /\ mode' = mode /\ phase' = phase /\ resv' = resv
      /\ probed' = probed /\ ops' = ops /\ NumOps' = NumOps
  BY <1>1 DEF args, ops, NumOps
<1>3. Len(out) = 0 /\ out' = <<>>
  <2>1. out = <<>>
    BY <1>1 DEF EmitInv, Emitting
  <2> QED
    BY <2>1
<1>4. /\ mode = "lay_out" /\ Sized(probed.address, probed.size)
      /\ OutgrewProbe \/ NoneLarger
      /\ resv.need = round4(probed.address[NumOps + 1] - probed.address[1])
  BY DEF HoleInv
<1>5. Sized(probed.address, probed.size)'
  BY <1>2, <1>4 DEF Sized, OutOfReach
<1>6. (OutgrewProbe \/ NoneLarger)'
  <2>1. CASE size' = size
    <3>1. OutgrewProbe' = OutgrewProbe /\ NoneLarger' = NoneLarger
      BY <2>1, <1>2 DEF OutgrewProbe, NoneLarger
    <3> QED
      BY <3>1, <1>4
  <2>2. CASE WidenOp
    <3>1. /\ k \in 1 .. NumOps /\ size' = [size EXCEPT ![k] = WidenedSize]
          /\ ~PassesOver(k) /\ strategy[k] = "Normal" /\ ops[k].invertible
          /\ NumOps \in Nat /\ size \in [1 .. NumOps -> Nat] /\ WidenedSize \in Nat
          /\ probed.size \in [1 .. NumOps -> Nat]
      BY <2>2, <1>4, PlanFacts, LayoutAssumption DEF WidenOp, LayoutInv, LayoutType, Sized
    <3>2. ops[k].kind = "branch" /\ size[k] = ops[k].size /\ ops[k].size <= WidenedSize
      BY <3>1, PlanFacts DEF PassesOver, LayoutInv, LayoutType, SizeInv
    <3>3. /\ size'[k] = WidenedSize /\ size[k] <= WidenedSize
          /\ \A j \in 1 .. NumOps : j # k => size'[j] = size[j]
      BY <3>1, <3>2
    <3>4. CASE OutgrewProbe
      <4>1. PICK j \in 1 .. NumOps : /\ ops[j].kind = "branch" /\ ops[j].target.kind # "block"
                                    /\ size[j] > probed.size[j]
        BY <3>4 DEF OutgrewProbe
      <4>2. /\ size[j] \in Nat /\ probed.size[j] \in Nat
            /\ j = k => size'[j] = WidenedSize /\ size[j] <= WidenedSize
            /\ j # k => size'[j] = size[j]
        BY <3>1, <3>3
      <4>3. size'[j] > probed.size[j]
        BY <3>1, <4>1, <4>2
      <4> QED
        BY <1>2, <4>1, <4>3 DEF OutgrewProbe
    <3>5. CASE NoneLarger /\ WidenedSize <= probed.size[k]
      BY <1>2, <3>3, <3>5 DEF NoneLarger
    <3>6. CASE NoneLarger /\ ~(WidenedSize <= probed.size[k])
      <4>1. probed.size[k] \in Nat /\ probed.size[k] # WidenedSize /\ size'[k] > probed.size[k]
        BY <3>1, <3>3, <3>6
      <4>2. ops[k].target.kind # "block"
        BY <4>1, <2>2, <3>6, <1>4, WidenedBefore
      <4> QED
        BY <1>2, <3>1, <3>2, <4>1, <4>2 DEF OutgrewProbe
    <3> QED
      BY <3>4, <3>5, <3>6, <1>4
  <2> QED
    BY <2>1, <2>2 DEF LayoutStep, assign_addresses, AssignEnd, SkipOp, FailOp, PassEnd
<1> QED
  BY <1>2, <1>3, <1>4, <1>5, <1>6 DEF HoleInv

\* No op is emitted longer than it was laid out.
LEMMA FitsItsRoom ==
  ASSUME LayoutInv, NEW j \in 1 .. NumOps
  PROVE  BytesEmitted(j) \in Nat /\ BytesEmitted(j) <= size[j]
<1>1. LayoutType /\ NumOps \in Nat /\ WidenedSize \in Nat
  BY PlanFacts, LayoutAssumption DEF LayoutInv, LayoutType
<1>2. /\ ops[j].enc = ops[j].size /\ ops[j].orig_size = ops[j].size /\ ops[j].size \in Nat
      /\ strategy[j] \in {"Normal", "InvertedConditional"}
  BY <1>1, OpFacts DEF LayoutType
<1>3. /\ strategy[j] = "Normal" => size[j] = ops[j].size
      /\ strategy[j] # "Normal" => size[j] = WidenedSize /\ ops[j].size <= WidenedSize
  BY <1>1, PlanFacts DEF LayoutInv, SizeInv, LayoutType
<1>4. form(j) = "widened" => strategy[j] = "InvertedConditional"
  BY <1>1, FormCases
<1>5. BytesEmitted(j) = IF form(j) = "widened" THEN WidenedSize ELSE ops[j].size
  BY <1>1, <1>2, FormCases DEF BytesEmitted
<1> QED
  BY <1>1, <1>2, <1>3, <1>4, <1>5

LEMMA HoleEmitStep ==
  ASSUME LayoutInv, EmitInv, HoleInv, EmitStep, UNCHANGED <<phase, resv, probed>>
  PROVE  HoleInv'
<1>1. UNCHANGED <<args, address, size, strategy, grew>> /\ Accepted
  BY EmitKeepsLayout
<1>2. CASE out' = out
  BY <1>1, <1>2, HoleFrame
<1>3. CASE EmitOp /\ phase = "place"
  <2>1. /\ pc = "emit" /\ k <= NumOps
        /\ out' = Append(out, [at |-> Here, len |-> BytesEmitted(k),
                               lands |-> Lands(k), form |-> form(k)])
    BY <1>3 DEF EmitOp
  <2>2. /\ Emitting /\ out \in Seq(Emission) /\ Len(out) = k - 1 /\ LayoutType
        /\ NumOps \in Nat /\ k \in 1 .. NumOps /\ base \in Nat
        /\ address \in [1 .. (NumOps + 1) -> Nat] /\ size \in [1 .. NumOps -> Nat]
    BY <2>1, PlanFacts DEF EmitInv, Emitting, LayoutInv, LayoutType
  <2>3. mode = "lay_out" /\ ~Scattered
    BY <1>3 DEF HoleInv, Scattered
  <2>4. \A j \in 1 .. Len(out) : out[j].at + out[j].len <= address[j] + size[j]
    BY <1>3 DEF HoleInv
  <2>5. Here \in Nat /\ Here <= address[k]
    <3>1. Here \in Nat
      BY <2>2, <2>3, HereFacts
    <3>2. CASE out = <<>>
      <4>1. k = 1 /\ Here = base
        BY <2>2, <2>3, <3>2 DEF Here, Scattered
      <4>2. address[1] = base
        BY <1>1, <2>2, <2>3 DEF LayoutInv, AddressInv, FirstAtBase
      <4> QED
        BY <3>1, <4>1, <4>2
    <3>3. CASE out # <<>>
      <4>1. Len(out) \in 1 .. Len(out) /\ k - 1 \in 1 .. NumOps /\ (k - 1) + 1 = k
        BY <2>2, <3>3, EmptySeq
      <4>2. Here = out[Len(out)].at + out[Len(out)].len
        BY <3>3, <2>3 DEF Here, Scattered
      <4>3. address[(k - 1) + 1] = address[k - 1] + size[k - 1]
        BY <1>1, <2>3, <4>1 DEF LayoutInv, AddressInv, Follows, Accepted
      <4>4. out[Len(out)].at + out[Len(out)].len <= address[k - 1] + size[k - 1]
        BY <2>2, <2>4, <4>1
      <4>5. address[k] = address[k - 1] + size[k - 1]
        BY <4>1, <4>3
      <4> QED
        BY <3>1, <4>2, <4>4, <4>5
    <3> QED
      BY <3>1, <3>2, <3>3
  <2>6. BytesEmitted(k) \in Nat /\ BytesEmitted(k) <= size[k]
    BY <2>2, FitsItsRoom
  <2>7. /\ Len(out') = k
        /\ out'[k].at = Here /\ out'[k].len = BytesEmitted(k)
        /\ \A j \in 1 .. (k - 1) : out'[j] = out[j]
    BY <2>1, <2>2
  <2>8. address[k] \in Nat /\ size[k] \in Nat
    BY <2>2
  <2>9. out'[k].at + out'[k].len <= address[k] + size[k]
    BY <2>5, <2>6, <2>7, <2>8
  <2>10. ASSUME NEW j \in 1 .. Len(out')
         PROVE  out'[j].at + out'[j].len <= address[j] + size[j]
    <3> DEFINE m == Len(out')
    <3>0. k \in Nat /\ m = k /\ j \in 1 .. m
      BY <2>2, <2>7
    <3> HIDE DEF m
    <3>1. j = k \/ j \in 1 .. (k - 1)
      BY <3>0
    <3>2. CASE j \in 1 .. (k - 1)
      BY <3>2, <2>2, <2>4, <2>7
    <3> QED
      BY <3>1, <3>2, <2>9
  <2>11. /\ plan' = plan /\ mode' = mode /\ address' = address /\ size' = size
         /\ phase' = phase /\ resv' = resv /\ probed' = probed
         /\ ops' = ops /\ NumOps' = NumOps
    BY <1>1 DEF args, ops, NumOps
  <2>12. /\ Sized(probed.address, probed.size)' = Sized(probed.address, probed.size)
         /\ OutgrewProbe' = OutgrewProbe /\ NoneLarger' = NoneLarger
    BY <2>11 DEF Sized, OutOfReach, OutgrewProbe, NoneLarger
  <2> QED
    BY <2>10, <2>11, <2>12 DEF HoleInv
<1>4. CASE phase # "place"
  BY <1>4 DEF HoleInv
<1> QED
  BY <1>2, <1>3, <1>4 DEF EmitStep, StartEmit, EmitFail, EmitEnd

\* What is overlaid lies in the span that was reserved, or the layout outgrew it.
LEMMA OverlayFits ==
  ASSUME LayoutInv, GrowthInv, EmitInv, HoleInv, phase = "place", pc = "emitted"
  PROVE  BytesOut \in Int /\ (BytesOut <= resv.need \/ OutgrewProbe)
<1> DEFINE a == probed.address
<1>1. /\ out \in Seq(Emission) /\ Len(out) = NumOps /\ NumOps \in Nat /\ base \in Nat
      /\ address \in [1 .. (NumOps + 1) -> Nat] /\ size \in [1 .. NumOps -> Nat]
      /\ Accepted
  BY PlanFacts DEF EmitInv, Emitting, LayoutInv, LayoutType, Accepted
<1>2. /\ mode = "lay_out" /\ ~Scattered /\ Sized(probed.address, probed.size)
      /\ resv.need = round4(a[NumOps + 1] - a[1])
      /\ OutgrewProbe \/ NoneLarger
      /\ \A j \in 1 .. Len(out) : out[j].at + out[j].len <= address[j] + size[j]
  BY DEF HoleInv, Scattered
<1>3. /\ address[1] = base
      /\ \A j \in 1 .. NumOps : address[j + 1] = address[j] + size[j]
  BY <1>1, <1>2 DEF LayoutInv, AddressInv, FirstAtBase, Follows
<1>4. CASE out = <<>>
  <2>1. NumOps = 0 /\ BytesOut = 0
    BY <1>1, <1>4 DEF BytesOut
  <2>2. a[1] \in Nat
    BY <1>1, <1>2 DEF Sized
  <2>3. a[NumOps + 1] - a[1] \in Nat
    BY <2>1, <2>2
  <2>4. resv.need \in Nat
    BY <2>3, <1>2, Round4
  <2> QED
    BY <2>1, <2>4
<1>5. CASE out # <<>>
  <2>1. NumOps \in 1 .. Len(out) /\ NumOps \in 1 .. NumOps
    BY <1>1, <1>5, EmptySeq
  <2>2. out[NumOps].at \in Nat /\ out[NumOps].len \in Nat
    <3>1. out[NumOps] \in Emission
      BY <1>1, <2>1
    <3> QED
      BY <3>1 DEF Emission
  <2>3. BytesOut = out[NumOps].at + out[NumOps].len - base
    BY <1>1, <1>5 DEF BytesOut
  <2>4. BytesOut \in Int /\ BytesOut <= address[NumOps + 1] - address[1]
    <3>1. out[NumOps].at + out[NumOps].len <= address[NumOps + 1]
      BY <1>2, <1>3, <2>1
    <3> DEFINE at == out[NumOps].at
               len == out[NumOps].len
               end == address[NumOps + 1]
    <3>2. /\ at \in Nat /\ len \in Nat /\ end \in Nat /\ base \in Nat
          /\ at + len <= end /\ BytesOut = at + len - base /\ address[1] = base
      BY <1>1, <1>3, <2>2, <2>3, <3>1
    <3> HIDE DEF at, len, end
    <3>3. BytesOut \in Int /\ BytesOut <= end - base
      BY <3>2
    <3> QED
      BY <3>2, <3>3 DEF end
  <2>5. ASSUME NoneLarger
        PROVE  BytesOut <= resv.need
    <3>1. 1 \in 1 .. (NumOps + 1) /\ NumOps + 1 \in 1 .. (NumOps + 1) /\ 1 <= NumOps + 1
      BY <1>1
    <3>2. /\ address[NumOps + 1] - address[1] <= a[NumOps + 1] - a[1]
          /\ address[1] <= address[NumOps + 1]
      BY <3>1, <1>1, <1>2, <2>5, NotFurther
    <3>3. /\ a[NumOps + 1] \in Nat /\ a[1] \in Nat
          /\ address[NumOps + 1] \in Nat /\ address[1] \in Nat
      BY <3>1, <1>1, <1>2 DEF Sized
    <3>4. a[NumOps + 1] - a[1] \in Nat
      BY <3>2, <3>3
    <3>5. resv.need \in Nat /\ resv.need >= a[NumOps + 1] - a[1]
      BY <3>4, <1>2, Round4
    <3> QED
      BY <2>4, <3>2, <3>3, <3>5
  <2> QED
    BY <2>4, <2>5, <1>2
<1> QED
  BY <1>4, <1>5

-----------------------------------------------------------------------------
(* The calls.                                                              *)

\* The pools a call works on are pools.
LEMMA PoolFacts ==
  ASSUME PoolInv
  PROVE  /\ IsPool(freed) /\ IsPool(holes) /\ IsPool(before)
         /\ placed \in Seq(PlacedSpan)
<1>1. IsPool(freed)
  BY PlacePlanAssumption DEF PoolInv
<1> QED
  BY <1>1 DEF PoolInv, LeftOf, SpansOK

\* Layout and emission do not touch the pool.
LEMMA PoolFrame ==
  ASSUME PoolInv, CallInv, UNCHANGED poolVars, UNCHANGED args
  PROVE  PoolInv' /\ CallInv'
<1>1. /\ freed' = freed /\ holes' = holes /\ lifted' = lifted /\ phase' = phase
      /\ before' = before /\ resv' = resv /\ wanted' = wanted /\ addrs' = addrs
      /\ tentative' = tentative /\ placed' = placed /\ result' = result
      /\ plan' = plan /\ mode' = mode /\ base' = base /\ place' = place
  BY DEF poolVars, args
<1>2. PoolInv'
  BY <1>1 DEF PoolInv
<1>3. Reserved' = Reserved /\ Scattered' = Scattered
  BY <1>1 DEF Reserved, Scattered
<1>4. PoolRestored' = PoolRestored
  BY <1>1 DEF PoolRestored
<1> QED
  BY <1>1, <1>2, <1>3, <1>4 DEF CallInv

\* A call that ends leaves the pool p and the spans q, which are clear of it.
LEMMA ReturnInv ==
  ASSUME NEW r, NEW p, Return(r, p), freed \in Pools, freed' = freed,
         LeftOf(p, freed), LeftOf(before', freed), SpansOK(placed', p, freed),
         lifted' /\ r # "placed" => p = before'
  PROVE  PoolInv' /\ CallInv'
<1>1. phase' = "idle" /\ result' = r /\ holes' = p
  BY DEF Return
<1>2. PoolInv'
  BY <1>1 DEF PoolInv
<1>3. lifted' => PoolRestored'
  BY <1>1 DEF PoolRestored
<1> QED
  BY <1>1, <1>2, <1>3 DEF CallInv

LEMMA DataInv ==
  ASSUME PoolInv, CallInv, NEW len \in DataSizes, place_data_in_holes(len)
  PROVE  PoolInv' /\ CallInv'
<1> DEFINE need == round4(len)
           i == best_fit(holes, need)
<1>1. /\ phase = "idle" /\ before' = holes /\ freed' = freed /\ lifted' = lifted
      /\ placed' = IF i # 0 /\ lifted
                   THEN Append(placed, Span(holes[i].va, need, len, FALSE))
                   ELSE placed
      /\ Return(IF i # 0 /\ lifted THEN "placed" ELSE "none",
                IF i = 0 THEN holes ELSE take_hole(holes, i, need))
  BY DEF place_data_in_holes, NewCall
<1>2. /\ IsPool(freed) /\ IsPool(holes) /\ LeftOf(holes, freed) /\ freed \in Pools
      /\ SpansOK(placed, holes, freed)
  BY PoolFacts DEF PoolInv
<1>3. len \in Nat /\ need \in Nat /\ len <= need
  BY PlacePlanAssumption, Round4
<1> HIDE DEF need, i
<1>4. CASE i = 0
  BY <1>1, <1>2, <1>4, ReturnInv
<1>5. CASE i # 0
  <2>1. /\ i \in DOMAIN holes /\ need > 0 /\ need <= holes[i].size
        /\ holes[i].va \in Nat /\ holes[i].size \in Nat
    <3>1. /\ need # 0 /\ i \in DOMAIN holes /\ holes[i].size >= need
      BY <1>2, <1>3, <1>5, BestFit DEF i
    <3> QED
      BY <3>1, <1>2, <1>3, HoleFacts
  <2> DEFINE t == take_hole(holes, i, need)
             e == Span(holes[i].va, need, len, FALSE)
  <2>2. LeftOf(t, holes) /\ ClearOf(holes[i].va, need, t) /\ Within(holes[i].va, need, holes)
    BY <2>1, <1>2, <1>3, TakeFacts
  <2>3. e \in PlacedSpan /\ e.va = holes[i].va /\ e.need = need
    BY <2>1, <1>3 DEF Span, PlacedSpan
  <2> HIDE DEF t, e
  <2>4. LeftOf(t, freed) /\ SpansOK(placed, t, freed)
    BY <2>2, <1>2, LeftTransitive, SpansShrink
  <2>5. SpansOK(Append(placed, e), t, freed)
    BY <2>2, <2>3, <1>2, SpansAppend
  <2>6. Return(IF lifted THEN "placed" ELSE "none", t)
    BY <1>1, <1>5 DEF t
  <2>7. CASE lifted
    <3>1. placed' = Append(placed, e)
      BY <1>1, <1>5, <2>7 DEF e
    <3>2. Return("placed", t)
      BY <2>6, <2>7
    <3> QED
      BY <3>1, <3>2, <2>4, <2>5, <1>1, <1>2, ReturnInv
  <2>8. CASE ~lifted
    <3>1. placed' = placed /\ Return("none", t)
      BY <1>1, <2>6, <2>8
    <3> QED
      BY <3>1, <2>4, <2>8, <1>1, <1>2, ReturnInv
  <2> QED
    BY <2>7, <2>8
<1> QED
  BY <1>4, <1>5

\* A call that begins: the pool it finds is the one to go back to.
LEMMA BeginCall ==
  ASSUME PoolInv, NewCall,
         freed' = freed, holes' = holes, placed' = placed
  PROVE  PoolInv'
<1>1. before' = holes
  BY DEF NewCall
<1> QED
  BY <1>1 DEF PoolInv

LEMMA BeginInHolesInv ==
  ASSUME PInv, NEW p \in Plans, BeginInHoles(p)
  PROVE  PInv'
<1>1. /\ NewCall /\ phase' = "probe" /\ out' = <<>> /\ freed' = freed
      /\ holes' = holes /\ placed' = placed /\ before' = holes
      /\ BeginLayout(p, "lay_out_for_size", 0, TRUE, <<>>)
  BY DEF BeginInHoles, NewCall
<1>2. IsCall(p, "lay_out_for_size", 0, TRUE, <<>>)
  BY DEF IsCall, Mode
<1>3. LayoutInv' /\ GrowthInv'
  BY <1>1, <1>2, BeginInv, BeginGrowth
<1>4. mode' = "lay_out_for_size" /\ pc' = "assign"
  BY <1>1 DEF BeginLayout
<1>5. EmitInv'
  BY <1>1, <1>4 DEF EmitInv, Emitting
<1>6. PoolInv'
  BY <1>1, BeginCall DEF PInv
<1>7. CallInv'
  BY <1>1, <1>4 DEF CallInv, PoolRestored
<1>8. ProbeInv' /\ HoleInv'
  BY <1>1, <1>4 DEF ProbeInv, HoleInv
<1> QED
  BY <1>3, <1>5, <1>6, <1>7, <1>8 DEF PInv

\* A call that gives up, and has not touched the pool, leaves it as it was.
LEMMA GiveUpInv ==
  ASSUME PoolInv, CallInv, phase \in {"probe", "take", "scatter"}, NEW r,
         Return(r, holes), UNCHANGED <<freed, lifted, before, placed>>
  PROVE  PoolInv' /\ CallInv'
<1>1. /\ freed \in Pools /\ LeftOf(holes, freed) /\ LeftOf(before, freed)
      /\ SpansOK(placed, holes, freed) /\ holes = before
  BY DEF PoolInv, CallInv
<1> QED
  BY <1>1, ReturnInv

\* The size a layout reports is not negative.
LEMMA TotalSize ==
  ASSUME LayoutInv, GrowthInv, pc = "done", mode = "lay_out_for_size"
  PROVE  total_size \in Nat
<1>1. ~Scattered /\ Accepted
  BY DEF Scattered, Accepted
<1>2. /\ NumOps \in Nat /\ base \in Nat
      /\ address \in [1 .. (NumOps + 1) -> Nat]
  BY PlanFacts DEF LayoutInv, LayoutType
<1>3. address[1] = base
  BY <1>1, <1>2 DEF LayoutInv, AddressInv, FirstAtBase
<1>4. address[1] <= address[NumOps + 1]
  BY <1>1, <1>2 DEF GrowthInv, EarlierPass
<1> QED
  BY <1>2, <1>3, <1>4 DEF total_size

LEMMA ReserveInv ==
  ASSUME PInv, ReserveHole
  PROVE  PInv'
<1> DEFINE need == round4(total_size)
           i == best_fit(holes, need)
<1>1. /\ phase = "probe" /\ pc = "done" /\ i # 0
      /\ holes' = take_hole(holes, i, need)
      /\ resv' = HoleReservation(holes, i, need)
      /\ BeginLayout(plan, "lay_out", holes[i].va, TRUE, <<>>)
      /\ phase' = "place" /\ out' = <<>> /\ freed' = freed /\ before' = before
      /\ placed' = placed /\ probed' = [address |-> address, size |-> size]
  BY DEF ReserveHole
<1>2. need \in Nat
  BY <1>1, TotalSize, Round4 DEF PInv, CallInv
<1>3. /\ IsPool(freed) /\ IsPool(holes) /\ LeftOf(holes, freed) /\ freed \in Pools
      /\ SpansOK(placed, holes, freed) /\ holes = before
      /\ SpansOK(placed, before, freed) /\ LeftOf(before, freed) /\ plan \in Plans
  BY <1>1, PoolFacts DEF PInv, PoolInv, CallInv, LayoutInv, LayoutType
<1>4. /\ need > 0 /\ i \in DOMAIN holes /\ need <= holes[i].size /\ holes[i].va \in Nat
  <2> HIDE DEF need
  <2>1. need # 0 /\ i \in DOMAIN holes /\ holes[i].size >= need
    BY <1>1, <1>2, <1>3, BestFit
  <2>2. holes[i].va \in Nat /\ holes[i].size \in Nat
    BY <2>1, <1>3, HoleFacts
  <2> QED
    BY <2>1, <2>2, <1>2
<1> HIDE DEF need, i
<1>5. IsCall(plan, "lay_out", holes[i].va, TRUE, <<>>)
  BY <1>3, <1>4 DEF IsCall, Mode
<1>6. LayoutInv' /\ GrowthInv'
  BY <1>1, <1>5, BeginInv, BeginGrowth
<1>7. base' = holes[i].va /\ pc' = "assign"
  BY <1>1 DEF BeginLayout
<1>8. EmitInv'
  BY <1>1, <1>7 DEF EmitInv, Emitting
<1>9. LeftOf(holes', holes)
  BY <1>1, <1>2, <1>3, <1>4, TakeFacts
<1>10. LeftOf(holes', freed) /\ SpansOK(placed, holes', freed)
  BY <1>3, <1>9, LeftTransitive, SpansShrink
<1>11. PoolInv'
  BY <1>1, <1>3, <1>10 DEF PoolInv
<1>12. Reserved'
  BY <1>1, <1>2, <1>3, <1>4, <1>7 DEF Reserved
<1>13. CallInv'
  BY <1>1, <1>12 DEF CallInv, PoolRestored
<1>14. /\ plan' = plan /\ mode' = "lay_out" /\ ops' = ops /\ NumOps' = NumOps
       /\ size' = [j \in 1 .. NumOps |-> ops[j].size]
  BY <1>1 DEF BeginLayout, ops, NumOps
<1>15. /\ Sized(address, size) /\ address[1] = base
       /\ \A j \in 1 .. NumOps : ops[j].size <= size[j]
  BY <1>1, ProbeIsSized DEF PInv, CallInv
<1>16. ProbeInv'
  BY <1>14 DEF ProbeInv
<1>17. HoleInv'
  <2>1. Sized(probed.address, probed.size)'
    BY <1>1, <1>14, <1>15 DEF Sized, OutOfReach
  <2>2. NoneLarger'
    BY <1>1, <1>14, <1>15 DEF NoneLarger
  <2>3. resv'.need = round4(address[NumOps + 1] - address[1])
    BY <1>1, <1>15 DEF HoleReservation, need, total_size
  <2>4. Len(out') = 0
    BY <1>1
  <2> QED
    BY <2>1, <2>2, <2>3, <2>4, <1>1, <1>14 DEF HoleInv
<1> QED
  BY <1>6, <1>8, <1>11, <1>13, <1>16, <1>17 DEF PInv

\* The hole goes back where it was, whatever failed after the reservation.
LEMMA GiveBackInv ==
  ASSUME PoolInv, CallInv, GiveBack
  PROVE  PoolInv' /\ CallInv'
<1>1. /\ phase = "place" /\ freed' = freed /\ before' = before /\ placed' = placed
      /\ \E r : Return(r, release_hole(holes, resv))
  BY DEF GiveBack
<1>2. PICK r : Return(r, release_hole(holes, resv))
  BY <1>1
<1>3. /\ IsPool(before) /\ freed \in Pools /\ LeftOf(before, freed)
      /\ SpansOK(placed, before, freed) /\ Reserved
  BY <1>1, PoolFacts DEF PoolInv, CallInv
<1>4. release_hole(holes, resv) = before
  <2>1. PICK i \in DOMAIN before, n \in Nat :
          /\ n > 0 /\ n <= before[i].size
          /\ holes = take_hole(before, i, n)
          /\ resv = HoleReservation(before, i, n)
    BY <1>3 DEF Reserved
  <2> QED
    BY <2>1, <1>3, ReleaseFacts
<1> QED
  BY <1>1, <1>2, <1>3, <1>4, ReturnInv

\* The reserved span is handed out, or with no section to write to, lost.
LEMMA OverlayInv ==
  ASSUME PInv, base \in Nat, Overlay
  PROVE  PoolInv' /\ CallInv'
<1> DEFINE e == Span(base, resv.need, BytesOut, OutgrewProbe)
<1>1. /\ phase = "place" /\ pc = "emitted" /\ freed' = freed /\ before' = before
      /\ lifted' = lifted
      /\ placed' = IF lifted THEN Append(placed, e) ELSE placed
      /\ Return(IF lifted THEN "placed" ELSE "err", holes)
  BY DEF Overlay
<1>2. /\ IsPool(before) /\ IsPool(freed) /\ freed \in Pools
      /\ LeftOf(before, freed) /\ LeftOf(holes, freed)
      /\ SpansOK(placed, before, freed) /\ SpansOK(placed, holes, freed) /\ Reserved
  BY <1>1, PoolFacts DEF PInv, PoolInv, CallInv
<1>3. PICK i \in DOMAIN before, n \in Nat :
        /\ n > 0 /\ n <= before[i].size
        /\ holes = take_hole(before, i, n)
        /\ resv = HoleReservation(before, i, n)
        /\ base = before[i].va
  BY <1>2 DEF Reserved
<1>4. /\ LeftOf(holes, before) /\ ClearOf(base, n, holes) /\ Within(base, n, before)
  BY <1>2, <1>3, TakeFacts
<1>5. /\ BytesOut \in Int /\ OutgrewProbe \in BOOLEAN
      /\ BytesOut <= resv.need \/ OutgrewProbe
  BY <1>1, OverlayFits DEF PInv, OutgrewProbe
<1>6. e \in PlacedSpan /\ e.va = base /\ e.need = n
  <2>1. resv.need = n
    BY <1>3 DEF HoleReservation
  <2> QED
    BY <2>1, <1>5 DEF Span, PlacedSpan
<1> HIDE DEF e
<1>7. SpansOK(Append(placed, e), holes, freed)
  BY <1>2, <1>4, <1>6, SpansAppend
<1>8. CASE lifted
  <2>1. placed' = Append(placed, e) /\ Return("placed", holes)
    BY <1>1, <1>8
  <2> QED
    BY <2>1, <1>1, <1>2, <1>7, ReturnInv
<1>9. CASE ~lifted
  <2>1. placed' = placed /\ Return("err", holes)
    BY <1>1, <1>9
  <2> QED
    BY <2>1, <1>1, <1>2, <1>9, ReturnInv
<1> QED
  BY <1>8, <1>9

LEMMA ScatterNoneInv ==
  ASSUME PoolInv, CallInv, NEW p, ScatterNone(p)
  PROVE  PoolInv' /\ CallInv'
<1>1. /\ Return("none", holes) /\ freed' = freed /\ placed' = placed /\ before' = holes
  BY DEF ScatterNone, NewCall
<1>2. freed \in Pools /\ LeftOf(holes, freed) /\ SpansOK(placed, holes, freed)
  BY DEF PoolInv
<1> QED
  BY <1>1, <1>2, ReturnInv

LEMMA ScatterBeginInv ==
  ASSUME PoolInv, CallInv, NEW p \in Plans, ScatterBegin(p)
  PROVE  PoolInv' /\ CallInv'
<1>1. /\ NewCall /\ before' = holes /\ phase' = "take" /\ wanted' = p /\ addrs' = <<>>
      /\ tentative' = holes /\ freed' = freed /\ holes' = holes /\ placed' = placed
      /\ p.starts # <<>>
  BY DEF ScatterBegin, NewCall
<1>2. PoolInv'
  BY <1>1, BeginCall
<1>3. /\ addrs' \in Seq(Nat) /\ Len(addrs') = 0 /\ Len(p.starts) \in Nat
  BY <1>1, LayoutAssumption DEF IsPlan
<1>4. Taken(addrs', p, tentative', holes')
  <2>1. LeftOf(tentative', holes')
    BY <1>1, PoolFacts, LeftReflexive
  <2> QED
    BY <2>1, <1>3 DEF Taken
<1> QED
  BY <1>1, <1>2, <1>3, <1>4 DEF CallInv, PoolRestored

\* The rooms of a plan's blocks.
LEMMA RoomType ==
  ASSUME NEW p \in Plans, NEW b \in 1 .. Len(p.starts)
  PROVE  Room(p, b) \in Nat
<1>1. DOMAIN p.starts = 1 .. Len(p.starts)
  BY LayoutAssumption DEF IsPlan
<1>2. block_sizes(p)[b] \in Nat
  BY <1>1, BlockSizes
<1> QED
  BY <1>2, Round4 DEF Room

\* One more block has a hole of its own.
LEMMA TakeForBlockInv ==
  ASSUME PoolInv, CallInv, TakeForBlock
  PROVE  PoolInv' /\ CallInv'
<1> DEFINE d == Len(addrs) + 1
           need == Room(wanted, d)
           i == best_fit(tentative, need)
<1>1. /\ phase = "take" /\ Len(addrs) < Len(wanted.starts) /\ i # 0
      /\ tentative' = take_hole(tentative, i, need)
      /\ addrs' = Append(addrs, tentative[i].va)
      /\ freed' = freed /\ holes' = holes /\ phase' = phase /\ before' = before
      /\ wanted' = wanted /\ placed' = placed
  BY DEF TakeForBlock, Room
<1>2. /\ wanted \in Plans /\ wanted.starts # <<>> /\ addrs \in Seq(Nat)
      /\ Len(addrs) \in Nat /\ Len(wanted.starts) \in Nat
      /\ Taken(addrs, wanted, tentative, holes) /\ LeftOf(tentative, holes)
      /\ IsPool(tentative) /\ IsPool(holes) /\ holes = before
  BY <1>1, PoolFacts, LayoutAssumption DEF CallInv, Taken, LeftOf, IsPlan
<1>3. /\ d \in 1 .. Len(wanted.starts)
      /\ \A b \in 1 .. d : b \in 1 .. Len(wanted.starts)
      /\ \A b \in 1 .. d : b # d => b \in 1 .. Len(addrs)
  BY <1>1, <1>2
<1>4. \A b \in 1 .. d : Room(wanted, b) \in Nat
  BY <1>2, <1>3, RoomType
<1>5. need \in Nat
  BY <1>2, <1>3, RoomType
<1> HIDE DEF need
<1>6. /\ need > 0 /\ i \in DOMAIN tentative /\ need <= tentative[i].size
      /\ tentative[i].va \in Nat
  <2>1. need # 0 /\ i \in DOMAIN tentative /\ tentative[i].size >= need
    BY <1>1, <1>2, <1>5, BestFit
  <2>2. tentative[i].va \in Nat /\ tentative[i].size \in Nat
    BY <2>1, <1>2, HoleFacts
  <2> QED
    BY <2>1, <2>2, <1>5
<1> HIDE DEF i
<1> DEFINE va == tentative[i].va
           t == tentative'
           a == addrs'
<1>7. LeftOf(t, tentative) /\ ClearOf(va, need, t) /\ Within(va, need, tentative)
  BY <1>1, <1>2, <1>5, <1>6, TakeFacts
<1>8. LeftOf(t, holes) /\ Within(va, need, holes)
  BY <1>2, <1>5, <1>6, <1>7, LeftTransitive, LeftFacts
<1>9. /\ a \in Seq(Nat) /\ Len(a) = d /\ a[d] = va
      /\ \A b \in 1 .. Len(addrs) : a[b] = addrs[b]
  BY <1>1, <1>2, <1>6
<1>10. \A b \in 1 .. Len(addrs) :
         /\ addrs[b] \in Nat /\ Room(wanted, b) \in Nat
         /\ Within(addrs[b], Room(wanted, b), holes)
         /\ ClearOf(addrs[b], Room(wanted, b), tentative)
  BY <1>2, <1>3, <1>4 DEF Taken
<1>11. \A b \in 1 .. Len(addrs) : ClearOf(addrs[b], Room(wanted, b), t)
  BY <1>2, <1>7, <1>10, LeftFacts
<1>12. \A b \in 1 .. Len(addrs) :
         /\ Apart(va, need, addrs[b], Room(wanted, b))
         /\ Apart(addrs[b], Room(wanted, b), va, need)
  BY <1>2, <1>5, <1>6, <1>7, <1>10, WithinClear
<1>13. Taken(a, wanted, t, holes)
  <2>1. ASSUME NEW b \in 1 .. d
        PROVE  Within(a[b], Room(wanted, b), holes) /\ ClearOf(a[b], Room(wanted, b), t)
    BY <1>3, <1>7, <1>8, <1>9, <1>10, <1>11 DEF need
  <2>2. ASSUME NEW b \in 1 .. d, NEW c \in 1 .. d, b # c
        PROVE  Apart(a[b], Room(wanted, b), a[c], Room(wanted, c))
    <3>1. CASE b = d
      BY <3>1, <2>2, <1>3, <1>9, <1>12 DEF need
    <3>2. CASE c = d
      BY <3>2, <2>2, <1>3, <1>9, <1>12 DEF need
    <3>3. CASE b # d /\ c # d
      <4>1. b \in 1 .. Len(addrs) /\ c \in 1 .. Len(addrs)
        BY <3>3, <1>3
      <4> QED
        BY <4>1, <2>2, <1>2, <1>9 DEF Taken
    <3> QED
      BY <3>1, <3>2, <3>3
  <2> QED
    BY <2>1, <2>2, <1>8, <1>9 DEF Taken
<1>14. Len(a) <= Len(wanted.starts)
  BY <1>3, <1>9
<1>15. PoolInv'
  BY <1>1 DEF PoolInv
<1> QED
  BY <1>1, <1>2, <1>9, <1>13, <1>14, <1>15 DEF CallInv, PoolRestored

LEMMA ScatterLayOutInv ==
  ASSUME PInv, ScatterLayOut
  PROVE  PInv'
<1>1. /\ phase = "take" /\ Len(addrs) = Len(wanted.starts)
      /\ BeginLayout(wanted, "lay_out_scattered", addrs[1], TRUE, addrs)
      /\ phase' = "scatter" /\ out' = <<>> /\ freed' = freed /\ holes' = holes
      /\ before' = before /\ tentative' = tentative /\ placed' = placed
  BY DEF ScatterLayOut
<1>2. /\ wanted \in Plans /\ wanted.starts # <<>> /\ addrs \in Seq(Nat)
      /\ Taken(addrs, wanted, tentative, holes) /\ holes = before
  BY <1>1 DEF PInv, CallInv
<1>3. addrs[1] \in Nat
  <2>1. wanted.starts \in Seq(1 .. (Len(wanted.ops) + 1))
    BY <1>2, LayoutAssumption DEF IsPlan
  <2>2. Len(wanted.starts) \in Nat \ {0}
    BY <2>1, <1>2, EmptySeq
  <2>3. 1 \in 1 .. Len(addrs)
    BY <2>2, <1>1
  <2> QED
    BY <2>3, <1>2, ElementOfSeq
<1>4. IsCall(wanted, "lay_out_scattered", addrs[1], TRUE, addrs)
  BY <1>1, <1>2, <1>3 DEF IsCall, Mode
<1>5. LayoutInv' /\ GrowthInv'
  BY <1>1, <1>4, BeginInv, BeginGrowth
<1>6. mode' = "lay_out_scattered" /\ pc' = "assign" /\ plan' = wanted /\ place' = addrs
  BY <1>1 DEF BeginLayout
<1>7. EmitInv'
  BY <1>1, <1>6 DEF EmitInv, Emitting
<1>8. PoolInv'
  BY <1>1 DEF PInv, PoolInv
<1>9. CallInv'
  BY <1>1, <1>2, <1>6 DEF CallInv, PoolRestored, Scattered
<1>10. ProbeInv' /\ HoleInv'
  BY <1>1, <1>6 DEF ProbeInv, HoleInv
<1> QED
  BY <1>5, <1>7, <1>8, <1>9, <1>10 DEF PInv

\* All blocks are handed out at once and the pool becomes the copy.
LEMMA ScatterCommitInv ==
  ASSUME LayoutInv, PoolInv, CallInv, ScatterCommit
  PROVE  PoolInv' /\ CallInv'
<1> DEFINE N == Len(plan.starts)
           sizes == block_sizes(plan)
           r == [b \in 1 .. N |-> Span(place[b], round4(sizes[b]), sizes[b], FALSE)]
<1>1. /\ phase = "scatter" /\ freed' = freed /\ before' = before /\ lifted' = lifted
      /\ placed' = IF lifted THEN placed \o r ELSE placed
      /\ Return(IF lifted THEN "placed" ELSE "err", tentative)
  BY DEF ScatterCommit
<1>2. /\ IsPool(freed) /\ IsPool(holes) /\ freed \in Pools
      /\ LeftOf(before, freed) /\ LeftOf(holes, freed)
      /\ SpansOK(placed, holes, freed)
      /\ Taken(place, plan, tentative, holes) /\ LeftOf(tentative, holes)
  BY <1>1, PoolFacts DEF PoolInv, CallInv, Taken
<1>3. /\ plan \in Plans /\ place \in Seq(Nat) /\ Len(place) = N /\ N \in Nat
      /\ DOMAIN plan.starts = 1 .. N
  BY <1>1, PlanFacts DEF LayoutInv, LayoutType, CallInv
<1>4. LeftOf(tentative, freed) /\ SpansOK(placed, tentative, freed)
  BY <1>2, LeftTransitive, SpansShrink
<1>5. \A b \in 1 .. N : /\ place[b] \in Nat /\ sizes[b] \in Nat
                        /\ Room(plan, b) \in Nat /\ round4(sizes[b]) = Room(plan, b)
                        /\ sizes[b] <= round4(sizes[b])
  <2>1. \A b \in 1 .. N : place[b] \in Nat
    BY <1>3
  <2>2. \A b \in 1 .. N : sizes[b] \in Nat
    BY <1>3, BlockSizes
  <2>3. \A b \in 1 .. N : round4(sizes[b]) = Room(plan, b)
    BY DEF Room
  <2>4. \A b \in 1 .. N : sizes[b] <= round4(sizes[b])
    BY <2>2, Round4
  <2> HIDE DEF sizes
  <2> QED
    BY <2>1, <2>2, <2>3, <2>4, <1>3, RoomType
<1> HIDE DEF sizes
<1>6. /\ Len(r) = N /\ r \in Seq(PlacedSpan)
      /\ \A b \in 1 .. N : r[b].va = place[b] /\ r[b].need = Room(plan, b)
  <2>1. ASSUME NEW b \in 1 .. N
        PROVE  Span(place[b], round4(sizes[b]), sizes[b], FALSE) \in PlacedSpan
    BY <1>5 DEF Span, PlacedSpan
  <2>2. r \in [1 .. N -> PlacedSpan]
    BY <2>1
  <2>3. \A b \in 1 .. N : r[b].va = place[b] /\ r[b].need = Room(plan, b)
    BY <1>5 DEF Span
  <2> HIDE DEF r
  <2>4. r \in Seq(PlacedSpan) /\ Len(r) = N
    BY <2>2, <1>3
  <2> QED
    BY <2>3, <2>4
<1> HIDE DEF r
<1>7. SpansOK(placed \o r, tentative, freed)
  <2>1. \A b \in 1 .. Len(r) : /\ Within(r[b].va, r[b].need, holes)
                              /\ ClearOf(r[b].va, r[b].need, tentative)
    BY <1>2, <1>3, <1>6 DEF Taken
  <2>2. \A b, c \in 1 .. Len(r) :
          b # c => Apart(r[b].va, r[b].need, r[c].va, r[c].need)
    BY <1>2, <1>3, <1>6 DEF Taken
  <2> QED
    BY <2>1, <2>2, <1>2, <1>6, SpansJoin
<1>8. CASE lifted
  <2>1. placed' = placed \o r /\ Return("placed", tentative)
    BY <1>1, <1>8
  <2> QED
    BY <2>1, <1>1, <1>2, <1>4, <1>7, ReturnInv
<1>9. CASE ~lifted
  <2>1. placed' = placed /\ Return("err", tentative)
    BY <1>1, <1>9
  <2> QED
    BY <2>1, <1>1, <1>2, <1>4, <1>9, ReturnInv
<1> QED
  BY <1>8, <1>9

-----------------------------------------------------------------------------
(* The specification.                                                      *)

LEMMA InitPInv == PlaceInit => PInv
<1> SUFFICES ASSUME PlaceInit PROVE PInv
  OBVIOUS
<1>1. /\ freed \in Pools /\ holes = freed /\ before = freed /\ phase = "idle"
      /\ placed = <<>> /\ out = <<>>
  BY DEF PlaceInit
<1>2. PICK p : p = (CHOOSE q \in Plans : TRUE)
                /\ StartLayout(p, "lay_out_for_size", 0, TRUE, <<>>)
  BY DEF PlaceInit
<1>3. p \in Plans
  BY <1>2, PlacePlanAssumption
<1>4. IsCall(p, "lay_out_for_size", 0, TRUE, <<>>)
  BY <1>3 DEF IsCall, Mode
<1>5. LayoutInv
  BY <1>2, <1>4, StartInv
<1>6. /\ pc = "assign" /\ k = 1 /\ \A j \in 1 .. NumOps : strategy[j] = "Normal"
  BY <1>2 DEF StartLayout, NumOps
<1>7. GrowthInv
  BY <1>5, <1>6, StartGrowth
<1>8. EmitInv
  BY <1>1, <1>6 DEF EmitInv, Emitting
<1>9. IsPool(freed) /\ LeftOf(freed, freed)
  BY <1>1, PlacePlanAssumption, LeftReflexive
<1>10. SpansOK(placed, holes, freed)
  <2>1. placed \in Seq(PlacedSpan) /\ Len(placed) = 0
    BY <1>1
  <2> QED
    BY <2>1 DEF SpansOK
<1>11. PoolInv
  BY <1>1, <1>9, <1>10 DEF PoolInv
<1>12. CallInv
  BY <1>1 DEF CallInv, PoolRestored
<1>13. ProbeInv /\ HoleInv
  BY <1>1, <1>6 DEF ProbeInv, HoleInv
<1> QED
  BY <1>5, <1>7, <1>8, <1>11, <1>12, <1>13 DEF PInv

LEMMA NextPInv == PInv /\ [PlaceNext]_allVars => PInv'
<1> SUFFICES ASSUME PInv, [PlaceNext]_allVars PROVE PInv'
  OBVIOUS
<1>1. UNCHANGED vars => LayoutInv' /\ GrowthInv' /\ EmitInv' /\ ProbeInv'
  BY StutterLayout, StutterGrowth, StutterEmit, ProbeFrame DEF PInv
<1>2. PoolInv /\ CallInv /\ LayoutInv /\ EmitInv /\ ProbeInv /\ HoleInv /\ base \in Nat
  BY DEF PInv, LayoutInv, LayoutType
<1>3. ASSUME NEW len \in DataSizes, place_data_in_holes(len)
      PROVE  PInv'
  <2>1. UNCHANGED vars /\ phase' = "idle"
    BY <1>3 DEF place_data_in_holes, Return
  <2>2. HoleInv'
    BY <2>1 DEF HoleInv
  <2>3. PoolInv' /\ CallInv'
    BY <1>2, <1>3, DataInv
  <2> QED
    BY <2>1, <2>2, <2>3, <1>1 DEF PInv
<1>4. ASSUME NEW p \in Plans, BeginInHoles(p) \/ ScatterNone(p) \/ ScatterBegin(p)
      PROVE  PInv'
  <2>1. CASE BeginInHoles(p)
    BY <2>1, BeginInHolesInv
  <2>2. CASE ScatterNone(p) \/ ScatterBegin(p)
    <3>1. UNCHANGED vars /\ phase' # "place"
      BY <2>2 DEF ScatterNone, ScatterBegin, Return
    <3>2. HoleInv'
      BY <3>1 DEF HoleInv
    <3>3. PoolInv' /\ CallInv'
      BY <2>2, <1>2, ScatterNoneInv, ScatterBeginInv
    <3> QED
      BY <3>1, <3>2, <3>3, <1>1 DEF PInv
  <2> QED
    BY <2>1, <2>2, <1>4
<1>5. CASE ProbeFails \/ NothingFits \/ TakeFails \/ ScatterFails
  <2>1. /\ UNCHANGED vars /\ phase \in {"probe", "take", "scatter"}
        /\ UNCHANGED <<freed, lifted, before, placed>>
        /\ \E r : Return(r, holes)
    BY <1>5 DEF ProbeFails, NothingFits, TakeFails, ScatterFails
  <2>2. PICK r : Return(r, holes)
    BY <2>1
  <2>3. PoolInv' /\ CallInv'
    BY <2>1, <2>2, <1>2, GiveUpInv
  <2>4. HoleInv'
    BY <2>2 DEF Return, HoleInv
  <2> QED
    BY <2>1, <2>3, <2>4, <1>1 DEF PInv
<1>6. CASE ReserveHole
  BY <1>6, ReserveInv
<1>7. CASE GiveBack \/ Overlay \/ TakeForBlock \/ ScatterCommit
  <2>1. UNCHANGED vars /\ phase' # "place"
    BY <1>7 DEF GiveBack, Overlay, TakeForBlock, ScatterCommit, Return
  <2>2. PoolInv' /\ CallInv'
    BY <1>2, <1>7, GiveBackInv, OverlayInv, TakeForBlockInv, ScatterCommitInv
  <2>3. HoleInv'
    BY <2>1 DEF HoleInv
  <2> QED
    BY <2>1, <2>2, <2>3, <1>1 DEF PInv
<1>8. CASE ScatterLayOut
  BY <1>8, ScatterLayOutInv
<1>9. CASE Working
  <2>1. UNCHANGED poolVars /\ ((LayoutStep /\ UNCHANGED out) \/ EmitStep)
    BY <1>9 DEF Working
  <2>2. UNCHANGED args
    BY <2>1, EmitKeepsLayout
    DEF PInv, LayoutStep, assign_addresses, AssignEnd, SkipOp, WidenOp, FailOp, PassEnd
  <2>3. PoolInv' /\ CallInv'
    BY <2>1, <2>2, <1>2, PoolFrame
  <2>4. LayoutInv' /\ GrowthInv' /\ EmitInv'
    BY <2>1, LayoutStepInv, LayoutStepGrowth, LayoutKeepsEmit, EmitKeepsLayout,
       EmitKeepsGrowth, EmitStepInv DEF PInv
  <2>5. UNCHANGED <<phase, resv, probed>>
    BY <2>1 DEF poolVars
  <2>6. HoleInv'
    BY <2>1, <2>5, HoleLayoutStep, HoleEmitStep DEF PInv
  <2>7. ProbeInv'
    BY <2>1, <1>2, ProbeStep, ProbeEmitStep
  <2> QED
    BY <2>3, <2>4, <2>6, <2>7 DEF PInv
<1>10. CASE UNCHANGED allVars
  <2>1. UNCHANGED vars /\ UNCHANGED poolVars /\ UNCHANGED args
    BY <1>10 DEF allVars, vars, layoutVars, poolVars, args
  <2>2. PoolInv' /\ CallInv'
    BY <2>1, <1>2, PoolFrame
  <2>3. UNCHANGED <<args, address, size, out, phase, resv, probed>>
    BY <2>1 DEF vars, layoutVars, poolVars
  <2>4. HoleInv'
    BY <2>3, <1>2, HoleFrame
  <2> QED
    BY <2>1, <2>2, <2>4, <1>1 DEF PInv
<1> QED
  BY <1>3, <1>4, <1>5, <1>6, <1>7, <1>8, <1>9, <1>10 DEF PlaceNext, Done

\* Every call sequence keeps the pool, the spans and the layouts in order.
THEOREM SpecPInv == PlaceSpec => []PInv
BY InitPInv, NextPInv, PTL DEF PlaceSpec

\* What the invariant says of the bytes of the pool.
LEMMA SpansFromInv ==
  ASSUME PInv
  PROVE  SpansAccounted
<1>1. /\ PoolInv /\ CallInv /\ IsPool(holes) /\ placed \in Seq(PlacedSpan)
      /\ DOMAIN placed = 1 .. Len(placed) /\ SpansOK(placed, holes, freed)
  <2>1. PoolInv /\ CallInv
    BY DEF PInv
  <2>2. IsPool(holes) /\ placed \in Seq(PlacedSpan) /\ SpansOK(placed, holes, freed)
    BY <2>1, PoolFacts DEF PoolInv
  <2> QED
    BY <2>1, <2>2, SpanFacts
<1>2. ASSUME phase = "place"
      PROVE  \A j \in DOMAIN holes : Apart(resv.va, resv.need, holes[j].va, holes[j].size)
  <2>1. IsPool(before) /\ Reserved
    BY <1>1, <1>2, PoolFacts DEF CallInv
  <2>2. PICK i \in DOMAIN before, n \in Nat :
          /\ n > 0 /\ n <= before[i].size
          /\ holes = take_hole(before, i, n)
          /\ resv = HoleReservation(before, i, n)
    BY <2>1 DEF Reserved
  <2>3. ClearOf(before[i].va, n, holes)
    BY <2>1, <2>2, TakeFacts
  <2>4. resv.va = before[i].va /\ resv.need = n
    BY <2>2 DEF HoleReservation
  <2> QED
    BY <2>3, <2>4 DEF ClearOf
<1>3. \A i, j \in DOMAIN holes :
        i # j => Apart(holes[i].va, holes[i].size, holes[j].va, holes[j].size)
  BY <1>1 DEF IsPool
<1>4. \A i \in DOMAIN placed, j \in DOMAIN holes :
        Apart(placed[i].va, placed[i].need, holes[j].va, holes[j].size)
  BY <1>1 DEF SpansOK, ClearOf
<1>5. \A i, j \in DOMAIN placed :
        i # j => Apart(placed[i].va, placed[i].need, placed[j].va, placed[j].need)
  BY <1>1 DEF SpansOK
<1>6. \A i \in DOMAIN placed :
        \E h \in DOMAIN freed :
          /\ freed[h].va <= placed[i].va
          /\ placed[i].va + placed[i].need <= freed[h].va + freed[h].size
  BY <1>1 DEF SpansOK, Within
<1>7. \A i \in DOMAIN placed : placed[i].written <= placed[i].need \/ placed[i].outgrew
  BY <1>1, SpanFacts
<1> QED
  BY <1>2, <1>3, <1>4, <1>5, <1>6, <1>7 DEF SpansAccounted

\* place_data_in_holes, place_plan_in_holes and place_plan_scattered hand out each
\* freed byte at most once and never a byte outside the holes they were given, and
\* what they write ends inside the span handed out, unless a branch out of the plan
\* was widened at the hole and not at base 0.
THEOREM SpansAreAccounted == PlaceSpec => []SpansAccounted
<1>1. PInv => SpansAccounted
  BY SpansFromInv
<1> QED
  BY <1>1, SpecPInv, PTL

\* "Returns None (holes unchanged)": once a section is lifted, a call that places
\* nothing leaves the pool and its order as it found them, whichever step failed.
THEOREM PoolIsRestored == PlaceSpec => [](lifted => PoolRestored)
<1>1. PInv => (lifted => PoolRestored)
  BY DEF PInv, CallInv
<1> QED
  BY <1>1, SpecPInv, PTL

\* Whatever holes a plan or its blocks end up in, every reference of the emitted
\* bytes lands on its target.
THEOREM PlacedPlansConnected == PlaceSpec => []PlacedReferencesLand
<1>1. PInv => PlacedReferencesLand
  BY ReferencesFromInv DEF PInv, PlacedReferencesLand
<1> QED
  BY <1>1, SpecPInv, PTL
=============================================================================
