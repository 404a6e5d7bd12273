----------------------------- MODULE ElfProofs ------------------------------
(***************************************************************************)
(* The assertions of the ELF writer (container/elf_writer.rs) for every    *)
(* shared object whose sections lie apart, every section table order,      *)
(* every sequence of calls and any number of sessions: a commit that       *)
(* appends a segment never finds the writer's cursor past the next section.*)
(*                                                                         *)
(* The argument: the stable sort by offset gives the section of rank k - 1 *)
(* as the k-th, so of two sections in the file the one that comes first in *)
(* the order ends where the other starts, or before it, as long as each    *)
(* keeps its length.  Each does: the text, .rela.dyn and .dynamic are      *)
(* staged in bytes of the old length, and a .dynamic that got longer is    *)
(* unstaged and moves to the appended segment, which lies behind the       *)
(* cursor.  The headers written again lie apart, so the next session       *)
(* starts where the first one did.                                         *)
(***************************************************************************)
EXTENDS ElfCommit, TLAPS, WellFoundedInduction, SequenceTheorems, FiniteSetTheorems

-----------------------------------------------------------------------------
(* Numbers, buffers and lists.                                             *)

Listed(q, m) == q = [k \in 1 .. m |-> q[k]]

\* One more at the front of a list.
LEMMA Prepended ==
  ASSUME NEW o, NEW m \in Nat, NEW f, Listed(f, m)
  PROVE  LET q == << o >> \o f
         IN  /\ DOMAIN q = 1 .. m + 1
             /\ q[1] = o
             /\ \A k \in 1 .. m : q[k + 1] = f[k]
             /\ Listed(q, m + 1)
<1> DEFINE U == {f[i] : i \in 1 .. m} \cup {o}
           q == << o >> \o f
<1>1. f \in Seq(U) /\ Len(f) = m
  BY DEF Listed
<1>2. << o >> \in Seq(U) /\ Len(<< o >>) = 1 /\ << o >>[1] = o
  OBVIOUS
<1> HIDE DEF U
<1>3. /\ q \in Seq(U) /\ Len(q) = m + 1 /\ q[1] = o
      /\ \A k \in 1 .. m : q[k + 1] = f[k]
  BY <1>1, <1>2
<1> HIDE DEF q
<1>4. DOMAIN q = 1 .. m + 1 /\ q = [k \in 1 .. m + 1 |-> q[k]]
  BY <1>3
<1> QED
  BY <1>3, <1>4 DEF q, Listed

\* Other entries, the same length.
LEMMA OtherRows ==
  ASSUME NEW bytes, DOMAIN bytes = {"len", "pieces"}, NEW rows
  PROVE  /\ WithRows(bytes, rows).len = bytes.len
         /\ DOMAIN WithRows(bytes, rows) = {"len", "pieces"}
BY DEF WithRows

\* Alignment goes up.
LEMMA RoundedUp ==
  ASSUME NEW v \in Nat, NEW a \in Nat \ {0}
  PROVE  align_up(v, a) \in Nat /\ v <= align_up(v, a)
<1> DEFINE m == v + a - 1
           q == m \div a
<1>1. m \in Nat /\ q \in Nat /\ m % a \in Nat /\ m % a < a /\ m = a * q + (m % a)
  OBVIOUS
<1>2. a * q \in Nat /\ q * a = a * q
  BY <1>1
<1>3. a * q >= v
  BY <1>1, <1>2
<1> QED
  BY <1>2, <1>3 DEF align_up

\* The extent of a section whose bytes are as long as its header says.
LEMMA MaxOfTwo ==
  ASSUME NEW a \in Nat
  PROVE  MaxOf({a, a}) = a
BY DEF MaxOf

\* Every set of numbers has a least one.
LEMMA LeastIndex ==
  ASSUME NEW T \in SUBSET Nat, T # {}
  PROVE  \E m \in T : \A n \in T : m <= n
<1>1. \E x \in T : \A y \in T : ~ (<<y, x>> \in OpToRel(<, Nat))
  BY NatLessThanWellFounded, WFMin
<1>2. PICK x \in T : \A y \in T : ~ (<<y, x>> \in OpToRel(<, Nat))
  BY <1>1
<1>3. \A y \in T : ~ (y < x)
  BY <1>2 DEF OpToRel
<1> QED
  BY <1>3

\* A section that is there is found.
LEMMA FirstOfName ==
  ASSUME NEW sections, NEW n \in Nat, DOMAIN sections = 1 .. n, NEW name,
         HasSection(sections, name)
  PROVE  /\ SectionIndex(sections, name) \in DOMAIN sections
         /\ sections[SectionIndex(sections, name)].name = name
<1> DEFINE T == {i \in 1 .. n : sections[i].name = name}
<1>1. T \in SUBSET Nat /\ T # {}
  BY DEF HasSection
<1>2. PICK m \in T : \A k \in T : m <= k
  BY <1>1, LeastIndex
<1>3. \A j \in 1 .. m - 1 : sections[j].name # name
  BY <1>2
<1>4. m \in DOMAIN sections /\ sections[m].name = name
  OBVIOUS
<1> QED
  BY <1>3, <1>4 DEF SectionIndex

-----------------------------------------------------------------------------
(* The order by offset.                                                    *)

Numbered(sections, n) ==
  /\ n \in Nat /\ DOMAIN sections = 1 .. n
  /\ \A i \in 1 .. n : sections[i].off \in Nat

\* Ranks are numbers.
LEMMA PlacedBeforeFinite ==
  ASSUME NEW c, NEW over, NEW n, Numbered(c.sections, n)
  PROVE  /\ IsFiniteSet(InFile(c, over)) /\ Cardinality(InFile(c, over)) \in Nat
         /\ \A i : /\ IsFiniteSet(PlacedBefore(c, over, i))
                   /\ Cardinality(PlacedBefore(c, over, i)) \in Nat
<1>1. InFile(c, over) \in SUBSET (1 .. n)
  BY DEF InFile, Numbered
<1>2. IsFiniteSet(1 .. n)
  BY FS_Interval DEF Numbered
<1>3. IsFiniteSet(InFile(c, over))
  BY <1>1, <1>2, FS_Subset
<1>4. ASSUME NEW i
      PROVE  IsFiniteSet(PlacedBefore(c, over, i))
  <2>1. PlacedBefore(c, over, i) \in SUBSET InFile(c, over)
    BY DEF PlacedBefore
  <2> QED
    BY <2>1, <1>3, FS_Subset
<1> QED
  BY <1>3, <1>4, FS_CardinalityType

\* Of two sections one is placed first, and has the smaller rank.
LEMMA Ranked ==
  ASSUME NEW c, NEW over, NEW n, Numbered(c.sections, n),
         NEW i \in InFile(c, over), NEW j \in PlacedBefore(c, over, i)
  PROVE  Cardinality(PlacedBefore(c, over, j)) < Cardinality(PlacedBefore(c, over, i))
<1> DEFINE P(k) == PlacedBefore(c, over, k)
<1>1. j \in InFile(c, over) /\ i \in 1 .. n /\ j \in 1 .. n
  BY DEF PlacedBefore, InFile, Numbered
<1>2. \A k \in 1 .. n : c.sections[k].off \in Nat
  BY DEF Numbered
<1>3. j \notin P(j)
  BY <1>1, <1>2 DEF PlacedBefore
<1>4. P(j) \in SUBSET P(i)
  <2> SUFFICES ASSUME NEW k \in P(j) PROVE k \in P(i)
    OBVIOUS
  <2>1. k \in InFile(c, over) /\ k \in 1 .. n
    BY DEF PlacedBefore, InFile, Numbered
  <2> QED
    BY <2>1, <1>1, <1>2 DEF PlacedBefore
<1>5. IsFiniteSet(P(i)) /\ Cardinality(P(i)) \in Nat /\ Cardinality(P(j)) \in Nat
  BY PlacedBeforeFinite
<1>6. Cardinality(P(j)) <= Cardinality(P(i))
      /\ (Cardinality(P(i)) = Cardinality(P(j)) => P(i) = P(j))
  BY <1>4, <1>5, FS_Subset
<1> QED
  BY <1>3, <1>5, <1>6

\* The order by offset and index is total.
LEMMA OneIsFirst ==
  ASSUME NEW c, NEW over, NEW n, Numbered(c.sections, n),
         NEW i \in InFile(c, over), NEW j \in InFile(c, over), i # j
  PROVE  i \in PlacedBefore(c, over, j) \/ j \in PlacedBefore(c, over, i)
<1>1. i \in 1 .. n /\ j \in 1 .. n
  BY DEF InFile, Numbered
<1>2. c.sections[i].off \in Nat /\ c.sections[j].off \in Nat
  BY <1>1 DEF Numbered
<1> QED
  BY <1>1, <1>2 DEF PlacedBefore

\* Ranks are smaller than the number of sections in the file.
LEMMA RankBelow ==
  ASSUME NEW c, NEW over, NEW n, Numbered(c.sections, n), NEW i \in InFile(c, over)
  PROVE  Cardinality(PlacedBefore(c, over, i)) < Cardinality(InFile(c, over))
<1> DEFINE S == InFile(c, over)
           m == Cardinality(S)
           P == PlacedBefore(c, over, i)
<1>1. IsFiniteSet(S) /\ m \in Nat /\ Cardinality(P) \in Nat
  BY PlacedBeforeFinite
<1>2. P \in SUBSET S
  BY DEF PlacedBefore
<1>3. i \notin P
  <2>1. i \in 1 .. n /\ c.sections[i].off \in Nat
    BY DEF InFile, Numbered
  <2> QED
    BY <2>1 DEF PlacedBefore
<1>4. Cardinality(P) <= m /\ (m = Cardinality(P) => S = P)
  BY <1>1, <1>2, FS_Subset
<1> QED
  BY <1>1, <1>3, <1>4

\* The k-th of the order has k - 1 sections before it: the ranks are all the
\* numbers below the number of sections.
LEMMA OrderRanks ==
  ASSUME NEW c, NEW over, NEW n, Numbered(c.sections, n),
         NEW k \in 1 .. Cardinality(InFile(c, over))
  PROVE  LET i == OffsetOrder(c, over)[k]
         IN  /\ i \in InFile(c, over)
             /\ Cardinality(PlacedBefore(c, over, i)) = k - 1
<1> DEFINE S == InFile(c, over)
           m == Cardinality(S)
           R(i) == Cardinality(PlacedBefore(c, over, i))
           T == 0 .. m - 1
           f == [i \in S |-> R(i)]
<1>1. IsFiniteSet(S) /\ m \in Nat /\ \A i : R(i) \in Nat
  BY PlacedBeforeFinite
<1>2. ASSUME NEW i \in S
      PROVE  R(i) \in T
  <2>1. R(i) < m
    BY RankBelow
  <2> QED
    BY <2>1, <1>1
<1>3. \A i, j \in S : i # j => R(i) # R(j)
  <2> SUFFICES ASSUME NEW i \in S, NEW j \in S, i # j PROVE R(i) # R(j)
    OBVIOUS
  <2>1. CASE i \in PlacedBefore(c, over, j)
    <3>1. R(i) < R(j)
      BY <2>1, Ranked
    <3> QED
      BY <3>1, <1>1
  <2>2. CASE j \in PlacedBefore(c, over, i)
    <3>1. R(j) < R(i)
      BY <2>2, Ranked
    <3> QED
      BY <3>1, <1>1
  <2> QED
    BY <2>1, <2>2, OneIsFirst
<1>4. f \in Injection(S, T)
  BY <1>2, <1>3 DEF Injection, IsInjective
<1>5. IsFiniteSet(T) /\ Cardinality(T) = m
  <2>1. 0 \in Int /\ m - 1 \in Int
    BY <1>1
  <2>2. IsFiniteSet(T) /\ Cardinality(T) = IF 0 > m - 1 THEN 0 ELSE m - 1 - 0 + 1
    BY <2>1, FS_Interval
  <2> QED
    BY <2>2, <1>1
<1>6. f \in Surjection(S, T)
  BY <1>4, <1>5, FS_Injection
<1>7. k - 1 \in T
  BY <1>1
<1>8. \E i \in S : R(i) = k - 1
  BY <1>6, <1>7 DEF Surjection
<1>9. OffsetOrder(c, over)[k] = CHOOSE i \in S : R(i) = k - 1
  BY DEF OffsetOrder
<1> QED
  BY <1>8, <1>9

-----------------------------------------------------------------------------
(* The appended-segment writer.                                            *)

\* The sections of a container, with the bytes the input has.
ContainerOK(c, n) ==
  /\ Numbered(c.sections, n)
  /\ Len(c.sections) = n
  /\ \A i \in 1 .. n :
       /\ c.sections[i].sh_size \in Nat
       /\ c.sections[i].bytes.len = c.sections[i].sh_size
       /\ DOMAIN c.sections[i].bytes = {"len", "pieces"}
       /\ c.sections[i].sh_size > 0 => c.sections[i].off >= HeaderLen
  /\ \A i, j \in 1 .. n :
       i # j /\ c.sections[i].sh_size > 0 /\ c.sections[j].sh_size > 0 =>
         \/ c.sections[i].off + c.sections[i].sh_size <= c.sections[j].off
         \/ c.sections[j].off + c.sections[j].sh_size <= c.sections[i].off

\* What is staged for a section is as long as the section.
KeepsLength(c, over, n) ==
  \A i \in 1 .. n : i \in DOMAIN over => over[i].len = c.sections[i].sh_size

\* With nothing longer staged, a section occupies its own bytes.
LEMMA Extents ==
  ASSUME NEW c, NEW n, ContainerOK(c, n), NEW over, KeepsLength(c, over, n),
         NEW i \in 1 .. n
  PROVE  /\ Effective(c, over, i).len = c.sections[i].sh_size
         /\ Extent(c, over, i) = c.sections[i].sh_size
         /\ i \in InFile(c, over) <=> c.sections[i].sh_size > 0
         /\ build_section_header(c, over, i).off = c.sections[i].off
         /\ build_section_header(c, over, i).size = c.sections[i].sh_size
         /\ build_section_header(c, over, i).name = c.sections[i].name
<1>1. /\ c.sections[i].sh_size \in Nat
      /\ c.sections[i].bytes.len = c.sections[i].sh_size
      /\ DOMAIN c.sections = 1 .. n
  BY DEF ContainerOK, Numbered
<1>2. Effective(c, over, i).len = c.sections[i].sh_size
  BY <1>1 DEF Effective, KeepsLength
<1>3. Extent(c, over, i) = c.sections[i].sh_size
  BY <1>1, <1>2, MaxOfTwo DEF Extent
<1>4. build_section_header(c, over, i).size = c.sections[i].sh_size
  BY <1>1, <1>3, MaxOfTwo DEF build_section_header
<1> QED
  BY <1>1, <1>2, <1>3, <1>4 DEF InFile, build_section_header

\* A section placed before another ends where the other starts, or earlier.
LEMMA EndsBefore ==
  ASSUME NEW c, NEW n, ContainerOK(c, n), NEW over, KeepsLength(c, over, n),
         NEW i \in InFile(c, over), NEW j \in InFile(c, over), i # j,
         Cardinality(PlacedBefore(c, over, i)) <= Cardinality(PlacedBefore(c, over, j))
  PROVE  c.sections[i].off + c.sections[i].sh_size <= c.sections[j].off
<1>1. Numbered(c.sections, n) /\ i \in 1 .. n /\ j \in 1 .. n
  BY DEF ContainerOK, Numbered, InFile
<1>2. /\ c.sections[i].off \in Nat /\ c.sections[j].off \in Nat
      /\ c.sections[i].sh_size \in Nat /\ c.sections[j].sh_size \in Nat
      /\ c.sections[i].sh_size > 0 /\ c.sections[j].sh_size > 0
  BY <1>1, Extents DEF ContainerOK, Numbered
<1>3. j \notin PlacedBefore(c, over, i)
  <2> SUFFICES ASSUME j \in PlacedBefore(c, over, i) PROVE FALSE
    OBVIOUS
  <2>1. Cardinality(PlacedBefore(c, over, j)) < Cardinality(PlacedBefore(c, over, i))
    BY <1>1, Ranked
  <2>2. /\ Cardinality(PlacedBefore(c, over, j)) \in Nat
        /\ Cardinality(PlacedBefore(c, over, i)) \in Nat
    BY <1>1, PlacedBeforeFinite
  <2> QED
    BY <2>1, <2>2
<1>4. i \in PlacedBefore(c, over, j)
  BY <1>1, <1>3, OneIsFirst
<1>5. c.sections[i].off <= c.sections[j].off
  BY <1>4, <1>2 DEF PlacedBefore
<1>6. \/ c.sections[i].off + c.sections[i].sh_size <= c.sections[j].off
      \/ c.sections[j].off + c.sections[j].sh_size <= c.sections[i].off
  BY <1>1, <1>2 DEF ContainerOK
<1> QED
  BY <1>2, <1>5, <1>6

\* The writer's cursor never passes the next section, and ends behind all.
LEMMA Reserved ==
  ASSUME NEW c, NEW n, ContainerOK(c, n), NEW over, KeepsLength(c, over, n)
  PROVE  LET r == Reserve(c, over, OffsetOrder(c, over), HeaderLen)
         IN  /\ ~r.panic
             /\ r.cursor \in Nat /\ r.cursor >= HeaderLen
             /\ \A i \in 1 .. n : c.sections[i].sh_size > 0 =>
                  c.sections[i].off + c.sections[i].sh_size <= r.cursor
<1> DEFINE S == InFile(c, over)
           m == Cardinality(S)
           o == OffsetOrder(c, over)
           R(i) == Cardinality(PlacedBefore(c, over, i))
           at(k) == CursorAt(c, over, o, HeaderLen, k)
           r == Reserve(c, over, o, HeaderLen)
<1>1. Numbered(c.sections, n)
  BY DEF ContainerOK
<1>2. m \in Nat /\ \A i : R(i) \in Nat
  BY <1>1, PlacedBeforeFinite
<1>3. DOMAIN o = 1 .. m /\ Len(o) = m
  BY <1>2 DEF OffsetOrder
<1>4. \A k \in 1 .. m : o[k] \in S /\ R(o[k]) = k - 1
  BY <1>1, OrderRanks
<1>5. \A i \in S : /\ i \in 1 .. n
                   /\ c.sections[i].off \in Nat /\ c.sections[i].off >= HeaderLen
                   /\ c.sections[i].sh_size \in Nat /\ c.sections[i].sh_size > 0
                   /\ Extent(c, over, i) = c.sections[i].sh_size
  <2> SUFFICES ASSUME NEW i \in S
               PROVE  /\ i \in 1 .. n
                      /\ c.sections[i].off \in Nat /\ c.sections[i].off >= HeaderLen
                      /\ c.sections[i].sh_size \in Nat /\ c.sections[i].sh_size > 0
                      /\ Extent(c, over, i) = c.sections[i].sh_size
    OBVIOUS
  <2>1. i \in 1 .. n
    BY <1>1 DEF InFile, Numbered
  <2>2. c.sections[i].off \in Nat /\ c.sections[i].sh_size \in Nat
    BY <2>1 DEF ContainerOK, Numbered
  <2>3. c.sections[i].sh_size > 0 /\ Extent(c, over, i) = c.sections[i].sh_size
    BY <2>1, Extents
  <2>4. c.sections[i].off >= HeaderLen
    BY <2>1, <2>3 DEF ContainerOK
  <2> QED
    BY <2>1, <2>2, <2>3, <2>4
<1>6. ASSUME NEW k \in 1 .. m
      PROVE  at(k) <= c.sections[o[k]].off
  <2>1. o[k] \in S /\ c.sections[o[k]].off >= HeaderLen
    BY <1>4, <1>5
  <2>2. CASE k = 1
    BY <2>1, <2>2 DEF CursorAt
  <2>3. CASE k # 1
    <3>1. k - 1 \in 1 .. m
      BY <2>3, <1>2
    <3>2. o[k - 1] \in S /\ R(o[k - 1]) = k - 2 /\ R(o[k]) = k - 1
      BY <3>1, <1>4, <1>2
    <3>3. o[k - 1] # o[k] /\ R(o[k - 1]) <= R(o[k])
      BY <3>2, <1>2
    <3>4. c.sections[o[k - 1]].off + c.sections[o[k - 1]].sh_size <= c.sections[o[k]].off
      BY <2>1, <3>2, <3>3, EndsBefore
    <3> QED
      BY <2>3, <3>2, <3>4, <1>5 DEF CursorAt
  <2> QED
    BY <2>2, <2>3
<1>7. ~r.panic
  <2>1. \A k \in 1 .. m : at(k) \in Int /\ c.sections[o[k]].off \in Int
    <3> SUFFICES ASSUME NEW k \in 1 .. m
                 PROVE  at(k) \in Int /\ c.sections[o[k]].off \in Int
      OBVIOUS
    <3>1. c.sections[o[k]].off \in Int
      BY <1>4, <1>5
    <3>2. CASE k = 1
      BY <3>1, <3>2 DEF CursorAt, HeaderLen
    <3>3. CASE k # 1
      <4>1. k - 1 \in 1 .. m
        BY <3>3, <1>2
      <4>2. o[k - 1] \in S
        BY <4>1, <1>4
      <4> QED
        BY <3>1, <3>3, <4>2, <1>5 DEF CursorAt
    <3> QED
      BY <3>2, <3>3
  <2>2. \A k \in 1 .. m : ~(at(k) > c.sections[o[k]].off)
    BY <2>1, <1>6
  <2> QED
    BY <2>2, <1>3 DEF Reserve
<1>8. CASE m = 0
  <2>1. r.cursor = HeaderLen
    BY <1>8, <1>3 DEF Reserve, CursorAt
  <2>2. S = {}
    BY <1>8, <1>1, PlacedBeforeFinite, FS_EmptySet
  <2>3. \A i \in 1 .. n : ~(c.sections[i].sh_size > 0)
    BY <2>2, Extents
  <2> QED
    BY <1>7, <2>1, <2>3 DEF HeaderLen
<1>9. CASE m # 0
  <2>1. m \in 1 .. m /\ m + 1 # 1 /\ (m + 1) - 1 = m
    BY <1>9, <1>2
  <2>2. o[m] \in S /\ R(o[m]) = m - 1
    BY <2>1, <1>4
  <2>3. r.cursor = c.sections[o[m]].off + c.sections[o[m]].sh_size
    BY <2>1, <2>2, <1>3, <1>5 DEF Reserve, CursorAt
  <2>4. r.cursor \in Nat /\ r.cursor >= HeaderLen
    BY <2>2, <2>3, <1>5 DEF HeaderLen
  <2>5. ASSUME NEW i \in 1 .. n, c.sections[i].sh_size > 0
        PROVE  c.sections[i].off + c.sections[i].sh_size <= r.cursor
    <3>1. i \in S
      BY <2>5, Extents
    <3>2. CASE i = o[m]
      BY <3>1, <3>2, <2>3, <1>5
    <3>3. CASE i # o[m]
      <4>1. R(i) <= R(o[m])
        <5>1. R(i) < m
          BY <3>1, <1>1, RankBelow
        <5> QED
          BY <5>1, <2>2, <1>2
      <4>2. c.sections[i].off + c.sections[i].sh_size <= c.sections[o[m]].off
        BY <3>1, <3>3, <2>2, <4>1, EndsBefore
      <4>3. /\ c.sections[i].off \in Nat /\ c.sections[i].sh_size \in Nat
            /\ c.sections[o[m]].off \in Nat /\ c.sections[o[m]].sh_size \in Nat
        BY <3>1, <2>2, <1>5
      <4> HIDE DEF o, r
      <4> QED
        BY <4>2, <4>3, <2>3
    <3> QED
      BY <3>2, <3>3
  <2> QED
    BY <1>7, <2>4, <2>5
<1> QED
  BY <1>8, <1>9

\* The headers of a file: what ContainerOK says of the container read from it.
FileOK(sections, n) ==
  /\ Numbered(sections, n)
  /\ Len(sections) = n
  /\ \A i \in 1 .. n :
       /\ sections[i].size \in Nat
       /\ sections[i].size > 0 => sections[i].off >= HeaderLen
  /\ \A i, j \in 1 .. n :
       i # j /\ sections[i].size > 0 /\ sections[j].size > 0 =>
         \/ sections[i].off + sections[i].size <= sections[j].off
         \/ sections[j].off + sections[j].size <= sections[i].off

\* A list, one entry, and another list.
LEMMA Joined ==
  ASSUME NEW n \in Nat, NEW m \in Nat, NEW f, NEW a, NEW g,
         f = [i \in 1 .. n |-> f[i]], g = [i \in 1 .. m |-> g[i]]
  PROVE  LET q == f \o << a >> \o g
         IN  /\ DOMAIN q = 1 .. n + 1 + m /\ Len(q) = n + 1 + m
             /\ \A i \in 1 .. n : q[i] = f[i]
             /\ q[n + 1] = a
             /\ \A i \in 1 .. m : q[n + 1 + i] = g[i]
<1> DEFINE U == {f[i] : i \in 1 .. n} \cup {a} \cup {g[i] : i \in 1 .. m}
<1>1. f \in Seq(U) /\ Len(f) = n
  OBVIOUS
<1>2. g \in Seq(U) /\ Len(g) = m
  OBVIOUS
<1>3. << a >> \in Seq(U) /\ Len(<< a >>) = 1 /\ << a >>[1] = a
  OBVIOUS
<1> DEFINE h == f \o << a >>
<1> HIDE DEF U
<1>4. /\ h \in Seq(U) /\ Len(h) = n + 1
      /\ \A i \in 1 .. n : h[i] = f[i]
      /\ h[n + 1] = a
  BY <1>1, <1>3
<1> HIDE DEF h
<1> DEFINE q == h \o g
<1>5. /\ q \in Seq(U) /\ Len(q) = n + 1 + m
      /\ \A i \in 1 .. n + 1 : q[i] = h[i]
      /\ \A i \in 1 .. m : q[n + 1 + i] = g[i]
  BY <1>2, <1>4
<1> QED
  BY <1>4, <1>5 DEF h

\* The writable segment's data, if there is any.
WritableOK(writable) ==
  \/ writable = <<>>
  \/ \E r : writable = << r >> /\ r.bytes.len \in Nat

\* An appended segment is written without a panic, and lies behind the
\* sections with the writable data before it.
LEMMA AppendedFile ==
  ASSUME NEW c, NEW n, ContainerOK(c, n), NEW over, KeepsLength(c, over, n),
         NEW phdrs, NEW seg, NEW writable, WritableOK(writable),
         NEW w, w = write_with_appended_segment_inner(c, phdrs, seg, over, writable)
  PROVE  /\ ~w.panic
         /\ (\A i \in DOMAIN w.file.sections : w.file.sections[i].size \in Nat) =>
              \E m : FileOK(w.file.sections, m)
<1> DEFINE r == Reserve(c, over, OffsetOrder(c, over), HeaderLen)
           wl == IF writable = <<>> THEN 0 ELSE writable[1].bytes.len
           m == Len(writable)
           gap == (Len(c.sections) + m + 3) * (ShdrLen + 1)
           woff == align_up(r.cursor + gap, PAGE)
           at == AfterWritable(writable, woff)
           f == SectionHeaders(c, over)
           a == [name |-> "appended", addr |-> seg.vaddr, off |-> at, size |-> seg.bytes.len]
           g == [k \in DOMAIN writable |->
                   [name |-> "writable", addr |-> writable[k].vaddr, off |-> woff,
                    size |-> writable[k].bytes.len]]
           q == f \o << a >> \o g
<1>1. /\ ~r.panic /\ r.cursor \in Nat /\ r.cursor >= HeaderLen
      /\ \A i \in 1 .. n : c.sections[i].sh_size > 0 =>
           c.sections[i].off + c.sections[i].sh_size <= r.cursor
  BY Reserved
<1>2. w.panic = r.panic /\ w.file.sections = q
  BY DEF write_with_appended_segment_inner, AppendAfter, AppendFrom, AppendAt, LaidOut,
         Written, File
<1>3. n \in Nat /\ Len(c.sections) = n /\ DOMAIN c.sections = 1 .. n
  BY DEF ContainerOK, Numbered
<1>4. m \in 0 .. 1 /\ DOMAIN writable = 1 .. m /\ wl \in Nat
      /\ (m = 1 => wl = writable[1].bytes.len)
      /\ (writable = <<>> <=> m = 0)
  BY DEF WritableOK
<1> HIDE DEF r, m, wl
<1>5. gap \in Nat
  BY <1>3, <1>4 DEF ShdrLen
<1>6. woff \in Nat /\ woff >= r.cursor
  <2>1. r.cursor + gap \in Nat /\ r.cursor + gap >= r.cursor
    BY <1>1, <1>5
  <2> DEFINE x == r.cursor + gap
  <2> HIDE DEF x, gap
  <2>2. x \in Nat /\ x >= r.cursor
    BY <2>1 DEF x
  <2>3. align_up(x, PAGE) \in Nat /\ x <= align_up(x, PAGE)
    BY <2>2, ElfAssumption, RoundedUp
  <2>4. woff = align_up(x, PAGE)
    BY DEF x
  <2> HIDE DEF woff
  <2> QED
    BY <2>2, <2>3, <2>4, <1>1
<1> HIDE DEF gap, woff
<1>7. at \in Nat /\ at >= woff + wl
  <2>1. CASE m = 0
    BY <2>1, <1>4, <1>6 DEF AfterWritable, wl
  <2>2. CASE m = 1
    <3>1. at = align_up(woff + wl, PAGE)
      BY <2>2, <1>4 DEF AfterWritable
    <3>2. woff + wl \in Nat
      BY <1>4, <1>6
    <3> QED
      BY <3>1, <3>2, ElfAssumption, RoundedUp
  <2> QED
    BY <2>1, <2>2, <1>4
<1> HIDE DEF at
<1>8. f = [i \in 1 .. n |-> f[i]] /\ \A i \in 1 .. n : f[i] = build_section_header(c, over, i)
  BY <1>3 DEF SectionHeaders
<1>9. g = [i \in 1 .. m |-> g[i]]
  BY <1>4
<1>10. m \in Nat
  BY <1>4
<1> HIDE DEF f, g, a
<1>11. /\ DOMAIN q = 1 .. n + 1 + m /\ Len(q) = n + 1 + m
       /\ \A i \in 1 .. n : q[i] = f[i]
       /\ q[n + 1] = a
       /\ \A i \in 1 .. m : q[n + 1 + i] = g[i]
  BY <1>3, <1>8, <1>9, <1>10, Joined
<1> HIDE DEF q
<1>12. ASSUME NEW i \in 1 .. n
       PROVE  /\ q[i].off = c.sections[i].off /\ q[i].size = c.sections[i].sh_size
              /\ q[i].off \in Nat /\ q[i].size \in Nat
              /\ q[i].size > 0 => q[i].off >= HeaderLen /\ q[i].off + q[i].size <= woff
  <2>1. q[i].off = c.sections[i].off /\ q[i].size = c.sections[i].sh_size
    BY <1>8, <1>11, Extents
  <2>2. /\ c.sections[i].off \in Nat /\ c.sections[i].sh_size \in Nat
        /\ c.sections[i].sh_size > 0 => c.sections[i].off >= HeaderLen
    BY DEF ContainerOK, Numbered
  <2> QED
    BY <2>1, <2>2, <1>1, <1>6
<1>13. q[n + 1].off = at /\ q[n + 1].size = seg.bytes.len /\ at >= HeaderLen /\ at >= woff
  BY <1>1, <1>4, <1>6, <1>7, <1>11 DEF a, HeaderLen
<1>14. ASSUME m = 1
       PROVE  q[n + 2].off = woff /\ q[n + 2].size = wl /\ woff >= HeaderLen
  <2>1. q[n + 2] = g[1]
    BY <1>14, <1>11, <1>3
  <2>2. g[1].off = woff /\ g[1].size = writable[1].bytes.len
    BY <1>14, <1>4 DEF g
  <2> QED
    BY <2>1, <2>2, <1>14, <1>1, <1>4, <1>6 DEF HeaderLen
<1>15. ASSUME \A i \in DOMAIN q : q[i].size \in Nat
       PROVE  FileOK(q, n + 1 + m)
  <2>1. 1 .. n + 1 + m = (1 .. n) \cup {n + 1} \cup (IF m = 1 THEN {n + 2} ELSE {})
    BY <1>3, <1>4
  <2>2. \A i \in 1 .. n + 1 + m :
          /\ q[i].off \in Nat /\ q[i].size \in Nat
          /\ q[i].size > 0 => q[i].off >= HeaderLen
    BY <2>1, <1>6, <1>7, <1>11, <1>12, <1>13, <1>14, <1>15
  <2>3. ASSUME NEW i \in 1 .. n, NEW j \in 1 .. n, i # j, q[i].size > 0, q[j].size > 0
        PROVE  q[i].off + q[i].size <= q[j].off \/ q[j].off + q[j].size <= q[i].off
    BY <2>3, <1>12 DEF ContainerOK
  <2>4. ASSUME NEW i \in 1 .. n, q[i].size > 0
        PROVE  /\ q[i].off + q[i].size <= q[n + 1].off
               /\ m = 1 => q[i].off + q[i].size <= q[n + 2].off
    BY <2>4, <1>6, <1>7, <1>12, <1>13, <1>14
  <2>5. m = 1 => q[n + 2].off + q[n + 2].size <= q[n + 1].off
    BY <1>4, <1>6, <1>7, <1>13, <1>14
  <2>6. ASSUME NEW i \in 1 .. n + 1 + m, NEW j \in 1 .. n + 1 + m,
               i # j, q[i].size > 0, q[j].size > 0
        PROVE  q[i].off + q[i].size <= q[j].off \/ q[j].off + q[j].size <= q[i].off
    BY <2>1, <2>3, <2>4, <2>5, <2>6
  <2>7. n + 1 + m \in Nat
    BY <1>3, <1>4
  <2> QED
    BY <2>2, <2>6, <2>7, <1>11 DEF FileOK, Numbered
<1> QED
  BY <1>1, <1>2, <1>15

-----------------------------------------------------------------------------
(* The steps of a commit and what they stage.                              *)

WorkFields == {"vaddr", "bytes", "at", "phdrs", "code", "over"}

\* Only .dynamic may be staged with another length.
WorkOK(t, w, n) ==
  /\ DOMAIN w = WorkFields
  /\ \A i \in 1 .. n : i \in DOMAIN w.over /\ i # DynamicIndex(t) =>
       w.over[i].len = t.c.sections[i].sh_size

\* What pack leaves alone.
LEMMA Packed ==
  ASSUME NEW w, DOMAIN w = WorkFields, NEW tag, NEW payload, NEW align
  PROVE  /\ DOMAIN Pack(w, tag, payload, align) = WorkFields
         /\ Pack(w, tag, payload, align).over = w.over
BY DEF Pack, WorkFields

\* Packing a table into the segment stages nothing.
LEMMA PackedOK ==
  ASSUME NEW t, NEW n, NEW w, WorkOK(t, w, n), NEW tag, NEW payload, NEW align
  PROVE  WorkOK(t, Pack(w, tag, payload, align), n)
BY Packed DEF WorkOK

\* What staging leaves alone.
LEMMA Staged ==
  ASSUME NEW w, DOMAIN w = WorkFields, NEW i, NEW bytes
  PROVE  /\ DOMAIN Stage(w, i, bytes) = WorkFields
         /\ Stage(w, i, bytes).over =
              [j \in DOMAIN w.over \cup {i} |-> IF j = i THEN bytes ELSE w.over[j]]
BY DEF Stage, WorkFields

\* A new .dynamic of any length may be staged.
LEMMA StagedOK ==
  ASSUME NEW t, NEW n, NEW w, WorkOK(t, w, n), NEW bytes
  PROVE  WorkOK(t, Stage(w, DynamicIndex(t), bytes), n)
<1> DEFINE d == DynamicIndex(t)
           v == Stage(w, d, bytes)
<1>1. DOMAIN w = WorkFields
  BY DEF WorkOK
<1> HIDE DEF d
<1>2. /\ DOMAIN v = WorkFields
      /\ v.over = [j \in DOMAIN w.over \cup {d} |-> IF j = d THEN bytes ELSE w.over[j]]
  BY <1>1, Staged
<1> HIDE DEF v
<1>3. WorkOK(t, v, n)
  BY <1>2 DEF WorkOK, d
<1> QED
  BY <1>3 DEF v, d

\* What unstaging leaves alone.
LEMMA Unstaged ==
  ASSUME NEW w, DOMAIN w = WorkFields, NEW i
  PROVE  /\ DOMAIN Unstage(w, i) = WorkFields
         /\ Unstage(w, i).over = [j \in DOMAIN w.over \ {i} |-> w.over[j]]
BY DEF Unstage, WorkFields

\* What is unstaged keeps the section's bytes.
LEMMA UnstagedOK ==
  ASSUME NEW t, NEW n, NEW w, WorkOK(t, w, n), NEW i
  PROVE  WorkOK(t, Unstage(w, i), n)
<1> DEFINE v == Unstage(w, i)
<1>1. DOMAIN w = WorkFields
  BY DEF WorkOK
<1>2. DOMAIN v = WorkFields /\ v.over = [j \in DOMAIN w.over \ {i} |-> w.over[j]]
  BY <1>1, Unstaged
<1> HIDE DEF v
<1>3. WorkOK(t, v, n)
  BY <1>2 DEF WorkOK
<1> QED
  BY <1>3 DEF v

\* extend_segment_for_exports stages .dynamic only.
LEMMA ExportsOK ==
  ASSUME NEW t, NEW n, NEW w, WorkOK(t, w, n)
  PROVE  WorkOK(t, extend_segment_for_exports(t, w), n)
<1> DEFINE symbols == ExtendedSymbols(t)
           strings == Strings(t)
           v == PackTables(t, w, symbols, strings)
<1>1. WorkOK(t, v, n)
  <2> HIDE DEF symbols, strings
  <2>1. CASE t.exports = <<>>
    BY <2>1, PackedOK DEF PackTables
  <2>2. CASE t.exports # <<>>
    <3> DEFINE w1 == Pack(w, "SYMTAB", Blob(SymLen * Len(symbols), "dynsym", symbols), SlotLen)
               w2 == Pack(w1, "STRTAB", Blob(Len(strings), "dynstr", strings), 1)
               w3 == Pack(w2, "VERSYM", Blob(Len(Versions(t)), "versym", Versions(t)), 1)
    <3>1. WorkOK(t, w1, n)
      BY PackedOK
    <3> HIDE DEF w1
    <3>2. WorkOK(t, w2, n)
      BY <3>1, PackedOK
    <3> HIDE DEF w2
    <3>3. WorkOK(t, w3, n)
      BY <3>2, PackedOK
    <3>4. v = PackHash(w3, build_gnu_hash(HashableNames(t, symbols, strings), SymbolBase(t)))
      BY <2>2 DEF PackTables, w1, w2
    <3> HIDE DEF w3
    <3> QED
      BY <3>3, <3>4, PackedOK DEF PackHash
  <2> QED
    BY <2>1, <2>2
<1> HIDE DEF v
<1>2. WorkOK(t, RetagTables(t, v, Len(strings)), n)
  BY <1>1, StagedOK DEF RetagTables
<1> QED
  BY <1>2 DEF extend_segment_for_exports, v

\* extend_segment_for_appended_init_slots stages .dynamic and gives up .rela.dyn.
LEMMA SlotsOK ==
  ASSUME NEW t, NEW n, NEW w, WorkOK(t, w, n)
  PROVE  WorkOK(t, extend_segment_for_appended_init_slots(t, w), n)
<1>1. CASE t.slots = <<>>
  BY <1>1 DEF extend_segment_for_appended_init_slots
<1>2. CASE t.slots # <<>>
  <2> DEFINE v == PackSlots(t, w)
             rela == CombinedRela(t, Rows(Effective(t.c, w.over, RelaDyn(t))), v.at["INIT_ARRAY"])
             u == Pack(v, "RELA", RelaBytes(rela), SlotLen)
             start == StartingDynamic(t, v)
             tags == SlotTags(t, u, RelaLen * Len(rela))
             x == RetagSlots(t, u, start, tags)
  <2>1. WorkOK(t, v, n)
    BY PackedOK DEF PackSlots
  <2>2. extend_segment_for_appended_init_slots(t, w) = Unstage(x, RelaDyn(t))
    BY <1>2 DEF extend_segment_for_appended_init_slots, SlotsPacked, PackRela
  <2> HIDE DEF v, rela, start, tags
  <2>3. WorkOK(t, u, n)
    BY <2>1, PackedOK
  <2> HIDE DEF u
  <2>4. WorkOK(t, x, n)
    BY <2>3, StagedOK DEF RetagSlots
  <2> HIDE DEF x
  <2> QED
    BY <2>2, <2>4, UnstagedOK
<1> QED
  BY <1>1, <1>2

\* .dynamic is filled up to its length, or moves and its section keeps its bytes.
LEMMA FinalizeOK ==
  ASSUME NEW t, NEW n, ContainerOK(t.c, n), HasSection(t.c.sections, ".dynamic"),
         NEW w, WorkOK(t, w, n)
  PROVE  KeepsLength(t.c, finalize_dynamic_size_or_relocate(t, w).over, n)
<1> DEFINE d == DynamicIndex(t)
           rows == Rows(w.over[d])
           room == t.c.sections[d].bytes.len \div DynLen
           bytes == WithRows(t.c.sections[d].bytes, FilledUp(rows, room))
<1>1. n \in Nat /\ DOMAIN t.c.sections = 1 .. n
  BY DEF ContainerOK, Numbered
<1>2. d \in 1 .. n
  BY <1>1, FirstOfName DEF DynamicIndex
<1>3. DOMAIN w = WorkFields
  BY DEF WorkOK
<1>4. CASE d \notin DOMAIN w.over
  BY <1>4 DEF finalize_dynamic_size_or_relocate, KeepsLength, WorkOK
<1>5. CASE d \in DOMAIN w.over /\ Len(rows) > room
  <2> DEFINE grown == DynamicBytes(TakeTags(rows) \o Nulls(HEADROOM + 1))
             v == Pack(w, "DYNAMIC", grown, SlotLen)
             u == MovePhdr(v, grown.len)
  <2>1. finalize_dynamic_size_or_relocate(t, w) = Unstage(u, d)
    BY <1>5 DEF finalize_dynamic_size_or_relocate, RelocateDynamic
  <2> HIDE DEF grown, rows, room
  <2>2. DOMAIN v = WorkFields /\ v.over = w.over
    BY <1>3, Packed
  <2> HIDE DEF v
  <2>3. DOMAIN u = WorkFields /\ u.over = w.over
    BY <2>2 DEF MovePhdr, WorkFields
  <2> HIDE DEF u, d
  <2>4. Unstage(u, d).over = [j \in DOMAIN w.over \ {d} |-> w.over[j]]
    BY <2>3, Unstaged
  <2> QED
    BY <2>1, <2>4 DEF KeepsLength, WorkOK, d
<1>6. CASE d \in DOMAIN w.over /\ ~(Len(rows) > room)
  <2>1. finalize_dynamic_size_or_relocate(t, w) = Stage(w, d, bytes)
    BY <1>6 DEF finalize_dynamic_size_or_relocate
  <2>2. bytes.len = t.c.sections[d].sh_size
    BY <1>2, OtherRows DEF ContainerOK
  <2> HIDE DEF bytes, d
  <2>3. Stage(w, d, bytes).over =
          [j \in DOMAIN w.over \cup {d} |-> IF j = d THEN bytes ELSE w.over[j]]
    BY <1>3, Staged
  <2> QED
    BY <2>1, <2>2, <2>3 DEF KeepsLength, WorkOK, d
<1> QED
  BY <1>4, <1>5, <1>6

\* What a session has staged keeps the length of its section.
OverridesOK(t, n) ==
  /\ \E m \in Nat : Listed(t.overrides, m)
  /\ \A k \in DOMAIN t.overrides :
       /\ DOMAIN t.overrides[k].bytes = {"len", "pieces"}
       /\ t.overrides[k].index \in 1 .. n =>
            t.overrides[k].bytes.len = t.c.sections[t.overrides[k].index].sh_size

\* The last of several staged bytes is one of them.
LEMMA GreatestIndex ==
  ASSUME NEW m \in Nat, NEW T \in SUBSET (1 .. m), T # {}
  PROVE  MaxOf(T) \in T
<1> DEFINE C == {m - k : k \in T}
<1>1. C \in SUBSET Nat /\ C # {}
  <2>1. \A k \in T : m - k \in Nat
    OBVIOUS
  <2>2. PICK k \in T : TRUE
    OBVIOUS
  <2>3. m - k \in C
    OBVIOUS
  <2> QED
    BY <2>1, <2>3
<1>2. PICK x \in C : \A y \in C : x <= y
  BY <1>1, LeastIndex
<1>3. PICK k \in T : x = m - k
  OBVIOUS
<1>4. \A j \in T : m - k <= m - j
  BY <1>2, <1>3
<1>5. \A j \in T : j <= k
  BY <1>4
<1> QED
  BY <1>3, <1>5 DEF MaxOf

\* The staged bytes of a section are as long as the section.
LEMMA EffectiveLength ==
  ASSUME NEW t, NEW n, ContainerOK(t.c, n), OverridesOK(t, n), NEW i \in 1 .. n
  PROVE  /\ effective_section_bytes(t, i).len = t.c.sections[i].sh_size
         /\ DOMAIN effective_section_bytes(t, i) = {"len", "pieces"}
<1> DEFINE staged == {k \in DOMAIN t.overrides : t.overrides[k].index = i}
<1>1. CASE staged = {}
  <2>1. /\ t.c.sections[i].bytes.len = t.c.sections[i].sh_size
        /\ DOMAIN t.c.sections[i].bytes = {"len", "pieces"}
    BY DEF ContainerOK
  <2> QED
    BY <1>1, <2>1 DEF effective_section_bytes
<1>2. CASE staged # {}
  <2>1. PICK m \in Nat : Listed(t.overrides, m)
    BY DEF OverridesOK
  <2>2. staged \in SUBSET (1 .. m)
    BY <2>1 DEF Listed
  <2>3. MaxOf(staged) \in staged
    BY <1>2, <2>2, GreatestIndex
  <2>4. effective_section_bytes(t, i) = t.overrides[MaxOf(staged)].bytes
    BY <1>2 DEF effective_section_bytes
  <2> QED
    BY <2>3, <2>4 DEF OverridesOK
<1> QED
  BY <1>1, <1>2

\* A commit starts from what the session staged.
LEMMA PaddedOK ==
  ASSUME NEW t, NEW n, ContainerOK(t.c, n), OverridesOK(t, n)
  PROVE  WorkOK(t, PaddedCode(t), n) /\ KeepsLength(t.c, PaddedCode(t).over, n)
<1> DEFINE w == PaddedCode(t)
           I == {t.overrides[k].index : k \in DOMAIN t.overrides}
<1>1. DOMAIN w = WorkFields /\ w.over = [i \in I |-> effective_section_bytes(t, i)]
  BY DEF PaddedCode, Work, WorkFields
<1> HIDE DEF w, I
<1>2. KeepsLength(t.c, w.over, n)
  BY <1>1, EffectiveLength DEF KeepsLength
<1> QED
  BY <1>1, <1>2 DEF KeepsLength, WorkOK, w

\* After the three steps everything staged is as long as its section.
LEMMA Finalized ==
  ASSUME NEW t, NEW n, ContainerOK(t.c, n), OverridesOK(t, n), ~MissingTable(t)
  PROVE  KeepsLength(t.c, finalize_dynamic_size_or_relocate(t,
           extend_segment_for_appended_init_slots(t,
             extend_segment_for_exports(t, PaddedCode(t)))).over, n)
<1> DEFINE w == PaddedCode(t)
           v == extend_segment_for_exports(t, w)
           u == extend_segment_for_appended_init_slots(t, v)
<1>1. WorkOK(t, w, n) /\ KeepsLength(t.c, w.over, n)
  BY PaddedOK
<1> HIDE DEF w
<1>2. CASE HasSection(t.c.sections, ".dynamic")
  <2>1. WorkOK(t, v, n)
    BY <1>1, ExportsOK
  <2> HIDE DEF v
  <2>2. WorkOK(t, u, n)
    BY <2>1, SlotsOK
  <2> HIDE DEF u
  <2>3. KeepsLength(t.c, finalize_dynamic_size_or_relocate(t, u).over, n)
    BY <1>2, <2>2, FinalizeOK
  <2> QED
    BY <2>3 DEF u, v, w
<1>3. CASE ~HasSection(t.c.sections, ".dynamic")
  <2>1. t.exports = <<>> /\ t.deps = <<>> /\ t.slots = <<>>
    BY <1>3 DEF MissingTable, Needed
  <2>2. v = w
    BY <2>1 DEF extend_segment_for_exports
  <2>3. u = w
    BY <2>1, <2>2 DEF extend_segment_for_appended_init_slots
  <2>4. finalize_dynamic_size_or_relocate(t, u) = w
    BY <1>3, <2>3 DEF finalize_dynamic_size_or_relocate
  <2> QED
    BY <1>1, <2>4 DEF w
<1> QED
  BY <1>2, <1>3

\* The pipeline of the appended path ends without a panic, in a file like the input.
LEMMA CommitAppendedOK ==
  ASSUME NEW t, NEW n, ContainerOK(t.c, n), OverridesOK(t, n), WritableOK(t.writable),
         ~MissingTable(t)
  PROVE  LET w == CommitAppended(t)
         IN  /\ ~w.panic
             /\ (\A i \in DOMAIN w.file.sections : w.file.sections[i].size \in Nat) =>
                  \E m : FileOK(w.file.sections, m)
<1> DEFINE u == finalize_dynamic_size_or_relocate(t,
                  extend_segment_for_appended_init_slots(t,
                    extend_segment_for_exports(t, PaddedCode(t))))
<1>1. KeepsLength(t.c, u.over, n)
  BY Finalized
<1>2. CommitAppended(t) = WriteAppended(t, u)
  BY DEF CommitAppended
<1> HIDE DEF u
<1>3. CommitAppended(t) =
        write_with_appended_segment_inner(t.c, u.phdrs, SegmentOf(t, u), u.over, t.writable)
  BY <1>2 DEF WriteAppended
<1> QED
  BY <1>1, <1>3, AppendedFile

\* Without an appended segment the sections stay where they are, as nothing grew.
LEMMA WrittenInPlace ==
  ASSUME NEW c, NEW n, ContainerOK(c, n)
  PROVE  FileOK(write(c).file.sections, n)
<1>1. n \in Nat /\ DOMAIN c.sections = 1 .. n
  BY DEF ContainerOK, Numbered
<1>2. Grown(c) = {}
  BY <1>1 DEF Grown, ContainerOK
<1>3. write(c).file.sections = SectionHeaders(c, <<>>)
  BY <1>2 DEF write, InPlace, Written, File
<1> DEFINE f == SectionHeaders(c, <<>>)
<1>4. f = [i \in 1 .. n |-> build_section_header(c, <<>>, i)]
  BY <1>1 DEF SectionHeaders
<1>5. KeepsLength(c, <<>>, n)
  BY DEF KeepsLength
<1> HIDE DEF f
<1>6. ASSUME NEW i \in 1 .. n
      PROVE  f[i].off = c.sections[i].off /\ f[i].size = c.sections[i].sh_size
  <2>1. f[i] = build_section_header(c, <<>>, i)
    BY <1>4
  <2> QED
    BY <2>1, <1>5, Extents
<1>7. DOMAIN f = 1 .. n /\ Len(f) = n
  BY <1>1, <1>4
<1>8. FileOK(f, n)
  BY <1>1, <1>6, <1>7 DEF FileOK, ContainerOK, Numbered
<1> QED
  BY <1>3, <1>8 DEF f

-----------------------------------------------------------------------------
(* The session.                                                            *)

SessionFields ==
  {"c", "appended", "vaddr", "bytes", "exports", "writable", "overrides", "slots", "deps", "text"}

Shaped(t, n) ==
  /\ DOMAIN t = SessionFields
  /\ DOMAIN t.c = {"sections", "phdrs", "dynamic", "symbols"}
  /\ \A i \in 1 .. n : DOMAIN t.c.sections[i] = {"name", "addr", "off", "sh_size", "bytes"}

TextOK(t) ==
  t.text # NoBytes =>
    /\ HasSection(t.c.sections, ".text")
    /\ t.text.len = t.c.sections[SectionIndex(t.c.sections, ".text")].sh_size
    /\ DOMAIN t.text = {"len", "pieces"}

SessionOK(t, n) ==
  /\ Shaped(t, n)
  /\ ContainerOK(t.c, n) /\ OverridesOK(t, n) /\ WritableOK(t.writable) /\ TextOK(t)
  /\ t.c.dynamic = <<>> \/ HasSection(t.c.sections, ".dynamic")

\* A session starts with nothing staged.
LEMMA OpenedOK ==
  ASSUME NEW f, NEW n, FileOK(f.sections, n)
  PROVE  SessionOK(NewSession(read(f)), n)
<1> DEFINE t == NewSession(read(f))
           secs == ReadSections(f)
<1>1. /\ t.c = read(f) /\ t.overrides = <<>> /\ t.writable = <<>> /\ t.text = NoBytes
      /\ DOMAIN t = SessionFields
  BY DEF NewSession, SessionFields
<1>2. /\ t.c.sections = secs /\ DOMAIN t.c = {"sections", "phdrs", "dynamic", "symbols"}
      /\ t.c.dynamic = raw_section_bytes(secs, ".dynamic")
  BY <1>1 DEF read, ContainerOf
<1>3. n \in Nat /\ DOMAIN f.sections = 1 .. n
  BY DEF FileOK, Numbered
<1>4. DOMAIN secs = 1 .. n /\ Len(secs) = n
  BY <1>3 DEF ReadSections
<1>5. ASSUME NEW i \in 1 .. n
      PROVE  /\ secs[i].off = f.sections[i].off /\ secs[i].sh_size = f.sections[i].size
             /\ secs[i].bytes.len = f.sections[i].size
             /\ DOMAIN secs[i] = {"name", "addr", "off", "sh_size", "bytes"}
             /\ DOMAIN secs[i].bytes = {"len", "pieces"}
  <2>1. secs[i] = [name |-> f.sections[i].name, addr |-> f.sections[i].addr,
                   off |-> f.sections[i].off, sh_size |-> f.sections[i].size,
                   bytes |-> SectionBytes(f, f.sections[i])]
    BY <1>3 DEF ReadSections
  <2>2. /\ SectionBytes(f, f.sections[i]).len = f.sections[i].size
        /\ DOMAIN SectionBytes(f, f.sections[i]) = {"len", "pieces"}
    BY DEF SectionBytes
  <2> HIDE DEF secs
  <2> QED
    BY <2>1, <2>2
<1> HIDE DEF secs, t
<1>6. Shaped(t, n)
  BY <1>1, <1>2, <1>5 DEF Shaped
<1>7. ContainerOK(t.c, n)
  BY <1>2, <1>3, <1>4, <1>5 DEF ContainerOK, FileOK, Numbered
<1>8. OverridesOK(t, n)
  <2>1. Listed(t.overrides, 0) /\ DOMAIN t.overrides = {}
    BY <1>1 DEF Listed
  <2> QED
    BY <2>1 DEF OverridesOK
<1>9. WritableOK(t.writable) /\ TextOK(t)
  BY <1>1 DEF WritableOK, TextOK
<1>10. t.c.dynamic = <<>> \/ HasSection(t.c.sections, ".dynamic")
  BY <1>2 DEF raw_section_bytes
<1> QED
  BY <1>6, <1>7, <1>8, <1>9, <1>10 DEF SessionOK, t

\* Calls that leave the sections and what is staged for them alone.
LEMMA SameSections ==
  ASSUME NEW t, NEW n, SessionOK(t, n), NEW u,
         DOMAIN u = SessionFields, DOMAIN u.c = DOMAIN t.c,
         u.c.sections = t.c.sections, u.c.dynamic = t.c.dynamic,
         u.overrides = t.overrides, u.writable = t.writable, u.text = t.text
  PROVE  SessionOK(u, n)
<1>1. /\ Shaped(t, n) /\ ContainerOK(t.c, n) /\ OverridesOK(t, n)
      /\ WritableOK(t.writable) /\ TextOK(t)
      /\ t.c.dynamic = <<>> \/ HasSection(t.c.sections, ".dynamic")
  BY DEF SessionOK
<1>2. Shaped(u, n)
  BY <1>1 DEF Shaped
<1>3. ContainerOK(u.c, n)
  BY <1>1 DEF ContainerOK
<1>4. OverridesOK(u, n)
  BY <1>1 DEF OverridesOK
<1>5. WritableOK(u.writable) /\ TextOK(u)
  BY <1>1 DEF TextOK
<1> QED
  BY <1>1, <1>2, <1>3, <1>4, <1>5 DEF SessionOK

\* Placing the appended segment.
LEMMA WithSegmentOK ==
  ASSUME NEW t, NEW n, SessionOK(t, n)
  PROVE  /\ SessionOK(WithSegment(t), n)
         /\ WithSegment(t).c = t.c /\ WithSegment(t).overrides = t.overrides
         /\ WithSegment(t).writable = t.writable /\ WithSegment(t).text = t.text
         /\ WithSegment(t).exports = t.exports /\ WithSegment(t).deps = t.deps
         /\ WithSegment(t).slots = t.slots /\ WithSegment(t).appended
<1>1. DOMAIN t = SessionFields
  BY DEF SessionOK, Shaped
<1> DEFINE u == WithSegment(t)
<1>2. CASE t.appended
  BY <1>2 DEF WithSegment
<1>3. CASE ~t.appended
  <2>1. u = [t EXCEPT !.appended = TRUE, !.vaddr = pick_vaddr(t)]
    BY <1>3 DEF WithSegment
  <2>2. /\ DOMAIN u = SessionFields /\ u.c = t.c /\ u.overrides = t.overrides
        /\ u.writable = t.writable /\ u.text = t.text
        /\ u.exports = t.exports /\ u.deps = t.deps /\ u.slots = t.slots
        /\ u.appended = TRUE
    BY <1>1, <2>1 DEF SessionFields
  <2> HIDE DEF u
  <2>3. SessionOK(u, n)
    BY <2>2, SameSections
  <2> QED
    BY <2>2, <2>3 DEF u
<1> QED
  BY <1>2, <1>3

\* add_function changes no section.
LEMMA AddFunctionOK ==
  ASSUME NEW t, NEW n, SessionOK(t, n), NEW len, NEW id, NEW callees
  PROVE  LET u == add_function(t, len, id, callees)
         IN  /\ SessionOK(u, n)
             /\ u.c.sections = t.c.sections /\ u.overrides = t.overrides
<1> DEFINE v == WithSegment(t)
           u == add_function(t, len, id, callees)
           here == NextAddress(t)
           code == Code(t.bytes.len, len, id, [k \in DOMAIN callees |-> callees[k] - here])
<1>1. SessionOK(v, n) /\ v.c = t.c /\ v.overrides = t.overrides
  BY WithSegmentOK
<1>2. u = [v EXCEPT !.bytes = [len |-> @.len + len, pieces |-> Append(@.pieces, code)],
                    !.c.symbols = Append(@, here)]
  BY DEF add_function
<1> HIDE DEF v, here, code
<1>3. DOMAIN v = SessionFields /\ DOMAIN v.c = {"sections", "phdrs", "dynamic", "symbols"}
  BY <1>1 DEF SessionOK, Shaped
<1>4. /\ DOMAIN u = SessionFields /\ DOMAIN u.c = DOMAIN v.c
      /\ u.c.sections = v.c.sections /\ u.c.dynamic = v.c.dynamic
      /\ u.overrides = v.overrides /\ u.writable = v.writable /\ u.text = v.text
  BY <1>2, <1>3 DEF SessionFields
<1> HIDE DEF u
<1>5. SessionOK(u, n)
  BY <1>1, <1>4, SameSections
<1> QED
  BY <1>1, <1>4, <1>5 DEF u

\* The wrapper's relocation is staged in bytes as long as those it replaces.
LEMMA HijackOK ==
  ASSUME NEW t, NEW n, SessionOK(t, n), NEW k, NEW len, NEW id,
         HasSection(t.c.sections, ".rela.dyn")
  PROVE  SessionOK(Hijack(t, k, len, id), n)
<1> DEFINE body == add_function(t, len, id, <<>>)
           v == add_function(body, WrapperLen, << "wrapper", 0 >>,
                             << NextAddress(t), SlotRows(t)[k].addend >>)
           i == RelaDyn(t)
           e == effective_section_bytes(t, i)
           rows == [SlotRows(t) EXCEPT ![k].addend = NextAddress(body)]
           o == [index |-> i, bytes |-> WithRows(e, rows)]
           u == Hijack(t, k, len, id)
<1>1. /\ SessionOK(v, n)
      /\ v.c.sections = t.c.sections /\ v.overrides = t.overrides
  <2>1. SessionOK(body, n) /\ body.c.sections = t.c.sections /\ body.overrides = t.overrides
    BY AddFunctionOK
  <2> HIDE DEF body
  <2> QED
    BY <2>1, AddFunctionOK
<1>2. u = [v EXCEPT !.overrides = Append(@, o)]
  BY DEF Hijack
<1>3. ContainerOK(t.c, n) /\ OverridesOK(t, n)
  BY DEF SessionOK
<1>4. i \in 1 .. n
  BY <1>3, FirstOfName DEF RelaDyn, ContainerOK, Numbered
<1>5. e.len = t.c.sections[i].sh_size /\ DOMAIN e = {"len", "pieces"}
  BY <1>3, <1>4, EffectiveLength
<1> HIDE DEF v, i, e, rows
<1>6. /\ o.index = i /\ o.bytes.len = t.c.sections[i].sh_size
      /\ DOMAIN o.bytes = {"len", "pieces"}
  BY <1>5, OtherRows
<1> HIDE DEF o
<1>7. DOMAIN v = SessionFields
  BY <1>1 DEF SessionOK, Shaped
<1>8. /\ DOMAIN u = SessionFields /\ u.c = v.c /\ u.writable = v.writable
      /\ u.text = v.text /\ u.overrides = Append(v.overrides, o)
  BY <1>2, <1>7 DEF SessionFields
<1> HIDE DEF u
<1>9. OverridesOK(u, n)
  <2>1. PICK m \in Nat : Listed(t.overrides, m)
    BY <1>3 DEF OverridesOK
  <2>2. Len(t.overrides) = m /\ DOMAIN t.overrides = 1 .. m
    BY <2>1 DEF Listed
  <2>3. u.overrides = [j \in 1 .. m + 1 |-> IF j = m + 1 THEN o ELSE t.overrides[j]]
    BY <1>1, <1>8, <2>2
  <2>4. /\ DOMAIN u.overrides = 1 .. m + 1
        /\ \A j \in 1 .. m + 1 :
             u.overrides[j] = IF j = m + 1 THEN o ELSE t.overrides[j]
    BY <2>3
  <2>5. Listed(u.overrides, m + 1) /\ m + 1 \in Nat
    BY <2>3 DEF Listed
  <2>6. ASSUME NEW j \in DOMAIN u.overrides
        PROVE  /\ DOMAIN u.overrides[j].bytes = {"len", "pieces"}
               /\ u.overrides[j].index \in 1 .. n =>
                    u.overrides[j].bytes.len = u.c.sections[u.overrides[j].index].sh_size
    <3>1. CASE j = m + 1
      BY <3>1, <2>4, <1>1, <1>6, <1>8
    <3>2. CASE j # m + 1
      <4>1. j \in DOMAIN t.overrides /\ u.overrides[j] = t.overrides[j]
        BY <3>2, <2>2, <2>4
      <4> QED
        BY <4>1, <1>1, <1>3, <1>8 DEF OverridesOK
    <3> QED
      BY <3>1, <3>2
  <2> QED
    BY <2>5, <2>6 DEF OverridesOK
<1>10. SessionOK(u, n)
  BY <1>1, <1>8, <1>9 DEF SessionOK, Shaped, TextOK
<1> QED
  BY <1>10 DEF u

Replaced(u, t, i, bytes) == u.c.sections = [t.c.sections EXCEPT ![i].bytes = bytes]

\* A section's bytes give way to others of the same length.
LEMMA ReplacedBytes ==
  ASSUME NEW t, NEW n, SessionOK(t, n), NEW i \in 1 .. n, NEW bytes, NEW u,
         DOMAIN bytes = {"len", "pieces"}, bytes.len = t.c.sections[i].sh_size,
         DOMAIN u = SessionFields, DOMAIN u.c = DOMAIN t.c,
         Replaced(u, t, i, bytes)
  PROVE  /\ ContainerOK(u.c, n) /\ Shaped(u, n)
         /\ \A j \in 1 .. n : /\ u.c.sections[j].sh_size = t.c.sections[j].sh_size
                               /\ u.c.sections[j].name = t.c.sections[j].name
         /\ DOMAIN u.c.sections = 1 .. n
<1>1. ContainerOK(t.c, n) /\ Shaped(t, n)
  BY DEF SessionOK
<1>2. DOMAIN t.c.sections = 1 .. n /\ n \in Nat /\ Len(t.c.sections) = n
  BY <1>1 DEF ContainerOK, Numbered
<1>11. u.c.sections = [t.c.sections EXCEPT ![i].bytes = bytes]
  BY DEF Replaced
<1>3. DOMAIN u.c.sections = 1 .. n /\ Len(u.c.sections) = n
  BY <1>2, <1>11
<1>4. ASSUME NEW j \in 1 .. n
      PROVE  /\ u.c.sections[j].sh_size = t.c.sections[j].sh_size
             /\ u.c.sections[j].name = t.c.sections[j].name
             /\ u.c.sections[j].off = t.c.sections[j].off
             /\ u.c.sections[j].bytes.len = t.c.sections[j].sh_size
             /\ DOMAIN u.c.sections[j] = {"name", "addr", "off", "sh_size", "bytes"}
             /\ DOMAIN u.c.sections[j].bytes = {"len", "pieces"}
  <2>1. /\ DOMAIN t.c.sections[j] = {"name", "addr", "off", "sh_size", "bytes"}
        /\ DOMAIN t.c.sections[j].bytes = {"len", "pieces"}
        /\ t.c.sections[j].bytes.len = t.c.sections[j].sh_size
    BY <1>1 DEF Shaped, ContainerOK
  <2>2. CASE j = i
    <3>1. u.c.sections[j] = [t.c.sections[j] EXCEPT !.bytes = bytes]
      BY <2>2, <1>2, <1>11
    <3> QED
      BY <3>1, <2>1, <2>2
  <2>3. CASE j # i
    <3>1. u.c.sections[j] = t.c.sections[j]
      BY <2>3, <1>2, <1>11
    <3> QED
      BY <3>1, <2>1
  <2> QED
    BY <2>2, <2>3
<1>5. ContainerOK(u.c, n)
  BY <1>1, <1>2, <1>3, <1>4 DEF ContainerOK, Numbered
<1>6. Shaped(u, n)
  BY <1>1, <1>4 DEF Shaped
<1> QED
  BY <1>3, <1>4, <1>5, <1>6

\* Sections of the same names are found at the same places.
LEMMA SameNames ==
  ASSUME NEW n, NEW a, NEW b, DOMAIN a = 1 .. n, DOMAIN b = 1 .. n, n \in Nat,
         \A j \in 1 .. n : a[j].name = b[j].name, NEW name
  PROVE  /\ HasSection(a, name) <=> HasSection(b, name)
         /\ SectionIndex(a, name) = SectionIndex(b, name)
<1>1. HasSection(a, name) <=> HasSection(b, name)
  BY DEF HasSection
<1>2. \A i \in 1 .. n : 1 .. i - 1 \subseteq 1 .. n
  OBVIOUS
<1>3. \A i \in 1 .. n :
        (a[i].name = name /\ \A j \in 1 .. i - 1 : a[j].name # name)
          <=> (b[i].name = name /\ \A j \in 1 .. i - 1 : b[j].name # name)
  BY <1>2
<1>4. SectionIndex(a, name) = SectionIndex(b, name)
  BY <1>3 DEF SectionIndex
<1> QED
  BY <1>1, <1>4

\* remove_library_dependency rewrites .dynamic at its old length.
LEMMA RemoveLibraryOK ==
  ASSUME NEW t, NEW n, SessionOK(t, n), NEW name, name \in NeededNames(t)
  PROVE  SessionOK(remove_library_dependency_elf(t, name), n)
<1> DEFINE u == remove_library_dependency_elf(t, name)
           d == SectionIndex(t.c.sections, ".dynamic")
           strings == raw_section_bytes(t.c.sections, ".dynstr")
           rows == remove_dynamic_entries(t.c.dynamic, "NEEDED",
                     {v \in {e.value : e \in Range(t.c.dynamic)} :
                        name_at_offset(strings, v) = name})
           bytes == WithRows(t.c.sections[d].bytes, rows)
<1>1. Shaped(t, n) /\ ContainerOK(t.c, n) /\ OverridesOK(t, n)
      /\ WritableOK(t.writable) /\ TextOK(t)
  BY DEF SessionOK
<1>2. n \in Nat /\ DOMAIN t.c.sections = 1 .. n
  BY <1>1 DEF ContainerOK, Numbered
<1>3. HasSection(t.c.sections, ".dynamic")
  <2>1. t.c.dynamic # <<>>
    BY DEF NeededNames, Range
  <2> QED
    BY <2>1 DEF SessionOK
<1>4. d \in 1 .. n
  BY <1>2, <1>3, FirstOfName
<1>5. u = [t EXCEPT !.c = WithDynamic(t.c, rows)]
  BY DEF remove_library_dependency_elf
<1>6. bytes.len = t.c.sections[d].sh_size /\ DOMAIN bytes = {"len", "pieces"}
  BY <1>1, <1>4, OtherRows DEF ContainerOK
<1>7. DOMAIN t = SessionFields /\ DOMAIN t.c = {"sections", "phdrs", "dynamic", "symbols"}
  BY <1>1 DEF Shaped
<1> HIDE DEF rows
<1>8. /\ DOMAIN u = SessionFields /\ DOMAIN u.c = DOMAIN t.c
      /\ Replaced(u, t, d, bytes)
      /\ u.overrides = t.overrides /\ u.writable = t.writable /\ u.text = t.text
  <2> DEFINE new == WithDynamic(t.c, rows)
  <2>1. u = [t EXCEPT !.c = new]
    BY <1>5
  <2> HIDE DEF u
  <2>2. DOMAIN new = DOMAIN t.c /\ new.sections = [t.c.sections EXCEPT ![d].bytes = bytes]
    BY <1>7 DEF WithDynamic
  <2> HIDE DEF new
  <2>3. /\ DOMAIN u = SessionFields /\ u.c = new /\ u.overrides = t.overrides
        /\ u.writable = t.writable /\ u.text = t.text
    BY <1>7, <2>1 DEF SessionFields
  <2>4. Replaced(u, t, d, bytes)
    BY <2>2, <2>3 DEF Replaced
  <2> QED
    BY <2>2, <2>3, <2>4
<1> HIDE DEF u, d, bytes
<1>9. /\ ContainerOK(u.c, n) /\ Shaped(u, n)
      /\ \A j \in 1 .. n : /\ u.c.sections[j].sh_size = t.c.sections[j].sh_size
                            /\ u.c.sections[j].name = t.c.sections[j].name
      /\ DOMAIN u.c.sections = 1 .. n
  BY <1>4, <1>6, <1>8, ReplacedBytes
<1>10. \A x : /\ HasSection(u.c.sections, x) <=> HasSection(t.c.sections, x)
              /\ SectionIndex(u.c.sections, x) = SectionIndex(t.c.sections, x)
  <2> DEFINE a == u.c.sections
             b == t.c.sections
  <2>1. DOMAIN a = 1 .. n /\ DOMAIN b = 1 .. n /\ \A j \in 1 .. n : a[j].name = b[j].name
    BY <1>2, <1>9
  <2> HIDE DEF a, b
  <2>2. \A x : /\ HasSection(a, x) <=> HasSection(b, x)
               /\ SectionIndex(a, x) = SectionIndex(b, x)
    BY <1>2, <2>1, SameNames
  <2> QED
    BY <2>2 DEF a, b
<1>11. OverridesOK(u, n)
  BY <1>1, <1>8, <1>9 DEF OverridesOK
<1>12. TextOK(u)
  <2> SUFFICES ASSUME u.text # NoBytes PROVE TextOK(u)
    BY DEF TextOK
  <2>1. /\ HasSection(t.c.sections, ".text")
        /\ t.text.len = t.c.sections[SectionIndex(t.c.sections, ".text")].sh_size
        /\ DOMAIN t.text = {"len", "pieces"}
    BY <1>1, <1>8 DEF TextOK
  <2>2. SectionIndex(t.c.sections, ".text") \in 1 .. n
    BY <2>1, <1>2, FirstOfName
  <2> QED
    BY <2>1, <2>2, <1>8, <1>9, <1>10 DEF TextOK
<1>13. u.c.dynamic = <<>> \/ HasSection(u.c.sections, ".dynamic")
  BY <1>3, <1>10
<1>14. SessionOK(u, n)
  BY <1>1, <1>8, <1>9, <1>11, <1>12, <1>13 DEF SessionOK
<1> QED
  BY <1>14 DEF u

\* Edits give a function another body of the same length.
EditsKeepLength == \A edit \in TextEdits : edit.grow = 0

\* An edit that keeps the length of a function keeps that of .text.
LEMMA EditTextOK ==
  ASSUME NEW t, NEW n, SessionOK(t, n), EditsKeepLength, NEW edit \in TextEdits, NEW id,
         HasSection(t.c.sections, ".text")
  PROVE  SessionOK([t EXCEPT !.text = EditFunction(LiftText(t), edit, id)], n)
<1> DEFINE i == SectionIndex(t.c.sections, ".text")
           text == LiftText(t)
           new == EditFunction(text, edit, id)
           u == [t EXCEPT !.text = new]
<1>1. Shaped(t, n) /\ ContainerOK(t.c, n) /\ OverridesOK(t, n)
      /\ WritableOK(t.writable) /\ TextOK(t)
      /\ (t.c.dynamic = <<>> \/ HasSection(t.c.sections, ".dynamic"))
  BY DEF SessionOK
<1>2. n \in Nat /\ DOMAIN t.c.sections = 1 .. n
  BY <1>1 DEF ContainerOK, Numbered
<1>3. i \in 1 .. n
  BY <1>2, FirstOfName
<1>4. text.len = t.c.sections[i].sh_size /\ t.c.sections[i].sh_size \in Nat
  BY <1>1, <1>3 DEF LiftText, TextOK, ContainerOK
<1>5. new.len = text.len + edit.grow /\ DOMAIN new = {"len", "pieces"}
  BY DEF EditFunction
<1>6. new.len = t.c.sections[i].sh_size
  BY <1>4, <1>5 DEF EditsKeepLength
<1> HIDE DEF new, text
<1>7. /\ DOMAIN u = SessionFields /\ u.c = t.c /\ u.overrides = t.overrides
      /\ u.writable = t.writable /\ u.text = new
  BY <1>1 DEF Shaped, SessionFields
<1> HIDE DEF u
<1>8. Shaped(u, n)
  BY <1>1, <1>7 DEF Shaped
<1>9. OverridesOK(u, n)
  BY <1>1, <1>7 DEF OverridesOK
<1>10. TextOK(u)
  BY <1>5, <1>6, <1>7 DEF TextOK
<1>11. SessionOK(u, n)
  BY <1>1, <1>7, <1>8, <1>9, <1>10 DEF SessionOK
<1> QED
  BY <1>11 DEF u, new, text

\* add_writable_data queues one buffer.
LEMMA AddWritableOK ==
  ASSUME NEW t, NEW n, SessionOK(t, n), NEW len \in BodyLens
  PROVE  SessionOK([t EXCEPT !.writable =
                      << [vaddr |-> pick_vaddr(t), bytes |-> Blob(len, "data", <<>>)] >>], n)
<1> DEFINE r == [vaddr |-> pick_vaddr(t), bytes |-> Blob(len, "data", <<>>)]
           u == [t EXCEPT !.writable = << r >>]
<1>1. Shaped(t, n) /\ ContainerOK(t.c, n) /\ OverridesOK(t, n) /\ TextOK(t)
      /\ (t.c.dynamic = <<>> \/ HasSection(t.c.sections, ".dynamic"))
  BY DEF SessionOK
<1>2. r.bytes.len = len /\ len \in Nat
  BY CommitAssumption DEF Blob
<1> HIDE DEF r
<1>3. WritableOK(<< r >>)
  BY <1>2 DEF WritableOK
<1>4. /\ DOMAIN u = SessionFields /\ u.c = t.c /\ u.overrides = t.overrides
      /\ u.writable = << r >> /\ u.text = t.text
  BY <1>1 DEF Shaped, SessionFields
<1> HIDE DEF u
<1>5. Shaped(u, n)
  BY <1>1, <1>4 DEF Shaped
<1>6. OverridesOK(u, n) /\ TextOK(u)
  BY <1>1, <1>4 DEF OverridesOK, TextOK
<1>7. SessionOK(u, n)
  BY <1>1, <1>3, <1>4, <1>5, <1>6 DEF SessionOK
<1> QED
  BY <1>7 DEF u, r

\* add_function_exported changes no section.
LEMMA ExportOK ==
  ASSUME NEW t, NEW n, SessionOK(t, n), NEW name, NEW len, NEW id
  PROVE  SessionOK(add_function_exported(t, name, len, id), n)
<1> DEFINE v == add_function(t, len, id, <<>>)
           u == add_function_exported(t, name, len, id)
           e == [name |-> name, vaddr |-> NextAddress(t)]
<1>1. SessionOK(v, n)
  BY AddFunctionOK
<1>2. u = [v EXCEPT !.exports = Append(@, e)]
  BY DEF add_function_exported
<1> HIDE DEF v, e
<1>3. /\ DOMAIN u = SessionFields /\ u.c = v.c /\ u.overrides = v.overrides
      /\ u.writable = v.writable /\ u.text = v.text
  BY <1>1, <1>2 DEF SessionOK, Shaped, SessionFields
<1> HIDE DEF u
<1>4. SessionOK(u, n)
  BY <1>1, <1>3, SameSections
<1> QED
  BY <1>4 DEF u

\* An appended initialiser changes no section.
LEMMA AppendInitialiserOK ==
  ASSUME NEW t, NEW n, SessionOK(t, n), NEW len, NEW id
  PROVE  SessionOK(AppendInitialiser(t, len, id), n)
<1> DEFINE v == add_function(t, len, id, <<>>)
           u == AppendInitialiser(t, len, id)
<1>1. SessionOK(v, n)
  BY AddFunctionOK
<1>2. u = [v EXCEPT !.slots = Append(@, NextAddress(t))]
  BY DEF AppendInitialiser
<1> HIDE DEF v
<1>3. /\ DOMAIN u = SessionFields /\ u.c = v.c /\ u.overrides = v.overrides
      /\ u.writable = v.writable /\ u.text = v.text
  BY <1>1, <1>2 DEF SessionOK, Shaped, SessionFields
<1> HIDE DEF u
<1>4. SessionOK(u, n)
  BY <1>1, <1>3, SameSections
<1> QED
  BY <1>4 DEF u

\* add_library_dependency changes no section.
LEMMA AddLibraryOK ==
  ASSUME NEW t, NEW n, SessionOK(t, n), NEW name
  PROVE  SessionOK([t EXCEPT !.deps = Append(@, name)], n)
<1> DEFINE u == [t EXCEPT !.deps = Append(@, name)]
<1>1. /\ DOMAIN u = SessionFields /\ u.c = t.c /\ u.overrides = t.overrides
      /\ u.writable = t.writable /\ u.text = t.text
  BY DEF SessionOK, Shaped, SessionFields
<1> HIDE DEF u
<1>2. SessionOK(u, n)
  BY <1>1, SameSections
<1> QED
  BY <1>2 DEF u

-----------------------------------------------------------------------------
(* The commit.                                                             *)

\* The segment a library or writable data needs.
LEMMA LazilyOK ==
  ASSUME NEW t, NEW n, SessionOK(t, n), ~MissingTable(t)
  PROVE  LET u == Lazily(t)
         IN  /\ SessionOK(u, n) /\ ~MissingTable(u)
             /\ ~u.appended => ~t.appended /\ t.deps = <<>> /\ t.writable = <<>>
<1> DEFINE v == WithSegment(t)
<1>1. /\ SessionOK(v, n) /\ v.c = t.c /\ v.exports = t.exports /\ v.deps = t.deps
      /\ v.slots = t.slots /\ v.appended
  BY WithSegmentOK
<1> HIDE DEF v
<1>2. ~MissingTable(v)
  BY <1>1 DEF MissingTable, Needed
<1>3. CASE t.deps # <<>> \/ t.writable # <<>>
  <2>1. Lazily(t) = v
    BY <1>3 DEF Lazily, v
  <2> QED
    BY <2>1, <1>1, <1>2
<1>4. CASE ~(t.deps # <<>> \/ t.writable # <<>>)
  BY <1>4 DEF Lazily
<1> QED
  BY <1>3, <1>4

\* The lifted text takes the place of its section's bytes.
LEMMA WithTextOK ==
  ASSUME NEW t, NEW n, SessionOK(t, n), ~MissingTable(t)
  PROVE  LET u == WithText(t)
         IN  /\ ContainerOK(u.c, n) /\ OverridesOK(u, n) /\ WritableOK(u.writable)
             /\ ~MissingTable(u) /\ u.appended = t.appended
<1>1. Shaped(t, n) /\ ContainerOK(t.c, n) /\ OverridesOK(t, n)
      /\ WritableOK(t.writable) /\ TextOK(t)
  BY DEF SessionOK
<1>2. CASE t.text = NoBytes
  BY <1>1, <1>2 DEF WithText
<1>3. CASE t.text # NoBytes
  <2> DEFINE u == WithText(t)
             i == SectionIndex(t.c.sections, ".text")
             o == [index |-> i, bytes |-> t.text]
  <2>1. /\ HasSection(t.c.sections, ".text")
        /\ t.text.len = t.c.sections[i].sh_size
        /\ DOMAIN t.text = {"len", "pieces"}
    BY <1>1, <1>3 DEF TextOK
  <2>2. n \in Nat /\ DOMAIN t.c.sections = 1 .. n
    BY <1>1 DEF ContainerOK, Numbered
  <2>3. i \in 1 .. n
    BY <2>1, <2>2, FirstOfName
  <2>4. u = [t EXCEPT !.c.sections[i].bytes = t.text, !.overrides = << o >> \o @]
    BY <1>3 DEF WithText
  <2>5. o.index = i /\ o.bytes = t.text
    OBVIOUS
  <2> HIDE DEF o, i
  <2>6. DOMAIN t = SessionFields /\ DOMAIN t.c = {"sections", "phdrs", "dynamic", "symbols"}
    BY <1>1 DEF Shaped
  <2>7. /\ DOMAIN u = SessionFields /\ DOMAIN u.c = DOMAIN t.c
        /\ Replaced(u, t, i, t.text)
        /\ u.overrides = << o >> \o t.overrides /\ u.writable = t.writable
        /\ u.exports = t.exports /\ u.deps = t.deps /\ u.slots = t.slots
        /\ u.appended = t.appended
    BY <2>4, <2>6 DEF SessionFields, Replaced
  <2> HIDE DEF u
  <2>8. /\ ContainerOK(u.c, n)
        /\ \A j \in 1 .. n : /\ u.c.sections[j].sh_size = t.c.sections[j].sh_size
                              /\ u.c.sections[j].name = t.c.sections[j].name
        /\ DOMAIN u.c.sections = 1 .. n
    <3> DEFINE new == t.text
    <3>1. /\ new.len = t.c.sections[i].sh_size /\ DOMAIN new = {"len", "pieces"}
          /\ Replaced(u, t, i, new)
      BY <2>1, <2>7 DEF i
    <3>2. DOMAIN u = SessionFields /\ DOMAIN u.c = DOMAIN t.c
      BY <2>7
    <3> HIDE DEF new
    <3> QED
      BY <3>1, <3>2, <2>3, ReplacedBytes
  <2>9. \A x : HasSection(u.c.sections, x) <=> HasSection(t.c.sections, x)
    <3> DEFINE a == u.c.sections
               b == t.c.sections
    <3>1. DOMAIN a = 1 .. n /\ DOMAIN b = 1 .. n /\ \A j \in 1 .. n : a[j].name = b[j].name
      BY <2>2, <2>8
    <3> HIDE DEF a, b
    <3>2. \A x : HasSection(a, x) <=> HasSection(b, x)
      BY <2>2, <3>1, SameNames
    <3> QED
      BY <3>2 DEF a, b
  <2>10. ~MissingTable(u)
    BY <2>7, <2>9 DEF MissingTable, Needed
  <2>11. OverridesOK(u, n)
    <3>1. PICK m \in Nat : Listed(t.overrides, m)
      BY <1>1 DEF OverridesOK
    <3>2. Len(t.overrides) = m /\ DOMAIN t.overrides = 1 .. m
      BY <3>1 DEF Listed
    <3>3. /\ DOMAIN u.overrides = 1 .. m + 1
          /\ u.overrides[1] = o
          /\ \A k \in 1 .. m : u.overrides[k + 1] = t.overrides[k]
          /\ Listed(u.overrides, m + 1)
      BY <2>7, <3>1, Prepended
    <3>4. ASSUME NEW k \in 1 .. m + 1
          PROVE  /\ DOMAIN u.overrides[k].bytes = {"len", "pieces"}
                 /\ u.overrides[k].index \in 1 .. n =>
                      u.overrides[k].bytes.len = u.c.sections[u.overrides[k].index].sh_size
      <4>0. /\ \A j \in 1 .. n : u.c.sections[j].sh_size = t.c.sections[j].sh_size
            /\ \A j \in DOMAIN t.overrides :
                 /\ DOMAIN t.overrides[j].bytes = {"len", "pieces"}
                 /\ t.overrides[j].index \in 1 .. n =>
                      t.overrides[j].bytes.len = t.c.sections[t.overrides[j].index].sh_size
        BY <1>1, <2>8 DEF OverridesOK
      <4>1. CASE k = 1
        BY <4>1, <3>3, <2>1, <2>5, <2>8 DEF i
      <4>2. CASE k # 1
        <5>1. k - 1 \in 1 .. m /\ (k - 1) + 1 = k
          BY <4>2
        <5>2. u.overrides[k] = t.overrides[k - 1] /\ k - 1 \in DOMAIN t.overrides
          BY <5>1, <3>2, <3>3
        <5> QED
          BY <5>2, <4>0
      <4> QED
        BY <4>1, <4>2
    <3>5. m + 1 \in Nat
      OBVIOUS
    <3> QED
      BY <3>3, <3>4, <3>5 DEF OverridesOK
  <2>12. ContainerOK(u.c, n) /\ OverridesOK(u, n) /\ WritableOK(u.writable)
         /\ ~MissingTable(u) /\ u.appended = t.appended
    BY <1>1, <2>7, <2>8, <2>10, <2>11
  <2> QED
    BY <2>12 DEF u
<1> QED
  BY <1>2, <1>3

\* What a commit writes, appended or in place.
LEMMA CommittedOK ==
  ASSUME NEW t, NEW n, SessionOK(t, n), ~MissingTable(t)
  PROVE  LET r == Committed(t)
         IN  /\ r.panic => ~t.appended /\ t.deps = <<>> /\ t.writable = <<>>
             /\ (\A i \in DOMAIN r.file.sections : r.file.sections[i].size \in Nat) =>
                  \E m : FileOK(r.file.sections, m)
<1> DEFINE v == Lazily(t)
           u == WithText(v)
<1>1. /\ SessionOK(v, n) /\ ~MissingTable(v)
      /\ ~v.appended => ~t.appended /\ t.deps = <<>> /\ t.writable = <<>>
  BY LazilyOK
<1>2. Committed(t) = commit_to_bytes(u)
  BY DEF Committed
<1> HIDE DEF v
<1>3. /\ ContainerOK(u.c, n) /\ OverridesOK(u, n) /\ WritableOK(u.writable)
      /\ ~MissingTable(u) /\ u.appended = v.appended
  BY <1>1, WithTextOK
<1> HIDE DEF u
<1>4. CASE u.appended
  <2>1. Committed(t) = CommitAppended(u)
    BY <1>2, <1>4 DEF commit_to_bytes
  <2> QED
    BY <2>1, <1>3, CommitAppendedOK
<1>5. CASE ~u.appended
  <2>1. Committed(t) = write(u.c)
    BY <1>2, <1>5 DEF commit_to_bytes
  <2>2. FileOK(Committed(t).file.sections, n)
    BY <2>1, <1>3, WrittenInPlace
  <2> QED
    BY <2>2, <1>1, <1>3, <1>5
<1> QED
  BY <1>4, <1>5

-----------------------------------------------------------------------------
(* The invariant.                                                          *)

\* The lengths in the file's section table are numbers.  That of the appended
\* segment is a sum of lengths of tables, counted from the input's content, of
\* which CommitAssumption says nothing.
SizesAreNumbers == \A i \in DOMAIN file.sections : file.sections[i].size \in Nat

IInv ==
  /\ \E n : FileOK(file.sections, n)
  /\ \E n : SessionOK(s, n)
  /\ AppendedCommitNeverPanics

\* The inputs.
LEMMA InputOK ==
  ASSUME NEW f \in Inputs
  PROVE  FileOK(f.sections, Len(f.sections))
<1> DEFINE secs == f.sections
           n == Len(secs)
           Header == [name : STRING, addr : Nat, off : Nat, size : Nat]
<1>1. secs \in Seq(Header) /\ SectionsApart(secs)
  BY CommitAssumption
<1> HIDE DEF secs, Header
<1>2. n \in Nat /\ DOMAIN secs = 1 .. n /\ \A i \in 1 .. n : secs[i] \in Header
  BY <1>1
<1>3. ASSUME NEW i \in 1 .. n
      PROVE  secs[i].off \in Nat /\ secs[i].size \in Nat
  BY <1>2 DEF Header
<1> HIDE DEF n
<1>4. ASSUME NEW i \in 1 .. n, NEW j \in 1 .. n, i # j, secs[i].size > 0, secs[j].size > 0
      PROVE  \/ secs[i].off + secs[i].size <= secs[j].off
             \/ secs[j].off + secs[j].size <= secs[i].off
  <2>1. j \in DOMAIN secs \ {i} /\ i \in DOMAIN secs
    BY <1>2, <1>4
  <2>2. \/ secs[j].size = 0
        \/ secs[i].off + secs[i].size <= secs[j].off
        \/ secs[j].off + secs[j].size <= secs[i].off
    BY <1>1, <1>4, <2>1 DEF SectionsApart
  <2>3. secs[j].size # 0
    BY <1>4
  <2> QED
    BY <2>2, <2>3
<1>5. \A i \in 1 .. n : secs[i].size > 0 => secs[i].off >= HeaderLen
  BY <1>1, <1>2 DEF SectionsApart
<1>6. FileOK(secs, n)
  BY <1>2, <1>3, <1>4, <1>5 DEF FileOK, Numbered, n
<1> QED
  BY <1>6 DEF n, secs

\* The invariant holds at first,
LEMMA Initially ==
  ASSUME Init
  PROVE  IInv
<1>1. file \in Inputs /\ s = NewSession(read(file)) /\ outcome = "ok"
  BY DEF Init
<1>2. FileOK(file.sections, Len(file.sections))
  BY <1>1, InputOK
<1>3. SessionOK(s, Len(file.sections))
  BY <1>1, <1>2, OpenedOK
<1>4. AppendedCommitNeverPanics
  BY <1>1 DEF AppendedCommitNeverPanics
<1> QED
  BY <1>2, <1>3, <1>4 DEF IInv

\* through every call that is queued,
LEMMA QueuedOK ==
  ASSUME IInv, NEW t, Queued(t), \A n : SessionOK(s, n) => SessionOK(t, n)
  PROVE  IInv'
<1>1. s' = t /\ UNCHANGED <<file, open, outcome>> /\ open
  BY DEF Queued
<1>2. (\E n : FileOK(file.sections, n))'
  BY <1>1 DEF IInv
<1>3. (\E n : SessionOK(s, n))'
  BY <1>1 DEF IInv
<1>4. AppendedCommitNeverPanics'
  BY <1>1 DEF AppendedCommitNeverPanics
<1> QED
  BY <1>2, <1>3, <1>4 DEF IInv

\* through a commit,
LEMMA CommitOK ==
  ASSUME IInv, Commit, SizesAreNumbers'
  PROVE  IInv'
<1>1. PICK n : SessionOK(s, n)
  BY DEF IInv
<1>2. PICK m : FileOK(file.sections, m)
  BY DEF IInv
<1>3. s' = s
  BY DEF Commit
<1>4. CASE MissingTable(s)
  <2>1. outcome' = "error" /\ file' = file
    BY <1>4 DEF Commit
  <2> QED
    BY <2>1, <1>1, <1>2, <1>3 DEF IInv, AppendedCommitNeverPanics
<1>5. CASE ~MissingTable(s)
  <2> DEFINE r == Committed(s)
  <2>1. /\ outcome' = IF r.panic THEN "panic" ELSE "ok"
        /\ file' = IF r.panic THEN file ELSE r.file
    BY <1>5 DEF Commit
  <2>2. /\ r.panic => ~s.appended /\ s.deps = <<>> /\ s.writable = <<>>
        /\ (\A i \in DOMAIN r.file.sections : r.file.sections[i].size \in Nat) =>
             \E k : FileOK(r.file.sections, k)
    BY <1>1, <1>5, CommittedOK
  <2> HIDE DEF r
  <2>3. (\E k : FileOK(file.sections, k))'
    BY <2>1, <2>2, <1>2 DEF SizesAreNumbers
  <2>4. AppendedCommitNeverPanics'
    BY <2>1, <2>2, <1>3 DEF AppendedCommitNeverPanics
  <2> QED
    BY <2>3, <2>4, <1>1, <1>3 DEF IInv
<1> QED
  BY <1>4, <1>5

\* and so through every step.
LEMMA Step ==
  ASSUME IInv, EditsKeepLength, SizesAreNumbers', [Next]_vars
  PROVE  IInv'
<1>1. CASE UNCHANGED vars
  BY <1>1 DEF vars, IInv, AppendedCommitNeverPanics
<1>2. ASSUME NEW len \in BodyLens, AddFunction(len)
      PROVE  IInv'
  BY <1>2, QueuedOK, AddFunctionOK DEF AddFunction
<1>3. ASSUME NEW name \in ExportNames, NEW len \in BodyLens, AddExport(name, len)
      PROVE  IInv'
  BY <1>3, QueuedOK, ExportOK DEF AddExport
<1>4. ASSUME NEW position \in {"First", "Last", "Append"}, NEW len \in BodyLens,
             AddInitialiser(position, len)
      PROVE  IInv'
  <2>1. CASE position = "Append"
    <3>1. Queued(AppendInitialiser(s, len, Body))
      BY <1>4, <2>1 DEF AddInitialiser
    <3> QED
      BY <3>1, QueuedOK, AppendInitialiserOK
  <2>2. CASE position # "Append"
    <3>1. PICK k \in SlotEntries(s, position) : Queued(Hijack(s, k, len, Body))
      BY <1>4, <2>2 DEF AddInitialiser
    <3>2. HasSection(s.c.sections, ".rela.dyn")
      BY <3>1 DEF SlotEntries
    <3> QED
      BY <3>1, <3>2, QueuedOK, HijackOK
  <2> QED
    BY <2>1, <2>2
<1>5. ASSUME NEW name \in Libraries, AddLibrary(name)
      PROVE  IInv'
  BY <1>5, QueuedOK, AddLibraryOK DEF AddLibrary
<1>6. ASSUME NEW name \in Libraries, RemoveLibrary(name)
      PROVE  IInv'
  BY <1>6, QueuedOK, RemoveLibraryOK DEF RemoveLibrary
<1>7. ASSUME NEW len \in BodyLens, AddWritable(len)
      PROVE  IInv'
  BY <1>7, QueuedOK, AddWritableOK DEF AddWritable
<1>8. ASSUME NEW edit \in TextEdits, EditText(edit)
      PROVE  IInv'
  <2>1. /\ HasSection(s.c.sections, ".text")
        /\ Queued([s EXCEPT !.text =
                     EditFunction(LiftText(s), edit, << "edited", calls + 1 >>)])
    BY <1>8 DEF EditText
  <2> QED
    BY <2>1, QueuedOK, EditTextOK
<1>9. CASE Commit
  BY <1>9, CommitOK
<1>10. CASE Reopen
  <2>1. /\ ~open /\ open' = TRUE /\ file' = file /\ s' = NewSession(read(file))
    BY <1>10 DEF Reopen
  <2>2. PICK n : FileOK(file.sections, n)
    BY DEF IInv
  <2>3. SessionOK(s', n)
    BY <2>1, <2>2, OpenedOK
  <2> QED
    BY <2>1, <2>2, <2>3 DEF IInv, AppendedCommitNeverPanics
<1> QED
  BY <1>1, <1>2, <1>3, <1>4, <1>5, <1>6, <1>7, <1>8, <1>9, <1>10 DEF Next

\* While no edit changes the length of .text, a commit that appends a segment
\* never trips the assertions of write_with_appended_segment_inner: for every
\* section table order, every sequence of calls, and in every later session.
THEOREM AppendedNeverPanics ==
  EditsKeepLength /\ Spec /\ []SizesAreNumbers => []AppendedCommitNeverPanics
<1> SUFFICES ASSUME EditsKeepLength
             PROVE  Spec /\ []SizesAreNumbers => []AppendedCommitNeverPanics
  OBVIOUS
<1>1. Init => IInv
  BY Initially
<1>2. IInv /\ SizesAreNumbers' /\ [Next]_vars => IInv'
  BY Step
<1>3. IInv => AppendedCommitNeverPanics
  BY DEF IInv
<1> QED
  BY <1>1, <1>2, <1>3, PTL DEF Spec

=============================================================================
