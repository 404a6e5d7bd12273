---------------------------- MODULE SessionProofs ----------------------------
(***************************************************************************)
(* The whole-binary editing session of rewrite/editor.rs, for every image  *)
(* and every sequence of calls: the items of the append buffer keep their  *)
(* bytes and their addresses, the payload stays clear of the input, and    *)
(* the initialisers chain.                                                 *)
(***************************************************************************)
EXTENDS Session, TLAPS, WellFoundedInduction, SequenceTheorems, FiniteSetTheorems

\* Names are made of the words of the caller's names and a few suffixes.
Atoms == {"body", "wrapper", "ctor"} \cup UNION {ToSet(name) : name \in Names}

Name == Seq(Atoms)

SymbolRec ==
  [name : Name, address : Nat, kind : {"Function", "Object"},
   of : {"input", "code", "failed", "writable"}]

ItemRec ==
  [name : Name, kind : {"Function", "Data", "RawCode"}, offset : Nat, len : Nat,
   body : Body, sym : Nat, at : Nat, carved : BOOLEAN, calls : Seq(Nat)]

ExportRec == [sym : Nat, vaddr : Nat]

AppendedRec ==
  [some : BOOLEAN, segment_vaddr : Nat, bytes : Seq(Nat), items : Seq(ItemRec),
   exports : Seq(ExportRec)]

WritableRec == [some : BOOLEAN, segment_vaddr : Nat, len : Nat]

RegionRec ==
  [base_address : Nat, base_file_offset : Nat, capacity : Int, cursor : Nat,
   source : Source]

State ==
  [appended : AppendedRec, appended_writable : WritableRec,
   reserved : BOOLEAN, region : RegionRec, growing : BOOLEAN, delta : Nat,
   section_overrides : Seq(Nat), init_slots : Seq(Nat), deps : Nat,
   padding : Seq([vaddr : Nat, len : Nat]),
   force_segment_placement : BOOLEAN, no_new_segments : BOOLEAN,
   symbols : Seq(SymbolRec)]

-----------------------------------------------------------------------------
(* What the calls keep true of the state s of a session.                   *)

\* There is nothing in a buffer that does not exist.
BufferInv(s) ==
  ~s.appended.some =>
    /\ s.appended.items = <<>> /\ s.appended.exports = <<>>
    /\ s.appended.bytes = <<>> /\ s.appended.segment_vaddr = 0

\* Where the buffer may be.
BaseOK(base) ==
  /\ format = "Elf" => base >= LoadEnd
  /\ format = "Macho" => \/ TextBase <= base /\ base < TextEnd
                         \/ MaxVaddrEnd <= base

PlaceInv(s) ==
  /\ s.appended.some => BaseOK(s.appended.segment_vaddr)
  /\ s.growing => s.appended.some /\ s.appended.segment_vaddr = GapBase
  /\ s.reserved => s.appended.some /\ s.appended.segment_vaddr = s.region.base_address
  /\ s.growing /\ s.reserved => s.delta # 0
  /\ s.growing \/ s.reserved => format = "Macho"

\* Each item has its symbol, at its place.
SymbolsInv(s) ==
  /\ Len(s.symbols) >= 1
  /\ \A k \in 1 .. Len(s.appended.items) :
       LET item == s.appended.items[k]
       IN /\ item.sym \in 1 .. Len(s.symbols)
          /\ s.symbols[item.sym].name = item.name
          /\ s.symbols[item.sym].address = item.at
          /\ item.at = s.appended.segment_vaddr + item.offset
  /\ \A i \in 1 .. Len(s.appended.exports) :
       LET export == s.appended.exports[i]
       IN /\ export.sym \in 1 .. Len(s.symbols)
          /\ export.vaddr = s.symbols[export.sym].address

\* Item k's bytes are at its offset of the buffer.
Holds(bytes, item, k) ==
  /\ item.offset + item.len <= Len(bytes)
  /\ \A i \in (item.offset + 1) .. (item.offset + item.len) : bytes[i] = k

SameWay(s) ==
  \A j, k \in 1 .. Len(s.appended.items) :
    s.appended.items[j].carved = s.appended.items[k].carved

\* A buffer filled in one way only holds the bytes of each item; what is carved
\* lies below the region's cursor.
BytesInv(s) ==
  /\ \A k \in 1 .. Len(s.appended.items) :
       LET item == s.appended.items[k]
       IN item.carved => s.reserved /\ item.offset + item.len <= s.region.cursor
  /\ SameWay(s) =>
       \A k \in 1 .. Len(s.appended.items) :
         Holds(s.appended.bytes, s.appended.items[k], k)

WritableFirstIn(s) ==
  \A i, j \in 1 .. Len(s.symbols) :
    i < j /\ s.symbols[i].of \in {"code", "failed"} => s.symbols[j].of # "writable"

\* Code that was queued after the writable data lies above it.
WritableInv(s) ==
  /\ s.appended_writable.some => format = "Elf"
  /\ format = "Elf" /\ s.appended.some =>
       \E i \in 1 .. Len(s.symbols) : s.symbols[i].of = "code"
  /\ s.appended.some /\ s.appended_writable.some /\ WritableFirstIn(s) =>
       s.appended.segment_vaddr >=
         s.appended_writable.segment_vaddr + s.appended_writable.len

\* The staged slot holds the last wrapper, and on ELF each wrapper calls what
\* the slot held before it.
ChainInv(s) ==
  /\ s.section_overrides = <<>> <=> Wrappers(s) = {}
  /\ s.section_overrides # <<>> =>
       \E k \in Wrappers(s) :
         /\ \A j \in Wrappers(s) : j <= k
         /\ s.appended.items[k].at = s.section_overrides[Len(s.section_overrides)]
  /\ format = "Elf" =>
       \A k \in Wrappers(s) :
         LET W == {j \in Wrappers(s) : j < k}
         IN  /\ s.appended.items[k].calls[2] \in 1 .. Len(s.symbols)
             /\ s.symbols[s.appended.items[k].calls[2]].address = Slot(s, W)

BaseInv(s) ==
  /\ s \in State
  /\ BufferInv(s) /\ PlaceInv(s) /\ SymbolsInv(s) /\ BytesInv(s) /\ WritableInv(s)

StateInv(s) == BaseInv(s) /\ ChainInv(s)

-----------------------------------------------------------------------------
(* Numbers and buffers.                                                    *)

LEMMA Constants ==
  /\ LoadEnd \in Nat /\ TextBase \in Nat /\ TextEnd \in Nat /\ MaxVaddrEnd \in Nat
  /\ GapBase \in Nat /\ CtorAddr \in Nat /\ MaxU64 \in Nat \ {0}
  /\ ElfPage \in Nat \ {0} /\ PAGE \in Nat \ {0}
  /\ ExtraLen \in Nat /\ GAP \in Nat /\ REACH \in Nat /\ WrapperLen \in Nat
  /\ TextBase <= GapBase /\ GapBase < TextEnd /\ TextEnd <= MaxVaddrEnd
BY SessionAssumption, MaxU64Assumption DEF U64

LEMMA RoundUp ==
  ASSUME NEW v \in Nat, NEW a \in Nat \ {0}
  PROVE  round_up(v, a) \in Nat /\ v <= round_up(v, a)
<1>1. v % a \in Nat /\ v % a < a
  OBVIOUS
<1> QED
  BY <1>1 DEF round_up

LEMMA RoundUpZero ==
  ASSUME NEW v \in Nat, NEW a \in Nat \ {0}, round_up(v, a) = 0
  PROVE  v = 0
BY RoundUp

LEMMA AlignUp ==
  ASSUME NEW v \in Nat, NEW a \in Nat
  PROVE  align_up(v, a) \in Nat /\ v <= align_up(v, a)
<1>1. CASE a <= 1
  BY <1>1 DEF align_up
<1>2. CASE ~(a <= 1)
  BY <1>2, RoundUp DEF align_up
<1> QED
  BY <1>1, <1>2

LEMMA MaxIn ==
  ASSUME NEW S, NEW m \in S, \A y \in S : m >= y
  PROVE  Max(S) \in S /\ \A y \in S : Max(S) >= y
BY DEF Max

LEMMA MaxUnique ==
  ASSUME NEW S \in SUBSET Int, NEW m \in S, \A y \in S : m >= y
  PROVE  Max(S) = m
<1>1. Max(S) \in S /\ Max(S) >= m /\ m >= Max(S)
  BY MaxIn
<1>2. Max(S) \in Int /\ m \in Int
  BY <1>1
<1> HIDE DEF Max
<1> QED
  BY <1>1, <1>2

\* A set of numbers with a bound has a largest one.
LEMMA MaxBounded ==
  ASSUME NEW n \in Nat, NEW S \in SUBSET (0 .. n), S # {}
  PROVE  Max(S) \in S /\ Max(S) \in Nat /\ \A y \in S : Max(S) >= y
<1> DEFINE T == {n - x : x \in S}
<1>1. T \in SUBSET Nat /\ T # {}
  <2>1. \A x \in S : n - x \in Nat
    OBVIOUS
  <2> QED
    BY <2>1
<1>2. \E x \in T : \A y \in T : ~ (<<y, x>> \in OpToRel(<, Nat))
  <2> HIDE DEF T
  <2> QED
    BY <1>1, NatLessThanWellFounded, WFMin
<1>3. PICK x \in T : \A y \in T : ~ (<<y, x>> \in OpToRel(<, Nat))
  BY <1>2
<1>4. \A y \in T : ~ (y < x)
  BY <1>1, <1>3 DEF OpToRel
<1>5. PICK m \in S : x = n - m
  OBVIOUS
<1>6. \A y \in S : m >= y
  <2> TAKE y \in S
  <2>1. n - y \in T /\ y \in Int /\ m \in Int
    OBVIOUS
  <2> HIDE DEF T
  <2> QED
    BY <2>1, <1>4, <1>5
<1>7. Max(S) \in S /\ \A y \in S : Max(S) >= y
  BY <1>6, MaxIn
<1> HIDE DEF Max
<1>8. \A y \in S : y \in Nat
  OBVIOUS
<1> QED
  BY <1>7, <1>8

LEMMA MaxExists ==
  ASSUME NEW n \in Nat, NEW S \in SUBSET (1 .. n), S # {}
  PROVE  Max(S) \in S /\ \A y \in S : Max(S) >= y
<1>1. S \in SUBSET (0 .. n)
  OBVIOUS
<1> QED
  BY <1>1, MaxBounded

LEMMA MaxTwo ==
  ASSUME NEW x \in Nat, NEW y \in Nat
  PROVE  Max({x, y}) \in Nat /\ Max({x, y}) >= x /\ Max({x, y}) >= y
<1>1. CASE x >= y
  BY <1>1, MaxUnique
<1>2. CASE ~(x >= y)
  BY <1>2, MaxUnique
<1> QED
  BY <1>1, <1>2

LEMMA MaxThree ==
  ASSUME NEW x \in Nat, NEW y \in Nat, NEW z \in Nat
  PROVE  /\ Max({x, y, z}) \in Nat
         /\ Max({x, y, z}) >= x /\ Max({x, y, z}) >= y /\ Max({x, y, z}) >= z
<1>1. \E m \in {x, y, z} : \A w \in {x, y, z} : m >= w
  OBVIOUS
<1>2. Max({x, y, z}) \in {x, y, z} /\ \A w \in {x, y, z} : Max({x, y, z}) >= w
  BY <1>1, MaxIn
<1> QED
  BY <1>2

\* Buffer t is buffer q cut or filled to n bytes.
Resized(t, q, n) ==
  /\ t \in Seq(Nat) /\ Len(t) = n
  /\ \A i \in 1 .. n : t[i] = IF i <= Len(q) THEN q[i] ELSE 0

LEMMA ResizeFacts ==
  ASSUME NEW q \in Seq(Nat), NEW n \in Nat
  PROVE  Resized(Resize(q, n), q, n)
<1>1. Len(q) \in Nat /\ \A i \in 1 .. Len(q) : q[i] \in Nat
  OBVIOUS
<1>2. Resize(q, n) \in [1 .. n -> Nat]
  BY <1>1 DEF Resize
<1> QED
  BY <1>2 DEF Resize, Resized

\* Buffer t is buffer q up to offset o, then n bytes of item k.
Laid(t, q, o, n, k) ==
  /\ t \in Seq(Nat) /\ Len(t) = o + n
  /\ \A i \in 1 .. o : i <= Len(q) => t[i] = q[i]
  /\ \A i \in (o + 1) .. (o + n) : t[i] = k

\* What a queued item leaves of the buffer it goes into.
LEMMA QueueBytes ==
  ASSUME NEW q \in Seq(Nat), NEW o \in Nat, NEW n \in Nat, NEW k \in Nat,
         NEW t, t = Overwrite(Resize(q, o), o, n, k)
  PROVE  Laid(t, q, o, n, k)
<1> DEFINE p == Resize(q, o)
<1>1. /\ p \in Seq(Nat) /\ Len(p) = o
      /\ \A i \in 1 .. o : p[i] = IF i <= Len(q) THEN q[i] ELSE 0
  BY ResizeFacts DEF Resized
<1> HIDE DEF p
<1>2. Max({Len(p), o + n}) = o + n
  <2>1. o \in Int /\ o + n \in Int /\ o + n >= o /\ o + n >= o + n
    OBVIOUS
  <2>2. {o, o + n} \in SUBSET Int /\ \A y \in {o, o + n} : o + n >= y
    BY <2>1
  <2> QED
    BY <1>1, <2>2, MaxUnique
<1>3. t = [i \in 1 .. (o + n) |->
             IF i > o /\ i <= o + n THEN k ELSE IF i <= Len(p) THEN p[i] ELSE 0]
  BY <1>2 DEF Overwrite, p
<1>4. \A i \in 1 .. Len(p) : p[i] \in Nat
  BY <1>1
<1>5. t \in [1 .. (o + n) -> Nat]
  BY <1>1, <1>3, <1>4
<1>6. t \in Seq(Nat) /\ Len(t) = o + n
  BY <1>5
<1>7. \A i \in 1 .. o : i <= Len(q) => t[i] = q[i]
  BY <1>1, <1>3
<1>8. \A i \in (o + 1) .. (o + n) : t[i] = k
  BY <1>3
<1> QED
  BY <1>6, <1>7, <1>8 DEF Laid

LEMMA EmittedLenType ==
  ASSUME NEW body \in Body, NEW v \in Nat, NEW y
  PROVE  EmittedLen(body, v, y) \in Nat
BY DEF EmittedLen, Body

-----------------------------------------------------------------------------
(* Shapes.                                                                 *)

LEMMA StateFacts ==
  ASSUME NEW s \in State
  PROVE  /\ s.appended \in AppendedRec /\ s.appended_writable \in WritableRec
         /\ s.region \in RegionRec /\ s.symbols \in Seq(SymbolRec)
         /\ s.delta \in Nat /\ s.deps \in Nat
         /\ s.section_overrides \in Seq(Nat) /\ s.init_slots \in Seq(Nat)
         /\ s.appended.segment_vaddr \in Nat
         /\ s.appended.bytes \in Seq(Nat) /\ Len(s.appended.bytes) \in Nat
         /\ s.appended.items \in Seq(ItemRec) /\ Len(s.appended.items) \in Nat
         /\ DOMAIN s.appended.items = 1 .. Len(s.appended.items)
         /\ s.appended.exports \in Seq(ExportRec)
         /\ s.appended_writable.segment_vaddr \in Nat /\ s.appended_writable.len \in Nat
         /\ s.region.base_address \in Nat /\ s.region.cursor \in Nat
         /\ Len(s.symbols) \in Nat /\ DOMAIN s.symbols = 1 .. Len(s.symbols)
<1>1. /\ s.appended \in AppendedRec /\ s.appended_writable \in WritableRec
      /\ s.region \in RegionRec /\ s.symbols \in Seq(SymbolRec)
      /\ s.delta \in Nat /\ s.deps \in Nat
      /\ s.section_overrides \in Seq(Nat) /\ s.init_slots \in Seq(Nat)
  BY DEF State
<1>2. /\ s.appended.segment_vaddr \in Nat
      /\ s.appended.bytes \in Seq(Nat) /\ s.appended.items \in Seq(ItemRec)
      /\ s.appended.exports \in Seq(ExportRec)
  BY <1>1 DEF AppendedRec
<1>3. s.appended_writable.segment_vaddr \in Nat /\ s.appended_writable.len \in Nat
  BY <1>1 DEF WritableRec
<1>4. s.region.base_address \in Nat /\ s.region.cursor \in Nat
  BY <1>1 DEF RegionRec
<1>5. Len(s.appended.bytes) \in Nat
  BY <1>2
<1>6. /\ Len(s.appended.items) \in Nat
      /\ DOMAIN s.appended.items = 1 .. Len(s.appended.items)
  BY <1>2
<1>7. Len(s.symbols) \in Nat /\ DOMAIN s.symbols = 1 .. Len(s.symbols)
  BY <1>1
<1> QED
  BY <1>1, <1>2, <1>3, <1>4, <1>5, <1>6, <1>7

LEMMA ItemFacts ==
  ASSUME NEW q \in Seq(ItemRec), NEW k \in 1 .. Len(q)
  PROVE  /\ q[k] \in ItemRec /\ q[k].offset \in Nat /\ q[k].len \in Nat
         /\ q[k].sym \in Nat /\ q[k].at \in Nat /\ q[k].calls \in Seq(Nat)
         /\ q[k].body \in Body /\ q[k].carved \in BOOLEAN
<1>1. q[k] \in ItemRec
  OBVIOUS
<1> QED
  BY <1>1 DEF ItemRec

LEMMA SymbolFacts ==
  ASSUME NEW q \in Seq(SymbolRec), NEW i \in 1 .. Len(q)
  PROVE  q[i] \in SymbolRec /\ q[i].address \in Nat
<1>1. q[i] \in SymbolRec
  OBVIOUS
<1> QED
  BY <1>1 DEF SymbolRec

-----------------------------------------------------------------------------
(* Where a fresh buffer goes.                                              *)

LEMMA SegmentBaseAbove == SegmentBase \in Nat /\ SegmentBase >= MaxVaddrEnd
<1>1. MaxVaddrEnd + GAP \in Nat /\ PAGE \in Nat \ {0} /\ GAP \in Nat /\ MaxVaddrEnd \in Nat
  BY Constants
<1>2. /\ round_up(MaxVaddrEnd + GAP, PAGE) \in Nat
      /\ MaxVaddrEnd + GAP <= round_up(MaxVaddrEnd + GAP, PAGE)
  BY <1>1, RoundUp
<1> DEFINE x == round_up(MaxVaddrEnd + GAP, PAGE)
<1> HIDE DEF x
<1>3. Max({x, PAGE}) \in Nat /\ Max({x, PAGE}) >= x
  BY <1>1, <1>2, MaxTwo DEF x
<1> QED
  BY <1>1, <1>2, <1>3 DEF SegmentBase, x

LEMMA FreshTextBaseIn ==
  ASSUME NEW v \in FreshTextBase
  PROVE  v \in Nat /\ TextBase <= v /\ v < TextEnd
<1>1. PICK k \in DOMAIN FreeRegions :
        v = align_up(FreeRegions[k].vaddr, 4) /\ Room(FreeRegions[k], 4) >= 4
  BY DEF FreshTextBase, allocate_in_text
<1>2. FreeRegions[k] \in Spot
  BY SessionAssumption
<1>3. FreeRegions[k].vaddr \in Nat /\ FreeRegions[k].size \in Nat
  BY <1>2, Constants DEF Spot, U64
<1>4. v \in Nat /\ FreeRegions[k].vaddr <= v
  BY <1>1, <1>3, AlignUp
<1>5. /\ TextBase <= FreeRegions[k].vaddr
      /\ FreeRegions[k].vaddr + FreeRegions[k].size <= TextEnd
  BY SessionAssumption
<1>6. FreeRegions[k].size - (v - FreeRegions[k].vaddr) >= 4
  BY <1>1 DEF Room
<1> QED
  BY <1>3, <1>4, <1>5, <1>6, Constants

LEMMA PickBase ==
  ASSUME NEW s \in State, format \in {"Elf", "Macho"}, NEW v \in pick_append_vaddr(s)
  PROVE  /\ v \in Nat /\ BaseOK(v)
         /\ format = "Elf" =>
              v >= s.appended_writable.segment_vaddr + s.appended_writable.len
<1>1. CASE format = "Elf"
  <2> DEFINE x == s.appended.segment_vaddr + Len(s.appended.bytes)
             w == s.appended_writable.segment_vaddr + s.appended_writable.len
             m == Max({LoadEnd, x, w})
             u == round_up(m, ElfPage)
  <2>1. x \in Nat /\ w \in Nat /\ LoadEnd \in Nat /\ ElfPage \in Nat \ {0}
    BY SMTT(30), StateFacts, Constants
  <2>2. v = Max({u, ElfPage})
    BY <1>1 DEF pick_append_vaddr
  <2> HIDE DEF x, w
  <2>3. m \in Nat /\ m >= LoadEnd /\ m >= w
    BY <2>1, MaxThree
  <2> HIDE DEF m
  <2>4. u \in Nat /\ u >= m
    BY <2>1, <2>3, RoundUp
  <2> HIDE DEF u
  <2>5. v \in Nat /\ v >= u
    BY <2>1, <2>2, <2>4, MaxTwo
  <2>6. v >= LoadEnd /\ v >= w
    BY <2>1, <2>3, <2>4, <2>5
  <2> QED
    BY <1>1, <2>5, <2>6 DEF BaseOK, w
<1>2. CASE format = "Macho"
  <2>1. v \in FreshTextBase \/ v = SegmentBase
    BY <1>2 DEF pick_append_vaddr
  <2>2. CASE v \in FreshTextBase
    BY <1>2, <2>2, FreshTextBaseIn DEF BaseOK
  <2>3. CASE v = SegmentBase
    BY <1>2, <2>3, SegmentBaseAbove DEF BaseOK
  <2> QED
    BY <2>1, <2>2, <2>3
<1> QED
  BY <1>1, <1>2

\* The base of an item to be queued.
LEMMA QueueBaseOK ==
  ASSUME NEW s, BaseInv(s), format \in {"Elf", "Macho"}, NEW v \in SegmentVaddr(s)
  PROVE  /\ v \in Nat
         /\ s.appended.some => v = s.appended.segment_vaddr
         /\ ~s.appended.some =>
              /\ BaseOK(v)
              /\ s.appended_writable.some =>
                   v >= s.appended_writable.segment_vaddr + s.appended_writable.len
<1>1. s \in State
  BY DEF BaseInv
<1>2. CASE s.appended.some
  BY <1>1, <1>2, StateFacts DEF SegmentVaddr
<1>3. CASE ~s.appended.some
  <2>1. v \in pick_append_vaddr(s)
    BY <1>3 DEF SegmentVaddr
  <2> QED
    BY <1>1, <1>3, <2>1, PickBase DEF BaseInv, WritableInv
<1> QED
  BY <1>2, <1>3

-----------------------------------------------------------------------------
(* Queueing an item.                                                       *)

\* Sequence q starts with p.
Extends(p, q) == Len(p) <= Len(q) /\ \A i \in 1 .. Len(p) : q[i] = p[i]

LEMMA AppendExtends ==
  ASSUME NEW S, NEW q \in Seq(S), NEW e \in S
  PROVE  /\ Append(q, e) \in Seq(S) /\ Len(Append(q, e)) = Len(q) + 1
         /\ Len(q) \in Nat /\ Extends(q, Append(q, e))
         /\ Append(q, e)[Len(q) + 1] = e
<1>1. /\ Append(q, e) \in Seq(S) /\ Len(Append(q, e)) = Len(q) + 1 /\ Len(q) \in Nat
      /\ \A i \in 1 .. Len(q) : Append(q, e)[i] = q[i]
      /\ Append(q, e)[Len(q) + 1] = e
  OBVIOUS
<1> QED
  BY <1>1 DEF Extends

\* An item goes into the buffer of state s, at base, over bytes q, and makes
\* state t.  A carved one starts at the cursor or above, any other at the end.
Queued(s, t, base, q, item, sym) ==
  /\ t.appended.some /\ t.appended.segment_vaddr = base
  /\ t.appended.items = Append(s.appended.items, item)
  /\ t.appended.exports = s.appended.exports
  /\ t.appended.bytes = Overwrite(Resize(q, item.offset), item.offset, item.len,
                                  Len(s.appended.items) + 1)
  /\ t.symbols = Append(s.symbols, sym)
  /\ t.appended_writable = s.appended_writable /\ t.delta = s.delta
  /\ t.region.base_address = s.region.base_address
  /\ t.region.cursor >= s.region.cursor
  /\ (t.growing => s.growing) /\ (t.reserved => s.reserved) /\ (s.reserved => t.reserved)
  /\ item.sym = Len(s.symbols) + 1 /\ sym.name = item.name
  /\ sym.address = item.at /\ item.at = base + item.offset /\ sym.of = "code"
  /\ Extends(s.appended.bytes, q)
  /\ item.carved => /\ s.reserved /\ s.region.cursor <= item.offset
                    /\ item.offset + item.len <= t.region.cursor
  /\ ~item.carved => Len(q) <= item.offset

LEMMA QueueInv ==
  ASSUME NEW s, BaseInv(s), format \in {"Elf", "Macho"}, NEW t \in State,
         NEW base \in SegmentVaddr(s), NEW q \in Seq(Nat),
         NEW item \in ItemRec, NEW sym \in SymbolRec, Queued(s, t, base, q, item, sym)
  PROVE  BaseInv(t)
<1> DEFINE n == Len(s.appended.items)
           m == Len(s.symbols)
<1>1. s \in State /\ s.appended.items \in Seq(ItemRec) /\ s.symbols \in Seq(SymbolRec)
  BY StateFacts DEF BaseInv
<1>2. /\ n \in Nat /\ m \in Nat /\ base \in Nat
      /\ Len(t.appended.items) = n + 1 /\ Extends(s.appended.items, t.appended.items)
      /\ t.appended.items[n + 1] = item
      /\ Len(t.symbols) = m + 1 /\ Extends(s.symbols, t.symbols)
      /\ t.symbols[m + 1] = sym
  BY <1>1, AppendExtends, QueueBaseOK DEF Queued
<1>3. /\ item.offset \in Nat /\ item.len \in Nat /\ item.at \in Nat /\ item.sym \in Nat
      /\ item.carved \in BOOLEAN
  BY DEF ItemRec
<1>4. BufferInv(t)
  BY DEF BufferInv, Queued
<1>5. s.appended.some => base = s.appended.segment_vaddr
  BY QueueBaseOK
<1>6. ~s.appended.some => n = 0 /\ Len(s.appended.exports) = 0
  BY DEF BaseInv, BufferInv
<1>7. PlaceInv(t)
  <2>1. BaseOK(base)
    BY <1>5, QueueBaseOK DEF BaseInv, PlaceInv
  <2>2. t.growing => s.appended.some /\ base = GapBase
    BY <1>5 DEF BaseInv, PlaceInv, Queued
  <2>3. t.reserved => s.appended.some /\ base = s.region.base_address
    BY <1>5 DEF BaseInv, PlaceInv, Queued
  <2> QED
    BY <2>1, <2>2, <2>3 DEF PlaceInv, Queued, BaseInv
<1>8. SymbolsInv(t)
  <2>1. ASSUME NEW k \in 1 .. (n + 1)
        PROVE  LET it == t.appended.items[k]
               IN /\ it.sym \in 1 .. (m + 1)
                  /\ t.symbols[it.sym].name = it.name
                  /\ t.symbols[it.sym].address = it.at
                  /\ it.at = base + it.offset
    <3>1. CASE k = n + 1
      BY SMTT(30), <3>1, <1>2, <1>3 DEF Queued
    <3>2. CASE k # n + 1
      <4>1. k \in 1 .. n
        BY <3>2, <1>2
      <4>2. t.appended.items[k] = s.appended.items[k]
        BY <4>1, <1>2 DEF Extends
      <4>3. s.appended.some
        BY <1>6, <4>1
      <4> DEFINE it == s.appended.items[k]
      <4>4. /\ it.sym \in 1 .. m /\ s.symbols[it.sym].name = it.name
            /\ s.symbols[it.sym].address = it.at
            /\ it.at = s.appended.segment_vaddr + it.offset
        BY <4>1 DEF BaseInv, SymbolsInv
      <4>5. t.symbols[it.sym] = s.symbols[it.sym]
        BY <4>4, <1>2 DEF Extends
      <4>6. it.sym \in 1 .. (m + 1)
        BY SMTT(30), <4>4, <1>2
      <4> QED
        BY <4>2, <4>3, <4>4, <4>5, <4>6, <1>5
    <3> QED
      BY <3>1, <3>2
  <2>2. ASSUME NEW i \in 1 .. Len(t.appended.exports)
        PROVE  LET export == t.appended.exports[i]
               IN /\ export.sym \in 1 .. (m + 1)
                  /\ export.vaddr = t.symbols[export.sym].address
    <3>1. t.appended.exports = s.appended.exports
      BY DEF Queued
    <3> DEFINE x == s.appended.exports[i]
    <3>2. x.sym \in 1 .. m /\ x.vaddr = s.symbols[x.sym].address
      BY <3>1 DEF BaseInv, SymbolsInv
    <3>3. t.symbols[x.sym] = s.symbols[x.sym] /\ x.sym \in 1 .. (m + 1)
      BY SMTT(30), <3>2, <1>2 DEF Extends
    <3> QED
      BY <3>1, <3>2, <3>3
  <2>3. Len(t.symbols) >= 1 /\ t.appended.segment_vaddr = base
    BY <1>2 DEF Queued
  <2> HIDE DEF n, m
  <2> QED
    BY <2>1, <2>2, <2>3, <1>2 DEF SymbolsInv
<1>9. BytesInv(t)
  <2> DEFINE B == t.appended.bytes
  <2>1. /\ Len(B) = item.offset + item.len /\ Len(q) \in Nat
        /\ \A i \in 1 .. item.offset : i <= Len(q) => B[i] = q[i]
        /\ \A i \in (item.offset + 1) .. (item.offset + item.len) : B[i] = n + 1
    <3>1. n + 1 \in Nat /\ Len(q) \in Nat
      BY <1>2
    <3>2. B = Overwrite(Resize(q, item.offset), item.offset, item.len, n + 1)
      BY DEF Queued
    <3> HIDE DEF B, n
    <3>3. Laid(B, q, item.offset, item.len, n + 1)
      BY <3>1, <3>2, <1>3, QueueBytes
    <3> QED
      BY <3>1, <3>3 DEF Laid
  <2>2. ASSUME NEW k \in 1 .. (n + 1), t.appended.items[k].carved
        PROVE  /\ t.reserved
               /\ t.appended.items[k].offset + t.appended.items[k].len <= t.region.cursor
    <3>1. CASE k = n + 1
      BY <3>1, <2>2, <1>2 DEF Queued
    <3>2. CASE k # n + 1
      <4>1. k \in 1 .. n
        BY <3>2, <1>2
      <4>2. t.appended.items[k] = s.appended.items[k]
        BY <4>1, <1>2 DEF Extends
      <4> DEFINE it == s.appended.items[k]
      <4>3. it.offset \in Nat /\ it.len \in Nat
        BY <4>1, <1>1, ItemFacts
      <4>4. s.reserved /\ it.offset + it.len <= s.region.cursor
        BY <4>1, <4>2, <2>2 DEF BaseInv, BytesInv
      <4>5. s.region.cursor \in Nat /\ t.region.cursor \in Nat
        BY <1>1, StateFacts
      <4>6. t.region.cursor >= s.region.cursor /\ t.reserved
        BY <4>4 DEF Queued
      <4> HIDE DEF it
      <4>7. it.offset + it.len <= t.region.cursor
        BY <4>3, <4>4, <4>5, <4>6
      <4> QED
        BY <4>2, <4>6, <4>7 DEF it
    <3> QED
      BY <3>1, <3>2
  <2>3. ASSUME SameWay(t), NEW k \in 1 .. (n + 1)
        PROVE  Holds(B, t.appended.items[k], k)
    <3>1. CASE k = n + 1
      BY <3>1, <2>1, <1>2, <1>3 DEF Holds
    <3>2. CASE k # n + 1
      <4>1. k \in 1 .. n /\ n + 1 \in 1 .. (n + 1)
        <5> HIDE DEF n
        <5> QED
          BY <3>2, <1>2
      <4>2. t.appended.items[k] = s.appended.items[k]
        BY <4>1, <1>2 DEF Extends
      <4> DEFINE it == s.appended.items[k]
      <4>3. it.offset \in Nat /\ it.len \in Nat /\ it.carved \in BOOLEAN
        BY <4>1, <1>1, ItemFacts
      <4>4. it.carved = item.carved
        BY <4>1, <4>2, <2>3, <1>2 DEF SameWay
      <4>5. SameWay(s)
        <5>1. Len(s.appended.items) = n /\ Len(t.appended.items) = n + 1
          BY <1>2
        <5>2. \A i \in 1 .. n : t.appended.items[i] = s.appended.items[i]
          BY ZenonT(30), <1>2 DEF Extends
        <5>3. n \in Nat
          BY <1>2
        <5> HIDE DEF n
        <5>4. \A i \in 1 .. n : i \in 1 .. (n + 1)
          BY <5>3
        <5>5. \A i, j \in 1 .. (n + 1) : t.appended.items[i].carved = t.appended.items[j].carved
          BY ZenonT(30), <5>1, <2>3 DEF SameWay
        <5>6. \A i, j \in 1 .. n : s.appended.items[i].carved = s.appended.items[j].carved
          BY ZenonT(30), <5>2, <5>4, <5>5
        <5> QED
          BY ZenonT(30), <5>1, <5>6 DEF SameWay
      <4>6. Holds(s.appended.bytes, it, k)
        BY <4>1, <4>5 DEF BaseInv, BytesInv
      <4>7. it.offset + it.len <= item.offset
        <5>1. CASE item.carved
          <6>1. it.offset + it.len <= s.region.cursor
            BY <5>1, <4>1, <4>4 DEF BaseInv, BytesInv
          <6>2. s.region.cursor \in Nat /\ s.region.cursor <= item.offset
            BY <5>1, <1>1, StateFacts DEF Queued
          <6> HIDE DEF it
          <6> QED
            BY <6>1, <6>2, <4>3, <1>3
        <5>2. CASE ~item.carved
          <6>1. it.offset + it.len <= Len(s.appended.bytes)
            BY <4>6 DEF Holds
          <6>2. Len(s.appended.bytes) <= Len(q) /\ Len(q) <= item.offset
            BY <5>2 DEF Queued, Extends
          <6>3. Len(s.appended.bytes) \in Nat
            BY <1>1, StateFacts
          <6> HIDE DEF it
          <6> QED
            BY <6>1, <6>2, <6>3, <4>3, <2>1, <1>3
        <5> QED
          BY <5>1, <5>2
      <4>8. ASSUME NEW i \in (it.offset + 1) .. (it.offset + it.len)
            PROVE  B[i] = k
        <5>1. it.offset + it.len <= Len(s.appended.bytes) /\ s.appended.bytes[i] = k
          BY <4>6 DEF Holds
        <5>2. Len(s.appended.bytes) \in Nat
          BY <1>1, StateFacts
        <5>3. i \in 1 .. Len(s.appended.bytes) /\ i \in 1 .. item.offset
          <6> HIDE DEF it
          <6> QED
            BY SMTT(30), <5>1, <5>2, <4>3, <4>7, <1>3
        <5>4. q[i] = s.appended.bytes[i] /\ i <= Len(q)
          BY <5>2, <5>3, <2>1 DEF Queued, Extends
        <5> QED
          BY <5>1, <5>3, <5>4, <2>1
      <4>9. it.offset + it.len <= Len(B)
        <5> HIDE DEF it
        <5> QED
          BY <4>3, <4>7, <2>1, <1>3
      <4> QED
        BY <4>2, <4>8, <4>9 DEF Holds
    <3> QED
      BY <3>1, <3>2
  <2> QED
    BY <2>2, <2>3, <1>2 DEF BytesInv
<1>10. WritableInv(t)
  <2>1. t.appended_writable.some => format = "Elf"
    BY DEF Queued, BaseInv, WritableInv
  <2>2. \E i \in 1 .. (m + 1) : t.symbols[i].of = "code"
    BY <1>2 DEF Queued
  <2>3. ASSUME t.appended_writable.some, WritableFirstIn(t)
        PROVE  base >= t.appended_writable.segment_vaddr + t.appended_writable.len
    <3>1. t.appended_writable = s.appended_writable
      BY DEF Queued
    <3>2. WritableFirstIn(s)
      <4>1. \A i \in 1 .. m : i \in 1 .. (m + 1) /\ t.symbols[i] = s.symbols[i]
        BY <1>2 DEF Extends
      <4> QED
        BY <4>1, <2>3, <1>2 DEF WritableFirstIn
    <3> QED
      BY <3>1, <3>2, <2>3, <1>5, QueueBaseOK DEF BaseInv, WritableInv
  <2> QED
    BY <2>1, <2>2, <2>3, <1>2 DEF WritableInv, Queued
<1> QED
  BY <1>4, <1>7, <1>8, <1>9, <1>10 DEF BaseInv

\* A call that queues nothing may still pad the buffer and register a symbol.
LEMMA PadInv ==
  ASSUME NEW s, BaseInv(s), NEW t \in State,
         s.appended.some => t.appended.some, t.appended.some => s.appended.some,
         t.appended.segment_vaddr = s.appended.segment_vaddr,
         t.appended.items = s.appended.items, t.appended.exports = s.appended.exports,
         Extends(s.appended.bytes, t.appended.bytes),
         ~s.appended.some => t.appended.bytes = <<>>,
         Extends(s.symbols, t.symbols),
         t.appended_writable = s.appended_writable, t.delta = s.delta, t.region = s.region,
         t.growing => s.growing, t.reserved => s.reserved, s.reserved => t.reserved
  PROVE  BaseInv(t)
<1>1. s \in State
  BY DEF BaseInv
<1>2. BufferInv(t)
  BY DEF BaseInv, BufferInv
<1>3. PlaceInv(t)
  BY DEF BaseInv, PlaceInv
<1>4. /\ Len(s.symbols) \in Nat /\ Len(t.symbols) \in Nat /\ Len(s.symbols) <= Len(t.symbols)
      /\ \A i \in 1 .. Len(s.symbols) :
           i \in 1 .. Len(t.symbols) /\ t.symbols[i] = s.symbols[i]
  <2>1. Len(s.symbols) \in Nat /\ Len(t.symbols) \in Nat
    BY <1>1, StateFacts
  <2> QED
    BY <2>1 DEF Extends
<1>5. SymbolsInv(t)
  <2>1. SymbolsInv(s) /\ Len(s.symbols) >= 1
    BY DEF BaseInv, SymbolsInv
  <2>2. Len(t.symbols) >= 1
    BY <1>4, <2>1
  <2>3. ASSUME NEW k \in 1 .. Len(t.appended.items)
        PROVE  LET item == t.appended.items[k]
               IN /\ item.sym \in 1 .. Len(t.symbols)
                  /\ t.symbols[item.sym].name = item.name
                  /\ t.symbols[item.sym].address = item.at
                  /\ item.at = t.appended.segment_vaddr + item.offset
    <3> DEFINE it == s.appended.items[k]
    <3>1. /\ it.sym \in 1 .. Len(s.symbols) /\ s.symbols[it.sym].name = it.name
          /\ s.symbols[it.sym].address = it.at
          /\ it.at = s.appended.segment_vaddr + it.offset
      BY <2>1 DEF SymbolsInv
    <3>2. it.sym \in 1 .. Len(t.symbols) /\ t.symbols[it.sym] = s.symbols[it.sym]
      BY <3>1, <1>4
    <3> QED
      BY <3>1, <3>2
  <2>4. ASSUME NEW i \in 1 .. Len(t.appended.exports)
        PROVE  LET export == t.appended.exports[i]
               IN /\ export.sym \in 1 .. Len(t.symbols)
                  /\ export.vaddr = t.symbols[export.sym].address
    <3> DEFINE x == s.appended.exports[i]
    <3>1. x.sym \in 1 .. Len(s.symbols) /\ x.vaddr = s.symbols[x.sym].address
      BY <2>1 DEF SymbolsInv
    <3>2. x.sym \in 1 .. Len(t.symbols) /\ t.symbols[x.sym] = s.symbols[x.sym]
      BY <3>1, <1>4
    <3> QED
      BY <3>1, <3>2
  <2> QED
    BY <2>2, <2>3, <2>4 DEF SymbolsInv
<1>6. BytesInv(t)
  <2>1. /\ Len(s.appended.bytes) \in Nat /\ Len(t.appended.bytes) \in Nat
        /\ Len(s.appended.bytes) <= Len(t.appended.bytes)
    BY <1>1, StateFacts DEF Extends
  <2>2. ASSUME NEW k \in 1 .. Len(s.appended.items), Holds(s.appended.bytes, s.appended.items[k], k)
        PROVE  Holds(t.appended.bytes, s.appended.items[k], k)
    <3> DEFINE it == s.appended.items[k]
    <3>1. it.offset \in Nat /\ it.len \in Nat
      BY <1>1, StateFacts, ItemFacts
    <3>2. it.offset + it.len <= Len(s.appended.bytes)
      BY <2>2 DEF Holds
    <3>3. \A i \in (it.offset + 1) .. (it.offset + it.len) :
            i \in 1 .. Len(s.appended.bytes) /\ s.appended.bytes[i] = k
      <4> TAKE i \in (it.offset + 1) .. (it.offset + it.len)
      <4>1. s.appended.bytes[i] = k
        BY <2>2 DEF Holds
      <4> HIDE DEF it
      <4> QED
        BY <4>1, <3>1, <3>2, <2>1
    <3>4. \A i \in (it.offset + 1) .. (it.offset + it.len) : t.appended.bytes[i] = k
      BY <3>3 DEF Extends
    <3>5. it.offset + it.len <= Len(t.appended.bytes)
      <4> HIDE DEF it
      <4> QED
        BY <3>1, <3>2, <2>1
    <3> QED
      BY <3>4, <3>5 DEF Holds
  <2>3. SameWay(t) => SameWay(s)
    BY DEF SameWay
  <2> QED
    BY <2>2, <2>3 DEF BaseInv, BytesInv
<1>7. WritableInv(t)
  <2>1. WritableFirstIn(t) => WritableFirstIn(s)
    BY <1>4 DEF WritableFirstIn
  <2> QED
    BY <2>1, <1>4 DEF BaseInv, WritableInv
<1> QED
  BY <1>2, <1>3, <1>5, <1>6, <1>7 DEF BaseInv

\* What a call queued that is no wrapper, and what symbols it registered, leaves
\* the chain of initialisers alone.
LEMMA ChainKept ==
  ASSUME NEW s \in State, ChainInv(s), NEW t \in State,
         Extends(s.appended.items, t.appended.items), Extends(s.symbols, t.symbols),
         \A k \in (Len(s.appended.items) + 1) .. Len(t.appended.items) :
           t.appended.items[k].calls = <<>>,
         t.section_overrides = s.section_overrides
  PROVE  ChainInv(t)
<1> DEFINE n == Len(s.appended.items)
<1>1. /\ n \in Nat /\ DOMAIN s.appended.items = 1 .. n
      /\ Len(t.appended.items) \in Nat /\ n <= Len(t.appended.items)
      /\ DOMAIN t.appended.items = 1 .. Len(t.appended.items)
      /\ Len(s.symbols) \in Nat /\ Len(t.symbols) \in Nat /\ Len(s.symbols) <= Len(t.symbols)
  BY StateFacts DEF Extends
<1>2. \A k \in 1 .. n : t.appended.items[k] = s.appended.items[k]
  BY DEF Extends
<1>3. Wrappers(t) = Wrappers(s) /\ Wrappers(s) \subseteq 1 .. n
  <2>1. \A k \in DOMAIN t.appended.items : k \in 1 .. n \/ t.appended.items[k].calls = <<>>
    BY <1>1
  <2>2. 1 .. n \subseteq DOMAIN t.appended.items
    BY <1>1
  <2> QED
    BY <2>1, <2>2, <1>1, <1>2 DEF Wrappers
<1>4. ASSUME NEW W \in SUBSET Wrappers(s)
      PROVE  Slot(t, W) = Slot(s, W)
  <2>1. CASE W = {}
    BY <2>1 DEF Slot
  <2>2. CASE W # {}
    <3>1. Max(W) \in W
      BY <2>2, <1>1, <1>3, MaxExists
    <3> QED
      BY <2>2, <3>1, <1>2, <1>3 DEF Slot
  <2> QED
    BY <2>1, <2>2
<1>5. ASSUME format = "Elf", NEW k \in Wrappers(t)
      PROVE  LET W == {j \in Wrappers(t) : j < k}
             IN  /\ t.appended.items[k].calls[2] \in 1 .. Len(t.symbols)
                 /\ t.symbols[t.appended.items[k].calls[2]].address = Slot(t, W)
  <2> DEFINE W == {j \in Wrappers(s) : j < k}
             c == s.appended.items[k].calls[2]
  <2>1. /\ c \in 1 .. Len(s.symbols)
        /\ s.symbols[c].address = Slot(s, W)
    BY <1>3, <1>5 DEF ChainInv
  <2>2. t.appended.items[k] = s.appended.items[k]
    BY <1>2, <1>3
  <2>3. c \in 1 .. Len(t.symbols) /\ t.symbols[c] = s.symbols[c]
    <3> HIDE DEF c
    <3> QED
      BY <2>1, <1>1 DEF Extends
  <2>4. Slot(t, W) = Slot(s, W)
    BY <1>4
  <2> QED
    BY <2>1, <2>2, <2>3, <2>4, <1>3
<1>6. t.section_overrides # <<>> =>
        \E k \in Wrappers(t) :
          /\ \A j \in Wrappers(t) : j <= k
          /\ t.appended.items[k].at = t.section_overrides[Len(t.section_overrides)]
  BY <1>2, <1>3 DEF ChainInv
<1>7. t.section_overrides = <<>> <=> Wrappers(t) = {}
  BY <1>3 DEF ChainInv
<1> QED
  BY <1>5, <1>6, <1>7 DEF ChainInv

-----------------------------------------------------------------------------
(* The record updates of the calls.                                        *)

\* The fields that queueing never touches.
Apart(s, t) ==
  /\ t.appended_writable = s.appended_writable /\ t.delta = s.delta
  /\ t.section_overrides = s.section_overrides
  /\ (t.growing => s.growing) /\ (s.growing => t.growing)
  /\ (t.reserved => s.reserved) /\ (s.reserved => t.reserved)

LEMMA SetAppended ==
  ASSUME NEW s \in State, NEW a \in AppendedRec, NEW t, t = [s EXCEPT !.appended = a]
  PROVE  /\ t \in State /\ t.appended = a /\ t.symbols = s.symbols
         /\ t.region = s.region /\ Apart(s, t)
<1>1. t \in State
  BY DEF State
<1> QED
  BY <1>1 DEF State, Apart

LEMMA SetSymbols ==
  ASSUME NEW s \in State, NEW y \in Seq(SymbolRec), NEW t, t = [s EXCEPT !.symbols = y]
  PROVE  /\ t \in State /\ t.appended = s.appended /\ t.symbols = y
         /\ t.region = s.region /\ Apart(s, t)
<1>1. t \in State
  BY DEF State
<1> QED
  BY <1>1 DEF State, Apart

LEMMA SetBytes ==
  ASSUME NEW a \in AppendedRec, NEW q \in Seq(Nat), NEW c, c = [a EXCEPT !.bytes = q]
  PROVE  /\ c \in AppendedRec /\ c.bytes = q /\ c.segment_vaddr = a.segment_vaddr
         /\ c.items = a.items /\ c.exports = a.exports
         /\ (c.some => a.some) /\ (a.some => c.some)
BY DEF AppendedRec

LEMMA AppendedType ==
  ASSUME NEW base \in Nat
  PROVE  /\ Appended(base) \in AppendedRec /\ Appended(base).some
         /\ Appended(base).segment_vaddr = base /\ Appended(base).items = <<>>
         /\ Appended(base).bytes = <<>> /\ Appended(base).exports = <<>>
<1>1. <<>> \in Seq(Nat) /\ <<>> \in Seq(ItemRec) /\ <<>> \in Seq(ExportRec)
  OBVIOUS
<1> QED
  BY <1>1 DEF Appended, AppendedRec

LEMMA QueueFields ==
  ASSUME NEW a \in AppendedRec, NEW item \in ItemRec, NEW c, c = Queue(a, item)
  PROVE  /\ c \in AppendedRec /\ c.segment_vaddr = a.segment_vaddr
         /\ c.items = Append(a.items, item) /\ c.exports = a.exports
         /\ (a.some => c.some)
         /\ c.bytes = Overwrite(Resize(a.bytes, item.offset), item.offset, item.len,
                                Len(a.items) + 1)
<1> DEFINE q == Overwrite(Resize(a.bytes, item.offset), item.offset, item.len,
                          Len(a.items) + 1)
<1>1. a.items \in Seq(ItemRec) /\ a.bytes \in Seq(Nat)
  BY DEF AppendedRec
<1>2. Append(a.items, item) \in Seq(ItemRec) /\ Len(a.items) + 1 \in Nat
  BY <1>1
<1>3. item.offset \in Nat /\ item.len \in Nat
  BY DEF ItemRec
<1>4. Laid(q, a.bytes, item.offset, item.len, Len(a.items) + 1)
  BY <1>1, <1>2, <1>3, QueueBytes
<1>5. q \in Seq(Nat)
  BY <1>4 DEF Laid
<1>6. c = [a EXCEPT !.items = Append(@, item), !.bytes = q]
  BY DEF Queue
<1> HIDE DEF q
<1>7. /\ c \in AppendedRec /\ c.segment_vaddr = a.segment_vaddr
      /\ c.items = Append(a.items, item) /\ c.exports = a.exports
      /\ (a.some => c.some) /\ c.bytes = q
  BY <1>2, <1>5, <1>6 DEF AppendedRec
<1> QED
  BY <1>7 DEF q

-----------------------------------------------------------------------------
(* add_function and add_data.                                              *)

\* What a caller of the operation relies on: with ok the item is the last one
\* and its symbol the last one.
Answer(s, r, callees) ==
  /\ BaseInv(r.state) /\ Apart(s, r.state)
  /\ Extends(s.symbols, r.state.symbols)
  /\ ~r.ok => r.state.appended.items = s.appended.items
  /\ r.ok =>
       LET t == r.state
           n == Len(s.appended.items) + 1
       IN /\ t.appended.some /\ Len(t.appended.items) = n
          /\ Extends(s.appended.items, t.appended.items)
          /\ t.appended.items[n].calls = callees
          /\ t.appended.items[n].sym = Len(t.symbols)
          /\ t.appended.items[n].at = t.symbols[Len(t.symbols)].address

LEMMA NameFacts ==
  /\ <<"ctor">> \in Name /\ Names \subseteq Name
  /\ \A name \in Name : name \o <<"body">> \in Name /\ name \o <<"wrapper">> \in Name
<1>1. "body" \in Atoms /\ "wrapper" \in Atoms /\ "ctor" \in Atoms
  BY DEF Atoms
<1>2. <<"body">> \in Name /\ <<"wrapper">> \in Name /\ <<"ctor">> \in Name
  BY <1>1 DEF Name
<1>3. \A name \in Name : name \o <<"body">> \in Name /\ name \o <<"wrapper">> \in Name
  BY <1>2, ConcatProperties DEF Name
<1>4. ASSUME NEW name \in Names PROVE name \in Name
  <2>1. name \in Seq(STRING)
    BY SessionAssumption
  <2>2. Len(name) \in Nat /\ name \in [1 .. Len(name) -> STRING]
    BY <2>1
  <2>3. \A i \in 1 .. Len(name) : name[i] \in Atoms
    BY <2>2 DEF Atoms, ToSet
  <2>4. name \in [1 .. Len(name) -> Atoms]
    BY <2>2, <2>3
  <2> QED
    BY <2>2, <2>4 DEF Name
<1> QED
  BY <1>2, <1>3, <1>4

LEMMA FailedAnswer ==
  ASSUME NEW s, NEW u, BaseInv(u), Apart(s, u), Extends(s.symbols, u.symbols),
         u.appended.items = s.appended.items, NEW callees
  PROVE  Answer(s, Failed(u), callees)
<1>1. Failed(u).state = u /\ ~Failed(u).ok
  BY DEF Failed
<1> QED
  BY <1>1 DEF Answer

LEMMA Nothing ==
  ASSUME NEW s \in State
  PROVE  Apart(s, s) /\ Extends(s.symbols, s.symbols)
<1>1. Len(s.symbols) \in Nat
  BY StateFacts
<1> QED
  BY <1>1 DEF Extends, Apart

\* An item that was queued answers its caller.
LEMMA QueuedAnswer ==
  ASSUME NEW s, BaseInv(s), format \in {"Elf", "Macho"}, NEW t \in State,
         NEW base \in SegmentVaddr(s), NEW q \in Seq(Nat),
         NEW item \in ItemRec, NEW sym \in SymbolRec, Queued(s, t, base, q, item, sym),
         Apart(s, t), NEW r, r = [ok |-> TRUE, state |-> t]
  PROVE  Answer(s, r, item.calls)
<1>1. BaseInv(t)
  BY QueueInv
<1>2. s.appended.items \in Seq(ItemRec) /\ s.symbols \in Seq(SymbolRec)
  BY StateFacts DEF BaseInv
<1>3. /\ Len(t.appended.items) = Len(s.appended.items) + 1
      /\ Extends(s.appended.items, t.appended.items)
      /\ t.appended.items[Len(s.appended.items) + 1] = item
      /\ Len(t.symbols) = Len(s.symbols) + 1 /\ Extends(s.symbols, t.symbols)
      /\ t.symbols[Len(s.symbols) + 1] = sym
  BY <1>2, AppendExtends DEF Queued
<1>4. t.appended.some /\ item.sym = Len(s.symbols) + 1 /\ sym.address = item.at
  BY DEF Queued
<1>5. r.state = t /\ ~(~r.ok)
  OBVIOUS
<1> QED
  BY <1>1, <1>3, <1>4, <1>5 DEF Answer

LEMMA AddFunctionAnswer ==
  ASSUME NEW s, BaseInv(s), format \in {"Elf", "Macho"},
         NEW name \in Name, NEW body \in Body, NEW planned \in BOOLEAN,
         NEW callees \in Seq(Nat)
  PROVE  Answer(s, add_function(s, name, body, planned, callees), callees)
<1> DEFINE r       == add_function(s, name, body, planned, callees)
           a       == s.appended
           offset  == round_up(Len(a.bytes), 4)
           padded  == [s EXCEPT !.appended.bytes = Resize(@, offset)]
           base    == CHOOSE v \in SegmentVaddr(s) : TRUE
           vaddr   == base + offset
           id      == Len(s.symbols) + 1
           sym(of) == Symbol(name, vaddr, "Function", of)
           Named(of) == [padded EXCEPT !.symbols = Append(@, sym(of))]
           len     == EmittedLen(body, vaddr, s.symbols)
           item    == Item(name, "Function", offset, len, body, id, vaddr, FALSE, callees)
           buffer  == IF a.some THEN padded.appended ELSE Appended(base)
           t       == [Named("code") EXCEPT !.appended = Queue(buffer, item)]
<1> SUFFICES Answer(s, r, callees)
  OBVIOUS
<1>1. /\ s \in State /\ a \in AppendedRec /\ a.bytes \in Seq(Nat) /\ Len(a.bytes) \in Nat
      /\ s.symbols \in Seq(SymbolRec) /\ Len(s.symbols) \in Nat
      /\ a.items \in Seq(ItemRec) /\ Len(a.items) \in Nat
  BY StateFacts DEF BaseInv
<1>2. offset \in Nat /\ Len(a.bytes) <= offset
  <2>1. 4 \in Nat \ {0}
    OBVIOUS
  <2> QED
    BY <1>1, <2>1, RoundUp
<1> HIDE DEF offset
<1> DEFINE q == Resize(a.bytes, offset)
<1>3. /\ q \in Seq(Nat) /\ Len(q) = offset /\ Extends(a.bytes, q)
  <2>1. Resized(q, a.bytes, offset)
    BY <1>1, <1>2, ResizeFacts
  <2>2. \A i \in 1 .. Len(a.bytes) : i \in 1 .. offset /\ i <= Len(a.bytes)
    BY <1>1, <1>2
  <2> HIDE DEF q
  <2> QED
    BY <2>1, <2>2, <1>1, <1>2 DEF Resized, Extends
<1>4. ~a.some => q = <<>>
  <2> SUFFICES ASSUME ~a.some PROVE q = <<>>
    OBVIOUS
  <2>1. Len(a.bytes) = 0
    BY DEF BaseInv, BufferInv
  <2>2. offset = 0
    BY <2>1 DEF offset, round_up
  <2> QED
    BY <1>3, <2>2, EmptySeq
<1> HIDE DEF q
<1>5. /\ padded \in State /\ padded.symbols = s.symbols
      /\ padded.region = s.region /\ Apart(s, padded)
      /\ padded.appended.bytes = q /\ padded.appended.segment_vaddr = a.segment_vaddr
      /\ padded.appended.items = a.items /\ padded.appended.exports = a.exports
      /\ (padded.appended.some => a.some) /\ (a.some => padded.appended.some)
      /\ padded.appended \in AppendedRec
  <2> DEFINE c == [a EXCEPT !.bytes = q]
  <2>1. padded = [s EXCEPT !.appended = c]
    BY <1>1 DEF State, q
  <2>2. /\ c \in AppendedRec /\ c.bytes = q /\ c.segment_vaddr = a.segment_vaddr
        /\ c.items = a.items /\ c.exports = a.exports
        /\ (c.some => a.some) /\ (a.some => c.some)
    BY <1>1, <1>3, SetBytes
  <2> HIDE DEF c, padded
  <2> QED
    BY <1>1, <2>1, <2>2, SetAppended
<1> HIDE DEF padded
<1>6. CASE SegmentVaddr(s) = {} \/ ~check_intra_text_capacity(s, Estimate(body, planned))
  <2>1. r = Failed(s)
    BY <1>6 DEF add_function
  <2> HIDE DEF r
  <2> QED
    BY <2>1, <1>1, Nothing, FailedAnswer
<1>7. CASE SegmentVaddr(s) # {} /\ check_intra_text_capacity(s, Estimate(body, planned))
  <2>1. base \in SegmentVaddr(s)
    BY <1>7
  <2>2. base \in Nat
    BY <2>1, QueueBaseOK
  <2> HIDE DEF base
  <2>3. vaddr \in Nat
    BY <2>2, <1>2
  <2> HIDE DEF vaddr
  <2>4. \A of \in {"code", "failed"} : sym(of) \in SymbolRec
    BY <2>3 DEF Symbol, SymbolRec
  <2>5. ASSUME NEW of \in {"code", "failed"}
        PROVE  /\ Named(of) \in State /\ Named(of).appended = padded.appended
               /\ Named(of).symbols = Append(s.symbols, sym(of))
               /\ Named(of).region = s.region /\ Apart(padded, Named(of))
    <3> DEFINE y == Append(s.symbols, sym(of))
    <3>1. y \in Seq(SymbolRec)
      BY <1>1, <2>4
    <3>2. Named(of) = [padded EXCEPT !.symbols = y]
      BY <1>5 DEF State
    <3> HIDE DEF y, Named
    <3>3. /\ Named(of) \in State /\ Named(of).appended = padded.appended
          /\ Named(of).symbols = y
          /\ Named(of).region = padded.region /\ Apart(padded, Named(of))
      BY <1>5, <3>1, <3>2, SetSymbols
    <3> QED
      BY <1>5, <3>3 DEF y
  <2>6. CASE body.fails
    <3>1. r = Failed(Named("failed"))
      BY <1>7, <2>6 DEF add_function, padded, offset, base, vaddr
    <3> DEFINE u == Named("failed")
    <3>2. /\ u \in State /\ u.appended = padded.appended
          /\ u.symbols = Append(s.symbols, sym("failed"))
          /\ u.region = s.region /\ Apart(padded, u)
      BY <2>5
    <3> HIDE DEF u
    <3>3. Extends(s.symbols, u.symbols)
      <4>1. sym("failed") \in SymbolRec
        BY <2>4
      <4> QED
        BY <1>1, <3>2, <4>1, AppendExtends
    <3>4. Apart(s, u)
      BY <1>5, <3>2 DEF Apart
    <3>5. BaseInv(u)
      BY <1>3, <1>4, <1>5, <3>2, <3>3, <3>4, PadInv DEF Apart
    <3>6. r = Failed(u) /\ u.appended.items = s.appended.items
      BY <3>1, <3>2, <1>5 DEF u
    <3> HIDE DEF r
    <3> QED
      BY <3>3, <3>4, <3>5, <3>6, FailedAnswer
  <2>7. CASE ~body.fails /\ planned /\ body.reloc
    <3>1. r = Failed(padded)
      BY <1>7, <2>7 DEF add_function, padded, offset
    <3>2. Extends(s.symbols, padded.symbols)
      BY <1>1, <1>5 DEF Extends
    <3>3. BaseInv(padded)
      BY <1>3, <1>4, <1>5, <3>2, PadInv DEF Apart
    <3>4. padded.appended.items = s.appended.items
      BY <1>5
    <3> HIDE DEF r
    <3> QED
      BY <3>1, <3>2, <3>3, <3>4, <1>5, FailedAnswer
  <2>8. CASE ~body.fails /\ ~(planned /\ body.reloc)
    <3>1. r = [ok |-> TRUE, state |-> t]
      BY <1>7, <2>8 DEF add_function, padded, offset, base, vaddr
    <3>2. len \in Nat
      BY <2>3, EmittedLenType
    <3> HIDE DEF len
    <3>3. /\ item \in ItemRec /\ item.offset = offset /\ item.len = len /\ item.sym = id
          /\ item.at = vaddr /\ ~item.carved /\ item.calls = callees /\ item.name = name
      BY <1>1, <1>2, <2>3, <3>2 DEF Item, ItemRec
    <3> HIDE DEF item
    <3>4. /\ buffer \in AppendedRec /\ buffer.some /\ buffer.segment_vaddr = base
          /\ buffer.items = a.items /\ buffer.exports = a.exports /\ buffer.bytes = q
      <4>1. CASE a.some
        BY <4>1, <1>5, <2>1, QueueBaseOK
      <4>2. CASE ~a.some
        <5>1. buffer = Appended(base)
          BY <4>2
        <5>2. a.items = <<>> /\ a.exports = <<>> /\ q = <<>>
          BY <4>2, <1>4 DEF BaseInv, BufferInv
        <5> QED
          BY <5>1, <5>2, <2>2, AppendedType
      <4> QED
        BY <4>1, <4>2
    <3> HIDE DEF buffer
    <3> DEFINE c == Queue(buffer, item)
    <3>5. /\ c \in AppendedRec /\ c.segment_vaddr = base
          /\ c.items = Append(a.items, item) /\ c.exports = a.exports /\ c.some
          /\ c.bytes = Overwrite(Resize(q, offset), offset, len, Len(a.items) + 1)
      <4>1. c = Queue(buffer, item) /\ buffer \in AppendedRec /\ item \in ItemRec
        BY <3>3, <3>4
      <4> HIDE DEF c
      <4>2. /\ c \in AppendedRec /\ c.segment_vaddr = buffer.segment_vaddr
            /\ c.items = Append(buffer.items, item) /\ c.exports = buffer.exports
            /\ (buffer.some => c.some)
            /\ c.bytes = Overwrite(Resize(buffer.bytes, item.offset), item.offset, item.len,
                                   Len(buffer.items) + 1)
        BY <4>1, QueueFields
      <4> HIDE DEF a
      <4> QED
        BY <4>2, <3>3, <3>4
    <3> HIDE DEF c
    <3> DEFINE u == Named("code")
    <3>6. /\ u \in State /\ u.symbols = Append(s.symbols, sym("code"))
          /\ u.region = s.region /\ Apart(padded, u)
      BY <2>5
    <3> HIDE DEF u
    <3>7. t = [u EXCEPT !.appended = c]
      BY DEF u, c
    <3> HIDE DEF t
    <3>8. /\ t \in State /\ t.appended = c /\ t.symbols = Append(s.symbols, sym("code"))
          /\ t.region = s.region /\ Apart(u, t)
      BY <3>5, <3>6, <3>7, SetAppended
    <3>9. Apart(s, t)
      BY <1>5, <3>6, <3>8 DEF Apart
    <3>10. /\ sym("code") \in SymbolRec /\ sym("code").name = name
           /\ sym("code").address = vaddr /\ sym("code").of = "code"
      BY <2>4 DEF Symbol
    <3> DEFINE y == sym("code")
    <3> HIDE DEF y
    <3>11. Queued(s, t, base, q, item, y)
      <4>1. s.region.cursor \in Nat
        BY <1>1, StateFacts
      <4>2. t.region.cursor >= s.region.cursor /\ Len(q) <= offset
        BY <4>1, <3>8, <1>2, <1>3
      <4>3. vaddr = base + offset
        BY DEF vaddr
      <4> QED
        BY <4>2, <4>3, <3>3, <3>5, <3>8, <3>9, <3>10, <1>3 DEF Queued, Apart, y
    <3>12. y \in SymbolRec
      BY <3>10 DEF y
    <3> HIDE DEF r
    <3>13. Answer(s, r, item.calls)
      BY <2>1, <1>3, <3>1, <3>3, <3>8, <3>9, <3>11, <3>12, QueuedAnswer
    <3> QED
      BY <3>3, <3>13
  <2> QED
    BY <2>6, <2>7, <2>8
<1> QED
  BY <1>6, <1>7

Put(s, a, y) == [s EXCEPT !.appended = a, !.symbols = y]

LEMMA SetBoth ==
  ASSUME NEW s \in State, NEW a \in AppendedRec, NEW y \in Seq(SymbolRec),
         NEW t, t = Put(s, a, y)
  PROVE  /\ t \in State /\ t.appended = a /\ t.symbols = y
         /\ t.region = s.region /\ Apart(s, t)
<1>1. t \in State
  BY DEF State, Put
<1> QED
  BY <1>1 DEF State, Apart, Put

LEMMA AddDataAnswer ==
  ASSUME NEW s, BaseInv(s), format \in {"Elf", "Macho"}, NEW name \in Name,
         NEW blob \in [len : Nat, align : Nat \ {0}]
  PROVE  Answer(s, add_data(s, name, blob), <<>>)
<1> DEFINE r      == add_data(s, name, blob)
           base   == CHOOSE v \in SegmentVaddr(s) : TRUE
           buffer == IF s.appended.some THEN s.appended ELSE Appended(base)
           offset == align_up(Len(buffer.bytes), blob.align)
           item   == Item(name, "Data", offset, blob.len, NoBody,
                          Len(s.symbols) + 1, base + offset, FALSE, <<>>)
           sym    == Symbol(name, base + offset, "Object", "code")
           t      == [s EXCEPT !.appended = Queue(buffer, item),
                               !.symbols = Append(@, sym)]
<1> SUFFICES Answer(s, r, <<>>)
  OBVIOUS
<1>1. /\ s \in State /\ s.appended \in AppendedRec
      /\ s.appended.bytes \in Seq(Nat) /\ Len(s.appended.bytes) \in Nat
      /\ s.symbols \in Seq(SymbolRec) /\ Len(s.symbols) \in Nat
  BY StateFacts DEF BaseInv
<1>2. CASE SegmentVaddr(s) = {} \/ ~check_intra_text_capacity(s, blob.len + blob.align - 1)
  <2>1. r = Failed(s)
    BY <1>2 DEF add_data
  <2> HIDE DEF r
  <2> QED
    BY <2>1, <1>1, Nothing, FailedAnswer
<1>3. CASE SegmentVaddr(s) # {} /\ check_intra_text_capacity(s, blob.len + blob.align - 1)
  <2>1. r = [ok |-> TRUE, state |-> t]
    BY <1>3 DEF add_data
  <2> HIDE DEF r
  <2>2. base \in SegmentVaddr(s)
    BY <1>3
  <2>3. base \in Nat
    BY <2>2, QueueBaseOK
  <2> HIDE DEF base
  <2>4. /\ buffer \in AppendedRec /\ buffer.some /\ buffer.segment_vaddr = base
        /\ buffer.items = s.appended.items /\ buffer.exports = s.appended.exports
        /\ buffer.bytes = s.appended.bytes
    <3>1. CASE s.appended.some
      BY <3>1, <1>1, <2>2, QueueBaseOK
    <3>2. CASE ~s.appended.some
      <4>1. buffer = Appended(base)
        BY <3>2
      <4>2. /\ s.appended.items = <<>> /\ s.appended.exports = <<>>
            /\ s.appended.bytes = <<>>
        BY <3>2 DEF BaseInv, BufferInv
      <4> QED
        BY <4>1, <4>2, <2>3, AppendedType
    <3> QED
      BY <3>1, <3>2
  <2> HIDE DEF buffer
  <2>5. offset \in Nat /\ Len(s.appended.bytes) <= offset
    <3>1. Len(buffer.bytes) \in Nat /\ blob.align \in Nat
      BY <1>1, <2>4
    <3>2. offset \in Nat /\ Len(buffer.bytes) <= offset
      BY <3>1, AlignUp
    <3> HIDE DEF offset
    <3> QED
      BY <3>2, <2>4
  <2> HIDE DEF offset
  <2>6. base + offset \in Nat /\ blob.len \in Nat /\ Len(s.symbols) + 1 \in Nat
    BY <1>1, <2>3, <2>5
  <2>7. /\ item \in ItemRec /\ item.offset = offset /\ item.len = blob.len
        /\ item.sym = Len(s.symbols) + 1 /\ item.at = base + offset /\ ~item.carved
        /\ item.calls = <<>> /\ item.name = name
    <3>1. NoBody \in Body /\ <<>> \in Seq(Nat)
      BY DEF NoBody, Body
    <3> QED
      BY <2>5, <2>6, <3>1 DEF Item, ItemRec
  <2> HIDE DEF item
  <2>8. /\ sym \in SymbolRec /\ sym.name = name /\ sym.address = base + offset
        /\ sym.of = "code"
    BY <2>6 DEF Symbol, SymbolRec
  <2> HIDE DEF sym
  <2> DEFINE c == Queue(buffer, item)
             y == Append(s.symbols, sym)
  <2>9. c = Queue(buffer, item) /\ buffer \in AppendedRec /\ item \in ItemRec
        /\ t = Put(s, c, y)
    BY <1>1, <2>4, <2>7 DEF State, Put
  <2> HIDE DEF c
  <2>10. /\ c \in AppendedRec /\ c.segment_vaddr = buffer.segment_vaddr
         /\ c.items = Append(buffer.items, item) /\ c.exports = buffer.exports
         /\ (buffer.some => c.some)
         /\ c.bytes = Overwrite(Resize(buffer.bytes, item.offset), item.offset, item.len,
                                Len(buffer.items) + 1)
    BY <2>9, QueueFields
  <2>11. y \in Seq(SymbolRec)
    BY <1>1, <2>8
  <2> HIDE DEF t, y
  <2>12. /\ t \in State /\ t.appended = c /\ t.symbols = y
         /\ t.region = s.region /\ Apart(s, t)
    <3>1. /\ s \in State /\ c \in AppendedRec /\ y \in Seq(SymbolRec)
          /\ t = Put(s, c, y)
      BY <1>1, <2>9, <2>10, <2>11
    <3> QED
      BY <3>1, SetBoth
  <2>13. Queued(s, t, base, s.appended.bytes, item, sym)
    <3>1. s.region.cursor \in Nat
      BY <1>1, StateFacts
    <3>2. t.region.cursor >= s.region.cursor /\ Len(s.appended.bytes) <= item.offset
      BY <3>1, <2>5, <2>7, <2>12
    <3>3. Extends(s.appended.bytes, s.appended.bytes)
      BY <1>1 DEF Extends
    <3>4. t.symbols = Append(s.symbols, sym)
      BY <2>12 DEF y
    <3>5. /\ t.appended.some /\ t.appended.segment_vaddr = base
          /\ t.appended.items = Append(s.appended.items, item)
          /\ t.appended.exports = s.appended.exports
          /\ t.appended.bytes = Overwrite(Resize(s.appended.bytes, item.offset), item.offset,
                                          item.len, Len(s.appended.items) + 1)
      BY <2>4, <2>10, <2>12
    <3> QED
      BY <3>2, <3>3, <3>4, <3>5, <2>7, <2>8, <2>12 DEF Queued, Apart
  <2>14. Answer(s, r, item.calls)
    BY <1>1, <2>1, <2>2, <2>7, <2>8, <2>12, <2>13, QueuedAnswer
  <2> QED
    BY <2>7, <2>14
<1> QED
  BY <1>2, <1>3

-----------------------------------------------------------------------------
(* Carving.                                                                *)

PutCarved(s, n, a, y) == [s EXCEPT !.region.cursor = n, !.appended = a, !.symbols = y]

LEMMA SetCarved ==
  ASSUME NEW s \in State, NEW a \in AppendedRec, NEW y \in Seq(SymbolRec), NEW n \in Nat,
         NEW t, t = PutCarved(s, n, a, y)
  PROVE  /\ t \in State /\ t.appended = a /\ t.symbols = y
         /\ t.region.base_address = s.region.base_address /\ t.region.cursor = n
         /\ Apart(s, t)
<1> DEFINE g == [s.region EXCEPT !.cursor = n]
<1>1. g \in RegionRec /\ g.base_address = s.region.base_address /\ g.cursor = n
  BY StateFacts DEF RegionRec
<1>2. t = [s EXCEPT !.region = g, !.appended = a, !.symbols = y]
  BY DEF State, PutCarved
<1> HIDE DEF g
<1>3. t \in State
  BY <1>1, <1>2 DEF State
<1> QED
  BY <1>1, <1>2, <1>3 DEF State, Apart

LEMMA CarveAnswer ==
  ASSUME NEW s, BaseInv(s), format \in {"Elf", "Macho"}, NEW name \in Name,
         NEW kind \in {"Function", "Data", "RawCode"}, NEW body \in Body, NEW len \in Nat,
         NEW align \in Nat \ {0}, ~(~s.reserved)
  PROVE  Answer(s, place_in_region(s, name, kind, body, len, align), <<>>)
<1> DEFINE r     == place_in_region(s, name, kind, body, len, align)
           carve == CarveOf(s.region, len, align)
           pad   == CarvePad(s.region, align)
           item  == Item(name, kind, carve.offset_in_region, len, body,
                         Len(s.symbols) + 1, carve.address, TRUE, <<>>)
           sym   == Symbol(name, carve.address,
                           IF kind = "Data" THEN "Object" ELSE "Function", "code")
           t     == [s EXCEPT !.region.cursor = NewCursor(s.region, len, align),
                              !.appended = Queue(@, item),
                              !.symbols = Append(@, sym)]
<1> SUFFICES Answer(s, r, <<>>)
  OBVIOUS
<1>1. /\ s \in State /\ s.appended \in AppendedRec
      /\ s.appended.bytes \in Seq(Nat) /\ Len(s.appended.bytes) \in Nat
      /\ s.symbols \in Seq(SymbolRec) /\ Len(s.symbols) \in Nat
      /\ s.region.base_address \in Nat /\ s.region.cursor \in Nat
  BY StateFacts DEF BaseInv
<1>2. CASE carve_result(s.region, len, align) # "Ok"
  <2>1. r = Failed(s)
    BY <1>2 DEF place_in_region
  <2> HIDE DEF r
  <2> QED
    BY <2>1, <1>1, Nothing, FailedAnswer
<1>3. CASE carve_result(s.region, len, align) = "Ok"
  <2>1. r = [ok |-> TRUE, state |-> t]
    BY <1>3 DEF place_in_region
  <2> HIDE DEF r
  <2> DEFINE base == s.appended.segment_vaddr
             offset == s.region.cursor + pad
  <2>2. s.appended.some /\ base \in SegmentVaddr(s) /\ base \in Nat
        /\ base = s.region.base_address
    BY <1>1, StateFacts DEF BaseInv, PlaceInv, SegmentVaddr
  <2>3. pad \in Nat
    <3>1. s.region.base_address + s.region.cursor \in Nat
      BY <1>1
    <3> DEFINE x == s.region.base_address + s.region.cursor
    <3> HIDE DEF x
    <3>2. round_up(x, align) \in Nat /\ x <= round_up(x, align) /\ x \in Nat
      BY <3>1, RoundUp DEF x
    <3>3. round_up(x, align) - x \in Nat
      BY <3>2
    <3> QED
      BY <3>3 DEF CarvePad, x
  <2> HIDE DEF pad
  <2>4. /\ carve.offset_in_region = offset /\ carve.address = base + offset
        /\ NewCursor(s.region, len, align) = offset + len
        /\ offset \in Nat /\ base + offset \in Nat /\ s.region.cursor <= offset
    <3>1. /\ carve.offset_in_region = s.region.cursor + pad
          /\ carve.address = s.region.base_address + s.region.cursor + pad
          /\ NewCursor(s.region, len, align) = s.region.cursor + pad + len
      BY DEF CarveOf, NewCursor, pad
    <3>2. /\ s.region.cursor \in Nat /\ pad \in Nat /\ base \in Nat
          /\ base = s.region.base_address
      BY <1>1, <2>2, <2>3
    <3> HIDE DEF carve, base
    <3>3. /\ s.region.cursor + pad \in Nat /\ base + (s.region.cursor + pad) \in Nat
          /\ s.region.cursor <= s.region.cursor + pad
          /\ base + s.region.cursor + pad = base + (s.region.cursor + pad)
      BY <3>2
    <3> QED
      BY <3>1, <3>2, <3>3
  <2> HIDE DEF carve, offset
  <2>5. /\ item \in ItemRec /\ item.offset = offset /\ item.len = len
        /\ item.sym = Len(s.symbols) + 1 /\ item.at = base + offset /\ ~(~item.carved)
        /\ item.calls = <<>> /\ item.name = name
    <3>1. <<>> \in Seq(Nat) /\ Len(s.symbols) + 1 \in Nat
      BY <1>1
    <3> QED
      BY <2>4, <3>1 DEF Item, ItemRec
  <2>6. /\ sym \in SymbolRec /\ sym.name = name /\ sym.address = base + offset
        /\ sym.of = "code"
    BY <2>4 DEF Symbol, SymbolRec
  <2> HIDE DEF item, sym
  <2> DEFINE c == Queue(s.appended, item)
             y == Append(s.symbols, sym)
  <2>7. /\ c = Queue(s.appended, item) /\ item \in ItemRec
        /\ t = PutCarved(s, offset + len, c, y)
    BY <1>1, <2>4, <2>5 DEF State, PutCarved
  <2> HIDE DEF c
  <2>8. /\ c \in AppendedRec /\ c.segment_vaddr = s.appended.segment_vaddr
        /\ c.items = Append(s.appended.items, item) /\ c.exports = s.appended.exports
        /\ (s.appended.some => c.some)
        /\ c.bytes = Overwrite(Resize(s.appended.bytes, item.offset), item.offset, item.len,
                               Len(s.appended.items) + 1)
    <3>1. c = Queue(s.appended, item) /\ item \in ItemRec /\ s.appended \in AppendedRec
      BY <1>1, <2>7
    <3> QED
      BY <3>1, QueueFields
  <2>9. y \in Seq(SymbolRec) /\ offset + len \in Nat
    BY <1>1, <2>4, <2>6
  <2> HIDE DEF t, y
  <2>10. /\ t \in State /\ t.appended = c /\ t.symbols = y
         /\ t.region.base_address = s.region.base_address /\ t.region.cursor = offset + len
         /\ Apart(s, t)
    <3> DEFINE n == offset + len
    <3>1. /\ s \in State /\ c \in AppendedRec /\ y \in Seq(SymbolRec) /\ n \in Nat
          /\ t = PutCarved(s, n, c, y)
      BY <1>1, <2>7, <2>8, <2>9
    <3> HIDE DEF n
    <3>2. /\ t \in State /\ t.appended = c /\ t.symbols = y
          /\ t.region.base_address = s.region.base_address /\ t.region.cursor = n
          /\ Apart(s, t)
      BY <3>1, SetCarved
    <3> QED
      BY <3>2 DEF n
  <2>11. Queued(s, t, base, s.appended.bytes, item, sym)
    <3>1. t.region.cursor >= s.region.cursor
      BY <1>1, <2>4, <2>10
    <3>2. Extends(s.appended.bytes, s.appended.bytes)
      BY <1>1 DEF Extends
    <3>3. t.symbols = Append(s.symbols, sym)
      BY <2>10 DEF y
    <3>4. s.region.cursor <= item.offset /\ item.offset + item.len <= t.region.cursor
      BY <2>4, <2>5, <2>9, <2>10
    <3>5. /\ t.appended.some /\ t.appended.segment_vaddr = base
          /\ t.appended.items = Append(s.appended.items, item)
          /\ t.appended.exports = s.appended.exports
          /\ t.appended.bytes = Overwrite(Resize(s.appended.bytes, item.offset), item.offset,
                                          item.len, Len(s.appended.items) + 1)
      BY <2>2, <2>8, <2>10
    <3> QED
      BY <3>1, <3>2, <3>3, <3>4, <3>5, <2>5, <2>6, <2>10 DEF Queued, Apart
  <2>12. Answer(s, r, item.calls)
    BY <1>1, <2>1, <2>2, <2>5, <2>6, <2>10, <2>11, QueuedAnswer
  <2> QED
    BY <2>5, <2>12
<1> QED
  BY <1>2, <1>3

\* A call that adds at most one item, no wrapper, keeps the session in order.
LEMMA AnswerInv ==
  ASSUME NEW s, StateInv(s), NEW r, Answer(s, r, <<>>)
  PROVE  StateInv(r.state)
<1> DEFINE t == r.state
           n == Len(s.appended.items)
<1>1. s \in State /\ t \in State /\ BaseInv(t) /\ ChainInv(s)
  BY DEF StateInv, BaseInv, Answer
<1>2. n \in Nat /\ Len(t.appended.items) \in Nat
  BY <1>1, StateFacts
<1>3. Extends(s.symbols, t.symbols) /\ t.section_overrides = s.section_overrides
  BY DEF Answer, Apart
<1>4. CASE r.ok
  <2>1. /\ Len(t.appended.items) = n + 1 /\ Extends(s.appended.items, t.appended.items)
        /\ t.appended.items[n + 1].calls = <<>>
    BY <1>4 DEF Answer
  <2>2. \A k \in (n + 1) .. Len(t.appended.items) : k = n + 1
    BY <1>2, <2>1
  <2>3. \A k \in (n + 1) .. Len(t.appended.items) : t.appended.items[k].calls = <<>>
    BY <2>1, <2>2
  <2> QED
    BY <1>1, <1>3, <2>1, <2>3, ChainKept DEF StateInv
<1>5. CASE ~r.ok
  <2>1. t.appended.items = s.appended.items
    BY <1>5 DEF Answer
  <2>2. \A k \in (n + 1) .. Len(t.appended.items) : FALSE
    BY <1>2, <2>1
  <2>3. Extends(s.appended.items, t.appended.items)
    BY <1>2, <2>1 DEF Extends
  <2> QED
    BY <1>1, <1>3, <2>2, <2>3, ChainKept DEF StateInv
<1> QED
  BY <1>4, <1>5
-----------------------------------------------------------------------------
(* The other calls.                                                        *)

\* A call that touches neither the buffer nor the symbols nor the region.
LEMMA SameInv ==
  ASSUME NEW s, StateInv(s), NEW t \in State, t.appended = s.appended,
         t.symbols = s.symbols, t.region = s.region, Apart(s, t)
  PROVE  StateInv(t)
<1>1. s \in State /\ BaseInv(s) /\ ChainInv(s)
  BY DEF StateInv, BaseInv
<1>2. Len(s.appended.bytes) \in Nat /\ Len(s.appended.items) \in Nat /\ Len(s.symbols) \in Nat
  BY <1>1, StateFacts
<1>3. /\ Extends(s.symbols, t.symbols) /\ Extends(s.appended.bytes, t.appended.bytes)
      /\ Extends(s.appended.items, t.appended.items)
  BY <1>2 DEF Extends
<1>4. BaseInv(t)
  <2>1. ~s.appended.some => t.appended.bytes = <<>>
    BY <1>1 DEF BaseInv, BufferInv
  <2> QED
    BY <1>1, <1>3, <2>1, PadInv DEF Apart
<1>5. \A k \in (Len(s.appended.items) + 1) .. Len(t.appended.items) :
        t.appended.items[k].calls = <<>>
  <2>1. \A k \in (Len(s.appended.items) + 1) .. Len(t.appended.items) : FALSE
    BY <1>2
  <2> QED
    BY <2>1
<1>6. ChainInv(t)
  BY <1>1, <1>3, <1>5, ChainKept DEF Apart
<1> QED
  BY <1>4, <1>6 DEF StateInv

\* A reservation starts an empty buffer where there was none.
LEMMA FreshInv ==
  ASSUME NEW s, StateInv(s), ~s.appended.some, NEW t \in State, NEW base \in Nat,
         format = "Macho", BaseOK(base), t.appended = Appended(base),
         t.growing => base = GapBase,
         t.reserved => t.region.base_address = base,
         t.growing /\ t.reserved => t.delta # 0,
         t.symbols = s.symbols, t.section_overrides = s.section_overrides,
         t.appended_writable = s.appended_writable
  PROVE  StateInv(t)
<1>1. /\ t.appended.some /\ t.appended.segment_vaddr = base /\ t.appended.items = <<>>
      /\ t.appended.exports = <<>>
  BY AppendedType
<1>2. s.appended.items = <<>> /\ s \in State
  BY DEF StateInv, BaseInv, BufferInv
<1>3. BufferInv(t)
  BY <1>1 DEF BufferInv
<1>4. PlaceInv(t)
  BY <1>1 DEF PlaceInv
<1>5. SymbolsInv(t)
  BY <1>1 DEF StateInv, BaseInv, SymbolsInv
<1>6. BytesInv(t)
  BY <1>1 DEF BytesInv
<1>7. WritableInv(t)
  BY DEF StateInv, BaseInv, WritableInv
<1>8. Wrappers(t) = {} /\ Wrappers(s) = {}
  BY <1>1, <1>2 DEF Wrappers
<1>9. t.section_overrides = <<>>
  BY <1>8 DEF StateInv, ChainInv
<1>10. ChainInv(t)
  BY <1>8, <1>9 DEF ChainInv
<1> QED
  BY <1>3, <1>4, <1>5, <1>6, <1>7, <1>10 DEF StateInv, BaseInv

\* A failed call, too, keeps the session in order.
LEMMA FailedInv ==
  ASSUME NEW s, StateInv(s), NEW r, NEW callees, Answer(s, r, callees), ~r.ok
  PROVE  StateInv(r.state)
<1> DEFINE t == r.state
<1>1. s \in State /\ t \in State /\ BaseInv(t) /\ ChainInv(s)
  BY DEF StateInv, BaseInv, Answer
<1>2. t.appended.items = s.appended.items
  BY DEF Answer
<1>3. Len(s.appended.items) \in Nat
  BY <1>1, StateFacts
<1>4. \A k \in (Len(s.appended.items) + 1) .. Len(t.appended.items) : FALSE
  BY <1>2, <1>3
<1>5. Extends(s.appended.items, t.appended.items)
  BY <1>2, <1>3 DEF Extends
<1>6. Extends(s.symbols, t.symbols) /\ t.section_overrides = s.section_overrides
  BY DEF Answer, Apart
<1> QED
  BY <1>1, <1>4, <1>5, <1>6, ChainKept DEF StateInv

\* The export of the function that was queued last.
Exported(s) == [s EXCEPT !.appended.exports = Append(@, ExportOf(s))]

LEMMA ExportInv ==
  ASSUME NEW s, StateInv(s), ~(~s.appended.some), NEW t, t = Exported(s)
  PROVE  StateInv(t)
<1> DEFINE e == ExportOf(s)
           c == [s.appended EXCEPT !.exports = Append(@, e)]
           m == Len(s.symbols)
           n == Len(s.appended.exports)
<1>1. /\ s \in State /\ BaseInv(s) /\ ChainInv(s) /\ s.appended \in AppendedRec
      /\ s.appended.exports \in Seq(ExportRec) /\ s.symbols \in Seq(SymbolRec)
      /\ m \in Nat /\ Len(s.appended.items) \in Nat
  BY StateFacts DEF StateInv, BaseInv
<1>2. m \in 1 .. m
  BY <1>1 DEF BaseInv, SymbolsInv
<1>3. e \in ExportRec /\ e.sym = m /\ e.vaddr = s.symbols[m].address
  <2>1. s.symbols[m].address \in Nat
    BY <1>1, <1>2, SymbolFacts
  <2> QED
    BY <1>1, <2>1 DEF ExportOf, ExportRec, Last
<1> HIDE DEF e
<1>4. /\ c \in AppendedRec /\ c.exports = Append(s.appended.exports, e)
      /\ c.bytes = s.appended.bytes /\ c.items = s.appended.items
      /\ c.segment_vaddr = s.appended.segment_vaddr /\ ~(~c.some)
  <2>1. Append(s.appended.exports, e) \in Seq(ExportRec)
    BY <1>1, <1>3
  <2> QED
    BY <1>1, <2>1 DEF AppendedRec
<1>5. t = [s EXCEPT !.appended = c]
  BY <1>1 DEF State, Exported, e
<1> HIDE DEF c
<1>6. /\ t \in State /\ t.appended = c /\ t.symbols = s.symbols
      /\ t.region = s.region /\ Apart(s, t)
  BY <1>1, <1>4, <1>5, SetAppended
<1>13. /\ t.appended.exports = Append(s.appended.exports, e)
      /\ t.appended.bytes = s.appended.bytes /\ t.appended.items = s.appended.items
      /\ t.appended.segment_vaddr = s.appended.segment_vaddr /\ ~(~t.appended.some)
  BY <1>4, <1>6
<1>7. BufferInv(t)
  BY <1>13 DEF BufferInv
<1>8. PlaceInv(t)
  BY <1>1, <1>13, <1>6 DEF BaseInv, PlaceInv, Apart
<1>9. SymbolsInv(t)
  <2>1. /\ n \in Nat /\ Len(t.appended.exports) = n + 1 /\ Extends(s.appended.exports, t.appended.exports)
        /\ t.appended.exports[n + 1] = e
    BY <1>1, <1>3, <1>13, AppendExtends
  <2>2. ASSUME NEW i \in 1 .. (n + 1)
        PROVE  LET x == t.appended.exports[i]
               IN  x.sym \in 1 .. m /\ x.vaddr = s.symbols[x.sym].address
    <3>1. CASE i = n + 1
      BY <3>1, <2>1, <1>2, <1>3
    <3>2. CASE i # n + 1
      <4>1. i \in 1 .. n
        BY <3>2, <2>1
      <4>2. t.appended.exports[i] = s.appended.exports[i]
        BY <4>1, <2>1 DEF Extends
      <4> QED
        BY <1>1, <4>1, <4>2 DEF BaseInv, SymbolsInv
    <3> QED
      BY <3>1, <3>2
  <2>3. SymbolsInv(s)
    BY <1>1 DEF BaseInv
  <2>4. ASSUME NEW i \in 1 .. Len(t.appended.exports)
        PROVE  LET x == t.appended.exports[i]
               IN  x.sym \in 1 .. Len(t.symbols) /\ x.vaddr = t.symbols[x.sym].address
    <3>1. i \in 1 .. (n + 1)
      BY <2>1
    <3> HIDE DEF n
    <3> QED
      BY <3>1, <2>2, <1>6
  <2>5. /\ Len(t.symbols) >= 1
        /\ \A k \in 1 .. Len(t.appended.items) :
             LET item == t.appended.items[k]
             IN /\ item.sym \in 1 .. Len(t.symbols)
                /\ t.symbols[item.sym].name = item.name
                /\ t.symbols[item.sym].address = item.at
                /\ item.at = t.appended.segment_vaddr + item.offset
    <3>1. /\ t.symbols = s.symbols /\ t.appended.items = s.appended.items
          /\ t.appended.segment_vaddr = s.appended.segment_vaddr
      BY <1>6, <1>13
    <3> QED
      BY <2>3, <3>1 DEF SymbolsInv
  <2> QED
    BY <2>4, <2>5, Zenon DEF SymbolsInv
<1>10. BytesInv(t)
  BY <1>1, <1>13, <1>6 DEF BaseInv, BytesInv, SameWay, Apart
<1>11. WritableInv(t)
  BY SMTT(30), <1>1, <1>13, <1>6 DEF BaseInv, WritableInv, WritableFirstIn, Apart
<1>12. ChainInv(t)
  <2>1. \A k \in (Len(s.appended.items) + 1) .. Len(t.appended.items) : FALSE
    BY <1>1, <1>13
  <2>2. Extends(s.appended.items, t.appended.items) /\ Extends(s.symbols, t.symbols)
    BY <1>1, <1>13, <1>6 DEF Extends
  <2> QED
    BY <2>1, <2>2, <1>1, <1>6, ChainKept DEF Apart
<1> QED
  BY <1>6, <1>7, <1>8, <1>9, <1>10, <1>11, <1>12 DEF StateInv, BaseInv

\* A wrapper that was queued goes into the slot; it calls what the slot held.
Staged(s) == [s EXCEPT !.section_overrides = Append(@, Last(s.symbols).address)]

LEMMA WrapperInv ==
  ASSUME NEW s, StateInv(s), NEW r, NEW callees \in Seq(Nat), Answer(s, r, callees),
         ~(~r.ok), callees # <<>>, callees[2] \in 1 .. Len(s.symbols),
         format = "Elf" =>
           s.symbols[callees[2]].address =
             IF s.section_overrides # <<>> THEN Last(s.section_overrides) ELSE CtorAddr,
         NEW t, t = Staged(r.state)
  PROVE  StateInv(t)
<1> DEFINE u == r.state
           n == Len(s.appended.items)
           m == Len(s.symbols)
           v == u.symbols[Len(u.symbols)].address
           y == Append(u.section_overrides, v)
<1>1. /\ s \in State /\ u \in State /\ BaseInv(u) /\ ChainInv(s) /\ BaseInv(s)
      /\ n \in Nat /\ m \in Nat /\ DOMAIN s.appended.items = 1 .. n
      /\ s.section_overrides \in Seq(Nat)
      /\ u.symbols \in Seq(SymbolRec) /\ Len(u.symbols) \in Nat
      /\ Len(u.appended.bytes) \in Nat /\ Len(u.appended.items) \in Nat
      /\ DOMAIN u.appended.items = 1 .. Len(u.appended.items)
  BY StateFacts DEF StateInv, BaseInv, Answer
<1>2. /\ Len(u.appended.items) = n + 1 /\ Extends(s.appended.items, u.appended.items)
      /\ u.appended.items[n + 1].calls = callees /\ u.appended.items[n + 1].at = v
      /\ Extends(s.symbols, u.symbols) /\ u.section_overrides = s.section_overrides
  BY DEF Answer, Apart
<1>3. v \in Nat
  <2>1. Len(u.symbols) \in 1 .. Len(u.symbols)
    <3>1. Len(u.symbols) >= 1
      BY <1>1, Zenon DEF BaseInv, SymbolsInv
    <3> QED
      BY <1>1, <3>1
  <2> QED
    BY <1>1, <2>1, SymbolFacts
<1> HIDE DEF v
<1>4. /\ y \in Seq(Nat) /\ y # <<>> /\ y[Len(y)] = v
  <2> DEFINE o == u.section_overrides
  <2>1. o \in Seq(Nat)
    BY <1>1, <1>2
  <2>2. y = Append(o, v)
    OBVIOUS
  <2> HIDE DEF o, y
  <2>3. y \in Seq(Nat) /\ Len(y) = Len(o) + 1 /\ Len(o) \in Nat /\ y[Len(o) + 1] = v
    BY <1>3, <2>1, <2>2, AppendExtends
  <2> QED
    BY <2>3
<1>5. t = [u EXCEPT !.section_overrides = y]
  BY <1>1 DEF State, Staged, Last, v
<1> HIDE DEF y
<1>6. /\ t \in State /\ t.section_overrides = y /\ t.appended = u.appended
      /\ t.symbols = u.symbols /\ t.region = u.region
      /\ t.appended_writable = u.appended_writable /\ t.delta = u.delta
      /\ (t.growing => u.growing) /\ (t.reserved => u.reserved) /\ (u.reserved => t.reserved)
  <2>1. t \in State
    BY <1>1, <1>4, <1>5 DEF State
  <2> QED
    BY <1>1, <1>5, <2>1 DEF State
<1>7. BaseInv(t)
  <2>1. Extends(u.symbols, t.symbols) /\ Extends(u.appended.bytes, t.appended.bytes)
    BY <1>1, <1>6 DEF Extends
  <2>2. ~u.appended.some => t.appended.bytes = <<>>
    BY <1>1, <1>6 DEF BaseInv, BufferInv
  <2> QED
    BY <1>1, <1>6, <2>1, <2>2, PadInv
<1>8. /\ n + 1 \in DOMAIN t.appended.items /\ DOMAIN t.appended.items = 1 .. (n + 1)
      /\ \A k \in 1 .. n : t.appended.items[k] = s.appended.items[k]
      /\ t.appended.items[n + 1].calls = callees /\ t.appended.items[n + 1].at = v
  BY SMTT(30), <1>1, <1>2, <1>6 DEF Extends
<1>9. /\ Wrappers(s) \subseteq 1 .. n
      /\ \A k \in Wrappers(t) : k \in Wrappers(s) \/ k = n + 1
      /\ \A k \in Wrappers(s) : k \in Wrappers(t)
      /\ n + 1 \in Wrappers(t)
  <2> HIDE DEF n
  <2>1. \A k \in 1 .. (n + 1) : k \in 1 .. n \/ k = n + 1
    BY <1>1
  <2>2. \A k \in 1 .. n : k \in 1 .. (n + 1)
    BY <1>1
  <2> QED
    BY <1>1, <1>8, <2>1, <2>2 DEF Wrappers
<1>10. ASSUME NEW W \in SUBSET Wrappers(s)
       PROVE  Slot(t, W) = Slot(s, W)
  <2>1. CASE W = {}
    BY <2>1 DEF Slot
  <2>2. CASE W # {}
    <3>1. Max(W) \in W
      BY <2>2, <1>1, <1>9, MaxExists
    <3> QED
      BY <2>2, <3>1, <1>8, <1>9 DEF Slot
  <2> QED
    BY <2>1, <2>2
<1>11. /\ callees[2] \in 1 .. Len(t.symbols)
       /\ t.symbols[callees[2]] = s.symbols[callees[2]]
       /\ m <= Len(t.symbols)
  BY SMTT(30), <1>1, <1>2, <1>6 DEF Extends
<1>12. ASSUME format = "Elf", NEW k \in Wrappers(t)
       PROVE  LET W == {j \in Wrappers(t) : j < k}
              IN  /\ t.appended.items[k].calls[2] \in 1 .. Len(t.symbols)
                  /\ t.symbols[t.appended.items[k].calls[2]].address = Slot(t, W)
  <2>1. CASE k = n + 1
    <3>1. {j \in Wrappers(t) : j < k} = Wrappers(s)
      <4>1. \A j \in Wrappers(s) : j < n + 1
        BY <1>1, <1>9
      <4>2. ~(n + 1 < n + 1)
        BY <1>1
      <4> QED
        BY <2>1, <4>1, <4>2, <1>9
    <3>2. Slot(t, Wrappers(s)) = Slot(s, Wrappers(s))
      BY <1>10
    <3>3. s.symbols[callees[2]].address = Slot(s, Wrappers(s))
      <4>1. CASE s.section_overrides = <<>>
        BY <4>1, <1>1, <1>12 DEF ChainInv, Slot
      <4>2. CASE s.section_overrides # <<>>
        <5>1. PICK x \in Wrappers(s) :
                /\ \A j \in Wrappers(s) : j <= x
                /\ s.appended.items[x].at = s.section_overrides[Len(s.section_overrides)]
          BY <4>2, <1>1 DEF ChainInv
        <5>2. Max(Wrappers(s)) = x
          <6>1. Wrappers(s) \in SUBSET Int /\ \A j \in Wrappers(s) : x >= j
            BY <5>1, <1>1, <1>9
          <6> QED
            BY <6>1, MaxUnique
        <5> QED
          BY <4>2, <5>1, <5>2, <1>12 DEF Slot, Last
      <4> QED
        BY <4>1, <4>2
    <3> QED
      BY <2>1, <3>1, <3>2, <3>3, <1>8, <1>11
  <2>2. CASE k # n + 1
    <3>1. k \in Wrappers(s) /\ k \in 1 .. n
      BY <2>2, <1>9
    <3> DEFINE W == {j \in Wrappers(s) : j < k}
               c == s.appended.items[k].calls[2]
    <3>2. c \in 1 .. m /\ s.symbols[c].address = Slot(s, W)
      BY <3>1, <1>1, <1>12 DEF ChainInv
    <3>3. {j \in Wrappers(t) : j < k} = W
      <4>1. ~(n + 1 < k)
        BY <3>1, <1>1
      <4> QED
        BY <4>1, <1>9
    <3>4. Slot(t, W) = Slot(s, W)
      BY <1>10
    <3>5. c \in 1 .. Len(t.symbols) /\ t.symbols[c] = s.symbols[c]
      <4>1. \A i \in 1 .. m : t.symbols[i] = s.symbols[i]
        BY <1>2, <1>6 DEF Extends
      <4>2. Len(t.symbols) \in Nat /\ m \in Nat /\ m <= Len(t.symbols) /\ c \in 1 .. m
        BY <3>2, <1>1, <1>6, <1>11
      <4> HIDE DEF c, m
      <4> QED
        BY <4>1, <4>2
    <3> QED
      BY <3>1, <3>2, <3>3, <3>4, <3>5, <1>8
  <2> QED
    BY <2>1, <2>2
<1>13. /\ \A j \in Wrappers(t) : j <= n + 1
       /\ t.appended.items[n + 1].at = t.section_overrides[Len(t.section_overrides)]
  <2>1. n \in Nat
    BY <1>1
  <2> HIDE DEF n
  <2>2. \A j \in Wrappers(t) : j <= n + 1
    BY <2>1, <1>9
  <2> QED
    BY <2>2, <1>4, <1>6, <1>8
<1>14. t.section_overrides # <<>> /\ Wrappers(t) # {}
  BY <1>4, <1>6, <1>9
<1>15. ChainInv(t)
  BY <1>9, <1>12, <1>13, <1>14 DEF ChainInv
<1> QED
  BY <1>7, <1>15 DEF StateInv

\* Writable data gets a segment of its own; only what is queued later looks at it.
LEMMA WritableDataInv ==
  ASSUME NEW s, StateInv(s), format = "Elf", NEW name \in Name,
         NEW blob \in [len : Nat, align : Nat \ {0}],
         NEW t, t = add_writable_data(s, name, blob)
  PROVE  StateInv(t)
<1> DEFINE w      == s.appended_writable
           base   == IF w.some THEN w.segment_vaddr
                     ELSE CHOOSE v \in pick_append_vaddr(s) : TRUE
           offset == align_up(w.len, blob.align)
           z      == [some |-> TRUE, segment_vaddr |-> base, len |-> offset + blob.len]
           sym    == Symbol(name, base + offset, "Object", "writable")
           y      == Append(s.symbols, sym)
           m      == Len(s.symbols)
<1>1. /\ s \in State /\ BaseInv(s) /\ ChainInv(s) /\ w.segment_vaddr \in Nat /\ w.len \in Nat
      /\ s.symbols \in Seq(SymbolRec) /\ m \in Nat /\ s.appended \in AppendedRec
      /\ Len(s.appended.bytes) \in Nat /\ Len(s.appended.items) \in Nat
      /\ blob.len \in Nat /\ blob.align \in Nat
  BY StateFacts DEF StateInv, BaseInv
<1>2. base \in Nat
  <2>1. pick_append_vaddr(s) # {}
    BY DEF pick_append_vaddr
  <2>2. \A v \in pick_append_vaddr(s) : v \in Nat
    BY <1>1, PickBase
  <2> QED
    BY <1>1, <2>1, <2>2
<1>3. offset \in Nat
  BY <1>1, AlignUp
<1> HIDE DEF base, offset
<1>4. z \in WritableRec /\ sym \in SymbolRec /\ sym.of = "writable"
  <2>1. base + offset \in Nat /\ offset + blob.len \in Nat
    BY <1>1, <1>2, <1>3
  <2>2. z \in WritableRec
    BY <2>1, <1>2 DEF WritableRec
  <2> QED
    BY <2>1, <2>2 DEF SymbolRec, Symbol
<1>5. t = [s EXCEPT !.appended_writable = z, !.symbols = y]
  BY DEF add_writable_data, base, offset
<1> HIDE DEF z, sym
<1>6. y \in Seq(SymbolRec) /\ Len(y) = m + 1 /\ Extends(s.symbols, y) /\ y[m + 1] = sym
  BY <1>1, <1>4, AppendExtends
<1> HIDE DEF y
<1> DEFINE u == [s EXCEPT !.symbols = y]
<1>7. /\ u \in State /\ u.appended = s.appended /\ u.symbols = y
      /\ u.region = s.region /\ Apart(s, u)
  BY <1>1, <1>6, SetSymbols
<1>8. t = [u EXCEPT !.appended_writable = z]
  BY <1>1, <1>5 DEF State
<1> HIDE DEF u
<1>9. /\ t \in State /\ t.appended = s.appended /\ t.symbols = y
      /\ t.region = s.region /\ t.delta = s.delta /\ t.section_overrides = s.section_overrides
      /\ (t.growing => s.growing) /\ (t.reserved => s.reserved) /\ (s.reserved => t.reserved)
  <2>1. t \in State
    BY <1>4, <1>7, <1>8 DEF State
  <2>2. /\ t.appended = u.appended /\ t.symbols = u.symbols /\ t.region = u.region
        /\ t.delta = u.delta /\ t.section_overrides = u.section_overrides
        /\ (t.growing => u.growing) /\ (t.reserved => u.reserved) /\ (u.reserved => t.reserved)
    BY <1>7, <1>8, <2>1 DEF State
  <2> QED
    BY <1>7, <2>1, <2>2 DEF Apart
<1>10. BaseInv(u)
  <2>1. Extends(s.appended.bytes, u.appended.bytes)
    BY <1>1, <1>7 DEF Extends
  <2>2. ~s.appended.some => u.appended.bytes = <<>>
    BY <1>1, <1>7 DEF BaseInv, BufferInv
  <2> QED
    BY <1>1, <1>6, <1>7, <2>1, <2>2, PadInv DEF Apart
<1>11. /\ BufferInv(t) /\ PlaceInv(t) /\ SymbolsInv(t) /\ BytesInv(t)
  <2>1. BufferInv(t)
    BY <1>1, <1>9 DEF BaseInv, BufferInv
  <2>2. PlaceInv(t)
    BY <1>1, <1>9 DEF BaseInv, PlaceInv
  <2>3. SymbolsInv(t)
    BY <1>7, <1>9, <1>10 DEF BaseInv, SymbolsInv
  <2>4. BytesInv(t)
    BY <1>1, <1>9 DEF BaseInv, BytesInv, SameWay
  <2> QED
    BY <2>1, <2>2, <2>3, <2>4
<1>12. WritableInv(t)
  <2>1. ASSUME t.appended.some PROVE \E i \in 1 .. m : s.symbols[i].of = "code"
    BY <2>1, <1>1, <1>9 DEF BaseInv, WritableInv
  <2>2. \A i \in 1 .. m : i \in 1 .. (m + 1) /\ i < m + 1 /\ t.symbols[i] = s.symbols[i]
    BY <1>1, <1>6, <1>9 DEF Extends
  <2>3. m + 1 \in 1 .. (m + 1) /\ t.symbols[m + 1].of = "writable" /\ Len(t.symbols) = m + 1
    BY <1>1, <1>4, <1>6, <1>9
  <2>4. t.appended.some => ~WritableFirstIn(t)
    BY ZenonT(30), <2>1, <2>2, <2>3 DEF WritableFirstIn
  <2>5. t.appended.some => \E i \in 1 .. Len(t.symbols) : t.symbols[i].of = "code"
    BY <2>1, <2>2, <2>3
  <2> QED
    BY <2>4, <2>5 DEF WritableInv
<1>13. ChainInv(t)
  <2>1. \A k \in (Len(s.appended.items) + 1) .. Len(t.appended.items) : FALSE
    BY <1>1, <1>9
  <2>2. Extends(s.appended.items, t.appended.items) /\ Extends(s.symbols, t.symbols)
    BY <1>1, <1>6, <1>9 DEF Extends
  <2> QED
    BY <2>1, <2>2, <1>1, <1>9, ChainKept
<1> QED
  BY <1>9, <1>11, <1>12, <1>13 DEF StateInv, BaseInv

-----------------------------------------------------------------------------
(* A reservation's place.                                                  *)

LEMMA RequestFacts ==
  ASSUME NEW req \in Reservations, req.align # 0
  PROVE  req.align \in Nat \ {0} /\ needed(req) \in Nat /\ needed(req) > 0
<1>1. req \in ReserveRequest /\ req.min_bytes > 0
  BY SessionAssumption
<1>2. req.align \in Nat /\ req.min_bytes \in Nat /\ req.headroom \in Nat
  BY <1>1, Constants DEF ReserveRequest, U64
<1> QED
  BY <1>1, <1>2, Constants DEF needed

LEMMA CandidateBase ==
  ASSUME NEW req \in Reservations, req.align # 0, NEW e \in Candidates(req)
  PROVE  /\ BaseIn(e, req.align) \in Nat /\ Usable(e, req) \in Int /\ e.source \in Source
         /\ TextBase <= BaseIn(e, req.align) /\ BaseIn(e, req.align) < TextEnd
<1>1. PICK r \in ToSet(FreeRegions) :
        e.address = r.vaddr /\ e.len = r.size /\ e.source \in Source
  <2> DEFINE top == Max({r.vaddr : r \in ToSet(FreeRegions)})
  <2>1. e \in macho_text_free_extents
    BY DEF Candidates
  <2>2. \E r \in ToSet(FreeRegions) :
          e = [address |-> r.vaddr, file_offset |-> r.vaddr, len |-> r.size,
               source |-> IF r.vaddr = top THEN "TailPad" ELSE "InterSectionHole"]
    BY <2>1 DEF macho_text_free_extents
  <2> HIDE DEF top
  <2> QED
    BY <2>2 DEF Source
<1>2. PICK k \in DOMAIN FreeRegions : r = FreeRegions[k]
  BY <1>1 DEF ToSet
<1>3. FreeRegions[k] \in Spot
  BY SessionAssumption
<1>4. r.vaddr \in Nat /\ r.size \in Nat
  BY <1>2, <1>3, Constants DEF Spot, U64
<1>5. TextBase <= r.vaddr /\ r.vaddr + r.size <= TextEnd
  BY <1>2, SessionAssumption
<1> DEFINE x == round_up(r.vaddr, req.align)
<1>6. x \in Nat /\ r.vaddr <= x
  BY <1>4, RequestFacts, RoundUp
<1>7. BaseIn(e, req.align) = x /\ Usable(e, req) = r.size - (x - r.vaddr)
  BY <1>1 DEF BaseIn, Usable
<1>8. Usable(e, req) >= needed(req)
  BY DEF Candidates
<1> HIDE DEF x
<1>9. needed(req) \in Nat /\ needed(req) > 0
  BY RequestFacts
<1>10. r.size - (x - r.vaddr) \in Int /\ r.size - (x - r.vaddr) >= needed(req)
  BY <1>4, <1>6, <1>7, <1>8
<1> QED
  BY <1>1, <1>4, <1>5, <1>6, <1>7, <1>9, <1>10, Constants

Reserved(s, g, a) == [s EXCEPT !.reserved = TRUE, !.region = g, !.appended = a]

ReservedGrow(s, d, g, a) ==
  [s EXCEPT !.reserved = TRUE, !.growing = TRUE, !.delta = d, !.region = g, !.appended = a]

LEMMA SetReserved ==
  ASSUME NEW s \in State, NEW g \in RegionRec, NEW a \in AppendedRec,
         NEW t, t = Reserved(s, g, a)
  PROVE  /\ t \in State /\ t.appended = a /\ t.region = g /\ t.symbols = s.symbols
         /\ t.section_overrides = s.section_overrides
         /\ t.appended_writable = s.appended_writable /\ (t.growing => s.growing)
<1>1. t \in State
  BY DEF State, Reserved
<1> QED
  BY <1>1 DEF State, Reserved

LEMMA SetReservedGrow ==
  ASSUME NEW s \in State, NEW d \in Nat, NEW g \in RegionRec, NEW a \in AppendedRec,
         NEW t, t = ReservedGrow(s, d, g, a)
  PROVE  /\ t \in State /\ t.appended = a /\ t.region = g /\ t.symbols = s.symbols
         /\ t.section_overrides = s.section_overrides
         /\ t.appended_writable = s.appended_writable /\ t.delta = d
<1>1. t \in State
  BY DEF State, ReservedGrow
<1> QED
  BY <1>1 DEF State, ReservedGrow

Growing(s, a) == [s EXCEPT !.growing = TRUE, !.appended = a]

LEMMA SetGrowing ==
  ASSUME NEW s \in State, NEW a \in AppendedRec, NEW t, t = Growing(s, a)
  PROVE  /\ t \in State /\ t.appended = a /\ t.symbols = s.symbols
         /\ t.section_overrides = s.section_overrides
         /\ t.appended_writable = s.appended_writable /\ (t.reserved => s.reserved)
<1>1. t \in State
  BY DEF State, Growing
<1> QED
  BY <1>1 DEF State, Growing

LEMMA RegionType ==
  ASSUME NEW base \in Nat, NEW n \in Int, NEW source \in Source
  PROVE  /\ NewRegion(base, base, n, source) \in RegionRec
         /\ NewRegion(base, base, n, source).base_address = base
BY DEF NewRegion, RegionRec

LEMMA ReserveInv ==
  ASSUME NEW s, StateInv(s), ~s.appended.some, format = "Macho", NEW base \in Nat,
         NEW n \in Int, NEW source \in Source, TextBase <= base, base < TextEnd,
         NEW t, t = Reserved(s, NewRegion(base, base, n, source), Appended(base))
  PROVE  StateInv(t)
<1> DEFINE g == NewRegion(base, base, n, source)
<1>1. s \in State /\ g \in RegionRec /\ g.base_address = base /\ Appended(base) \in AppendedRec
  BY RegionType, AppendedType DEF StateInv, BaseInv
<1>2. t = Reserved(s, g, Appended(base))
  OBVIOUS
<1> HIDE DEF g
<1>3. /\ t \in State /\ t.appended = Appended(base) /\ t.region = g /\ t.symbols = s.symbols
      /\ t.section_overrides = s.section_overrides
      /\ t.appended_writable = s.appended_writable /\ (t.growing => s.growing)
  BY <1>1, <1>2, SetReserved
<1>4. ~t.growing
  BY <1>3 DEF StateInv, BaseInv, PlaceInv
<1>5. BaseOK(base)
  BY DEF BaseOK
<1> QED
  BY <1>1, <1>3, <1>4, <1>5, FreshInv

LEMMA ReserveGrowInv ==
  ASSUME NEW s, StateInv(s), ~s.appended.some, format = "Macho", NEW d \in Nat \ {0},
         NEW t, t = ReservedGrow(s, d, NewRegion(GapBase, GapBase, d, "GrewText"),
                                 Appended(GapBase))
  PROVE  StateInv(t)
<1> DEFINE g == NewRegion(GapBase, GapBase, d, "GrewText")
<1>1. /\ s \in State /\ g \in RegionRec /\ g.base_address = GapBase
      /\ Appended(GapBase) \in AppendedRec /\ GapBase \in Nat
  <2>1. "GrewText" \in Source /\ d \in Int /\ GapBase \in Nat
    BY Constants DEF Source
  <2> QED
    BY <2>1, RegionType, AppendedType DEF StateInv, BaseInv
<1>2. t = ReservedGrow(s, d, g, Appended(GapBase))
  OBVIOUS
<1> HIDE DEF g
<1>3. /\ t \in State /\ t.appended = Appended(GapBase) /\ t.region = g
      /\ t.symbols = s.symbols /\ t.section_overrides = s.section_overrides
      /\ t.appended_writable = s.appended_writable /\ t.delta = d
  BY <1>1, <1>2, SetReservedGrow
<1>4. BaseOK(GapBase)
  BY Constants DEF BaseOK
<1> QED
  BY <1>1, <1>3, <1>4, FreshInv

-----------------------------------------------------------------------------
(* The calls keep the invariant.                                           *)

LEMMA CallerTypes ==
  /\ \A name \in Names : name \in Name
  /\ \A body \in Bodies : body \in Body
  /\ \A blob \in Blobs : blob \in [len : Nat, align : Nat \ {0}] /\ blob.len \in Nat
  /\ NoBody \in Body /\ WrapperBody \in Body
<1>1. NoBody \in Body /\ WrapperBody \in Body
  BY Constants DEF NoBody, WrapperBody, Body
<1>2. \A blob \in Blobs : blob \in [len : Nat, align : Nat \ {0}] /\ blob.len \in Nat
  BY SessionAssumption
<1> QED
  BY <1>1, <1>2, NameFacts, SessionAssumption

LEMMA ReserveStep ==
  ASSUME StateInv(b), reserve_text_region
  PROVE  StateInv(b')
<1>1. format = "Macho" /\ ~b.appended.some
  BY DEF reserve_text_region, MayReserve
<1>2. PICK req \in Reservations :
        req.align # 0 /\ (ReserveFromFreeSpace(req) \/ SetupGrowReservation(req))
  BY DEF reserve_text_region
<1>3. CASE ReserveFromFreeSpace(req)
  <2>1. PICK e \in Candidates(req) :
          LET base == BaseIn(e, req.align)
          IN  b' = Reserved(b, NewRegion(base, base, Usable(e, req), e.source), Appended(base))
    BY <1>3 DEF ReserveFromFreeSpace, Reserved
  <2> DEFINE base == BaseIn(e, req.align)
             n    == Usable(e, req)
  <2>2. /\ base \in Nat /\ n \in Int /\ e.source \in Source
        /\ TextBase <= base /\ base < TextEnd
    BY <1>2, CandidateBase
  <2>3. b' = Reserved(b, NewRegion(base, base, n, e.source), Appended(base))
    BY <2>1
  <2> HIDE DEF base, n
  <2> QED
    BY <1>1, <2>2, <2>3, ReserveInv
<1>4. CASE SetupGrowReservation(req)
  <2> DEFINE x == round_up(needed(req), PAGE)
             d == Max({x, PAGE})
  <2>1. b' = ReservedGrow(b, d, NewRegion(GapBase, GapBase, d, "GrewText"), Appended(GapBase))
    BY <1>4 DEF SetupGrowReservation, ReservedGrow
  <2>2. x \in Nat /\ PAGE \in Nat \ {0}
    BY <1>2, RequestFacts, Constants, RoundUp
  <2> HIDE DEF x
  <2>3. d \in Nat /\ d >= PAGE
    BY <2>2, MaxTwo
  <2> HIDE DEF d
  <2>4. d \in Nat \ {0}
    BY <2>2, <2>3
  <2> QED
    BY <1>1, <2>1, <2>4, ReserveGrowInv
<1> QED
  BY <1>2, <1>3, <1>4

LEMMA GrowStep ==
  ASSUME StateInv(b), reserve_text_grow
  PROVE  StateInv(b')
<1> DEFINE a == Appended(GapBase)
<1>1. format = "Macho" /\ ~b.appended.some /\ ~b.reserved
  BY DEF reserve_text_grow, MayReserve
<1>2. PICK t : t = b' /\ t = Growing(b, a)
  BY DEF reserve_text_grow, Growing
<1>3. b \in State /\ GapBase \in Nat /\ a \in AppendedRec
  BY Constants, AppendedType DEF StateInv, BaseInv
<1> HIDE DEF a
<1>4. /\ t \in State /\ t.appended = a /\ t.symbols = b.symbols
      /\ t.section_overrides = b.section_overrides
      /\ t.appended_writable = b.appended_writable /\ (t.reserved => b.reserved)
  BY <1>2, <1>3, SetGrowing
<1>5. BaseOK(GapBase)
  BY <1>1, Constants DEF BaseOK
<1>6. StateInv(t)
  BY <1>1, <1>3, <1>4, <1>5, FreshInv DEF a
<1> QED
  BY <1>2, <1>6

LEMMA AddFunctionStep ==
  ASSUME StateInv(b), format \in {"Elf", "Macho"}, AddFunction
  PROVE  StateInv(b')
<1>1. PICK name \in Names, body \in Bodies, planned \in BOOLEAN :
        b' = add_function(b, name, body, planned, <<>>).state
  BY DEF AddFunction
<1> DEFINE r == add_function(b, name, body, planned, <<>>)
<1>2. name \in Name /\ body \in Body /\ <<>> \in Seq(Nat) /\ BaseInv(b)
  BY CallerTypes DEF StateInv
<1>3. Answer(b, r, <<>>)
  BY <1>2, AddFunctionAnswer
<1> HIDE DEF r
<1>4. StateInv(r.state)
  BY <1>3, AnswerInv
<1> QED
  BY <1>1, <1>4 DEF r

LEMMA AddDataStep ==
  ASSUME StateInv(b), format \in {"Elf", "Macho"}, AddData
  PROVE  StateInv(b')
<1>1. PICK name \in Names, blob \in Blobs : b' = add_data(b, name, blob).state
  BY DEF AddData
<1> DEFINE r == add_data(b, name, blob)
<1>2. name \in Name /\ blob \in [len : Nat, align : Nat \ {0}] /\ BaseInv(b)
  BY CallerTypes DEF StateInv
<1>3. Answer(b, r, <<>>)
  BY <1>2, AddDataAnswer
<1> HIDE DEF r
<1>4. StateInv(r.state)
  BY <1>3, AnswerInv
<1> QED
  BY <1>1, <1>4 DEF r

LEMMA AddWritableDataStep ==
  ASSUME StateInv(b), AddWritableData
  PROVE  StateInv(b')
<1>1. PICK name \in Names, blob \in Blobs : b' = add_writable_data(b, name, blob)
  BY DEF AddWritableData
<1>2. name \in Name /\ blob \in [len : Nat, align : Nat \ {0}] /\ format = "Elf"
  BY CallerTypes DEF AddWritableData
<1> QED
  BY <1>1, <1>2, WritableDataInv

LEMMA AddFunctionInStep ==
  ASSUME StateInv(b), format \in {"Elf", "Macho"}, AddFunctionIn
  PROVE  StateInv(b')
<1>1. PICK name \in Names, body \in Bodies :
        b' = place_in_region(b, name, "Function", body,
               EmittedLen(body, next_address_in(b, 4), b.symbols), 4).state
  BY DEF AddFunctionIn
<1> DEFINE n == EmittedLen(body, next_address_in(b, 4), b.symbols)
           r == place_in_region(b, name, "Function", body, n, 4)
<1>2. /\ name \in Name /\ body \in Body /\ BaseInv(b) /\ ~(~b.reserved)
      /\ 4 \in Nat \ {0} /\ "Function" \in {"Function", "Data", "RawCode"}
  BY CallerTypes DEF StateInv, AddFunctionIn
<1>3. n \in Nat
  <2>1. b.region.base_address + b.region.cursor \in Nat
    BY <1>2, StateFacts DEF BaseInv
  <2>2. next_address_in(b, 4) \in Nat
    BY <1>2, <2>1, RoundUp DEF next_address_in
  <2> QED
    BY <1>2, <2>2, EmittedLenType
<1> HIDE DEF n
<1>4. Answer(b, r, <<>>)
  BY <1>2, <1>3, CarveAnswer
<1>5. b' = r.state
  BY <1>1 DEF n
<1> HIDE DEF r
<1> QED
  BY <1>4, <1>5, AnswerInv

LEMMA PlaceRawInStep ==
  ASSUME StateInv(b), format \in {"Elf", "Macho"}, PlaceRawIn
  PROVE  StateInv(b')
<1>1. PICK name \in Names, blob \in Blobs, kind \in {"Data", "RawCode"} :
        b' = place_in_region(b, name, kind, NoBody, blob.len, blob.align).state
  BY DEF PlaceRawIn
<1> DEFINE r == place_in_region(b, name, kind, NoBody, blob.len, blob.align)
<1>2. /\ name \in Name /\ NoBody \in Body /\ BaseInv(b) /\ ~(~b.reserved)
      /\ kind \in {"Function", "Data", "RawCode"}
  BY CallerTypes DEF StateInv, PlaceRawIn
<1>3. blob.len \in Nat /\ blob.align \in Nat \ {0}
  <2>1. blob \in [len : Nat, align : Nat \ {0}]
    BY CallerTypes
  <2> QED
    BY <2>1
<1>4. Answer(b, r, <<>>)
  BY <1>2, <1>3, CarveAnswer
<1>5. b' = r.state
  BY <1>1
<1> HIDE DEF r
<1> QED
  BY <1>4, <1>5, AnswerInv

LEMMA SetForce ==
  ASSUME NEW s \in State, NEW t, t = [s EXCEPT !.force_segment_placement = TRUE]
  PROVE  /\ t \in State /\ t.appended = s.appended /\ t.symbols = s.symbols
         /\ t.region = s.region /\ Apart(s, t)
<1>1. t \in State
  BY DEF State
<1> QED
  BY <1>1 DEF State, Apart

LEMMA AddFunctionExportedStep ==
  ASSUME StateInv(b), format \in {"Elf", "Macho"}, add_function_exported
  PROVE  StateInv(b')
<1> DEFINE s == [b EXCEPT !.force_segment_placement = TRUE]
<1>1. PICK name \in Names, body \in Bodies :
        \E r \in {add_function(s, name, body, FALSE, <<>>)} :
          b' = IF r.ok THEN Exported(r.state) ELSE r.state
  BY DEF add_function_exported, Exported
<1>2. /\ s \in State /\ s.appended = b.appended /\ s.symbols = b.symbols
      /\ s.region = b.region /\ Apart(b, s)
  BY SetForce DEF StateInv, BaseInv
<1> HIDE DEF s
<1>3. StateInv(s)
  BY <1>2, SameInv
<1> DEFINE r == add_function(s, name, body, FALSE, <<>>)
<1>4. name \in Name /\ body \in Body /\ <<>> \in Seq(Nat) /\ BaseInv(s) /\ FALSE \in BOOLEAN
  BY <1>3, CallerTypes DEF StateInv
<1>5. Answer(s, r, <<>>)
  BY <1>4, AddFunctionAnswer
<1>6. b' = IF r.ok THEN Exported(r.state) ELSE r.state
  BY <1>1
<1> HIDE DEF r
<1>7. StateInv(r.state)
  BY <1>3, <1>5, AnswerInv
<1>8. CASE r.ok
  <2>1. ~(~r.state.appended.some)
    BY <1>5, <1>8 DEF Answer
  <2>2. PICK u : u = r.state
    OBVIOUS
  <2> QED
    BY <1>6, <1>7, <1>8, <2>1, ExportInv
<1>9. CASE ~r.ok
  BY <1>6, <1>7, <1>9
<1> QED
  BY <1>8, <1>9

LEMMA HijackStep ==
  ASSUME StateInv(b), format \in {"Elf", "Macho"}, HijackInitialiser
  PROVE  StateInv(b')
<1>1. PICK name \in Names, body \in Bodies, ctor \in original_ctor :
        \E r1 \in {add_function(b, name \o <<"body">>, body, FALSE, <<>>)} :
        \E r2 \in {add_function(r1.state, name \o <<"wrapper">>, WrapperBody, FALSE,
                                <<Len(r1.state.symbols), ctor>>)} :
          b' = IF ~r1.ok THEN r1.state
               ELSE IF ~r2.ok THEN r2.state ELSE Staged(r2.state)
  BY DEF HijackInitialiser, Staged
<1> DEFINE r1 == add_function(b, name \o <<"body">>, body, FALSE, <<>>)
           c  == <<Len(r1.state.symbols), ctor>>
           r2 == add_function(r1.state, name \o <<"wrapper">>, WrapperBody, FALSE, c)
<1>2. b' = IF ~r1.ok THEN r1.state ELSE IF ~r2.ok THEN r2.state ELSE Staged(r2.state)
  BY <1>1
<1>3. /\ name \o <<"body">> \in Name /\ name \o <<"wrapper">> \in Name /\ body \in Body
      /\ WrapperBody \in Body /\ <<>> \in Seq(Nat) /\ BaseInv(b) /\ FALSE \in BOOLEAN
  BY CallerTypes, NameFacts DEF StateInv
<1>4. Answer(b, r1, <<>>)
  BY <1>3, AddFunctionAnswer
<1> HIDE DEF r1
<1>5. StateInv(r1.state) /\ BaseInv(r1.state) /\ r1.state \in State
  BY <1>4, AnswerInv DEF StateInv, BaseInv
<1>6. /\ b \in State /\ Len(b.symbols) \in Nat /\ Len(r1.state.symbols) \in Nat
      /\ DOMAIN b.symbols = 1 .. Len(b.symbols)
      /\ b.section_overrides \in Seq(Nat)
  BY <1>5, StateFacts DEF StateInv, BaseInv
<1>7. ctor \in 1 .. Len(b.symbols) /\ b.symbols[ctor].address = effective_slot
  BY <1>6 DEF original_ctor
<1>8. ctor \in 1 .. Len(r1.state.symbols) /\ r1.state.symbols[ctor] = b.symbols[ctor]
  <2>1. Extends(b.symbols, r1.state.symbols)
    BY <1>4 DEF Answer
  <2> QED
    BY <1>6, <1>7, <2>1 DEF Extends
<1>9. c \in Seq(Nat) /\ c # <<>> /\ c[2] = ctor
  BY <1>6, <1>8
<1> HIDE DEF c
<1>10. Answer(r1.state, r2, c)
  BY <1>3, <1>5, <1>9, AddFunctionAnswer
<1> HIDE DEF r2
<1>11. CASE ~r1.ok
  BY <1>2, <1>5, <1>11
<1>12. CASE r1.ok /\ ~r2.ok
  <2>1. StateInv(r2.state)
    BY <1>5, <1>10, <1>12, FailedInv
  <2> QED
    BY <1>2, <1>12, <2>1
<1>13. CASE r1.ok /\ r2.ok
  <2>1. b' = Staged(r2.state)
    BY <1>2, <1>13
  <2>2. r1.state.section_overrides = b.section_overrides
    BY <1>4 DEF Answer, Apart
  <2>3. format = "Elf" =>
          r1.state.symbols[c[2]].address =
            IF r1.state.section_overrides # <<>> THEN Last(r1.state.section_overrides)
            ELSE CtorAddr
    BY <1>7, <1>8, <1>9, <2>2 DEF effective_slot
  <2>4. ~(~r2.ok) /\ c[2] \in 1 .. Len(r1.state.symbols)
    BY <1>8, <1>9, <1>13
  <2> QED
    BY <1>5, <1>9, <1>10, <2>1, <2>3, <2>4, WrapperInv
<1> QED
  BY <1>11, <1>12, <1>13

Slotted(s) == [s EXCEPT !.init_slots = Append(@, Last(s.symbols).address)]

LEMMA SlotInv ==
  ASSUME NEW s, StateInv(s), NEW t, t = Slotted(s)
  PROVE  StateInv(t)
<1> DEFINE v == Last(s.symbols).address
           y == Append(s.init_slots, v)
<1>1. /\ s \in State /\ s.init_slots \in Seq(Nat) /\ s.symbols \in Seq(SymbolRec)
      /\ Len(s.symbols) \in 1 .. Len(s.symbols)
  <2>1. s \in State /\ Len(s.symbols) \in Nat /\ Len(s.symbols) >= 1
    BY StateFacts DEF StateInv, BaseInv, SymbolsInv
  <2> QED
    BY <2>1, StateFacts
<1>2. v \in Nat
  BY <1>1, SymbolFacts DEF Last
<1> HIDE DEF v
<1>3. y \in Seq(Nat)
  BY <1>1, <1>2
<1>4. t = [s EXCEPT !.init_slots = y]
  BY <1>1 DEF State, Slotted, v
<1> HIDE DEF y
<1>5. t \in State
  BY <1>1, <1>3, <1>4 DEF State
<1>6. t.appended = s.appended /\ t.symbols = s.symbols /\ t.region = s.region /\ Apart(s, t)
  BY <1>1, <1>4, <1>5 DEF State, Apart
<1> QED
  BY <1>5, <1>6, SameInv

LEMMA AppendInitialiserStep ==
  ASSUME StateInv(b), format \in {"Elf", "Macho"}, AppendInitialiser
  PROVE  StateInv(b')
<1>1. PICK name \in Names, body \in Bodies :
        \E r \in {add_function(b, name \o <<"body">>, body, FALSE, <<>>)} :
          b' = IF r.ok THEN Slotted(r.state) ELSE r.state
  BY DEF AppendInitialiser, Slotted
<1> DEFINE r == add_function(b, name \o <<"body">>, body, FALSE, <<>>)
<1>2. b' = IF r.ok THEN Slotted(r.state) ELSE r.state
  BY <1>1
<1>3. /\ name \o <<"body">> \in Name /\ body \in Body /\ <<>> \in Seq(Nat) /\ BaseInv(b)
      /\ FALSE \in BOOLEAN
  BY CallerTypes, NameFacts DEF StateInv
<1>4. Answer(b, r, <<>>)
  BY <1>3, AddFunctionAnswer
<1> HIDE DEF r
<1>5. StateInv(r.state)
  BY <1>4, AnswerInv
<1>6. StateInv(Slotted(r.state))
  BY <1>5, SlotInv
<1> QED
  BY <1>2, <1>5, <1>6

Dependent(s, n) == [s EXCEPT !.deps = n, !.force_segment_placement = TRUE]

LEMMA DependencyInv ==
  ASSUME NEW s, StateInv(s), NEW n \in Nat, NEW t, t = Dependent(s, n)
  PROVE  StateInv(t)
<1>1. s \in State
  BY DEF StateInv, BaseInv
<1>2. t \in State
  BY <1>1 DEF State, Dependent
<1>3. t.appended = s.appended /\ t.symbols = s.symbols /\ t.region = s.region /\ Apart(s, t)
  BY <1>1, <1>2 DEF State, Apart, Dependent
<1> QED
  BY <1>2, <1>3, SameInv

LEMMA DependencyStep ==
  ASSUME StateInv(b), add_library_dependency
  PROVE  StateInv(b')
<1> DEFINE n == b.deps + 1
<1>1. n \in Nat
  BY StateFacts DEF StateInv, BaseInv
<1>2. b' = Dependent(b, n)
  BY DEF add_library_dependency, Dependent
<1> HIDE DEF n
<1> QED
  BY <1>1, <1>2, DependencyInv

LEMMA PaddingInv ==
  ASSUME NEW s, StateInv(s), NEW p \in [vaddr : Nat, len : Nat],
         NEW t, t = [s EXCEPT !.padding = Append(@, p)]
  PROVE  StateInv(t)
<1> DEFINE y == Append(s.padding, p)
<1>1. s \in State /\ s.padding \in Seq([vaddr : Nat, len : Nat])
  BY DEF StateInv, BaseInv, State
<1>2. y \in Seq([vaddr : Nat, len : Nat])
  BY <1>1
<1>3. t = [s EXCEPT !.padding = y]
  BY <1>1 DEF State
<1> HIDE DEF y
<1>4. t \in State
  BY <1>1, <1>2, <1>3 DEF State
<1>5. t.appended = s.appended /\ t.symbols = s.symbols /\ t.region = s.region /\ Apart(s, t)
  BY <1>1, <1>3, <1>4 DEF State, Apart
<1> QED
  BY <1>4, <1>5, SameInv

LEMMA PaddingStep ==
  ASSUME StateInv(b), append_macho_segment_padding
  PROVE  StateInv(b')
<1>1. PICK blob \in Blobs, r \in ToSet(PaddingRegions) :
        b' = [b EXCEPT !.padding = Append(@, [vaddr |-> r.vaddr, len |-> blob.len])]
  BY DEF append_macho_segment_padding
<1>2. PICK k \in DOMAIN PaddingRegions : r = PaddingRegions[k]
  BY DEF ToSet
<1>3. r \in Spot
  BY <1>2, SessionAssumption
<1>4. r.vaddr \in Nat /\ blob.len \in Nat
  BY <1>3, Constants, CallerTypes DEF Spot, U64
<1> DEFINE p == [vaddr |-> r.vaddr, len |-> blob.len]
<1>5. p \in [vaddr : Nat, len : Nat] /\ b' = [b EXCEPT !.padding = Append(@, p)]
  BY <1>1, <1>4
<1> HIDE DEF p
<1> QED
  BY <1>5, PaddingInv

LEMMA ProhibitInv ==
  ASSUME NEW s, StateInv(s), NEW t, t = [s EXCEPT !.no_new_segments = TRUE]
  PROVE  StateInv(t)
<1>1. s \in State
  BY DEF StateInv, BaseInv
<1>2. t \in State
  BY <1>1 DEF State
<1>3. t.appended = s.appended /\ t.symbols = s.symbols /\ t.region = s.region /\ Apart(s, t)
  BY <1>1, <1>2 DEF State, Apart
<1> QED
  BY <1>2, <1>3, SameInv

\* A session starts with the input's only symbol and nothing else.
LEMMA StartInv ==
  ASSUME NEW strict \in Stricts
  PROVE  StateInv(BinaryState(strict))
<1> DEFINE s == BinaryState(strict)
           y == << [name |-> <<"ctor">>, address |-> CtorAddr,
                    kind |-> "Function", of |-> "input"] >>
<1>1. y \in Seq(SymbolRec) /\ Len(y) = 1
  <2>1. [name |-> <<"ctor">>, address |-> CtorAddr, kind |-> "Function", of |-> "input"]
          \in SymbolRec
    BY Constants, NameFacts DEF SymbolRec
  <2> QED
    BY <2>1
<1>2. /\ NoAppended \in AppendedRec /\ NoAppended.items = <<>> /\ NoAppended.exports = <<>>
      /\ NoAppended.bytes = <<>> /\ NoAppended.segment_vaddr = 0 /\ ~NoAppended.some
  <2>1. <<>> \in Seq(Nat) /\ <<>> \in Seq(ItemRec) /\ <<>> \in Seq(ExportRec)
    OBVIOUS
  <2> QED
    BY <2>1 DEF NoAppended, Appended, AppendedRec
<1>3. NoWritable \in WritableRec /\ ~NoWritable.some
  BY DEF NoWritable, WritableRec
<1>4. NewRegion(0, 0, 0, "TailPad") \in RegionRec
  <2>1. "TailPad" \in Source
    BY DEF Source
  <2> QED
    BY <2>1, RegionType
<1>5. /\ s.appended = NoAppended /\ s.appended_writable = NoWritable /\ ~s.reserved
      /\ ~s.growing /\ s.section_overrides = <<>> /\ s.symbols = y
  BY DEF BinaryState
<1>6. s \in State
  <2>1. /\ <<>> \in Seq(Nat) /\ <<>> \in Seq([vaddr : Nat, len : Nat]) /\ strict \in BOOLEAN
    BY SessionAssumption
  <2> HIDE DEF y
  <2>2. s = [appended |-> NoAppended, appended_writable |-> NoWritable,
             reserved |-> FALSE, region |-> NewRegion(0, 0, 0, "TailPad"),
             growing |-> FALSE, delta |-> 0,
             section_overrides |-> <<>>, init_slots |-> <<>>, deps |-> 0, padding |-> <<>>,
             force_segment_placement |-> FALSE, no_new_segments |-> strict,
             symbols |-> y]
    BY DEF BinaryState, y
  <2> HIDE DEF s
  <2> QED
    BY <1>1, <1>2, <1>3, <1>4, <2>1, <2>2 DEF State
<1> HIDE DEF s, y
<1>7. BufferInv(s) /\ PlaceInv(s)
  BY <1>2, <1>5 DEF BufferInv, PlaceInv
<1>8. SymbolsInv(s) /\ BytesInv(s)
  <2>1. Len(s.appended.items) = 0 /\ Len(s.appended.exports) = 0
    BY <1>2, <1>5
  <2>2. /\ \A k \in 1 .. Len(s.appended.items) : FALSE
        /\ \A k \in 1 .. Len(s.appended.exports) : FALSE
    BY <2>1
  <2>3. SymbolsInv(s)
    <3>1. s.symbols = y /\ Len(y) >= 1
      <4>1. s.symbols = y
        BY <1>5
      <4>2. Len(y) = 1
        BY <1>1
      <4> QED
        BY <4>1, <4>2
    <3> QED
      BY <2>2, <3>1 DEF SymbolsInv
  <2> QED
    BY <2>2, <2>3 DEF BytesInv
<1>9. WritableInv(s)
  BY <1>2, <1>3, <1>5 DEF WritableInv
<1>10. ChainInv(s)
  <2>1. Wrappers(s) = {}
    BY <1>2, <1>5 DEF Wrappers
  <2> QED
    BY <2>1, <1>5 DEF ChainInv
<1>11. StateInv(s)
  BY <1>6, <1>7, <1>8, <1>9, <1>10 DEF StateInv, BaseInv
<1> QED
  BY <1>11 DEF s

-----------------------------------------------------------------------------
(* The commit.                                                             *)

\* The payload a Mach-O append writer was given, and what it made of it.
MachoOutcome(a) ==
  LET r == BeforeWriting(a)
  IN  \/ IntraTextEligible(r.appended) /\ out = Written("intra_text", r)
      \/ /\ ~IntraTextEligible(r.appended)
         /\ OverlapsInput(r.appended)
         /\ out = Written("overlap", r)
      \/ ~IntraTextEligible(r.appended) /\ ~OverlapsInput(r.appended) /\ out = Written("segment", r)

ElfOutcome(a) ==
  out = Committed("elf", a, ElfSize(a), b.symbols, a.exports, b.deps, b.section_overrides)

\* What the output is once a commit has run: it is made from the state the
\* calls left, which the commit does not touch.
Outcome ==
  \/ out = CommitError
  \/ out = InPlace
  \/ b.growing /\ out = commit_grown(GrowBy)
  \/ /\ format = "Macho" /\ ~(b.growing /\ GrowBy # 0)
     /\ \E a \in AppendedAtCommit : ~(~a.some) /\ MachoOutcome(a)
  \/ /\ format = "Elf"
     /\ \E a \in AppendedAtCommit : ~(~a.some) /\ ElfOutcome(a)

OutInv ==
  \/ phase = "open" /\ out = NoOutput
  \/ phase = "done" /\ Outcome

\* The inductive invariant of a session.
SInv == format \in {"Elf", "Macho"} /\ StateInv(b) /\ OutInv

LEMMA StatePrime ==
  ASSUME StateInv(b'), UNCHANGED format
  PROVE  StateInv(b)'
BY DEF StateInv, BaseInv, BufferInv, PlaceInv, BaseOK, SymbolsInv, BytesInv, Holds, SameWay,
       WritableInv, WritableFirstIn, ChainInv, Wrappers, Slot

LEMMA OutcomePrime ==
  ASSUME UNCHANGED <<format, b, out>>, Outcome
  PROVE  Outcome'
<1>1. AppendedAtCommit' = AppendedAtCommit /\ GrowBy' = GrowBy
  BY DEF AppendedAtCommit, pick_append_vaddr, GrowBy
<1>2. InPlace' = InPlace /\ CommitError' = CommitError
  BY DEF InPlace, CommitError
<1>3. commit_grown(GrowBy)' = commit_grown(GrowBy)
  BY DEF commit_grown, GrowBy, RebaseFails, rebase, Carved, CommitError
<1>4. ASSUME NEW a, MachoOutcome(a) PROVE MachoOutcome(a)'
  BY <1>4 DEF MachoOutcome, BeforeWriting, NeedsRebase, IntraTextEligible,
              OverlapsInput, Written
<1>5. ASSUME NEW a, ElfOutcome(a) PROVE ElfOutcome(a)'
  BY <1>5 DEF ElfOutcome, ElfSize
<1>6. CASE out = CommitError \/ out = InPlace
  BY <1>2, <1>6 DEF Outcome
<1>7. CASE b.growing /\ out = commit_grown(GrowBy)
  <2>1. (b.growing /\ out = commit_grown(GrowBy))'
    BY <1>3, <1>7
  <2> QED
    BY <2>1 DEF Outcome
<1>8. CASE /\ format = "Macho" /\ ~(b.growing /\ GrowBy # 0)
           /\ \E a \in AppendedAtCommit : ~(~a.some) /\ MachoOutcome(a)
  <2>1. (\E a \in AppendedAtCommit : ~(~a.some) /\ MachoOutcome(a))'
    BY <1>1, <1>4, <1>8
  <2>2. (format = "Macho" /\ ~(b.growing /\ GrowBy # 0))'
    BY <1>1, <1>8
  <2> QED
    BY <2>1, <2>2 DEF Outcome
<1>9. CASE /\ format = "Elf"
           /\ \E a \in AppendedAtCommit : ~(~a.some) /\ ElfOutcome(a)
  <2>1. (\E a \in AppendedAtCommit : ~(~a.some) /\ ElfOutcome(a))'
    BY <1>1, <1>5, <1>9
  <2> QED
    BY <2>1, <1>9 DEF Outcome
<1> QED
  BY <1>6, <1>7, <1>8, <1>9 DEF Outcome

LEMMA InitInv == Init => SInv
<1> SUFFICES ASSUME Init PROVE SInv
  OBVIOUS
<1>1. format \in {"Elf", "Macho"}
  BY SessionAssumption DEF Init
<1>2. StateInv(b)
  BY StartInv DEF Init
<1> QED
  BY <1>1, <1>2 DEF Init, SInv, OutInv

LEMMA CallInv ==
  ASSUME SInv, Call, StateInv(b')
  PROVE  SInv'
<1>1. format' = format /\ phase' = phase /\ out' = out /\ phase = "open"
  BY DEF Call
<1>2. StateInv(b)'
  BY <1>1, StatePrime
<1>3. out = NoOutput
  BY <1>1 DEF SInv, OutInv
<1>4. OutInv'
  BY <1>1, <1>3 DEF OutInv, NoOutput
<1> QED
  BY <1>1, <1>2, <1>4 DEF SInv

LEMMA CommitInv ==
  ASSUME SInv, UNCHANGED <<format, b>>, phase' = "done", Outcome'
  PROVE  SInv'
<1>1. StateInv(b')
  BY DEF SInv
<1>2. StateInv(b)'
  BY <1>1, StatePrime
<1> QED
  BY <1>2 DEF SInv, OutInv

LEMMA GrownStep ==
  ASSUME SInv, CommitGrown
  PROVE  SInv'
<1>1. /\ b' = b /\ format' = format /\ phase' = "done" /\ b.growing
      /\ out' = commit_grown(GrowBy)
  BY DEF CommitGrown
<1>2. (b.growing /\ out = commit_grown(GrowBy))'
  BY <1>1 DEF commit_grown, GrowBy, RebaseFails, rebase, Carved, CommitError
<1> QED
  BY <1>1, <1>2, CommitInv DEF Outcome

LEMMA ErrorStep ==
  ASSUME SInv, UNCHANGED <<format, b>>, phase' = "done",
         out' = CommitError \/ out' = InPlace
  PROVE  SInv'
<1>1. (out = CommitError \/ out = InPlace)'
  BY DEF CommitError, InPlace
<1> QED
  BY <1>1, CommitInv DEF Outcome

LEMMA MachoStep ==
  ASSUME SInv, CommitMacho
  PROVE  SInv'
<1>1. /\ b' = b /\ format' = format /\ phase' = "done" /\ format = "Macho"
      /\ ~(b.growing /\ GrowBy # 0)
  BY DEF CommitMacho
<1>2. CASE out' = CommitError \/ out' = InPlace
  BY <1>1, <1>2, ErrorStep
<1>3. CASE ~(out' = CommitError \/ out' = InPlace)
  <2>1. PICK a \in AppendedAtCommit :
          \E r \in {BeforeWriting(a)} :
            /\ ~(~a.some)
            /\ out' = IF IntraTextEligible(r.appended) THEN Written("intra_text", r)
                      ELSE IF OverlapsInput(r.appended) THEN Written("overlap", r)
                      ELSE Written("segment", r)
    BY <1>3 DEF CommitMacho
  <2>2. /\ ~(~a.some)
        /\ LET r == BeforeWriting(a)
           IN  \/ IntraTextEligible(r.appended) /\ out' = Written("intra_text", r)
               \/ /\ ~IntraTextEligible(r.appended) /\ OverlapsInput(r.appended)
                  /\ out' = Written("overlap", r)
               \/ /\ ~IntraTextEligible(r.appended) /\ ~OverlapsInput(r.appended)
                  /\ out' = Written("segment", r)
    BY <2>1
  <2>3. MachoOutcome(a)'
    BY <1>1, <2>2 DEF MachoOutcome, BeforeWriting, NeedsRebase, IntraTextEligible,
                      OverlapsInput, Written
  <2>4. (AppendedAtCommit' = AppendedAtCommit) /\ (GrowBy' = GrowBy)
    BY <1>1 DEF AppendedAtCommit, pick_append_vaddr, GrowBy
  <2>5. (\E x \in AppendedAtCommit : ~(~x.some) /\ MachoOutcome(x))'
    BY <2>2, <2>3, <2>4
  <2>6. (format = "Macho" /\ ~(b.growing /\ GrowBy # 0))'
    BY <1>1, <2>4
  <2> QED
    BY <1>1, <2>5, <2>6, CommitInv DEF Outcome
<1> QED
  BY <1>2, <1>3

LEMMA ElfStep ==
  ASSUME SInv, CommitElf
  PROVE  SInv'
<1>1. b' = b /\ format' = format /\ phase' = "done" /\ format = "Elf"
  BY DEF CommitElf
<1>2. CASE out' = InPlace
  BY <1>1, <1>2, ErrorStep
<1>3. CASE out' # InPlace
  <2>1. PICK a \in AppendedAtCommit :
          /\ ~(~a.some)
          /\ out' = Committed("elf", a, ElfSize(a), b.symbols, a.exports, b.deps,
                              b.section_overrides)
    BY <1>3 DEF CommitElf
  <2>2. ElfOutcome(a)'
    BY <1>1, <2>1 DEF ElfOutcome, ElfSize
  <2>3. AppendedAtCommit' = AppendedAtCommit
    BY <1>1 DEF AppendedAtCommit, pick_append_vaddr
  <2>4. (\E x \in AppendedAtCommit : ~(~x.some) /\ ElfOutcome(x))'
    BY <2>1, <2>2, <2>3
  <2> QED
    BY <1>1, <2>4, CommitInv DEF Outcome
<1> QED
  BY <1>2, <1>3

LEMMA StutterInv ==
  ASSUME SInv, UNCHANGED vars
  PROVE  SInv'
<1>1. UNCHANGED <<format, b, out, phase>>
  BY DEF vars
<1>2. StateInv(b')
  BY <1>1 DEF SInv
<1>3. StateInv(b)'
  BY <1>1, <1>2, StatePrime
<1>4. OutInv'
  BY <1>1, OutcomePrime DEF SInv, OutInv, NoOutput
<1> QED
  BY <1>1, <1>3, <1>4 DEF SInv

LEMMA NextInv == SInv /\ [Next]_vars => SInv'
<1> SUFFICES ASSUME SInv, [Next]_vars PROVE SInv'
  OBVIOUS
<1>1. StateInv(b) /\ format \in {"Elf", "Macho"}
  BY DEF SInv
<1>2. CASE prohibit_new_segments
  BY <1>1, <1>2, ProhibitInv, CallInv DEF prohibit_new_segments
<1>3. CASE reserve_text_region
  BY <1>1, <1>3, ReserveStep, CallInv DEF reserve_text_region
<1>4. CASE reserve_text_grow
  BY <1>1, <1>4, GrowStep, CallInv DEF reserve_text_grow
<1>5. CASE AddFunction
  BY <1>1, <1>5, AddFunctionStep, CallInv DEF AddFunction
<1>6. CASE AddData
  BY <1>1, <1>6, AddDataStep, CallInv DEF AddData
<1>7. CASE AddWritableData
  BY <1>1, <1>7, AddWritableDataStep, CallInv DEF AddWritableData
<1>8. CASE AddFunctionIn
  BY <1>1, <1>8, AddFunctionInStep, CallInv DEF AddFunctionIn
<1>9. CASE PlaceRawIn
  BY <1>1, <1>9, PlaceRawInStep, CallInv DEF PlaceRawIn
<1>10. CASE add_function_exported
  BY <1>1, <1>10, AddFunctionExportedStep, CallInv DEF add_function_exported
<1>11. CASE HijackInitialiser
  BY <1>1, <1>11, HijackStep, CallInv DEF HijackInitialiser
<1>12. CASE AppendInitialiser
  BY <1>1, <1>12, AppendInitialiserStep, CallInv DEF AppendInitialiser
<1>13. CASE add_library_dependency
  BY <1>1, <1>13, DependencyStep, CallInv DEF add_library_dependency
<1>14. CASE append_macho_segment_padding
  BY <1>1, <1>14, PaddingStep, CallInv DEF append_macho_segment_padding
<1>15. CASE CommitGrown
  BY <1>15, GrownStep
<1>16. CASE CommitMacho
  BY <1>16, MachoStep
<1>17. CASE CommitElf
  BY <1>17, ElfStep
<1>18. CASE Finished \/ UNCHANGED vars
  BY <1>18, StutterInv DEF Finished
<1> QED
  BY <1>2, <1>3, <1>4, <1>5, <1>6, <1>7, <1>8, <1>9, <1>10, <1>11, <1>12, <1>13, <1>14,
     <1>15, <1>16, <1>17, <1>18 DEF Next

\* Whatever calls a caller makes and whatever the commit does with them, the
\* session's state and its output stay in order (editor.rs, BinaryState and
\* commit_to_bytes_with_sign): the append buffer, its items, their symbols and
\* the constructor chain agree, and the output is made from them.
THEOREM SpecSInv == Spec => []SInv
BY InitInv, NextInv, PTL DEF Spec

\* The buffer a commit writes is the session's, or a fresh one where the session
\* has none or has an empty grow that is dropped.
LEMMA CommitBuffer ==
  ASSUME SInv, NEW a \in AppendedAtCommit, ~(~a.some)
  PROVE  \/ a = b.appended /\ ~b.growing
         \/ /\ b.growing \/ ~b.appended.some
            /\ \E v \in Nat :
                 /\ a = Appended(v) /\ BaseOK(v)
                 /\ format = "Elf" =>
                      v >= b.appended_writable.segment_vaddr + b.appended_writable.len
<1> DEFINE c == IF b.growing THEN NoAppended ELSE b.appended
           s == [b EXCEPT !.appended = c]
<1>1. b \in State /\ b.appended \in AppendedRec /\ format \in {"Elf", "Macho"}
  BY StateFacts DEF SInv, StateInv, BaseInv
<1>2. NoAppended \in AppendedRec /\ ~NoAppended.some
  <2>1. <<>> \in Seq(Nat) /\ <<>> \in Seq(ItemRec) /\ <<>> \in Seq(ExportRec)
    OBVIOUS
  <2> QED
    BY <2>1 DEF NoAppended, Appended, AppendedRec
<1>3. c \in AppendedRec
  BY <1>1, <1>2
<1>4. CASE c.some
  <2>1. ~b.growing
    BY <1>2, <1>4
  <2>2. a = c
    BY <1>4 DEF AppendedAtCommit
  <2> QED
    BY <2>1, <2>2
<1>5. CASE ~c.some
  <2>1. a \in {c} \/ a \in {Appended(v) : v \in pick_append_vaddr(s)}
    BY DEF AppendedAtCommit
  <2>2. a # c
    BY <1>5
  <2>3. PICK v \in pick_append_vaddr(s) : a = Appended(v)
    BY <2>1, <2>2
  <2>4. b.growing \/ ~b.appended.some
    BY <1>5
  <2> HIDE DEF c
  <2>5. s \in State /\ s.appended_writable = b.appended_writable
    BY <1>1, <1>3, SetAppended DEF Apart
  <2> HIDE DEF s
  <2>6. /\ v \in Nat /\ BaseOK(v)
        /\ format = "Elf" => v >= s.appended_writable.segment_vaddr + s.appended_writable.len
    BY <1>1, <2>3, <2>5, PickBase
  <2> QED
    BY <2>3, <2>4, <2>5, <2>6
<1> QED
  BY <1>4, <1>5

\* The values of a function on 1 .. n have a bound: the least m for which those
\* up to m have none would be m = i + 1 with a bound up to i.
BoundedTo(f, m) == \E B \in Nat : \A k \in 1 .. m : f[k] <= B

LEMMA Bounded ==
  ASSUME NEW n \in Nat, NEW f \in [1 .. n -> Nat]
  PROVE  BoundedTo(f, n)
<1> DEFINE Bad == {m \in 0 .. n : ~BoundedTo(f, m)}
<1> SUFFICES ASSUME ~BoundedTo(f, n) PROVE FALSE
  OBVIOUS
<1>1. Bad \in SUBSET Nat /\ Bad # {}
  <2>1. n \in 0 .. n
    OBVIOUS
  <2> QED
    BY <2>1
<1>2. /\ \A y \in Bad : y \in Nat /\ y <= n /\ ~BoundedTo(f, y)
      /\ \A y \in 0 .. n : y \notin Bad => BoundedTo(f, y)
  OBVIOUS
<1> HIDE DEF Bad
<1>3. PICK m \in Bad : \A y \in Bad : ~ (<<y, m>> \in OpToRel(<, Nat))
  BY <1>1, NatLessThanWellFounded, WFMin
<1>4. m \in Nat /\ m <= n /\ ~BoundedTo(f, m)
  BY <1>2
<1>5. \A y \in Bad : ~(y < m)
  BY <1>2, <1>3, <1>4 DEF OpToRel
<1>6. m # 0
  <2>1. BoundedTo(f, 0)
    <3>1. 0 \in Nat /\ \A k \in 1 .. 0 : FALSE
      OBVIOUS
    <3> QED
      BY <3>1 DEF BoundedTo
  <2> QED
    BY <2>1, <1>4
<1>7. PICK i \in Nat : m = i + 1
  BY <1>4, <1>6
<1>8. i \in 0 .. n /\ i < m
  BY <1>4, <1>7
<1>9. BoundedTo(f, i)
  BY <1>2, <1>5, <1>8
<1>10. PICK B \in Nat : \A k \in 1 .. i : f[k] <= B
  BY <1>9 DEF BoundedTo
<1>11. \A k \in 1 .. m : f[k] \in Nat
  BY <1>4
<1>12. m \in 1 .. m /\ \A k \in 1 .. m : k = m \/ k \in 1 .. i
  BY <1>4, <1>7
<1> DEFINE C == B + f[m]
<1>13. C \in Nat /\ C >= B /\ C >= f[m]
  BY <1>11, <1>12
<1> HIDE DEF C
<1>14. \A k \in 1 .. m : f[k] <= C
  BY <1>10, <1>11, <1>12, <1>13
<1> QED
  BY <1>4, <1>13, <1>14 DEF BoundedTo

LEMMA LenAtType ==
  ASSUME NEW item \in ItemRec, NEW base \in Nat, NEW y
  PROVE  LenAt(item, base, y) \in Nat
<1>1. item.body \in Body /\ item.offset \in Nat /\ item.len \in Nat
  BY DEF ItemRec
<1>2. EmittedLen(item.body, base + item.offset, y) \in Nat
  BY <1>1, EmittedLenType
<1> QED
  BY <1>1, <1>2 DEF LenAt

\* A rebuilt buffer is one.
LEMMA RebuiltType ==
  ASSUME NEW a \in AppendedRec, NEW base \in Nat, NEW y
  PROVE  Len(Rebuilt(a, base, y)) \in Nat
<1> DEFINE End(k) == a.items[k].offset + LenAt(a.items[k], base, y)
           n == Len(a.items)
           f == [k \in 1 .. n |-> End(k)]
           S == {Len(a.bytes)} \cup {End(k) : k \in DOMAIN a.items}
           N == Max(S)
<1>1. a.items \in Seq(ItemRec) /\ a.bytes \in Seq(Nat)
  BY DEF AppendedRec
<1>2. n \in Nat /\ DOMAIN a.items = 1 .. n /\ Len(a.bytes) \in Nat
  BY <1>1
<1>3. \A k \in 1 .. n : End(k) \in Nat
  <2> TAKE k \in 1 .. n
  <2>1. a.items[k] \in ItemRec /\ a.items[k].offset \in Nat
    BY <1>1, ItemFacts
  <2>2. LenAt(a.items[k], base, y) \in Nat
    BY <2>1, LenAtType
  <2> QED
    BY <2>1, <2>2
<1>4. f \in [1 .. n -> Nat]
  BY <1>3
<1>5. PICK B \in Nat : \A k \in 1 .. n : f[k] <= B
  <2> HIDE DEF f
  <2> QED
    BY <1>2, <1>4, Bounded DEF BoundedTo
<1>6. S \in SUBSET (0 .. (Len(a.bytes) + B)) /\ S # {}
  <2>1. \A k \in 1 .. n : End(k) <= B
    BY <1>5
  <2> HIDE DEF End
  <2>2. \A k \in 1 .. n : End(k) \in 0 .. (Len(a.bytes) + B)
    BY <2>1, <1>2, <1>3
  <2> QED
    BY <2>2, <1>2
<1>7. N \in Nat
  <2>1. Len(a.bytes) + B \in Nat
    BY <1>2
  <2> HIDE DEF S
  <2> QED
    BY <1>6, <2>1, MaxBounded
<1>8. Rebuilt(a, base, y) =
        [i \in 1 .. N |->
           Max({0} \cup {k \in DOMAIN a.items : a.items[k].offset < i /\ i <= End(k)})]
  BY DEF Rebuilt
<1> HIDE DEF N, End
<1> QED
  BY <1>7, <1>8

\* On ELF every initialiser is reached from the constructor slot.
LEMMA ChainHolds == SInv => ElfInitialisersChain
<1> SUFFICES ASSUME SInv, format = "Elf", NEW k \in Wrappers(b)
             PROVE  b.symbols[b.appended.items[k].calls[2]].address =
                      Slot(b, {j \in Wrappers(b) : j < k})
  BY DEF ElfInitialisersChain, AllInitialisersRun
<1> QED
  BY DEF SInv, StateInv, ChainInv

\* What each way of committing writes.
LEMMA HowFacts ==
  /\ CommitError.how = "error" /\ NoOutput.how = "none" /\ InPlace.how = "in_place"
  /\ \A how, a, n, y, x, d, i :
       LET o == Committed(how, a, n, y, x, d, i)
       IN  /\ o.how = how /\ o.base = a.segment_vaddr /\ o.bytes = a.bytes /\ o.size = n
           /\ o.symbols = y /\ o.exports = x /\ o.deps = d /\ o.init = i
BY DEF CommitError, NoOutput, InPlace, Committed

\* The fields of a rebased payload.
LEMMA RebaseFields ==
  ASSUME NEW a \in AppendedRec, NEW base \in Nat, NEW y,
         NEW r, r = rebase(a, base, y)
  PROVE  /\ r.appended.segment_vaddr = base /\ r.appended.exports = a.exports
         /\ r.symbols = MovedSymbols(a, base, y)
         /\ r.appended.bytes = Rebuilt(a, base, r.symbols)
BY DEF rebase, AppendedRec

LEMMA ClearHolds == SInv => PayloadClearOfInput
<1> SUFFICES ASSUME SInv PROVE PayloadClearOfInput
  OBVIOUS
<1>1. CASE out.how \in {"error", "none", "in_place"}
  BY <1>1 DEF PayloadClearOfInput
<1>2. CASE b.growing /\ out = commit_grown(GrowBy)
  <2> DEFINE a == b.appended
             base == a.segment_vaddr
             shifted == [i \in DOMAIN b.symbols |->
                           IF b.symbols[i].address >= GapBase /\ i \notin Carved
                           THEN [b.symbols[i] EXCEPT !.address = @ + GrowBy]
                           ELSE b.symbols[i]]
             r == rebase(a, base, shifted)
  <2>1. a \in AppendedRec /\ base \in Nat /\ base = GapBase
    BY <1>2, StateFacts DEF SInv, StateInv, BaseInv, PlaceInv
  <2>2. \/ out = CommitError
        \/ /\ ~(Len(r.appended.bytes) > GrowBy)
           /\ out = Committed("grown", r.appended, Len(r.appended.bytes), r.symbols,
                              <<>>, 0, <<>>)
    BY <1>2 DEF commit_grown
  <2> HIDE DEF a, shifted
  <2>3. /\ r.appended.segment_vaddr = base
        /\ r.appended.bytes = Rebuilt(a, base, r.symbols)
    BY <2>1, RebaseFields
  <2> HIDE DEF r
  <2>4. Len(r.appended.bytes) \in Nat
    BY <2>1, <2>3, RebuiltType
  <2>5. GrowBy \in Nat
    <3>1. b.delta \in Nat /\ Len(b.appended.bytes) \in Nat /\ PAGE \in Nat \ {0}
      BY StateFacts, Constants DEF SInv, StateInv, BaseInv
    <3> QED
      BY <3>1, RoundUp DEF GrowBy
  <2>6. CASE out = CommitError
    BY <2>6, <1>1, HowFacts
  <2>7. CASE out # CommitError
    <3>1. out.how = "grown" /\ out.base = GapBase /\ out.size = Len(r.appended.bytes)
      BY <2>1, <2>2, <2>3, <2>7, HowFacts
    <3> QED
      BY <3>1, <2>2, <2>4, <2>5, <2>7 DEF PayloadClearOfInput
  <2> QED
    BY <2>6, <2>7
<1>3. ASSUME format = "Macho", NEW a \in AppendedAtCommit, ~(~a.some), MachoOutcome(a)
      PROVE  PayloadClearOfInput
  <2> DEFINE r == BeforeWriting(a)
             c == r.appended
  <2>1. a \in AppendedRec /\ a.segment_vaddr \in Nat /\ BaseOK(a.segment_vaddr)
    <3>1. CASE a = b.appended /\ ~b.growing
      BY <1>3, <3>1, StateFacts DEF SInv, StateInv, BaseInv, PlaceInv
    <3>2. CASE \E v \in Nat : a = Appended(v) /\ BaseOK(v)
      BY <3>2, AppendedType
    <3> QED
      BY <1>3, <3>1, <3>2, CommitBuffer
  <2>2. ~IntraTextEligible(c) => ~OverlapsInput(c)
    <3>1. CASE NeedsRebase(a)
      <4>1. r = rebase(a, SegmentBase, b.symbols)
        BY <3>1 DEF BeforeWriting
      <4>2. SegmentBase \in Nat /\ SegmentBase >= MaxVaddrEnd
        BY SegmentBaseAbove
      <4> HIDE DEF r
      <4>3. c.segment_vaddr = SegmentBase
        BY <2>1, <4>1, <4>2, RebaseFields
      <4> QED
        BY <4>2, <4>3, Constants DEF OverlapsInput
    <3>2. CASE ~NeedsRebase(a)
      <4>1. c = a
        BY <3>2 DEF BeforeWriting
      <4>2. IntraTextEligible(a) \/ ~BaseInText(a)
        BY <3>2 DEF NeedsRebase
      <4>3. ~BaseInText(a) => MaxVaddrEnd <= a.segment_vaddr
        BY <1>3, <2>1, Constants DEF BaseInText, BaseOK
      <4> QED
        BY <2>1, <4>1, <4>2, <4>3, Constants DEF OverlapsInput
    <3> QED
      BY <3>1, <3>2
  <2>3. \/ IntraTextEligible(c) /\ out = Written("intra_text", r)
        \/ out = Written("segment", r)
    BY <1>3, <2>2 DEF MachoOutcome
  <2>4. ASSUME NEW how, out = Written(how, r)
        PROVE  out.how = how /\ out.base = c.segment_vaddr /\ out.size = Len(c.bytes)
    BY <2>4, HowFacts DEF Written
  <2> HIDE DEF r
  <2>5. CASE IntraTextEligible(c) /\ out = Written("intra_text", r)
    <3>1. out.how = "intra_text" /\ out.base = c.segment_vaddr /\ out.size = Len(c.bytes)
      BY <2>4, <2>5
    <3>2. \E x \in ToSet(FreeRegions) :
            /\ c.segment_vaddr >= x.vaddr
            /\ c.segment_vaddr + Len(c.bytes) <= x.vaddr + x.size
      BY <2>5 DEF IntraTextEligible
    <3> QED
      BY <3>1, <3>2 DEF PayloadClearOfInput
  <2>6. CASE out = Written("segment", r)
    <3>1. out.how = "segment"
      BY <2>4, <2>6
    <3> QED
      BY <3>1 DEF PayloadClearOfInput
  <2> QED
    BY <2>3, <2>5, <2>6
<1>4. ASSUME format = "Elf", NEW a \in AppendedAtCommit, ~(~a.some), ElfOutcome(a)
      PROVE  PayloadClearOfInput
  <2>1. BaseOK(a.segment_vaddr)
    <3>1. CASE a = b.appended /\ ~b.growing
      BY <1>4, <3>1 DEF SInv, StateInv, BaseInv, PlaceInv
    <3>2. CASE \E v \in Nat : a = Appended(v) /\ BaseOK(v)
      BY <3>2, AppendedType
    <3> QED
      BY <1>4, <3>1, <3>2, CommitBuffer
  <2>2. out.how = "elf" /\ out.base = a.segment_vaddr
    BY <1>4, HowFacts DEF ElfOutcome
  <2> QED
    BY <1>4, <2>1, <2>2 DEF PayloadClearOfInput, BaseOK
<1>5. CASE out = NoOutput \/ out = CommitError \/ out = InPlace
  BY <1>1, <1>5, HowFacts
<1> QED
  BY <1>2, <1>3, <1>4, <1>5 DEF SInv, OutInv, Outcome

\* What a placed output is, case by case.
LEMMA PlacedCases ==
  ASSUME SInv, Placed
  PROVE  \/ b.growing /\ out = commit_grown(GrowBy) /\ out # CommitError
         \/ /\ format = "Macho" /\ ~(b.growing /\ GrowBy # 0)
            /\ \E a \in AppendedAtCommit : ~(~a.some) /\ MachoOutcome(a)
         \/ /\ format = "Elf"
            /\ \E a \in AppendedAtCommit : ~(~a.some) /\ ElfOutcome(a)
<1>1. out # CommitError /\ out # NoOutput /\ out # InPlace
  BY HowFacts DEF Placed
<1> QED
  BY <1>1 DEF SInv, OutInv, Outcome

LEMMA WritableHolds == SInv => WritableFirstDisjoint
<1> SUFFICES ASSUME SInv, Placed, b.appended_writable.some, WritableFirst
             PROVE  ~Overlap(out.base, out.size, b.appended_writable.segment_vaddr,
                             b.appended_writable.len)
  BY DEF WritableFirstDisjoint
<1> DEFINE w == b.appended_writable
<1>1. format = "Elf" /\ b \in State /\ ~b.growing
  BY DEF SInv, StateInv, BaseInv, WritableInv, PlaceInv
<1>2. PICK a \in AppendedAtCommit : ~(~a.some) /\ ElfOutcome(a)
  BY <1>1, PlacedCases
<1>3. out.base = a.segment_vaddr
  BY <1>2, HowFacts DEF ElfOutcome
<1>4. WritableFirstIn(b)
  BY <1>1, StateFacts DEF WritableFirst, WritableFirstIn
<1>5. a.segment_vaddr \in Nat /\ a.segment_vaddr >= w.segment_vaddr + w.len
  <2>1. CASE a = b.appended /\ ~b.growing
    BY <1>1, <1>2, <1>4, <2>1, StateFacts DEF SInv, StateInv, BaseInv, WritableInv
  <2>2. CASE \E v \in Nat : a = Appended(v) /\ v >= w.segment_vaddr + w.len
    BY <2>2, AppendedType
  <2> QED
    BY <1>1, <1>2, <2>1, <2>2, CommitBuffer
<1>6. w.segment_vaddr \in Nat /\ w.len \in Nat
  BY <1>1, StateFacts
<1> QED
  BY <1>3, <1>5, <1>6 DEF Overlap

-----------------------------------------------------------------------------
(* The bytes of the items.                                                 *)

\* A grow that turns out empty, and is dropped, had no bytes to lose.
LEMMA DroppedGrow ==
  ASSUME SInv, b.growing, GrowBy = 0, NEW k \in 1 .. Len(b.appended.items)
  PROVE  b.appended.items[k].offset = 0 /\ b.appended.items[k].len = 0
<1>1. /\ b \in State /\ b.delta \in Nat /\ Len(b.appended.bytes) \in Nat
      /\ b.appended.items \in Seq(ItemRec) /\ PAGE \in Nat \ {0}
  BY StateFacts, Constants DEF SInv, StateInv, BaseInv
<1>2. b.delta = 0
  BY <1>1 DEF GrowBy
<1>3. Len(b.appended.bytes) = 0
  BY <1>1, <1>2, RoundUpZero DEF GrowBy
<1>4. ~b.reserved
  BY <1>2 DEF SInv, StateInv, BaseInv, PlaceInv
<1>5. \A j \in 1 .. Len(b.appended.items) : ~b.appended.items[j].carved
  BY <1>4 DEF SInv, StateInv, BaseInv, BytesInv
<1>6. SameWay(b)
  <2>1. \A j \in 1 .. Len(b.appended.items) : b.appended.items[j].carved \in BOOLEAN
    BY <1>1, ItemFacts
  <2> QED
    BY <1>5, <2>1 DEF SameWay
<1>7. Holds(b.appended.bytes, b.appended.items[k], k)
  BY <1>6 DEF SInv, StateInv, BaseInv, BytesInv
<1> DEFINE it == b.appended.items[k]
<1>8. it.offset \in Nat /\ it.len \in Nat
  BY <1>1, ItemFacts
<1>9. it.offset + it.len <= 0
  BY <1>3, <1>7 DEF Holds
<1> HIDE DEF it
<1>10. it.offset = 0 /\ it.len = 0
  BY <1>8, <1>9
<1> QED
  BY <1>10 DEF it

\* A buffer that holds its items still does when it is rebuilt and none of them
\* grew: each byte is covered by the one item that owned it before.
LEMMA RebuiltHolds ==
  ASSUME NEW a \in AppendedRec, NEW base \in Nat, NEW y,
         \A k \in 1 .. Len(a.items) : Holds(a.bytes, a.items[k], k),
         \A k \in 1 .. Len(a.items) : LenAt(a.items[k], base, y) = a.items[k].len,
         NEW q, q = Rebuilt(a, base, y), NEW k \in 1 .. Len(a.items)
  PROVE  Holds(q, a.items[k], k)
<1> DEFINE End(j) == a.items[j].offset + LenAt(a.items[j], base, y)
           n == Len(a.items)
           L == Len(a.bytes)
           S == {L} \cup {End(j) : j \in DOMAIN a.items}
           C(i) == {0} \cup {j \in DOMAIN a.items : a.items[j].offset < i /\ i <= End(j)}
<1>1. a.items \in Seq(ItemRec) /\ a.bytes \in Seq(Nat)
  BY DEF AppendedRec
<1>2. n \in Nat /\ DOMAIN a.items = 1 .. n /\ L \in Nat
  BY <1>1
<1>3. ASSUME NEW j \in 1 .. n
      PROVE  /\ a.items[j].offset \in Nat /\ a.items[j].len \in Nat
             /\ End(j) = a.items[j].offset + a.items[j].len /\ End(j) \in Nat /\ End(j) <= L
  <2>1. a.items[j].offset \in Nat /\ a.items[j].len \in Nat
    BY <1>1, ItemFacts
  <2>2. End(j) = a.items[j].offset + a.items[j].len
    OBVIOUS
  <2>3. a.items[j].offset + a.items[j].len <= L
    BY DEF Holds
  <2> QED
    BY <2>1, <2>2, <2>3
<1>4. q = [i \in 1 .. Max(S) |-> Max(C(i))]
  BY DEF Rebuilt
<1> HIDE DEF End
<1>5. Max(S) = L
  <2>1. S \in SUBSET Int /\ L \in S /\ \A x \in S : L >= x
    BY <1>2, <1>3
  <2> HIDE DEF S
  <2> QED
    BY <2>1, MaxUnique
<1>6. Len(q) = L /\ \A i \in 1 .. L : q[i] = Max(C(i))
  <2> HIDE DEF S, C
  <2> QED
    BY <1>2, <1>4, <1>5
<1>7. ASSUME NEW i \in (a.items[k].offset + 1) .. End(k)
      PROVE  q[i] = k
  <2>1. i \in 1 .. L /\ a.items[k].offset < i /\ i <= End(k) /\ i \in Int
    BY <1>2, <1>3
  <2>2. \A j \in 1 .. n : a.items[j].offset < i /\ i <= End(j) => j = k
    <3> TAKE j \in 1 .. n
    <3> HAVE a.items[j].offset < i /\ i <= End(j)
    <3>1. i \in (a.items[j].offset + 1) .. (a.items[j].offset + a.items[j].len)
      BY <2>1, <1>3
    <3>2. i \in (a.items[k].offset + 1) .. (a.items[k].offset + a.items[k].len)
      BY <2>1, <1>3
    <3>3. a.bytes[i] = j
      BY <3>1 DEF Holds
    <3>4. a.bytes[i] = k
      BY <3>2 DEF Holds
    <3> QED
      BY <3>3, <3>4
  <2>3. C(i) = {0, k}
    BY <2>1, <2>2, <1>2
  <2>4. Max({0, k}) = k
    <3>1. {0, k} \in SUBSET Int /\ k \in {0, k} /\ \A x \in {0, k} : k >= x
      BY <1>2
    <3> QED
      BY <3>1, MaxUnique
  <2> HIDE DEF C
  <2> QED
    BY <2>1, <2>3, <2>4, <1>6
<1>8. a.items[k].offset + a.items[k].len <= Len(q)
  BY <1>3, <1>6
<1> QED
  BY <1>3, <1>7, <1>8 DEF Holds

\* The output of a Mach-O append: the payload as it was, or rebased.
LEMMA MachoFields ==
  ASSUME SInv, NEW a \in AppendedRec, MachoOutcome(a)
  PROVE  /\ out.exports = a.exports /\ out.init = b.section_overrides
         /\ \/ /\ NeedsRebase(a) /\ out.base = SegmentBase
               /\ out.symbols = MovedSymbols(a, SegmentBase, b.symbols)
               /\ out.bytes = Rebuilt(a, SegmentBase, out.symbols)
            \/ /\ ~NeedsRebase(a) /\ out.base = a.segment_vaddr
               /\ out.symbols = b.symbols /\ out.bytes = a.bytes
<1> DEFINE r == BeforeWriting(a)
<1>1. PICK how : out = Written(how, r)
  BY DEF MachoOutcome
<1>2. /\ out.base = r.appended.segment_vaddr /\ out.bytes = r.appended.bytes
      /\ out.symbols = r.symbols /\ out.exports = r.appended.exports
      /\ out.init = b.section_overrides
  <2> HIDE DEF r
  <2> QED
    BY <1>1, HowFacts DEF Written
<1>3. CASE NeedsRebase(a)
  <2>1. r = rebase(a, SegmentBase, b.symbols)
    BY <1>3 DEF BeforeWriting
  <2> HIDE DEF r
  <2>2. /\ r.appended.segment_vaddr = SegmentBase /\ r.appended.exports = a.exports
        /\ r.symbols = MovedSymbols(a, SegmentBase, b.symbols)
        /\ r.appended.bytes = Rebuilt(a, SegmentBase, r.symbols)
    BY <2>1, SegmentBaseAbove, RebaseFields
  <2> QED
    BY <1>2, <1>3, <2>2
<1>4. CASE ~NeedsRebase(a)
  <2>1. r.appended = a /\ r.symbols = b.symbols
    BY <1>4 DEF BeforeWriting
  <2> HIDE DEF r
  <2> QED
    BY <1>2, <1>4, <2>1
<1> QED
  BY <1>3, <1>4

\* The output of a grow.
Shifted(delta) ==
  [i \in DOMAIN b.symbols |->
     IF b.symbols[i].address >= GapBase /\ i \notin Carved
     THEN [b.symbols[i] EXCEPT !.address = @ + delta]
     ELSE b.symbols[i]]

LEMMA GrownFields ==
  ASSUME SInv, b.growing, out = commit_grown(GrowBy), out # CommitError
  PROVE  /\ out.exports = <<>> /\ out.init = <<>> /\ out.base = b.appended.segment_vaddr
         /\ out.symbols = MovedSymbols(b.appended, out.base, Shifted(GrowBy))
         /\ out.bytes = Rebuilt(b.appended, out.base, out.symbols)
<1> DEFINE a == b.appended
           base == a.segment_vaddr
           y == Shifted(GrowBy)
           r == rebase(a, base, y)
<1>1. a \in AppendedRec /\ base \in Nat
  BY StateFacts DEF SInv, StateInv, BaseInv
<1>2. out = Committed("grown", r.appended, Len(r.appended.bytes), r.symbols, <<>>, 0, <<>>)
  BY DEF commit_grown, Shifted
<1> HIDE DEF r
<1>3. /\ out.base = r.appended.segment_vaddr /\ out.bytes = r.appended.bytes
      /\ out.symbols = r.symbols /\ out.exports = <<>> /\ out.init = <<>>
  BY <1>2, HowFacts
<1> HIDE DEF a, y
<1>4. /\ r.appended.segment_vaddr = base
      /\ r.symbols = MovedSymbols(a, base, y)
      /\ r.appended.bytes = Rebuilt(a, base, r.symbols)
  BY <1>1, RebaseFields DEF r
<1> QED
  BY <1>3, <1>4 DEF a, y

LEMMA IntactIsHolds ==
  ASSUME NEW q, NEW k, Holds(q, b.appended.items[k], k)
  PROVE  Intact(q, k)
BY DEF Holds, Intact

LEMMA ItemsHold == SInv => ItemsIntact
<1> SUFFICES ASSUME SInv, Unmixed, NEW k \in DOMAIN b.appended.items
             PROVE  /\ Intact(b.appended.bytes, k)
                    /\ Placed /\ NothingGrew => Intact(out.bytes, k)
  BY DEF ItemsIntact
<1> DEFINE a == b.appended
           it == a.items[k]
<1>1. /\ b \in State /\ a \in AppendedRec /\ a.segment_vaddr \in Nat
      /\ a.items \in Seq(ItemRec) /\ DOMAIN a.items = 1 .. Len(a.items)
      /\ k \in 1 .. Len(a.items)
  BY StateFacts DEF SInv, StateInv, BaseInv
<1>2. SameWay(b)
  BY <1>1 DEF Unmixed, SameWay
<1>3. \A j \in 1 .. Len(a.items) : Holds(a.bytes, a.items[j], j)
  BY <1>2 DEF SInv, StateInv, BaseInv, BytesInv
<1>4. Intact(a.bytes, k)
  BY <1>1, <1>3, IntactIsHolds
<1>5. ~(~a.some)
  <2>1. Len(a.items) # 0
    BY <1>1
  <2> QED
    BY <2>1 DEF SInv, StateInv, BaseInv, BufferInv
<1>6. ASSUME Placed, NothingGrew PROVE Intact(out.bytes, k)
  <2>1. \A j \in 1 .. Len(a.items) :
          LenAt(a.items[j], out.base, out.symbols) = a.items[j].len
    BY <1>1, <1>6 DEF NothingGrew
  <2>2. ASSUME out.base \in Nat, out.bytes = Rebuilt(a, out.base, out.symbols)
        PROVE  Intact(out.bytes, k)
    <3>1. Holds(out.bytes, it, k)
      BY <1>1, <1>3, <2>1, <2>2, RebuiltHolds
    <3> QED
      BY <3>1, IntactIsHolds
  <2>3. CASE b.growing /\ out = commit_grown(GrowBy) /\ out # CommitError
    BY <1>1, <2>2, <2>3, GrownFields
  <2>4. ASSUME format = "Macho", ~(b.growing /\ GrowBy # 0),
               NEW c \in AppendedAtCommit, ~(~c.some), MachoOutcome(c)
        PROVE  Intact(out.bytes, k)
    <3>1. CASE c = a
      BY <3>1, <1>1, <1>4, <2>2, <2>4, MachoFields, SegmentBaseAbove
    <3>2. CASE c # a
      <4>1. b.growing /\ \E v \in Nat : c = Appended(v)
        BY <3>2, <2>4, <1>5, CommitBuffer
      <4>2. c \in AppendedRec /\ c.bytes = <<>>
        BY <4>1, AppendedType
      <4>3. it.offset = 0 /\ it.len = 0
        BY <4>1, <2>4, <1>1, DroppedGrow
      <4>4. Len(out.bytes) \in Nat
        <5>1. out.bytes = c.bytes \/ out.bytes = Rebuilt(c, SegmentBase, out.symbols)
          BY <2>4, <4>2, MachoFields
        <5> QED
          BY <5>1, <4>2, SegmentBaseAbove, RebuiltType
      <4>5. Holds(out.bytes, it, k)
        <5>1. 0 <= Len(out.bytes) /\ \A i \in 1 .. 0 : FALSE
          BY <4>4
        <5>2. it.offset + it.len = 0 /\ it.offset + 1 = 1
          BY <4>3
        <5> HIDE DEF it
        <5> QED
          BY <5>1, <5>2 DEF Holds
      <4> QED
        BY <4>5, IntactIsHolds
    <3> QED
      BY <3>1, <3>2
  <2>5. ASSUME format = "Elf", NEW c \in AppendedAtCommit, ~(~c.some), ElfOutcome(c)
        PROVE  Intact(out.bytes, k)
    <3>1. ~b.growing
      BY <2>5 DEF SInv, StateInv, BaseInv, PlaceInv
    <3>2. c = a
      BY <3>1, <2>5, <1>5, CommitBuffer
    <3>3. out.bytes = a.bytes
      BY <3>2, <2>5, HowFacts DEF ElfOutcome
    <3> QED
      BY <3>3, <1>4
  <2> QED
    BY <1>6, <2>3, <2>4, <2>5, PlacedCases
<1> QED
  BY <1>4, <1>6

-----------------------------------------------------------------------------
(* The addresses of the items.                                             *)

LEMMA Readdressed ==
  ASSUME NEW x \in SymbolRec, NEW m \in Nat, NEW n \in Nat,
         NEW z, z = [x EXCEPT !.address = @ - m + n]
  PROVE  z.address = x.address - m + n
BY DEF SymbolRec

\* A rebase finds the symbol of an item by its name and its old address.
LEMMA MovedHere ==
  ASSUME NEW a \in AppendedRec, NEW y \in Seq(SymbolRec), NEW i \in 1 .. Len(y),
         NEW base \in Nat, \A j \in 1 .. Len(y) : y[j].name = y[i].name => j = i,
         NEW k \in 1 .. Len(a.items), a.items[k].name = y[i].name,
         y[i].address = a.segment_vaddr + a.items[k].offset
  PROVE  MovedSymbols(a, base, y)[i].address = base + a.items[k].offset
<1>1. a.items \in Seq(ItemRec) /\ a.segment_vaddr \in Nat /\ Len(y) \in Nat
  BY DEF AppendedRec
<1>2. a.items[k].offset \in Nat /\ y[i] \in SymbolRec /\ DOMAIN a.items = 1 .. Len(a.items)
      /\ DOMAIN y = 1 .. Len(y) /\ Len(a.items) \in Nat
  BY <1>1, ItemFacts, SymbolFacts
<1>3. Homonyms(y, i) = {}
  <2>1. \A j \in 1 .. (i - 1) : j \in 1 .. Len(y) /\ j # i
    BY <1>1
  <2> QED
    BY <2>1 DEF Homonyms
<1>4. Cardinality(Homonyms(y, i)) = 0
  BY <1>3, FS_EmptySet
<1> DEFINE C == Claims(a, y[i])
<1>5. C \subseteq 1 .. Len(a.items) /\ k \in C
  BY <1>2 DEF Claims
<1> HIDE DEF C
<1>6. IsFiniteSet(C)
  <2>1. IsFiniteSet(1 .. Len(a.items))
    BY <1>2, FS_Interval
  <2> QED
    BY <1>5, <2>1, FS_Subset
<1>7. Cardinality(C) \in Nat /\ Cardinality(C) # 0
  <2>1. C # {}
    BY <1>5
  <2> QED
    BY <1>6, <2>1, FS_CardinalityType, FS_EmptySet
<1>8. MovedSymbols(a, base, y)[i] = [y[i] EXCEPT !.address = @ - a.segment_vaddr + base]
  <2>1. Cardinality(Homonyms(y, i)) < Cardinality(C)
    BY <1>4, <1>7
  <2> QED
    BY <1>2, <2>1 DEF MovedSymbols, C
<1>9. MovedSymbols(a, base, y)[i].address = y[i].address - a.segment_vaddr + base
  BY <1>1, <1>2, <1>8, Readdressed
<1> DEFINE o == a.items[k].offset
           m == a.segment_vaddr
<1>10. (m + o) - m + base = base + o
  <2>1. m \in Nat /\ o \in Nat
    BY <1>1, <1>2
  <2> HIDE DEF m, o
  <2> QED
    BY <2>1
<1> QED
  BY <1>9, <1>10

\* A payload emitted again where it is leaves every address alone.
LEMMA MovedNowhere ==
  ASSUME NEW a \in AppendedRec, NEW y, NEW i \in DOMAIN y, y[i] \in SymbolRec
  PROVE  MovedSymbols(a, a.segment_vaddr, y)[i].address = y[i].address
<1> DEFINE m == a.segment_vaddr
           z == MovedSymbols(a, m, y)[i]
<1> SUFFICES z.address = y[i].address
  OBVIOUS
<1>1. m \in Nat /\ y[i].address \in Nat
  BY DEF AppendedRec, SymbolRec
<1>2. z = [y[i] EXCEPT !.address = @ - m + m] \/ z = y[i]
  BY DEF MovedSymbols
<1> HIDE DEF z
<1>3. CASE z = [y[i] EXCEPT !.address = @ - m + m]
  <2>1. z.address = y[i].address - m + m
    BY <1>1, <1>3, Readdressed
  <2> HIDE DEF m
  <2> QED
    BY <1>1, <2>1
<1> QED
  BY <1>2, <1>3

\* A grow leaves the symbols of the gap's items alone, when their names are theirs.
LEMMA GrownHere ==
  ASSUME SInv, NamesUnique, b.growing, out = commit_grown(GrowBy), out # CommitError,
         NEW k \in 1 .. Len(b.appended.items)
  PROVE  out.symbols[b.appended.items[k].sym].address = out.base + b.appended.items[k].offset
<1> DEFINE a == b.appended
           it == a.items[k]
           i == it.sym
           y == Shifted(GrowBy)
<1>1. /\ b \in State /\ a \in AppendedRec /\ a.items \in Seq(ItemRec)
      /\ DOMAIN a.items = 1 .. Len(a.items) /\ b.symbols \in Seq(SymbolRec)
      /\ Len(b.symbols) \in Nat /\ DOMAIN b.symbols = 1 .. Len(b.symbols)
  BY StateFacts DEF SInv, StateInv, BaseInv
<1>2. /\ i \in 1 .. Len(b.symbols) /\ b.symbols[i].name = it.name
      /\ b.symbols[i].address = it.at /\ it.at = a.segment_vaddr + it.offset
  BY DEF SInv, StateInv, BaseInv, SymbolsInv
<1>3. i \in SymbolOf(it, a.segment_vaddr, b.symbols)
  <2>1. \A j \in 1 .. (i - 1) : j \in 1 .. Len(b.symbols) /\ j # i
    <3> HIDE DEF i
    <3> QED
      BY <1>1, <1>2
  <2>2. \A j \in 1 .. (i - 1) : b.symbols[j].name # it.name
    <3>1. b.symbols[i].name = it.name /\ i \in DOMAIN b.symbols
      BY <1>1, <1>2
    <3> HIDE DEF i, it
    <3> QED
      BY <2>1, <3>1, <1>1 DEF NamesUnique
  <2> QED
    BY <2>2, <1>1, <1>2 DEF SymbolOf
<1>4. i \in Carved
  BY <1>1, <1>3 DEF Carved
<1>5. i \in DOMAIN y /\ y[i] = b.symbols[i]
  BY <1>1, <1>2, <1>4 DEF Shifted
<1>6. b.symbols[i] \in SymbolRec
  BY <1>1, <1>2, SymbolFacts
<1>7. out.base = a.segment_vaddr /\ out.symbols = MovedSymbols(a, a.segment_vaddr, y)
  BY GrownFields
<1> HIDE DEF y
<1>8. out.symbols[i].address = b.symbols[i].address
  <2> HIDE DEF i
  <2> QED
    BY <1>1, <1>5, <1>6, <1>7, MovedNowhere
<1> QED
  BY <1>2, <1>7, <1>8

LEMMA AddressesHold == SInv => AddressesFollowItems
<1> SUFFICES ASSUME SInv, Placed PROVE AddressesFollowItems
  BY DEF AddressesFollowItems
<1> DEFINE a == b.appended
<1>1. /\ b \in State /\ a \in AppendedRec /\ a.segment_vaddr \in Nat
      /\ a.items \in Seq(ItemRec) /\ DOMAIN a.items = 1 .. Len(a.items)
      /\ b.symbols \in Seq(SymbolRec) /\ Len(b.symbols) \in Nat
      /\ DOMAIN b.symbols = 1 .. Len(b.symbols)
      /\ a.exports \in Seq(ExportRec) /\ DOMAIN a.exports = 1 .. Len(a.exports)
  BY StateFacts DEF SInv, StateInv, BaseInv
<1>2. ASSUME NEW k \in 1 .. Len(a.items)
      PROVE  /\ a.items[k].sym \in 1 .. Len(b.symbols)
             /\ b.symbols[a.items[k].sym].name = a.items[k].name
             /\ b.symbols[a.items[k].sym].address = a.items[k].at
             /\ a.items[k].at = a.segment_vaddr + a.items[k].offset
             /\ ~(~a.some)
  <2>1. Len(a.items) # 0
    BY <1>1
  <2> QED
    BY <2>1 DEF SInv, StateInv, BaseInv, SymbolsInv, BufferInv
<1>3. ASSUME NamesUnique, NEW k \in 1 .. Len(a.items), a.items[k].len # 0
      PROVE  out.symbols[a.items[k].sym].address = out.base + a.items[k].offset
  <2>1. CASE b.growing /\ out = commit_grown(GrowBy) /\ out # CommitError
    BY <1>3, <2>1, GrownHere
  <2>2. ASSUME format = "Macho", ~(b.growing /\ GrowBy # 0),
               NEW c \in AppendedAtCommit, ~(~c.some), MachoOutcome(c)
        PROVE  out.symbols[a.items[k].sym].address = out.base + a.items[k].offset
    <3>1. ~b.growing
      <4>1. ~(b.growing /\ GrowBy = 0)
        BY <1>3, DroppedGrow
      <4> QED
        BY <2>2, <4>1
    <3>2. c = a
      BY <3>1, <2>2, <1>2, CommitBuffer
    <3>3. CASE NeedsRebase(a)
      <4>1. /\ out.base = SegmentBase /\ SegmentBase \in Nat
            /\ out.symbols = MovedSymbols(a, SegmentBase, b.symbols)
        BY <1>1, <2>2, <3>2, <3>3, MachoFields, SegmentBaseAbove
      <4>2. \A j \in 1 .. Len(b.symbols) :
              b.symbols[j].name = b.symbols[a.items[k].sym].name => j = a.items[k].sym
        BY <1>1, <1>2, <1>3 DEF NamesUnique
      <4>3. MovedSymbols(a, SegmentBase, b.symbols)[a.items[k].sym].address
              = SegmentBase + a.items[k].offset
        <5> DEFINE i == a.items[k].sym
                   y == b.symbols
        <5>1. /\ a \in AppendedRec /\ y \in Seq(SymbolRec) /\ i \in 1 .. Len(y)
              /\ SegmentBase \in Nat /\ a.items[k].name = y[i].name
              /\ y[i].address = a.segment_vaddr + a.items[k].offset
              /\ \A j \in 1 .. Len(y) : y[j].name = y[i].name => j = i
          BY <1>1, <1>2, <4>1, <4>2
        <5> HIDE DEF a, i, y
        <5>2. MovedSymbols(a, SegmentBase, y)[i].address = SegmentBase + a.items[k].offset
          BY <5>1, MovedHere
        <5> QED
          BY <5>2 DEF a, i, y
      <4> QED
        BY <4>1, <4>3
    <3>4. CASE ~NeedsRebase(a)
      BY SMTT(30), <1>1, <1>2, <2>2, <3>2, <3>4, MachoFields
    <3> QED
      BY <3>3, <3>4
  <2>3. ASSUME format = "Elf", NEW c \in AppendedAtCommit, ~(~c.some), ElfOutcome(c)
        PROVE  out.symbols[a.items[k].sym].address = out.base + a.items[k].offset
    <3>1. ~b.growing
      BY <2>3 DEF SInv, StateInv, BaseInv, PlaceInv
    <3>2. c = a
      BY <3>1, <2>3, <1>2, CommitBuffer
    <3>3. out.symbols = b.symbols /\ out.base = a.segment_vaddr
      BY <3>2, <2>3, HowFacts DEF ElfOutcome
    <3> QED
      BY <1>2, <3>3
  <2> QED
    BY <2>1, <2>2, <2>3, PlacedCases
<1>4. ASSUME out.base = a.segment_vaddr
      PROVE  /\ out.exports = <<>> \/ (out.exports = a.exports /\ out.symbols = b.symbols)
             /\ \/ out.init = <<>>
                \/ /\ out.init = b.section_overrides /\ out.symbols = b.symbols
                \/ /\ out.init = b.section_overrides /\ Wrappers(b) = {}
  <2>1. CASE b.growing /\ out = commit_grown(GrowBy) /\ out # CommitError
    BY <2>1, GrownFields
  <2>2. ASSUME ~b.growing, ~a.some PROVE Wrappers(b) = {}
    BY <2>2 DEF SInv, StateInv, BaseInv, BufferInv, Wrappers
  <2>3. ASSUME format = "Macho", NEW c \in AppendedAtCommit, ~(~c.some), MachoOutcome(c)
        PROVE  /\ out.exports = <<>> \/ (out.exports = a.exports /\ out.symbols = b.symbols)
               /\ out.init = b.section_overrides
               /\ out.symbols = b.symbols \/ Wrappers(b) = {}
    <3>1. CASE c = a
      <4>1. ~NeedsRebase(a)
        <5>1. NeedsRebase(a) => out.base = SegmentBase /\ a.segment_vaddr < TextEnd
          BY <1>1, <2>3, <3>1, MachoFields DEF NeedsRebase, BaseInText
        <5> QED
          BY SMTT(30), <5>1, <1>1, <1>4, SegmentBaseAbove, Constants
      <4> QED
        BY <4>1, <1>1, <2>3, <3>1, MachoFields
    <3>2. CASE c # a
      <4>1. (b.growing \/ ~a.some) /\ \E v \in Nat : c = Appended(v)
        BY <3>2, <2>3, CommitBuffer
      <4>2. c \in AppendedRec /\ c.exports = <<>>
        BY <4>1, AppendedType
      <4>3. out.exports = <<>> /\ out.init = b.section_overrides
        BY <2>3, <4>2, MachoFields
      <4>4. CASE b.growing
        <5>1. a.segment_vaddr = GapBase
          BY <4>4 DEF SInv, StateInv, BaseInv, PlaceInv
        <5>2. out.base # SegmentBase
          BY <5>1, <1>4, SegmentBaseAbove, Constants
        <5> QED
          BY <5>2, <2>3, <4>2, <4>3, MachoFields
      <4>5. CASE ~b.growing
        BY <4>1, <4>3, <4>5, <2>2
      <4> QED
        BY <4>4, <4>5
    <3> QED
      BY <3>1, <3>2
  <2>4. ASSUME format = "Elf", NEW c \in AppendedAtCommit, ~(~c.some), ElfOutcome(c)
        PROVE  /\ out.exports = <<>> \/ (out.exports = a.exports /\ out.symbols = b.symbols)
               /\ out.init = b.section_overrides /\ out.symbols = b.symbols
    <3>1. c.exports = <<>> \/ c = a
      BY <2>4, CommitBuffer, AppendedType
    <3> QED
      BY <3>1, <2>4, HowFacts DEF ElfOutcome
  <2> QED
    BY <2>1, <2>3, <2>4, PlacedCases
<1>5. ASSUME out.base = a.segment_vaddr, NEW i \in DOMAIN out.exports
      PROVE  out.exports[i].vaddr = out.symbols[out.exports[i].sym].address
  <2>1. out.exports # <<>>
    BY <1>5
  <2>2. out.exports = a.exports /\ out.symbols = b.symbols
    BY <2>1, <1>4, <1>5
  <2> QED
    BY <2>2, <1>1, <1>5 DEF SInv, StateInv, BaseInv, SymbolsInv
<1>6. ASSUME out.base = a.segment_vaddr, out.init # <<>>
      PROVE  \E k \in DOMAIN a.items :
               /\ a.items[k].calls # <<>>
               /\ out.symbols[a.items[k].sym].address = Last(out.init)
  <2>1. out.init = b.section_overrides /\ Wrappers(b) # {}
    BY <1>4, <1>6 DEF SInv, StateInv, ChainInv
  <2>2. out.symbols = b.symbols
    BY <2>1, <1>4, <1>6
  <2>3. PICK k \in Wrappers(b) :
          a.items[k].at = b.section_overrides[Len(b.section_overrides)]
    BY <2>1, <1>6 DEF SInv, StateInv, ChainInv
  <2>4. k \in DOMAIN a.items /\ a.items[k].calls # <<>> /\ k \in 1 .. Len(a.items)
    BY <1>1 DEF Wrappers
  <2> QED
    BY <2>1, <2>2, <2>3, <2>4, <1>2 DEF Last
<1> QED
  BY <1>1, <1>2, <1>3, <1>5, <1>6 DEF AddressesFollowItems

-----------------------------------------------------------------------------
(* The theorems.                                                           *)

\* Items keep their bytes: whatever sequence of calls filled the append buffer, all
\* through the region or all past it, every item is in the buffer at its offset
\* (editor.rs, AppendedFunctionsState), and in the written payload too, rebased or
\* grown, unless a function got longer at the new base (editor.rs, rebase).
THEOREM ItemsKept == Spec => []ItemsIntact
BY SpecSInv, ItemsHold, PTL

\* The payload lands in a free region of __TEXT, in the gap of a grow or clear of the
\* image, and the append writer's overlap check never fires (editor.rs,
\* commit_to_bytes_with_sign; macho_writer.rs).
THEOREM PayloadClear == Spec => []PayloadClearOfInput
BY SpecSInv, ClearHolds, PTL

\* Symbols, exports, the constructor slot and raw code are where their items are in
\* the written file (editor.rs, rebase, commit_grown, add_function_exported and
\* add_initialiser).
THEOREM AddressesFollow == Spec => []AddressesFollowItems
BY SpecSInv, AddressesHold, PTL

\* Writable data that comes before any code never overlaps it (editor.rs,
\* add_writable_data and pick_append_vaddr).
THEOREM WritableApart == Spec => []WritableFirstDisjoint
BY SpecSInv, WritableHolds, PTL

\* Each hijack of the ELF constructor slot chains to the one before it, down to the
\* input's constructor (editor.rs, add_initialiser and effective_section_bytes).
THEOREM InitialisersChain == Spec => []ElfInitialisersChain
BY SpecSInv, ChainHolds, PTL
=============================================================================
