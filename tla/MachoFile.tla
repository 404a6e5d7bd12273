----------------------------- MODULE MachoFile ------------------------------
(***************************************************************************)
(* A 64-bit Mach-O image as two parties see it: the library, which parses  *)
(* the load commands (container/macho_image.rs) and moves bytes, and dyld, *)
(* which is external and is modelled from what the library's readers and   *)
(* comments say of it: it walks the fixup chains from the starts in        *)
(* __LINKEDIT, looks exports up in the trie and calls initialisers at      *)
(* their image offsets.                                                    *)
(*                                                                         *)
(* An image is [segs, sects, lcs, entry, content, len].  `lcs` has the     *)
(* ranges [off, size] of __LINKEDIT that the load commands name: "cf"      *)
(* (chained fixups), "reb" (the classic rebases of LC_DYLD_INFO), "trie",  *)
(* "fs" (function starts), "sym", "ind", "str" and "sig".  Of the bytes    *)
(* only what a property can see is kept: a set of pieces [at, len, data].  *)
(***************************************************************************)
EXTENDS Integers, Sequences, FiniteSets, SequencesExt

CONSTANTS
  PAGE,      \* the page of segments, and the largest page of fixup chains
  TargetMod  \* one past the largest rebase target a word can hold (2^36)

ASSUME MachoAssumption == {PAGE, TargetMod} \subseteq Nat \ {0}

align_up(value, align) == ((value + align - 1) \div align) * align

Overlap(a, m, b, n) == a < b + n /\ b < a + m

-----------------------------------------------------------------------------
(* Bytes.                                                                  *)

Piece(at, len, data) == [at |-> at, len |-> len, data |-> data]

\* What is left of a piece that something else was written over.
Torn == [k |-> "torn"]

Put(content, at, len, data) ==
  {Piece(at, len, data)} \cup
  {IF Overlap(p.at, p.len, at, len) THEN [p EXCEPT !.data = Torn] ELSE p :
     p \in {q \in content : ~(at <= q.at /\ q.at + q.len <= at + len)}}

PutAll(content, writes) ==
  FoldLeft(LAMBDA c, w : Put(c, w.at, w.len, w.data), content, writes)

Truncate(content, len) ==
  {IF p.at + p.len > len THEN [p EXCEPT !.data = Torn] ELSE p : p \in {q \in content : q.at < len}}

\* `by` fresh bytes inserted at `from`.
Spread(content, from, by) ==
  {CASE p.at >= from -> [p EXCEPT !.at = @ + by]
     [] p.at + p.len > from -> [p EXCEPT !.data = Torn]
     [] OTHER -> p : p \in content}

Get(content, at, len) ==
  IF \E p \in content : p.at = at /\ p.len = len
    THEN (CHOOSE p \in content : p.at = at /\ p.len = len).data
    ELSE Torn

\* The words of a chain: a rebase has a target, a bind an ordinal of an
\* import and an addend, both the distance to the next word in strides.
RebaseWord(target, next)    == [k |-> "rebase", target |-> target, next |-> next]
BindWord(ord, addend, next) == [k |-> "bind", ord |-> ord, addend |-> addend, next |-> next]

\* The eight bytes at a file offset: data that no piece names is zero.
WordAt(content, at) ==
  IF \E p \in content : Overlap(p.at, p.len, at, 8) THEN Get(content, at, 8) ELSE RebaseWord(0, 0)

-----------------------------------------------------------------------------
(* The layout.                                                             *)

SegNamed(f, name) == CHOOSE g \in Range(f.segs) : g.name = name

Linkedit(f) == SegNamed(f, "__LINKEDIT")

\* The preferred load address.
Base(f) == SegNamed(f, "__TEXT").vm

Has(f, lc) == lc \in DOMAIN f.lcs

Blob(f, lc) == Get(f.content, f.lcs[lc].off, f.lcs[lc].size)

\* The first section of __TEXT, where a grow inserts.
growth_point(f) ==
  LET at == {c.off : c \in {d \in Range(f.sects) : d.seg = "__TEXT" /\ d.off > 0}}
  IN  CHOOSE o \in at : \A p \in at : o <= p

insert_vaddr(f) == LET g == SegNamed(f, "__TEXT") IN g.vm + (growth_point(f) - g.off)

=============================================================================
