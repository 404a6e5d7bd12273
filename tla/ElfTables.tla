----------------------------- MODULE ElfTables ------------------------------
(***************************************************************************)
(* Extending the dynamic tables (container/dynsym_extension.rs and         *)
(* gnu_hash.rs).  A table is the sequence of its entries; offsets into it  *)
(* count from zero.                                                        *)
(***************************************************************************)
EXTENDS ElfFile

append_dynstr(source, new_name) == Append(source, new_name)

\* updates maps a tag to its new value.
update_dynamic_tags(source, updates) ==
  [k \in DOMAIN source |->
     IF source[k].tag \in DOMAIN updates
     THEN Tag(source[k].tag, updates[source[k].tag]) ELSE source[k]]

\* The entries before the first terminator.
TakeTags(source) ==
  LET nulls == {k \in DOMAIN source : source[k].tag = "NULL"}
  IN IF nulls = {} THEN source
     ELSE SubSeq(source, 1, (CHOOSE k \in nulls : \A j \in nulls : k <= j) - 1)

insert_dynamic_tags_growing(source, additions) ==
  TakeTags(source) \o additions \o << Null >>

Nulls(n) == [k \in 1 .. n |-> Null]

\* The table keeps its length: what is dropped comes back as terminators.
remove_dynamic_entries(source, tag, dropped) ==
  LET kept == SelectSeq(source, LAMBDA e : ~(e.tag = tag /\ e.value \in dropped))
  IN kept \o Nulls(Len(source) - Len(kept))

\* One bucket: its chain is every hashable symbol in .dynsym order.
build_gnu_hash(names, symbol_base) ==
  << [base   |-> symbol_base,
      bucket |-> IF names = <<>> THEN 0 ELSE symbol_base,
      bloom  |-> {HashOf[names[k]] : k \in DOMAIN names},
      chain  |-> [k \in DOMAIN names |-> HashOf[names[k]]]] >>

HashLen(hash) == 4 + 2 + 1 + Len(hash[1].chain)

name_at_offset(strtab, offset) ==
  IF offset < Len(strtab) THEN strtab[offset + 1] ELSE ""

\* pack: the payload goes in at the next aligned offset, and its address is
\* noted under the tag that will point to it.
Pack(seg, tag, payload, align) ==
  LET at == align_up(seg.bytes.len, align)
  IN [seg EXCEPT
        !.bytes = [len    |-> at + payload.len,
                   pieces |-> Append(seg.bytes.pieces, [payload.pieces[1] EXCEPT !.at = at])],
        !.at = [t \in DOMAIN seg.at \cup {tag} |->
                  IF t = tag THEN seg.vaddr + at ELSE seg.at[t]]]

=============================================================================
