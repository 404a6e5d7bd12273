------------------------------ MODULE Session -------------------------------
(***************************************************************************)
(* A whole-binary editing session (rewrite/editor.rs, BinaryState): calls  *)
(* queue functions, data, exports, initialisers, library dependencies and  *)
(* reservations, in any order the early returns allow, and a final commit  *)
(* turns what was queued into an output file.  Addresses are fixed when an *)
(* item is queued; commit may still move the whole payload (rebase) or the *)
(* whole image around it (a grown __TEXT).                                 *)
(*                                                                         *)
(* The payload's bytes are modelled by their owners: the byte of item k is *)
(* k and padding is 0.  A call that fails without changing anything is a   *)
(* stuttering step; one that fails half-way is an action.  The lifted      *)
(* .text section is the subject of Layout and Emit and left out here.      *)
(* A reservation asks for a byte at least: one for none may be given the   *)
(* end of __TEXT, where no payload can go.                                 *)
(***************************************************************************)
EXTENDS SpaceOps, SequencesExt

CONSTANTS
  Formats,        \* subset of {"Elf", "Macho"}
  Stricts,        \* whether prohibit_new_segments was called first
  LoadEnd,        \* ELF: end of the highest PT_LOAD
  ElfPage,        \* ELF: page size of the appended segments
  ExtraLen,       \* ELF: bytes of the rebuilt dynamic tables
  TextBase, TextEnd, MaxVaddrEnd,  \* Mach-O: __TEXT and the mapped range
  FreeRegions,    \* Mach-O: text_free_regions(), a sequence [vaddr, size]
  PaddingRegions, \* Mach-O: segment_free_regions() of a data segment
  GapBase,        \* Mach-O: address of the first __TEXT section
  PAGE, GAP,      \* Mach-O: page size and distance of a new segment
  CtorAddr,       \* address of the input's only constructor
  REACH,          \* range of a conditional branch
  WrapperLen,     \* bytes of an initialiser's wrapper
  Names,          \* names a caller may give, each a tuple
  Bodies,         \* function bodies a caller may append
  Blobs,          \* data a caller may append: [len, align]
  Reservations,   \* reservations a caller may ask for
  MaxCalls        \* bound on the number of calls before the commit

\* A body of len bytes; near: it holds a conditional branch to the input's
\* constructor; reloc: emit leaves a relocation; fails: lay_out or emit fails.
Body == [len : Nat, near : BOOLEAN, reloc : BOOLEAN, fails : BOOLEAN]

Spot == [vaddr : U64, size : U64]

ASSUME SessionAssumption ==
  /\ Formats \subseteq {"Elf", "Macho"}
  /\ Stricts \subseteq BOOLEAN
  /\ {LoadEnd, TextBase, TextEnd, MaxVaddrEnd, GapBase, CtorAddr} \subseteq U64
  /\ {ElfPage, PAGE} \subseteq Nat \ {0}
  /\ {ExtraLen, GAP, REACH, WrapperLen, MaxCalls} \subseteq Nat
  /\ {FreeRegions, PaddingRegions} \subseteq Seq(Spot)
  /\ TextBase <= GapBase /\ GapBase < TextEnd /\ TextEnd <= MaxVaddrEnd
  /\ \A k \in DOMAIN FreeRegions :
       /\ TextBase <= FreeRegions[k].vaddr
       /\ FreeRegions[k].vaddr + FreeRegions[k].size <= TextEnd
  /\ Names \subseteq Seq(STRING)
  /\ Bodies \subseteq Body
  /\ Blobs \subseteq [len : Nat, align : Nat \ {0}]
  /\ Reservations \subseteq {req \in ReserveRequest : req.min_bytes > 0}

VARIABLES
  format,  \* of the input
  b,       \* the BinaryState
  phase,   \* "open" until the commit, then "done"
  calls,   \* calls made
  out      \* what the commit wrote

vars == <<format, b, phase, calls, out>>

-----------------------------------------------------------------------------
(* State.                                                                  *)

Appended(base) ==
  [some |-> TRUE, segment_vaddr |-> base, bytes |-> <<>>, items |-> <<>>,
   exports |-> <<>>]

NoAppended == [Appended(0) EXCEPT !.some = FALSE]

NoWritable == [some |-> FALSE, segment_vaddr |-> 0, len |-> 0]

NoBody == [len |-> 0, near |-> FALSE, reloc |-> FALSE, fails |-> FALSE]

BinaryState(strict) ==
  [appended |-> NoAppended, appended_writable |-> NoWritable,
   reserved |-> FALSE, region |-> NewRegion(0, 0, 0, "TailPad"),
   growing |-> FALSE, delta |-> 0,
   section_overrides |-> <<>>, init_slots |-> <<>>, deps |-> 0, padding |-> <<>>,
   force_segment_placement |-> FALSE, no_new_segments |-> strict,
   symbols |-> << [name |-> <<"ctor">>, address |-> CtorAddr,
                   kind |-> "Function", of |-> "input"] >>]

NoOutput ==
  [how |-> "none", base |-> 0, bytes |-> <<>>, size |-> 0, symbols |-> <<>>,
   exports |-> <<>>, deps |-> 0, init |-> <<>>]

Init ==
  /\ format \in Formats
  /\ \E strict \in Stricts : b = BinaryState(strict)
  /\ phase = "open"
  /\ calls = 0
  /\ out = NoOutput

-----------------------------------------------------------------------------
(* Buffers and sizes.                                                      *)

align_up(value, align) == IF align <= 1 THEN value ELSE round_up(value, align)

\* bytes.resize(n, 0)
Resize(bytes, n) == [i \in 1 .. n |-> IF i <= Len(bytes) THEN bytes[i] ELSE 0]

\* bytes[offset .. offset + len] = the bytes of item k, growing the buffer.
Overwrite(bytes, offset, len, k) ==
  [i \in 1 .. Max({Len(bytes), offset + len}) |->
     IF i > offset /\ i <= offset + len THEN k
     ELSE IF i <= Len(bytes) THEN bytes[i] ELSE 0]

Distance(x, y) == IF x < y THEN y - x ELSE x - y

\* A branch to the constructor widens by one word where it is out of range.
EmittedLen(body, vaddr, symbols) ==
  IF body.near /\ Distance(vaddr, symbols[1].address) >= REACH
  THEN body.len + 4 ELSE body.len

-----------------------------------------------------------------------------
(* Choosing the payload's base.                                            *)

Room(r, align) == r.size - (align_up(r.vaddr, align) - r.vaddr)

\* The best-fitting free region of __TEXT: no address or one.
allocate_in_text(bytes_needed, align) ==
  LET fits == {k \in DOMAIN FreeRegions :
                 Room(FreeRegions[k], align) >= bytes_needed}
      Better(j, k) == \/ Room(FreeRegions[j], align) < Room(FreeRegions[k], align)
                      \/ /\ Room(FreeRegions[j], align) = Room(FreeRegions[k], align)
                         /\ j < k
  IN {align_up(FreeRegions[k].vaddr, align) :
        k \in {k \in fits : \A j \in fits \ {k} : Better(k, j)}}

\* The size of the payload is not known yet: one word is asked for.
FreshTextBase == allocate_in_text(4, 4)

\* Above every mapped segment, a gap away.
SegmentBase == Max({round_up(MaxVaddrEnd + GAP, PAGE), PAGE})

\* Mutant: the writable segment is not looked at.
pick_append_vaddr_below(s) ==
  IF format = "Elf"
  THEN {round_up(Max({LoadEnd, s.appended.segment_vaddr + Len(s.appended.bytes)}),
                 ElfPage)}
  ELSE IF s.force_segment_placement THEN {SegmentBase} ELSE FreshTextBase

\* The base of a fresh append buffer; empty when the call fails.
pick_append_vaddr(s) ==
  IF format = "Elf"
  THEN LET floor == Max({LoadEnd,
                          s.appended.segment_vaddr + Len(s.appended.bytes),
                          s.appended_writable.segment_vaddr + s.appended_writable.len})
       IN {Max({round_up(floor, ElfPage), ElfPage})}
  ELSE IF ~s.force_segment_placement /\ FreshTextBase # {}
       THEN FreshTextBase
       ELSE IF s.no_new_segments THEN {} ELSE {SegmentBase}

SegmentVaddr(s) ==
  IF s.appended.some THEN {s.appended.segment_vaddr} ELSE pick_append_vaddr(s)

\* Strict mode: does the payload, n bytes longer, stay in its free region?
check_intra_text_capacity(s, n) ==
  \/ ~s.no_new_segments
  \/ format # "Macho"
  \/ ~s.appended.some
  \/ \A k \in DOMAIN FreeRegions :
       LET r == FreeRegions[k]
           base == s.appended.segment_vaddr
       IN base >= r.vaddr /\ base < r.vaddr + r.size =>
            base - r.vaddr + Len(s.appended.bytes) + n <= r.size

-----------------------------------------------------------------------------
(* Queueing an item.  An operation answers a record: ok, and the state it  *)
(* leaves behind, which on failure need not be the state it found.         *)

Symbol(name, address, kind, of) ==
  [name |-> name, address |-> address, kind |-> kind, of |-> of]

Item(name, kind, offset, len, body, sym, at, carved, callees) ==
  [name |-> name, kind |-> kind, offset |-> offset, len |-> len, body |-> body,
   sym |-> sym, at |-> at, carved |-> carved, calls |-> callees]

\* state.items.push(item) and state.bytes.extend(its bytes) at item.offset.
Queue(a, item) ==
  [a EXCEPT !.items = Append(@, item),
            !.bytes = Overwrite(Resize(@, item.offset), item.offset, item.len,
                                Len(a.items) + 1)]

Failed(s) == [ok |-> FALSE, state |-> s]

\* The bytes a function may need, as the capacity check estimates them.
Estimate(body, planned) ==
  IF planned THEN (body.len \div 4) * 8 + 3 ELSE body.len + 3

\* add_function_generic and, when planned, add_function_from_plan.  The symbol
\* is registered first, so that the body can refer to itself; only the planned
\* form takes it back, and only for a relocation.
add_function(s, name, body, planned, callees) ==
  LET a       == s.appended
      offset  == round_up(Len(a.bytes), 4)
      padded  == [s EXCEPT !.appended.bytes = Resize(@, offset)]
      base    == CHOOSE v \in SegmentVaddr(s) : TRUE
      vaddr   == base + offset
      id      == Len(s.symbols) + 1
      Named(of) == [padded EXCEPT !.symbols =
                      Append(@, Symbol(name, vaddr, "Function", of))]
      len     == EmittedLen(body, vaddr, s.symbols)
      item    == Item(name, "Function", offset, len, body, id, vaddr, FALSE, callees)
      buffer  == IF a.some THEN padded.appended ELSE Appended(base)
  IN IF \/ ~check_intra_text_capacity(s, Estimate(body, planned))
        \/ SegmentVaddr(s) = {}
     THEN Failed(s)
     ELSE IF body.fails THEN Failed(Named("failed"))
     ELSE IF planned /\ body.reloc THEN Failed(padded)
     ELSE [ok |-> TRUE,
           state |-> [Named("code") EXCEPT !.appended = Queue(buffer, item)]]

add_data(s, name, blob) ==
  LET base   == CHOOSE v \in SegmentVaddr(s) : TRUE
      buffer == IF s.appended.some THEN s.appended ELSE Appended(base)
      offset == align_up(Len(buffer.bytes), blob.align)
      item   == Item(name, "Data", offset, blob.len, NoBody,
                     Len(s.symbols) + 1, base + offset, FALSE, <<>>)
  IN IF \/ ~check_intra_text_capacity(s, blob.len + blob.align - 1)
        \/ SegmentVaddr(s) = {}
     THEN Failed(s)
     ELSE [ok |-> TRUE,
           state |-> [s EXCEPT
             !.appended = Queue(buffer, item),
             !.symbols = Append(@, Symbol(name, base + offset, "Object", "code"))]]

add_writable_data(s, name, blob) ==
  LET w      == s.appended_writable
      base   == IF w.some THEN w.segment_vaddr
                ELSE CHOOSE v \in pick_append_vaddr(s) : TRUE
      offset == align_up(w.len, blob.align)
  IN [s EXCEPT
        !.appended_writable = [some |-> TRUE, segment_vaddr |-> base,
                               len |-> offset + blob.len],
        !.symbols = Append(@, Symbol(name, base + offset, "Object", "writable"))]

\* A carve of the reserved region, shared by the *_in calls: the buffer is cut
\* or filled to the carve's offset before the item's bytes go in.
place_in_region(s, name, kind, body, len, align) ==
  LET carve == CarveOf(s.region, len, align)
      item  == Item(name, kind, carve.offset_in_region, len, body,
                    Len(s.symbols) + 1, carve.address, TRUE, <<>>)
  IN IF carve_result(s.region, len, align) # "Ok" THEN Failed(s)
     ELSE [ok |-> TRUE,
           state |-> [s EXCEPT
             !.region.cursor = NewCursor(s.region, len, align),
             !.appended = Queue(@, item),
             !.symbols = Append(@, Symbol(name, carve.address,
                                  IF kind = "Data" THEN "Object" ELSE "Function",
                                  "code"))]]

next_address_in(s, align) == round_up(s.region.base_address + s.region.cursor, align)

-----------------------------------------------------------------------------
(* The calls of a session.                                                 *)

Call ==
  /\ phase = "open"
  /\ calls < MaxCalls
  /\ calls' = calls + 1
  /\ UNCHANGED <<format, phase, out>>

prohibit_new_segments ==
  /\ Call
  /\ ~b.no_new_segments
  /\ b' = [b EXCEPT !.no_new_segments = TRUE]

\* What both reservation calls ask for before they look at the image.
MayReserve ==
  /\ format = "Macho"
  /\ b.deps = 0 /\ ~b.force_segment_placement
  /\ ~b.reserved /\ ~b.appended.some

\* The free regions by address; the highest one is the tail pad.
macho_text_free_extents ==
  LET top == Max({r.vaddr : r \in ToSet(FreeRegions)})
  IN {[address |-> r.vaddr, file_offset |-> r.vaddr, len |-> r.size,
       source |-> IF r.vaddr = top THEN "TailPad" ELSE "InterSectionHole"] :
        r \in ToSet(FreeRegions)}

\* plan_reservation's choice, as TextSpace derives it from the scan.
Candidates(req) ==
  {e \in macho_text_free_extents :
     Offers(e, req) /\ Usable(e, req) >= needed(req)}

ReserveFromFreeSpace(req) ==
  \E e \in Candidates(req) :
    LET base == BaseIn(e, req.align)
    IN /\ \A f \in Candidates(req) : Preferred(e, f, req)
       /\ b' = [b EXCEPT !.reserved = TRUE,
                         !.region = NewRegion(base, base, Usable(e, req), e.source),
                         !.appended = Appended(base)]

\* setup_grow_reservation: whole pages, at least one, in front of __text.
SetupGrowReservation(req) ==
  LET delta == Max({round_up(needed(req), PAGE), PAGE})
  IN /\ Candidates(req) = {}
     /\ req.on_exhaustion = "Grow"
     /\ b' = [b EXCEPT !.reserved = TRUE, !.growing = TRUE, !.delta = delta,
                       !.region = NewRegion(GapBase, GapBase, delta, "GrewText"),
                       !.appended = Appended(GapBase)]

reserve_text_region ==
  /\ Call
  /\ MayReserve
  /\ \E req \in Reservations :
       /\ req.align # 0
       /\ ReserveFromFreeSpace(req) \/ SetupGrowReservation(req)

\* A deferred grow, sized at the commit: delta = 0.
reserve_text_grow ==
  /\ Call
  /\ MayReserve
  /\ b' = [b EXCEPT !.growing = TRUE, !.appended = Appended(GapBase)]

\* add_function, add_function_generic, add_function_from_plan
AddFunction ==
  /\ Call
  /\ \E name \in Names, body \in Bodies, planned \in BOOLEAN :
       b' = add_function(b, name, body, planned, <<>>).state
  /\ b' # b

AddData ==
  /\ Call
  /\ \E name \in Names, blob \in Blobs :
       \E r \in {add_data(b, name, blob)} : r.ok /\ b' = r.state

AddWritableData ==
  /\ Call
  /\ format = "Elf"
  /\ \E name \in Names, blob \in Blobs : b' = add_writable_data(b, name, blob)

\* add_function_in and, when planned, add_function_from_plan_in: laid out and
\* emitted before the carve, so a failure leaves nothing behind.
AddFunctionIn ==
  /\ Call
  /\ b.reserved
  /\ \E name \in Names, body \in Bodies, planned \in BOOLEAN :
       /\ ~body.fails
       /\ ~(planned /\ body.reloc)
       /\ \E r \in {place_in_region(b, name, "Function", body,
                      EmittedLen(body, next_address_in(b, 4), b.symbols), 4)} :
            r.ok /\ b' = r.state

\* add_data_in and add_raw_code_in
PlaceRawIn ==
  /\ Call
  /\ b.reserved
  /\ \E name \in Names, blob \in Blobs, kind \in {"Data", "RawCode"} :
       \E r \in {place_in_region(b, name, kind, NoBody, blob.len, blob.align)} :
         r.ok /\ b' = r.state

\* The export of the function just added keeps the address it has now.
ExportOf(s) == [sym |-> Len(s.symbols), vaddr |-> Last(s.symbols).address]

add_function_exported ==
  /\ Call
  /\ ~(b.no_new_segments /\ format = "Macho")
  /\ \E name \in Names, body \in Bodies :
       \E r \in {add_function([b EXCEPT !.force_segment_placement = TRUE],
                              name, body, FALSE, <<>>)} :
         b' = IF r.ok
              THEN [r.state EXCEPT !.appended.exports = Append(@, ExportOf(r.state))]
              ELSE r.state
  /\ b' # b

\* Mutant: the hijack reads the section as it was in the input.
effective_slot_original == CtorAddr

\* What the constructor slot holds when it is hijacked: on ELF the latest
\* staged override, on Mach-O the input's bytes.
effective_slot ==
  IF format = "Elf" /\ b.section_overrides # <<>>
  THEN Last(b.section_overrides) ELSE CtorAddr

\* The constructor to chain to: the first function symbol at that address.
original_ctor ==
  {i \in DOMAIN b.symbols :
     /\ b.symbols[i].kind = "Function" /\ b.symbols[i].address = effective_slot
     /\ \A j \in 1 .. i - 1 :
          b.symbols[j].kind = "Function" => b.symbols[j].address # effective_slot}

WrapperBody == [NoBody EXCEPT !.len = WrapperLen]

\* add_initialiser at First or Last: the body, then a wrapper that calls the
\* body and the constructor found in the slot, then the slot's override.
\* Either add_function may fail after what came before it took effect.
HijackInitialiser ==
  /\ Call
  /\ \E name \in Names, body \in Bodies, ctor \in original_ctor :
       \E r1 \in {add_function(b, name \o <<"body">>, body, FALSE, <<>>)} :
       \E r2 \in {add_function(r1.state, name \o <<"wrapper">>, WrapperBody, FALSE,
                               <<Len(r1.state.symbols), ctor>>)} :
         b' = IF ~r1.ok THEN r1.state
              ELSE IF ~r2.ok THEN r2.state
              ELSE [r2.state EXCEPT !.section_overrides =
                      Append(@, Last(r2.state.symbols).address)]
  /\ b' # b

\* add_initialiser at Append (ELF): a new slot, built at the commit.
AppendInitialiser ==
  /\ Call
  /\ format = "Elf"
  /\ \E name \in Names, body \in Bodies :
       \E r \in {add_function(b, name \o <<"body">>, body, FALSE, <<>>)} :
         b' = IF r.ok THEN [r.state EXCEPT !.init_slots =
                              Append(@, Last(r.state.symbols).address)]
              ELSE r.state
  /\ b' # b

add_library_dependency ==
  /\ Call
  /\ ~(b.no_new_segments /\ format = "Macho")
  /\ b' = [b EXCEPT !.deps = @ + 1, !.force_segment_placement = TRUE]

\* Best fit among the free regions of a data segment, recorded nowhere else.
append_macho_segment_padding ==
  /\ Call
  /\ format = "Macho"
  /\ \E blob \in Blobs, r \in ToSet(PaddingRegions) :
       /\ r.size >= blob.len
       /\ \A q \in ToSet(PaddingRegions) : q.size >= blob.len => r.size <= q.size
       /\ b' = [b EXCEPT !.padding = Append(@, [vaddr |-> r.vaddr, len |-> blob.len])]

-----------------------------------------------------------------------------
(* rebase: the appended symbols first, then every item emitted again.      *)

\* The symbol an item is recognised by: the first one of its name at its place.
SymbolOf(item, base, symbols) ==
  {i \in DOMAIN symbols :
     /\ symbols[i].name = item.name
     /\ symbols[i].address = base + item.offset
     /\ \A j \in 1 .. i - 1 : ~ /\ symbols[j].name = item.name
                                /\ symbols[j].address = base + item.offset}

\* The items that look for symbol i, and the equal symbols found before it.
\* Item after item takes the first equal symbol that has not moved yet.
Claims(a, sym) ==
  {k \in DOMAIN a.items : /\ a.items[k].name = sym.name
                          /\ a.segment_vaddr + a.items[k].offset = sym.address}

Homonyms(symbols, i) ==
  {j \in 1 .. i - 1 : /\ symbols[j].name = symbols[i].name
                      /\ symbols[j].address = symbols[i].address}

\* Mutant: only functions have their symbols moved.
MovedSymbolsFunctionsOnly(a, new_base, symbols) ==
  [i \in DOMAIN symbols |->
     IF /\ symbols[i].kind = "Function"
        /\ Cardinality(Homonyms(symbols, i)) < Cardinality(Claims(a, symbols[i]))
     THEN [symbols[i] EXCEPT !.address = @ - a.segment_vaddr + new_base]
     ELSE symbols[i]]

MovedSymbols(a, new_base, symbols) ==
  [i \in DOMAIN symbols |->
     IF Cardinality(Homonyms(symbols, i)) < Cardinality(Claims(a, symbols[i]))
     THEN [symbols[i] EXCEPT !.address = @ - a.segment_vaddr + new_base]
     ELSE symbols[i]]

\* An item's length when it is emitted again at a base.
LenAt(item, base, symbols) ==
  IF item.kind = "Function"
  THEN EmittedLen(item.body, base + item.offset, symbols) ELSE item.len

\* Mutant: data is not copied into the new buffer.
RebuiltFunctionsOnly(a, new_base, symbols) ==
  LET End(k) == a.items[k].offset + LenAt(a.items[k], new_base, symbols)
  IN [i \in 1 .. Max({Len(a.bytes)} \cup {End(k) : k \in DOMAIN a.items}) |->
        Max({0} \cup {k \in DOMAIN a.items : /\ a.items[k].kind = "Function"
                                             /\ a.items[k].offset < i
                                             /\ i <= End(k)})]

\* The items are written in order, each over what is there: a byte belongs to
\* the last item that covers it.
Rebuilt(a, new_base, symbols) ==
  LET End(k) == a.items[k].offset + LenAt(a.items[k], new_base, symbols)
  IN [i \in 1 .. Max({Len(a.bytes)} \cup {End(k) : k \in DOMAIN a.items}) |->
        Max({0} \cup {k \in DOMAIN a.items : a.items[k].offset < i /\ i <= End(k)})]

\* A body that still needs a relocation cannot be emitted again.
RebaseFails(a) ==
  \E k \in DOMAIN a.items : a.items[k].kind = "Function" /\ a.items[k].body.reloc

rebase(a, new_base, symbols) ==
  LET moved == MovedSymbols(a, new_base, symbols)
  IN [appended |-> [a EXCEPT !.segment_vaddr = new_base,
                             !.bytes = Rebuilt(a, new_base, moved)],
      symbols  |-> moved]

-----------------------------------------------------------------------------
(* commit_to_bytes.                                                        *)

Committed(how, a, size, symbols, exports, deps, init) ==
  [how |-> how, base |-> a.segment_vaddr, bytes |-> a.bytes, size |-> size,
   symbols |-> symbols, exports |-> exports, deps |-> deps, init |-> init]

CommitError == [NoOutput EXCEPT !.how = "error"]

\* Nothing was appended: the in-place writer, which takes none of the queues.
InPlace == Committed("in_place", NoAppended, 0, b.symbols, <<>>, 0, <<>>)

\* A grow's size: fixed by the reservation, or whole pages of the payload.
GrowBy == IF b.delta # 0 THEN b.delta ELSE round_up(Len(b.appended.bytes), PAGE)

\* The symbols of the items in the gap, which stay where they are.
Carved ==
  UNION {SymbolOf(b.appended.items[k], b.appended.segment_vaddr, b.symbols) :
           k \in DOMAIN b.appended.items}

\* commit_grown: everything from the gap up moves by delta, the gap's items
\* are emitted again where they are, and the grow writer takes only those.
commit_grown(delta) ==
  LET shifted == [i \in DOMAIN b.symbols |->
                    IF b.symbols[i].address >= GapBase /\ i \notin Carved
                    THEN [b.symbols[i] EXCEPT !.address = @ + delta]
                    ELSE b.symbols[i]]
      r == rebase(b.appended, b.appended.segment_vaddr, shifted)
  IN IF RebaseFails(b.appended) \/ Len(r.appended.bytes) > delta
     THEN CommitError
     ELSE Committed("grown", r.appended, Len(r.appended.bytes), r.symbols,
                    <<>>, 0, <<>>)

CommitGrown ==
  /\ phase = "open"
  /\ b.growing /\ GrowBy # 0
  /\ out' = commit_grown(GrowBy)
  /\ phase' = "done"
  /\ UNCHANGED <<format, b, calls>>

\* An empty deferred grow is dropped; a queued dependency or writable data
\* then makes an empty append buffer.  Empty when the call fails.
AppendedAtCommit ==
  LET a == IF b.growing THEN NoAppended ELSE b.appended
  IN IF a.some \/ (b.deps = 0 /\ ~b.appended_writable.some) THEN {a}
     ELSE {Appended(v) : v \in pick_append_vaddr([b EXCEPT !.appended = a])}

\* Does the whole payload fit the free region it starts in?
IntraTextEligible(a) ==
  /\ a.exports = <<>> /\ b.deps = 0
  /\ \E r \in ToSet(FreeRegions) :
       /\ a.segment_vaddr >= r.vaddr
       /\ a.segment_vaddr + Len(a.bytes) <= r.vaddr + r.size

BaseInText(a) == a.segment_vaddr >= TextBase /\ a.segment_vaddr < TextEnd

\* Mutant: only a payload that outgrew its region is moved.
NeedsRebaseSizeOnly(a) ==
  BaseInText(a) /\ ~IntraTextEligible([a EXCEPT !.exports = <<>>]) /\ b.deps = 0

NeedsRebase(a) == BaseInText(a) /\ ~IntraTextEligible(a)

\* The append writer refuses a segment that overlaps the mapped range.
OverlapsInput(a) ==
  a.segment_vaddr < MaxVaddrEnd /\ TextBase < a.segment_vaddr + Len(a.bytes)

\* Where the payload and its symbols are when the writer is called.
BeforeWriting(a) ==
  IF NeedsRebase(a) THEN rebase(a, SegmentBase, b.symbols)
  ELSE [appended |-> a, symbols |-> b.symbols]

Written(how, r) ==
  Committed(how, r.appended, Len(r.appended.bytes), r.symbols,
            r.appended.exports, b.deps, b.section_overrides)

CommitMacho ==
  /\ phase = "open"
  /\ format = "Macho"
  /\ ~(b.growing /\ GrowBy # 0)
  /\ phase' = "done"
  /\ UNCHANGED <<format, b, calls>>
  /\ \/ AppendedAtCommit = {} /\ out' = CommitError
     \/ \E a \in AppendedAtCommit :
          \E r \in {BeforeWriting(a)} :
            out' = IF ~a.some THEN InPlace
                   ELSE IF NeedsRebase(a) /\ RebaseFails(a) THEN CommitError
                   ELSE IF IntraTextEligible(r.appended) THEN Written("intra_text", r)
                   ELSE IF OverlapsInput(r.appended) THEN Written("overlap", r)
                   ELSE Written("segment", r)

\* Rebuilt dynamic tables follow the code, on a page of their own.
ElfSize(a) ==
  LET tables == a.exports # <<>> \/ b.deps # 0 \/ b.init_slots # <<>>
  IN IF tables THEN round_up(Len(a.bytes), ElfPage) + ExtraLen ELSE Len(a.bytes)

CommitElf ==
  /\ phase = "open"
  /\ format = "Elf"
  /\ phase' = "done"
  /\ UNCHANGED <<format, b, calls>>
  /\ \E a \in AppendedAtCommit :
       out' = IF ~a.some THEN InPlace
              ELSE Committed("elf", a, ElfSize(a), b.symbols, a.exports, b.deps,
                             b.section_overrides)

\* The editor is consumed by the commit: nothing follows.
Finished == phase = "done" /\ UNCHANGED vars

Next ==
  \/ prohibit_new_segments \/ reserve_text_region \/ reserve_text_grow
  \/ AddFunction \/ AddData \/ AddWritableData
  \/ AddFunctionIn \/ PlaceRawIn
  \/ add_function_exported \/ HijackInitialiser \/ AppendInitialiser
  \/ add_library_dependency \/ append_macho_segment_padding
  \/ CommitGrown \/ CommitMacho \/ CommitElf \/ Finished

Spec == Init /\ [][Next]_vars

-----------------------------------------------------------------------------
(* Properties.                                                             *)

Placed == phase = "done" /\ out.how \in {"intra_text", "segment", "grown", "elf"}

Overlap(x, n, y, m) == x < y + m /\ y < x + n

\* All the bytes of item k, and no others, are at its place in a buffer.
Intact(bytes, k) ==
  LET item == b.appended.items[k]
  IN /\ item.offset + item.len <= Len(bytes)
     /\ \A i \in item.offset + 1 .. item.offset + item.len : bytes[i] = k

\* Either every item was carved from the region or none was.
Unmixed ==
  \A j, k \in DOMAIN b.appended.items :
    b.appended.items[j].carved = b.appended.items[k].carved

\* No function is longer at its final place than where it was queued.
NothingGrew ==
  \A k \in DOMAIN b.appended.items :
    LenAt(b.appended.items[k], out.base, out.symbols) = b.appended.items[k].len

\* Items keep their bytes.  Whatever sequence of calls filled the append buffer,
\* through the region or past it but not both, every item's bytes are in the
\* buffer at its recorded offset (editor.rs, AppendedFunctionsState); and a commit
\* writes them at that offset of the payload, whether the payload stayed, was
\* rebased above the image or sits in a grown __TEXT, unless a function needed
\* more room at the new base (editor.rs, rebase).
ItemsIntact ==
  Unmixed =>
    \A k \in DOMAIN b.appended.items :
      /\ Intact(b.appended.bytes, k)
      /\ Placed /\ NothingGrew => Intact(out.bytes, k)

\* The payload lands on free bytes: inside a free region of __TEXT, inside the
\* gap of a grow, or clear of the mapped image, so the append writer's overlap
\* check never fires (editor.rs, commit_to_bytes_with_sign; macho_writer.rs).
PayloadClearOfInput ==
  /\ out.how # "overlap"
  /\ out.how = "intra_text" =>
       \E r \in ToSet(FreeRegions) :
         out.base >= r.vaddr /\ out.base + out.size <= r.vaddr + r.size
  /\ out.how = "grown" => out.base = GapBase /\ out.size <= GrowBy
  /\ out.how = "elf" => out.base >= LoadEnd

NamesUnique ==
  \A i, j \in DOMAIN b.symbols : b.symbols[i].name = b.symbols[j].name => i = j

\* Addresses follow the items.  The symbol a call returned is at its item's bytes in
\* the written file, across a rebase and a grow, as long as no name was used twice
\* (editor.rs, rebase and commit_grown recognise a symbol by its name and its old
\* address).  What a call captured as a number stands as long as the commit leaves
\* the payload where it was: exports name their functions, the constructor slot
\* holds a wrapper, and raw code is where its bytes were encoded for (editor.rs,
\* add_function_exported, add_initialiser and add_raw_code_in).
AddressesFollowItems ==
  Placed =>
    /\ NamesUnique =>
         \A k \in DOMAIN b.appended.items :
           LET item == b.appended.items[k]
           IN item.len # 0 => out.symbols[item.sym].address = out.base + item.offset
    /\ out.base = b.appended.segment_vaddr =>
         /\ \A i \in DOMAIN out.exports :
              out.exports[i].vaddr = out.symbols[out.exports[i].sym].address
         /\ out.init # <<>> =>
              \E k \in DOMAIN b.appended.items :
                /\ b.appended.items[k].calls # <<>>
                /\ out.symbols[b.appended.items[k].sym].address = Last(out.init)
         /\ \A k \in DOMAIN b.appended.items :
              LET item == b.appended.items[k]
              IN item.kind = "RawCode" => out.base + item.offset = item.at

\* No writable data was queued after code.
WritableFirst ==
  \A i, j \in DOMAIN b.symbols :
    i < j /\ b.symbols[i].of \in {"code", "failed"} => b.symbols[j].of # "writable"

\* add_writable_data's advice is enough: when all writable data comes before
\* any code, the R-W segment and the R-X segment with its rebuilt tables are
\* disjoint (editor.rs, pick_append_vaddr).
WritableFirstDisjoint ==
  Placed /\ b.appended_writable.some /\ WritableFirst =>
    ~Overlap(out.base, out.size, b.appended_writable.segment_vaddr,
             b.appended_writable.len)

\* The wrappers among the items of state s.
Wrappers(s) == {k \in DOMAIN s.appended.items : s.appended.items[k].calls # <<>>}

\* What the slot holds when the wrappers W have been staged: the input's
\* constructor, or the last of them.
Slot(s, W) == IF W = {} THEN CtorAddr ELSE s.appended.items[Max(W)].at

\* Each wrapper calls what the slot held before it.
AllInitialisersRun ==
  \A k \in Wrappers(b) :
    b.symbols[b.appended.items[k].calls[2]].address =
      Slot(b, {j \in Wrappers(b) : j < k})

\* On ELF a second hijack of the constructor slot chains to the first: every
\* initialiser, and the input's own constructor, is reached from the slot
\* (editor.rs, effective_section_bytes).
ElfInitialisersChain == format = "Elf" => AllInitialisersRun

=============================================================================
