# A TLA+ model of armv8-encode

armv8-encode is a Rust library that disassembles, edits and re-emits machine code in
existing ELF, Mach-O and PE binaries (AArch64, ARMv7 Thumb and Arm, x86). It has no
threads and no persistence: one caller owns an editor, calls it in some order and
commits. What is hard in it is therefore not concurrency but

* **sequences of legal calls**: every call fixes addresses that later calls, and the
  commit, may invalidate;
* **failure in the middle of a call**: layout, emission, allocation and capacity
  checks each return early, after part of the state has changed;
* **fixpoints and worklists**: widening a branch moves other branches out of range;
  a disassembly follows loops in the code;
* **boundaries**: branch ranges, u64 sums, page rounding, regions that are exactly
  full;
* **two readings of one thing**: an instruction table that is searched in both
  directions, and dynamic tables that the library finds by section name and the
  dynamic linker by tag.

The modules model those decisions. Bytes, names, opcodes and file formats are
abstracted to what the properties distinguish. Paths below are relative to the
repository root (`src/rewrite/editor.rs` and so on); `PROJECT.json` maps every
definition to its lines, using the paths of a checkout in `src/`.

## 1. Inventory

| Part | State it keeps | Operations | Talks to | What makes it correct |
|---|---|---|---|---|
| Text-space allocator (`rewrite/space.rs`) | free extents, one live `Region` with a cursor | `plan_reservation`, `Region::carve` | called by the editor's `reserve_text_region` | best fit, genuine refusals, disjoint carves inside free bytes |
| Layout (`rewrite/layout.rs`) | per-op address, size, strategy | `lay_out`, `lay_out_for_size`, `lay_out_scattered` | reads the plan and the container's symbols | consistent addresses, branches in reach, ends |
| Emission (`rewrite/emit.rs`) | output bytes and relocations | `emit` | runs on a finished layout | every reference lands, ops fill the room they were given, untouched code round-trips |
| Hole placement (`rewrite/editor.rs`) | caller's pool of `(va, size)` holes, overlays | `place_data_in_holes`, `place_plan_in_holes`, `place_plan_scattered` | layout, emission, lifted section | no byte handed out twice, pool restored on failure |
| Editing session (`BinaryState`) | append buffer with items and exports, writable buffer, region, overrides, initialiser slots, dependencies, symbols | `add_function*`, `add_data*`, `add_writable_data`, `reserve_text_*`, `*_in`, `add_function_exported`, `add_initialiser`, `add_library_dependency`, `append_macho_segment_padding`, commit | allocator, layout, the container writers | items, symbols, exports and initialisers survive queueing, rebase and growth |
| Control-flow classification (`mc/control_flow.rs`, `isa/*/control_flow.rs`) | none | `is_terminator`, `has_fallthrough`, `direct_target` | read by descent and CFG | - |
| Recursive descent (`isa/*/recursive.rs`) | worklist, status per address, open data range | `disassemble_recursive`, `build_disassembly` | decoder | finds exactly the reachable code, classifies every byte, ends |
| CFG (`mc/cfg.rs`) | leaders, blocks, edges | `build` | control-flow values | blocks partition the slice, edges are its control flow |
| Plan lifting and edits (`rewrite/plan.rs`, `ir.rs`, `isa/aarch64/fusion.rs`) | blocks of ops, original addresses | `lift*`, `redirect_branch`, `redirect_macro_target`, `replace`, `replace_terminator`, `insert_*`, `remove`, `unfuse` | CFG, macro fusion | addresses keep naming the op they named, references survive edits, redirects take effect |
| Lifted section commit (`editor.rs`, `commit.rs`, `isa/aarch64/macro_emit.rs`) | overlays, relocations | `commit_lifted_section`, `commit_grown`, `commit_to_container` | layout, emission | overlays and relocations fit the new bytes |
| AArch64 codec (`isa/aarch64/{table,operand,mod,isa_impl}.rs`) | the opcode table | `decode_instruction`, `encode_instruction`, `encode_widened_conditional` | everything that reads or writes code | a word that is moved or encoded again means the same |
| Data sections (`data.rs`) | byte and pointer items | lift, edit, emit | container | offsets of shifted relocations |
| ELF tables and writer (`container/elf_*`, `dynsym_extension`, `gnu_hash`, `writer`, the ELF half of `editor.rs`) | container with staged section contents, `.dynamic` entries, symbols | grow `.dynsym`, `.dynstr`, `.gnu.version`, `.gnu.hash`, `.init_array`, `.rela.dyn`, `.dynamic`; write in place, with appended segments, or with a grown section and trampolines | commit; read back by the reader and by the dynamic linker | the process that loads the output sees what the calls promised |
| Mach-O image and writer (`container/macho_*`) | layout of segments, sections and `__LINKEDIT` ranges | patch in place, grow `__TEXT`, append a segment, splice load commands | commit; read back by dyld | every old address maps to its shifted place, every load command names its blob |
| Chained fixups (`container/chained_fixups.rs`) | slots, imports, the bytes the imports were read from | `read`, `repoint_fixup`, `shift_by`, `serialize`, `slot_bytes`; staged by `commit_chained_fixups_full` | read by the caller, written by commit and grow | dyld applies exactly the edited list |
| PE writer, metadata readers, the other container readers, ARMv7 and x86 codecs | - | - | everything above | see section 7 |

`PROJECT.json` lists all of them with their status, and, under `hazards`, the lines
where something can go wrong that a test would hardly reach.

## 2. Modules

```
SpaceOps ──► TextSpace ──► TextSpaceProofs
   └───────► Session ──► SessionProofs
Layout ──► Emit ──┬──► PlacePlan          EmitProofs ──► PlacePlanProofs
       HoleOps ───┘
ControlFlow ──► Descent ──► DescentProofs
ControlFlow ──► Cfg ──► PlanEdits ──► LiftedCommit ──► CommitProofs
                                                        ReferenceProofs ◄──┘
Words ──► A64Operand ──► A64Codec,   Words ──► A64Table        (MCA64 extends both)
ElfFile ──► ElfTables ──► ElfWriter ──► ElfCommit ╌╌refines╌╌► LoaderView
                                          └──► ElfProofs
MachoFile ──► Fixups ──► MachoWriter ──► MachoCommit
```

Solid arrows are EXTENDS; a module named `...Proofs` also extends the module it is about;
ElfCommit instantiates LoaderView. Each `MC*` module extends
a module at the end of a chain and gives the CONSTANTs small values. Definitions keep
the names of the functions they model. Definitions commented as mutants are variants
with a plausible bug; nothing uses them, they show that a property notices the bug.

**SpaceOps** holds the records and the arithmetic of `space.rs` (extents, requests,
`round_up`, the candidate test, the preference order, the carve computation) with
`u64` cut down to `0 .. MaxU64`, keeping checked and saturating steps apart.

**TextSpace** is one reservation: `EvaluateExtent` is one iteration of
`plan_reservation`'s loop, so what the scan knows so far is an invariant;
`FulfilFromFreeSpace`, `FulfilByGrowing` and `Refuse` are what the editor makes of the
result; `carve` is `Region::carve` with its three outcomes. `GrowDelta` keeps the
wrapping sum of the page rounding.

**Layout** runs the two loops of `layout.rs` one op at a time: `assign_addresses` and
`AssignEnd`, then `SkipOp`, `WidenOp` or `FailOp` for each op, then `PassEnd`. A pass
therefore reads the addresses assigned before it while it changes sizes, as in the
code. The three entry points differ in `mode`. Blocks are flattened: `starts[b]` is
the index of block b's first op. Addresses are unbounded naturals: plans that wrap
around the end of the address space are outside the model.

**Emit** continues a finished layout with `emit`: for each op the choice between a
verbatim copy, a relocation, an encoding and the widened form, in that order, with
their errors. An emitted op is where it went, how long it is, and where its
reference lands, computed from the displacement the bytes carry and the place they
really ended up at, not from the layout's address. `source` says what the original
bytes decode to: this op, another one, or nothing (a placeholder of the tolerant
lift).

**HoleOps** and **PlacePlan**: `take_hole`, `reserve_hole`, `release_hole` as functions
on a sequence of holes, and the three placement calls as actions over Layout and Emit.
A call is a sequence of steps (probe, reserve, lay out, emit, overlay or give back; for
a scattered plan, one hole per block out of a copy of the pool, which replaces the pool
only when every block has found one); calls follow one another and share the pool. What
is overlaid is as long as the layout at the hole, not as the probe: a span keeps both
lengths, and `probed` keeps the probe's layout, for the property that compares them. `Lifted` says whether there is a lifted
section: without one, `place_data_in_holes`, `place_plan_in_holes` and
`place_plan_scattered` return after they have taken the hole.

**Session** is `BinaryState`. The state is one record `b`; an operation is an operator
on it that answers success and the state left behind, because several calls fail after
changing something (the provisional symbol of `add_function_generic` stays). The
payload is modelled by the owners of its bytes: byte = index of the item, 0 for
padding, so truncation and overlap are visible. Commit follows
`commit_to_bytes_with_sign`: a grown image, an in-place write, the intra-`__TEXT`
placement, `rebase` to a new segment, or the ELF segments. A call that fails without
changing anything is a stuttering step. The lifted section, which commits
independently, is LiftedCommit's; what the ELF commit writes is ElfCommit's.

**ControlFlow**, **Descent**, **Cfg**: the neutral control-flow value with its three
queries; the worklist walk (`Pop`, `StopWalk`, `DecodeInstruction`, `DecodeFails`) and
the listing (`ListInstruction`, `accumulate`, `FinishBuild`) of `recursive.rs`; the
three passes of `cfg.rs`. What bytes decode to is a function of the address, so
overlapping Thumb instructions are possible.

**PlanEdits** continues a finished graph with `lift` (relocation lookup, target
resolution), the fusion of `adrp` with its companion into a macro op, and one action
per edit of `plan.rs`, with its errors. A target is a block, a symbol or an absolute
address, as in the code; edits name ops by source address, so that every edit can
meet an op that another one has split, removed or replaced.

**LiftedCommit** emits the edited plan in place, as a copy at `FarBase`, or under a
grown `__TEXT` (the section itself shifted, or a copy in the gap), expands macros as
`macro_emit.rs` does, rebuilds the relocations as `commit.rs` does, and applies
overlays. A word keeps the address its displacement reaches from where it was put.
Which references become relocations is decided twice, for instructions and for macros,
and the two differ: `macro_emit.rs` looks at ELF stubs only, so an input says whether it
is Mach-O. Copies refuse relocations (`WithoutRelocations`), a commit of a final image
does not, and only a linked Mach-O image grows. An access by relocation has no form for
some registers (`VectorRegisters`) and fails. Every branch reaches here: widening is the subject of Layout and Emit.

**Words**, **A64Table**, **A64Operand**, **A64Codec**: machine words are the sets of
their one bits. A64Table is the library's whole opcode table in its order, since which
row a word matches depends on every other row. A64Operand is the decoder and encoder
of every operand kind. A64Codec chooses among the rows in both directions, restores
the implicit fields of aliases, and takes one word through what emission may do with
it: `EmitUnmodified` (copy it, or encode it again where a copy would lose a PC-relative
reference), `EmitChanged` (encode it from its operands) and `EmitWidened`.

**ElfFile**, **ElfTables**, **ElfWriter**, **ElfCommit**: a file is sections, program
headers and chunks of content at file offsets. ElfFile has its two readers: the
library's, which takes a table from the section of that name, and the dynamic linker
(external), which follows `PT_DYNAMIC` and the addresses in its tags, looks names up
through the hash chain, applies relocations and runs initialisers. Code is kept as the
function it runs and the functions it calls, as displacements, so moved code shows.
ElfTables extends one table each; ElfWriter is the three writers, with the assertion
of the `object` crate's cursor as a panic; ElfCommit is the session: one action per
call, then `Commit` with its three table steps in order (exports, initialiser slots,
libraries), each reading the sizes and the staged `.dynamic` the one before it left,
and `Reopen`.

**LoaderView** is the abstract specification: `view`, what a process sees of the file,
and `plan`, what it is promised to see of the next one. An edit changes the plan; a
session ends by delivering exactly the plan or by refusing and leaving the view.
ElfCommit implements it with `view <- seen` (what the modelled dynamic linker finds in
the file that was written), `plan <- promised` and `ok <- outcome = "ok"`. An edit of
`promised` is made by the call and not read by the commit, so the refinement compares
two independent computations.

**MachoFile**, **Fixups**, **MachoWriter**, **MachoCommit**: an image is segments,
sections, the `__LINKEDIT` ranges of the load commands, and pieces of content at file
offsets; writing over part of a piece leaves it torn. Fixups is `chained_fixups.rs`:
the chain of a page as words with a target and a distance, the starts per page, and
the imports table in cells of four bytes, with its length found again from its shape
as the code does. MachoWriter is the in-place writer and the grow, which inserts pages
before the first section of `__TEXT` and then visits everything that names an address
past them. MachoCommit is the session: the caller reads the fixups, edits the list,
stages it, or reserves a grow and appends code, commits, and opens the output again.
`Seen` is what dyld (external) applies, from the starts and the words alone; `want`
is what the caller's edits mean, kept apart from the list the code computes with.

## 3. Runs

| Run | Shows |
|---|---|
| `text_space` | for unordered free lists and requests on both sides of every limit, the planner picks the best extent, or refuses only when no aligned run exists and reports the exact shortfall; carves are disjoint, stay in the extent at the same address/offset skew, and are refused only when they do not fit |
| `emit` | fresh, lifted, edited, moved and shortened plans in all three modes, laid out and then emitted: addresses fit the final sizes and branches reach, nothing is widened without need, ops take their room and references land, only the boundary cases are refused by the encoder, an untouched function is reproduced byte for byte, both loops end |
| `place_plan` | four calls in any order on a shared pool: no byte is handed out twice or outside the freed holes, what is written stays in its span but for a plan that outgrew its probe, a call that places nothing leaves the pool as it was, references of placed plans land |
| `session` | three queueing calls and a commit, on ELF and Mach-O: payload bytes, symbols, captured addresses and initialiser chains |
| `descent` | every program of three units: exactly the reachable addresses are found, the listing tiles the buffer with true reasons, the walk ends |
| `plan` | every slice of up to three instructions is cut into blocks whose edges are exactly its control flow; slices with an `adrp`, in images and in relocatable objects, are lifted, edited once or twice, emitted in every mode and committed: references survive and redirects take effect but for the named cases of section 4, source order is kept, overlays and relocations fit the bytes |
| `a64` | every row of the table, with its free bits clear, set, one at a time and in pairs, is decoded, emitted at home and at two other addresses, encoded again and widened: references land or are refused because the field cannot reach, and the meaning is kept |
| `elf` | up to three calls in up to two sessions on twenty small shared objects, committed in every order: the process that loads the output sees exactly what was promised (`LoaderSeesThePlan`, the refinement), a strict loader accepts the segments, nothing in the file lies over anything else, and no appended commit trips the writer |
| `macho` | up to four calls in up to two sessions on nine small images: dyld applies exactly the fixups that were staged (`FixupsDelivered`); after a grow fixups, sections, exports, symbols, initialisers, unwind entries, the entry point and the appended code are where they should be (`AddressesFollow`); every load command names its own whole blob and no segment lies over another (`LinkeditIntact`) |

Three runs are expected to be violated. Each states a sentence of the repository's own
documentation that the code does not keep; TLC's counterexample is the evidence.

| Run | Sentence | What happens |
|---|---|---|
| `plan_redirect_doc` | README: "`redirect_macro_target_at(address, target)` — change a macro's target" | the macro is emitted at its own address and its source bytes are copied; the redirect is lost |
| `a64_literal_doc` | `emit.rs`: "the caller then re-encodes from operands"; the tests' round trip | a moved `ldr q0, label` becomes `ldr s0, label` |
| `elf_grow_doc` | `elf_writer.rs`: "a trampoline (`b <new_addr>`) forwards execution to the relocated function body" | the trampoline of every function behind the insertion enters the copy too early |

Other disagreements met while modelling are recorded in the notes of the hazards; they
have no run of their own. The larger ones: lifting looks relocations up by address over
all sections (`plan.rs:440`), and as the sections of an ELF object all start at 0, an
instruction can take the symbol of another section's relocation, where the comment of
`lift_instruction` says "If a relocation applies to this instruction"; a hole is chosen for a layout at base 0
and can be too small, so that the overlay runs over the code behind it (`layout.rs:64`,
`editor.rs:1806`); a commit or a grow of a final image returns Ok for a reference that
became a relocation nobody applies, an `adrp #0` or a branch to itself (`emit.rs:338`:
"a deferred relocation would never be applied"); a grow moves `__stubs` but not the addresses that
`macho_image.stubs` has for them, so a call that was redirected to an import goes to
where its stub was; exported addresses on Mach-O are captured before
a rebase (`editor.rs:3358`); a second Mach-O initialiser orphans the first wrapper;
the first append of a strict session is not checked; new exports get `st_shndx` 0
(`editor.rs:4353`); `pick_append_vaddr` (`editor.rs:2372`) says the code and writable
segments never overlap, but the lower one keeps growing after the upper one was
placed; two fixups of one slot keep the first, where a comment says "last wins"
(`chained_fixups.rs:883`).

## 4. Conditions of the properties

Some properties hold under a condition, because the code has no guard for the rest.
The condition is part of the property and names the hazard:

* `ReferencesLand`: a branch the layout widened can still be emitted verbatim or with a
  relocation, shorter than its room (`OverridesWidening`); references are claimed to
  land when every op takes its room (`TakesItsRoom`), and in a scattered placement
  when no block is empty (`Scatterable`), as `place_plan_scattered` requires.
* `ItemsIntact`: calls with and without a reserved region are not mixed (`Unmixed`):
  they share a buffer but not a cursor; after a rebase also `NothingGrew`: `rebase`
  keeps offsets even if a function is longer at the new base.
* `AddressesFollowItems`: no name is used twice (`NamesUnique`), since `rebase` finds
  symbols by name and old address and a failed append leaves its symbol behind;
  addresses captured at queueing are claimed only if the commit leaves the base alone.
  An item of no bytes is left out: `rebase` finds a symbol by name and old address, and
  a zero-length item shares its address with the next one.
* Reservations ask for at least one byte: a request for none can be given the end of
  `__TEXT` as its region, from where the next append leaves the segment.
* `WritableFirstDisjoint`: writable data is queued before code (`WritableFirst`), as
  `add_writable_data`'s documentation advises.
* `place_plan` runs with a lifted section (`Lifted = {TRUE}`).
* `GrowCoversRequest`: the page rounding does not wrap.
* `SpansAccounted`: what is written lies in the span reserved for it unless a branch out
  of the plan was widened at the hole and not at base 0, where the plan is sized
  (`OutgrewProbe`). In that case the code does write behind the hole.
* `LoaderSeesThePlan`: the modelled dynamic linker takes a symbol by its value. New
  exports are written with `st_shndx` 0 (`editor.rs:4353`), as undefined ones are; a
  loader that skips those does not find them, and the refinement does not hold for it.
* `ReferencesSurvive`: a pair's reference is lost in the cases of `LosesReference`: a
  relocation of another section at the same address (`Misattributed`), a relocation's
  addend (`AddendDropped`), a relocated companion that is not in one macro with its adrp
  (`LoneCompanion`), an access folded into its page (`FoldedAccess`), a bare page on the
  other side of a grow's insertion point than the address it is half of
  (`AcrossInsert`), a macro copied at its own address although its target moved
  (`CopiedStale`), and a reference of a final image that became a relocation, which
  nobody applies (`Unapplied`). A branch loses its reference as `Misattributed`,
  `AddendDropped` or `Unapplied` only. TLC refutes the property without any one of the
  seven. A relocation counts as a reference in a relocatable object only.
* `RedirectsTakeEffect`: not for a macro whose source bytes are copied
  (`CopiedAtHome`, the subject of `plan_redirect_doc`), nor for the folded form of an
  access (`FoldedAccessRedirect`), nor for a new target that became a relocation of a
  final image (`UnappliedRedirect`), nor for an import whose stub a grow moved
  (`StubLeftBehind`). TLC refutes it without any one of the four.
* `OverlaysLand`: no successful edit changed the length of the code (`Resized`).
* `MovedKeepsMeaning`, `MovedReferencesLand`: not for literal loads of a 64-bit or SIMD
  register (`WideLiteralLoad`) nor for `b.nv`; `ReencodingKeepsMeaning`: not for the
  forms of `NotRepresentable`, whose operands do not carry every field.
* `elf`: writable data is queued before code; a file is reopened only while its tags
  still name its sections (`SectionsInUse`), because the library reads tables by
  section name; text edits keep their length, the other kind being the subject of
  `elf_grow_doc`. The in-place writer may panic on a section table out of file order.
* `FixupsDelivered` asks for a list the formats can hold (`Expressible`); beyond it the
  code loses something without an error. Slots are distinct (the first of two is
  kept) and lie in the file part of their segment (the bytes of a slot in zero-fill go
  over the next segment's); the addend of a ptr64 bind fits eight bits; a format forced
  by `ensure_addend64` comes with a change of the imports (unchanged imports are
  replayed in the old format under the new name); and in the formats whose targets
  count from the load address nothing is edited unless that address is 0, because the
  editable target, documented as absolute, is the raw field there.
* `AddressesFollow`: rebases, exports and symbols of the header, below the insert, are
  left out: `shift_by` and the trie move them too, and symbols are compared with a
  file offset. So are the targets of the userland format, which are not moved.
  Function starts and data-in-code keep old values, and `LC_SEGMENT_SPLIT_INFO` is not
  shifted; the images have neither of the latter two. What was staged in the session
  of a grow is not written at all, so nothing is promised of it.
* `LinkeditIntact`: whatever was staged was `Expressible`.

## 5. Bounds and fairness

Every bound is a CONSTANT set in a cfg.

* `text_space`: a 5-bit address space (`MaxU64 = 31`), so that saturation and checked
  overflow happen; up to four extents with ties, header pad and grown extents;
  three carves, enough for a pair with a failure in between.
* `emit`: an ISA scaled to 4-byte ops, ranges of 8 and 16 bytes and an 8-byte widened
  branch: ops sit on both limits of a range, and one widening pushes another branch
  out. `MAX_LAYOUT_ITERATIONS` is 2 instead of 16 so that giving up is reached.
* `place_plan`: pools with ties and remainders smaller than an instruction, plans that
  reach every exit of every call, one of which is longer in a hole than at base 0; four
  calls, so that a hole can be split, given back and taken again.
* `session`: three calls before the commit; pages of 16 bytes and free regions of 7
  and 20 bytes, which the bodies and blobs fill after one to three calls. Every
  condition of section 4 is violated by some behaviour of these bounds.
* `descent`: three units, over all kinds and all targets inside and just outside the
  buffer, entries repeated and out of range.
* `plan`: slices of up to three instructions of one or two units; pages of 4 bytes, so
  that a slice lies across pages; one symbol of each kind (in the text, in data,
  undefined, a section, in the gap, an import with a stub); one or two edits. Inputs are
  relocatable objects and final images, the latter ELF or Mach-O, the ELF ones also with
  relocations left; redirects go to every kind of target, among them an undefined symbol
  without a stub; one slice accesses a register that no relocation fits.
* `a64`: addresses are real; the three places are `2^28` and `2^28` plus and minus a
  page and two words. Operand fields are independent in the code except where one
  selects the meaning of another, which the single bits and the `Rn`/`Rm` pair reach.
* `elf`: lengths in words of four bytes, pages of 64 words. Inputs have no, one or two
  initialiser slots, one to three terminators in `.dynamic` (entries fit or the table
  moves), with and without `DT_RELACOUNT`, `.gnu.version` and `.symtab`, sections in and
  out of file order. A new export collides with an old one's hash. Three calls reach
  every pair of the three table steps; two sessions reach an extended file again.
* `macho`: pages of 64 bytes, two of `__TEXT` and two of `__DATA` with zero-fill behind
  them and, in some images, an all-zero segment. One image per pointer format at least,
  two classic ones and one of a format the library refuses; loaded at 0 and above
  `__PAGEZERO`; with and without a signature; blobs with and without slack, so that
  staging fits or is refused and a grow keeps or moves them. Four calls, counted over
  the sessions, reach: read, add an import, bind a slot to it, stage; a grow, then the
  same edit of the grown file; two grows. A name of the imports table takes one cell:
  shorter ones, of one or two characters, can look like an entry to
  `measure_imports_blob` and are outside the model. Addends stop fitting an `i32` at
  `I32MAX = 8`.

Deadlock is checked everywhere but in `a64`, `elf` and `macho`, where a word that has
been emitted and a last session that has been committed are the end; elsewhere a
stuttering `Returned`, `Finished` or `Done` step stands for a finished call or session
only.

Fairness is used in `Emit` (over Layout) and `Descent` only: weak fairness of the steps
of one call. The call runs in one thread, blocks on nothing and cannot be cancelled, so
a step that can be taken is taken. No fairness is assumed of the caller.

## 6. Proofs

What follows is proved for every value of the constants: every plan, pool, image,
buffer, address width, page size, and any number of calls, not only the bounds of
section 5. Each theorem has the form `Spec => []P` where `P` is the property of the run
of the same component, and follows from one inductive invariant per specification. The
invariant is shown to hold initially and to be kept by each action, one lemma per action;
the theorems are then its consequences. `PROJECT.json` names them.

The assumptions on the constants say what the values of the Rust types can be. Those
that say more are: the blocks of a plan are in order, targets name blocks and symbols
that exist, a branch that can be widened is not longer than its widened form, instructions
have a fixed width as on AArch64 (`IsPlan`, `IsOp`, `IsEmittable`); the holes of a pool are
apart (`IsPool`); an instruction lies inside its buffer (`DescentAssumption`); the free
regions and the gap of an image lie inside `__TEXT`, and reservations ask for at least one
byte (`SessionAssumption`); the instructions of a slice follow one another without gap or
overlap, as a linear sweep returns them (`SliceOK`), only an instruction that is no
`adrp` and no companion of one branches, and a section that is lifted with a container
is AArch64 code, a word for each instruction from its base on; a relocation of that
section sits on an instruction it fits, and a low half holds nothing before the link and
the low bits of its address after it; a relocatable input has a container, and no
relocation that lifting looks at is left in a linked Mach-O image (`InputOK`,
`RelocFits`); a caller redirects only to
symbols the container has, and a symbol's id is its position (`PlanAssumption`); the
sections of a shared object lie behind the file header and apart from one another
(`CommitAssumption`). TLC evaluates each of them on the runs.

**The allocator** (`TextSpaceProofs`): `TypeCorrect`,
`CarvesNeverOverlap`, `CarvesStayInside`, `BestFit`, `RefusalsGenuine`, `GrowCovers`. The
invariant is `TypeOK /\ ScanInv /\ RegionInv /\ CarveInv`, extended for the refusals by
`LargestInv /\ FullInv`. Disjointness is not inductive alone: a new carve is only known
to be clear of the old ones because all of them end at or before the cursor
(`CarveInv`). Containment needs the region inside its extent (`RegionInv`), which needs
that the chosen extent was sufficient when the scan ended, which needs what the scan
knows about the extents it has passed (`ScanInv`); best fit needs that the preference is
a total preorder (`PreferredOrder`), since the scan compares each extent with the
current best only. A refusal is genuine because `largest` bounds what every extent
passed so far offers, and because `round_up` returns the *least* multiple.

**Layout and emission** (`EmitProofs`): `LayoutsConsistent`,
`WideningNeeded`, `EmittedReferencesLand`, `EncodeErrorsBoundary`, `UntouchedVerbatim`, for
every plan, base, placement, range and iteration limit. `LayoutInv` says how far the
current pass has got: addresses assigned so far follow one another by the current sizes;
once a widening pass has changed nothing up to op k, the ops before k reach
(`AddressInv`, `RangeInv`). It says nothing of addresses while `grew` holds, because then
sizes have changed under them; that the pass is repeated is what makes an accepted
layout consistent. That nothing is widened without need speaks about the final
addresses, while the decision was taken at those of an earlier pass; the bridge is
`GrowthInv`: from each pass to the next, distances inside the plan only grow, so a branch
once out of reach stays out of reach. In emission, an op is at the address the layout
gave it as long as every op before it took its room (`InPlace`).

**Hole placement** (`PlacePlanProofs`): `SpansAreAccounted`, `PoolIsRestored` (with a
lifted section), `PlacedPlansConnected`, over any number of calls. `PoolInv` has the freed
pool, the current pool and the pool at the start of the call: the last two are left of
the first, and what was placed lies in the first and is clear of both. While a plan is
being placed, the room reserved for it and the rest of the pool make up the pool at the
start; while a scattered one collects holes, those it has taken and what is left of the
copy do. That what is written fits its span relates two layouts. What is
left of the probe is an accepted layout: a branch inside the plan that it did not widen
reaches at its addresses (`ProbeInv`, `Sized`). While the plan is laid out at the hole, no
op is larger than the probe found it, until a branch out of the plan is widened
(`NoneLarger`, `OutgrewProbe`, `HoleInv`): as long as no op is larger, two places of the
plan are nowhere further apart than in the probe (`NotFurther`), so a branch inside the
plan that is out of reach now was so there and is widened in both (`WidenedBefore`). No op
is emitted longer than the layout made it (`FitsItsRoom`).

**Recursive descent** (`DescentProofs`): `ExactlyReachable` and `ListingTiles`, for every
buffer, decoder and list of entries. `Reachable` is defined as the least set that holds
the entries and is closed under successors, independently of the walk. One inclusion
is that only reachable addresses are pushed; the other is that classified and pending
addresses together are closed under successors (`WalkInv`), so that when nothing is
pending the classified ones are. Which reason a data range has needs the range that is
still open (`BuildInv`).

**The editing session** (`SessionProofs`): `ItemsKept`, `PayloadClear`, `AddressesFollow`,
`WritableApart`, `InitialisersChain`, for every image and any number of calls before the
commit. `StateInv` is kept by every call: an item's symbol has its name and its address
(`SymbolsInv`), the buffer is where the format allows (`PlaceInv`), unmixed items own
their bytes and carved ones end at or before the region's cursor (`BytesInv`), the
writable segment placed first ends below the code (`WritableInv`), the staged slot holds
the last wrapper and each wrapper calls the one before it (`ChainInv`). `Outcome` says what
the commit made of that state: the rebase rebuilds the buffer item by item, and a second
induction, over the items, shows that each is copied whole and that each symbol is moved
once. Two cases came out of the failing proofs and are now conditions of section 4: a
reservation of zero bytes, and an item of zero length.

**The graph and the plan** (`CommitProofs`): `GraphIsFlow` and `OrderIsKept`, for every slice,
container and sequence of edits. The graph is built by three passes that share nothing but
the leaders. `CollectInv` says which leaders the first pass has found; while the second
forms blocks (`FormInv`), the blocks so far cover the slice up to the next leader
(`NextCut`, `CoveredTo`) and every leader taken out of the set starts one, because after a
terminator the next instruction is always a leader. So every address an edge can resolve
to is the start of a block, and what the third pass attaches is the flow of the block's last
instruction (`AttachInv`), while an instruction inside a block only falls through. `OrderIsKept`
rests on what one op stands for: fusion puts a pair in the place of two neighbours, and
no companion is itself an `adrp`, so pairs never overlap (`FuseKeeps`, an induction over the
recursive function of `fuse_macros`); every edit is a splice whose ops stand for no
address but those of the op it replaces (`SpliceKeeps`), which keeps each block's order
and the order between blocks.

**The commit of a section** (`CommitProofs`): `OverlaysHit` and `RelocationsFit`, for every
slice, container and sequence of edits. Where the words of an op land depends on the
widths of all ops before it, so the invariant has to say that those widths add up: in
each block the ops lie end to end and fill exactly what the block filled in the source,
a macro two words and any other op one, and an op that has a source address lies at it
(`TileInv`, as long as no edit changed the length, `Resized`). Lifting establishes it,
because fusion puts a macro of two words in the place of its two instructions
(`FuseTiles`); splitting a macro, redirecting it and replacing an instruction keep it
(`UnfuseTiles`, `RetargetTiles`, `ReplaceTiles`), and the blocks of a finished graph
themselves lie end to end, so the whole plan does (`FlattenTiles`). Emission is a
recursive function over the ops (`EmitFits`, an induction over it): every op becomes as
many words as it is wide and every relocation it records sits on a word its kind can
patch, whichever of the ways of emitting it was taken (`InsnEmits`, `MacroEmits`). So
word k of the section stands for the k-th source address or for none (`SectionStands`),
which is why an overlay at an address hits that code and no other. `RelocationsFit` adds
what the rebuild does with the list: the survivors are those of the other sections, in
their order (`OthersAreOther`, `OthersKept`), and a new one's id is its position. It
needs no condition on the edits: a relocation fits its word wherever the op went.

**Redirects** (`ReferenceProofs`): `RedirectsHold`, that `RedirectsTakeEffect` is invariant for
every slice, container, sequence of edits and kind of emission. Three facts meet in it.
First, the log of the edits is true of the plan (`RedirInv`): whatever op stands for an
address refers to the target of the last successful redirect there, since every other edit
only takes ops away, adds ops that stand for nothing, or splits a macro into instructions,
which a macro redirect no longer speaks of (`Descends`); and a macro always stands for two
neighbours of the source (`Paired`). Second, every word of an emission is a word of exactly
one op, with exactly that op's relocations on it (`Covered`, an induction over the recursive
function of `emit`): neither a duplicate source address nor the offsets of other ops'
relocations can mix two references, even after inserts and removals. Third, what one op
becomes, in each of the ways of emitting it (`InsnForm`, `MacroForm`): both words of a pair
get the relocation of the target's symbol, or both get the halves of its address, and never
one of each, because the choice depends on the view and the macro only (`PairRefers`). A grow
shifts the target in the plan and the one that is wanted alike (`ShiftRefers`, `BumpOK`).
That settles which address or which symbol the emitted words name (`NamesInv`). Where the
code goes is the last step (`RedirectsReach`): a name in a relocation is followed by the
linker of an object and is an exception in a final image; an import's stub is where it was
unless a grow moved it, and only Mach-O images, which have no relocations left, grow
(`ViewInv`). Of the four exceptions two are the forms that do not read the macro's target
and two are names nobody resolves; the theorem also says that there is no fifth.

**What nobody redirected** (`ReferenceProofs`): `ReferencesKept`, that `ReferencesSurvive` is
invariant for every slice, container, sequence of edits and kind of emission. The redirects'
facts say what an emitted word refers to in terms of the edited plan; here the plan has to
be tied to the source. The invariant for that is `SourceInv`: every op of an edited plan
stands for no source address, or is an op that lifting or fusing can make of the source
(`SourceOps`), or differs from one in a target that a successful redirect of one of its
addresses gave it; and the plan has the blocks of the graph. It is needed because a macro
can be split and its halves kept, inserted behind, moved or shifted before anything is
emitted, and each of these must leave the ops of other addresses what the lift made them
(`DescendsStems`, `RetargetStems`). From it: the words of an untouched address come from
the lift of that address (`OpFor`), with the target shifted exactly when the view is
(`PlainFrom`, `ShiftedFrom`). What that target is depends on which relocation the lookup
found (`LiftedTarget`) and, for a macro, on which of the attempts to fuse succeeded
(`FusedTarget`): it is the symbol both relocations of the source name, or what the two
halves compute. Resolving it gives where the symbol, the block or the address has gone, or
the symbol itself in a relocation (`SymbolWanted`, `ResolvedWanted`, `MovedTarget`). An
adrp and a companion that were not fused give their page and offset apart, and agree unless
an insertion point lies between the page and the address (`ApartKept`). A macro that is
copied has the bytes of the source, which refer to what is wanted only where nothing moved;
that a copy elsewhere in the address space, or a section whose length an edit kept, never
puts a macro back at its own address with something else moved follows from `TileInv`
(`BlockStands`, `CopiedKept`). Overlaid words stand for no source address and have to keep
nothing (`ShowsOf`). As with redirects, all of this is first said of what the words name and
then of where the code goes (`ReferencesReach`): a symbol the source names is, in a final
image, at the address the words have unless it is left to a relocation, and the source of
an image that can grow names none (`SourceSymbols`). The theorem says that the seven cases
of `LosesReference` are the only ones, and TLC that none of them can be left out.

**The ELF writer's assertions** (`ElfProofs`): `AppendedNeverPanics`, that
`AppendedCommitNeverPanics` is invariant for every shared object, section table order,
sequence of calls and number of sessions. The `object` crate's writer asserts that its cursor
never moves back, so every section must start at or behind the end of the one placed before
it. Two facts meet. The stable sort by offset is stated by ranks: the k-th section is the
one with k - 1 before it; that there is one for each k is an argument by counting
(`OrderRanks`), and then neighbours in the order lie end before start (`EndsBefore`),
because the sections lie apart. And no section is longer than it was (`KeepsLength`), though
several functions stage bytes for it: a hijacked `.rela.dyn` gets other entries at the same
length, an edited `.text` keeps its length (the theorem's first hypothesis,
`EditsKeepLength`), a `.dynamic` that fits is filled up, and one that does not fit is
unstaged and goes to the segment (`WorkOK`, in which only `.dynamic` may have another
length, and `FinalizeOK`). A table that is missing ends the commit before any of this
(`MissingTable`), except that code alone needs none. The invariant (`IInv`) has the
sections of the session and of the file, since the output is opened again: its old headers
are those of the input, and the writable and the appended segment lie behind the cursor
(`AppendedFile`). The theorem's second hypothesis, `SizesAreNumbers`, is a fact of type: the
appended segment's length is a sum of table lengths counted from the input's content, which
no assumption describes; TLC does arithmetic with it in every state.

Only model-checked:

* the two termination properties and LoaderView's refinement by ElfCommit (liveness is out
  of the prover's reach; the refinement goes through the hash chains and the tables, which
  are folds over the file);
* `a64`: `MovedReferencesLand`, `MovedKeepsMeaning`, `ReencodingKeepsMeaning` and
  `WidenedBranchesAgree` are statements about one fixed table of several hundred rows,
  which TLC evaluates in full; a proof would be the same enumeration;
* `macho`: Fixups follows chains with a RECURSIVE operator, which keeps the SMT backend out
  of it and of every module above it, and what the chains hold needs induction over them;
* `elf`: `SegmentsLoadable` and `FileRegionsDisjoint` speak of the program headers and of
  the content of the output, which reader and writer select and flatten with the library's
  recursive sequence functions: what these return needs induction over data;
* `plan_redirect_doc`, `a64_literal_doc` and `elf_grow_doc`, which are violated.

## 7. Not modelled

* The ARMv7 decoders and encoders, except for the sizes, ranges and errors they
  contribute to Layout and Emit; x86 goes through the third-party iced-x86, patch
  sections included.
* Of Mach-O: the appended-segment and intra-`__TEXT` writers with their load-command
  splicing, new exports and dylib commands (Session models where they put the payload,
  not the file around it), section overrides under a grow, stubs and indirect symbols,
  signing, which runs an external tool, and the radix encoding of the export trie. Of
  the chained fixups, authentication and tag bits, which the library drops on every
  write, and a list whose error makes a grow skip the fixups (segments of different
  formats). What the grown writer drops (exports, dependencies, overrides) is visible
  in Session's `out`, and no property is stated about it.
* Objective-C, Swift and DWARF readers, the Mach-O and PE readers, the PE writer:
  read-only parsing or byte copying without a decision to check.
* `data.rs`: pointer and byte items of data sections.
* Of ELF: 32-bit files, NOBITS sections, packed relative relocations,
  `dynamic_relocs.rs`, code signing.
* Text formatting of instructions; the addends of relocations that Emit records.

## 8. Plan

1. The appended-segment writer of Mach-O over MachoFile, with new exports and dylib
   commands, and a refinement like LoaderView's for dyld.
2. `data.rs` composed with LiftedCommit; ARMv7's choice of width composed with Emit.
