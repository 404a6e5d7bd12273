-------------------------------- MODULE Emit --------------------------------
(***************************************************************************)
(* rewrite/emit.rs on top of rewrite/layout.rs: a finished lay_out is      *)
(* turned into bytes, op by op.  Each op is copied verbatim, emitted with  *)
(* a relocation, encoded, or encoded as a widened conditional branch.      *)
(* Bytes are abstracted to what placement needs: how many each op          *)
(* produced, and where the branch in them lands from where they ended up.  *)
(*                                                                         *)
(* An op of a plan has, besides the fields Layout reads:                   *)
(*   orig        its original address, or -1 for a synthesized op          *)
(*   source      "same" if the bytes at orig decode to this very op,       *)
(*               "changed" if they decode to another one, "undecodable" if *)
(*               they do not decode and the op is a placeholder for them   *)
(*   orig_target the address the source instruction refers to              *)
(*   orig_size   the length of the source instruction                      *)
(*   enc         the number of bytes the encoder produces for the op       *)
(*   has_reloc   relocation_kind_for knows its mnemonic                    *)
(***************************************************************************)
EXTENDS Layout

CONSTANTS
  NeedsReloc,    \* symbols for which symbol_needs_relocation holds
  Relocatable,   \* whether the container is a relocatable object
  PageSize,      \* granule of a page reference (adrp)
  PageRange      \* its reach in bytes

\* Instructions have a fixed width (AArch64): the encoder and the source take the
\* bytes the layout counts.  A placeholder has no reference, and a page reference
\* was lifted from the address of a page.
IsEmittable(o) ==
  /\ o.orig \in Nat \cup {-1}
  /\ o.orig_target \in Nat
  /\ o.source \in {"same", "changed", "undecodable"}
  /\ o.has_reloc \in BOOLEAN
  /\ o.enc = o.size /\ o.orig_size = o.size
  /\ o.source = "undecodable" => o.kind = "plain"
  /\ o.kind = "page" => o.orig_target % PageSize = 0

ASSUME EmitAssumption ==
  /\ NeedsReloc \subseteq DOMAIN SymAddr
  /\ Relocatable \in BOOLEAN
  /\ PageSize \in Nat \ {0}
  /\ PageRange \in Nat
  /\ \A p \in Plans : \A j \in 1 .. Len(p.ops) : IsEmittable(p.ops[j])

VARIABLE out     \* one entry per op emitted so far

vars == <<layoutVars, out>>

Emission ==
  [at : Nat, len : Nat, lands : Int,
   form : {"verbatim", "relocated", "encoded", "widened"}]

\* Where the next byte of the stream ends up.  The stream is placed at base; a
\* scattered one is cut at the source sizes and each cut put at its block's
\* address, which is where the op goes as long as every op takes its room.
Here ==
  IF mode = "lay_out_scattered" /\ k <= NumOps /\ BlocksAt(k) # {}
  THEN NextAddress
  ELSE IF out = <<>> THEN base ELSE out[Len(out)].at + out[Len(out)].len

EmitInit == Init /\ out = <<>>

Page(a) == a - (a % PageSize)

needs_relocation(j) ==
  /\ container
  /\ ops[j].kind # "plain"
  /\ ops[j].target.kind = "symbol"
  /\ ops[j].target.v \in NeedsReloc

\* The reference of op j resolves to where the source instruction pointed.
refers_as_before(j) ==
  /\ ResolveError(ops[j].target) = "none"
  /\ resolve_target(ops[j].target) = ops[j].orig_target

\* Mutant: the check that a moved PC-relative instruction is re-encoded is lost.
verbatim_bytes_moved(j) ==
  /\ container
  /\ ops[j].orig # -1
  /\ \/ /\ ops[j].source = "same"
        /\ ops[j].kind # "plain" => refers_as_before(j)
     \/ /\ ops[j].source = "undecodable"
        /\ address[j] = ops[j].orig

verbatim_bytes(j) ==
  /\ container
  /\ ops[j].orig # -1
  /\ \/ /\ ops[j].source = "same"
        /\ ops[j].kind # "plain" =>
             refers_as_before(j) /\ address[j] = ops[j].orig
     \/ /\ ops[j].source = "undecodable"
        /\ address[j] = ops[j].orig

CopiesVerbatim(j) == verbatim_bytes(j) /\ ~(Relocatable /\ needs_relocation(j))

\* Mutant: the relocation is decided before the verbatim copy.
form_relocation_first(j) ==
  IF needs_relocation(j) THEN "relocated"
  ELSE IF CopiesVerbatim(j) THEN "verbatim"
  ELSE IF strategy[j] = "Normal" THEN "encoded"
  ELSE "widened"

form(j) ==
  IF CopiesVerbatim(j) THEN "verbatim"
  ELSE IF needs_relocation(j) THEN "relocated"
  ELSE IF strategy[j] = "Normal" THEN "encoded"
  ELSE "widened"

\* Mutant: the far jump of a widened branch is encoded as if at the branch.
DisplacementFromBranch(j) ==
  IF form(j) = "verbatim" THEN ops[j].orig_target - ops[j].orig
  ELSE IF form(j) = "relocated" THEN 0 ELSE displacement(j)

\* The displacement the bytes carry.  A widened branch's far jump sits four
\* bytes in; a verbatim copy carries the displacement of its source.
Displacement(j) ==
  CASE form(j) = "verbatim" /\ ops[j].kind = "page" ->
         ops[j].orig_target - Page(ops[j].orig)
    [] form(j) = "verbatim" /\ ops[j].kind # "page" ->
         ops[j].orig_target - ops[j].orig
    [] form(j) = "encoded" /\ ops[j].kind = "page" ->
         Page(resolve_target(ops[j].target)) - Page(address[j])
    [] form(j) = "encoded" /\ ops[j].kind # "page" -> displacement(j)
    [] form(j) = "widened"   -> resolve_target(ops[j].target) - (address[j] + 4)
    [] form(j) = "relocated" -> 0

\* The encoder accepts the displacement.
Encodes(j) ==
  LET d == Displacement(j) IN
  CASE form(j) = "widened" -> d >= - WidenedRange /\ d < WidenedRange
    [] form(j) = "encoded" /\ ops[j].kind = "branch" ->
         ops[j].range = 0 \/ (d >= - ops[j].range /\ d < ops[j].range)
    [] form(j) = "encoded" /\ ops[j].kind = "page" ->
         \* encode_adrp is given the resolved address and wants a page
         /\ resolve_target(ops[j].target) % PageSize = 0
         /\ d >= - PageRange /\ d < PageRange
    [] OTHER -> TRUE

emit_error(j) ==
  CASE form(j) = "relocated" /\ ~ops[j].has_reloc -> "NoRelocationForMnemonic"
    [] /\ form(j) \in {"encoded", "widened"}
       /\ ops[j].kind # "plain"
       /\ ResolveError(ops[j].target) # "none"    -> "Layout"
    [] /\ form(j) \in {"encoded", "widened"}
       /\ ops[j].kind = "plain" \/ ResolveError(ops[j].target) = "none"
       /\ ~Encodes(j)                             -> "Encode"
    [] OTHER                                      -> "none"

BytesEmitted(j) ==
  CASE form(j) = "verbatim" -> ops[j].orig_size
    [] form(j) = "widened"  -> WidenedSize
    [] OTHER                -> ops[j].enc

\* Where the reference lands, given where the bytes are; -1 when there is none
\* or when a relocation will decide.
Lands(j) ==
  IF ops[j].kind = "plain" \/ form(j) = "relocated" THEN -1
  ELSE IF ops[j].kind = "page" THEN Page(Here) + Displacement(j)
  ELSE IF form(j) = "widened" THEN Here + 4 + Displacement(j)
  ELSE Here + Displacement(j)

StartEmit ==
  /\ pc = "done"
  /\ mode # "lay_out_for_size"
  /\ pc' = "emit"
  /\ k' = 1
  /\ UNCHANGED <<args, err, iter, cur, address, size, strategy, grew, out>>

\* One op: emit_instruction, or the macro and raw arms of emit's match.
EmitOp ==
  /\ pc = "emit"
  /\ k <= NumOps
  /\ emit_error(k) = "none"
  /\ out' = Append(out, [at |-> Here, len |-> BytesEmitted(k),
                         lands |-> Lands(k), form |-> form(k)])
  /\ k' = k + 1
  /\ UNCHANGED <<args, pc, err, iter, cur, address, size, strategy, grew>>

EmitFail ==
  /\ pc = "emit"
  /\ k <= NumOps
  /\ emit_error(k) # "none"
  /\ pc' = "emit_error"
  /\ err' = emit_error(k)
  /\ UNCHANGED <<args, iter, k, cur, address, size, strategy, grew, out>>

EmitEnd ==
  /\ pc = "emit"
  /\ k = NumOps + 1
  /\ pc' = "emitted"
  /\ UNCHANGED <<args, err, iter, k, cur, address, size, strategy, grew, out>>

EmitStep == StartEmit \/ EmitOp \/ EmitFail \/ EmitEnd

EmitReturned ==
  /\ pc \in {"error", "emit_error", "emitted"}
     \/ (pc = "done" /\ mode = "lay_out_for_size")
  /\ UNCHANGED vars

EmitNext == (LayoutStep /\ UNCHANGED out) \/ EmitStep \/ EmitReturned

\* Layout and emission run in one thread and nothing suspends them.
EmitSpec ==
  EmitInit /\ [][EmitNext]_vars /\ WF_vars((LayoutStep /\ UNCHANGED out) \/ EmitStep)

-----------------------------------------------------------------------------
(* Properties.                                                             *)

\* Where op j's reference must land: the bytes that were emitted for the block,
\* or the address that was asked for.
ActualTarget(j) ==
  LET t == ops[j].target
      s == plan.starts[t.v]
      a == IF t.kind # "block" THEN resolve_target(t)
           ELSE IF s <= NumOps THEN out[s].at
           ELSE Here
  IN  IF ops[j].kind = "page" THEN Page(a) ELSE a

\* The op takes exactly the room the layout gave it.
TakesItsRoom(j) == out[j].len = size[j]

\* A branch the layout widened is emitted in another form: unchanged from the
\* source, or with a relocation.
OverridesWidening(j) ==
  strategy[j] = "InvertedConditional" /\ out[j].form # "widened"

\* place_plan_scattered "requires every block to be non-empty".
Scatterable ==
  \A b \in DOMAIN plan.starts : plan.starts[b] <= NumOps /\ b \in BlocksAt(plan.starts[b])

\* emit produces "the byte stream that should land at layout.base_address": every
\* op takes the room the layout gave it, except a widened branch emitted in another
\* form, which the code does not guard against; and when all do, every branch and
\* page reference lands on its target, as it was emitted and where it was emitted,
\* in all the forms: copied from its source, encoded, or widened.
ReferencesLand ==
  /\ \A j \in 1 .. Len(out) : TakesItsRoom(j) \/ OverridesWidening(j)
  /\ /\ pc = "emitted"
     /\ \A j \in 1 .. NumOps : TakesItsRoom(j)
     /\ mode = "lay_out_scattered" => Scatterable
     =>
       \A j \in 1 .. NumOps : out[j].lands # -1 => out[j].lands = ActualTarget(j)

\* The layout predicts the encoder: after a successful lay_out only a page
\* reference, or a widened branch within four bytes of the far jump's backward
\* limit (the layout measures from the branch, the encoder from the far jump
\* behind it), is refused by the encoder.
EncodeErrorsAreBoundary ==
  (pc = "emit_error" /\ err = "Encode") =>
    \/ ops[k].kind = "page"
    \/ /\ strategy[k] = "InvertedConditional"
       /\ displacement(k) < 4 - WidenedRange

\* Nothing was edited: the ops stand for a run of source instructions from base
\* on, each reference still means what it meant and reached it in the source,
\* and the image is a final one.
Untouched ==
  /\ container /\ ~Relocatable
  /\ mode = "lay_out"
  /\ \A j \in 1 .. NumOps :
       LET o == ops[j]
           d == o.orig_target - o.orig
           t == o.target
       IN  /\ o.orig = IF j = 1 THEN base ELSE ops[j - 1].orig + ops[j - 1].size
           /\ o.source # "changed"
           /\ o.kind # "plain" =>
                \/ /\ t.kind = "block"
                   /\ t.v \in DOMAIN plan.starts
                   /\ plan.starts[t.v] \in 1 .. NumOps
                   /\ o.orig_target = ops[plan.starts[t.v]].orig
                \/ t.kind # "block" /\ refers_as_before(j)
           /\ o.kind = "branch" => d >= - o.range /\ d < o.range

\* An untouched function put back at its own address is reproduced byte for
\* byte: layout and emission succeed, nothing is widened or turned into a
\* relocation, and every instruction, undecodable ones included, is copied from
\* its source to its source's address ("the original encoding is still valid").
UntouchedRoundTrips ==
  Untouched =>
    /\ pc \notin {"error", "emit_error"}
    /\ \A j \in 1 .. Len(out) :
         out[j].form = "verbatim" /\ out[j].at = ops[j].orig

\* Every layout ends in a layout or an error, and every emission in a byte stream
\* or an error: the widening passes of lay_out do not go on for ever.
Terminates ==
  <>(\/ pc \in {"error", "emit_error", "emitted"}
     \/ pc = "done" /\ mode = "lay_out_for_size")

=============================================================================
