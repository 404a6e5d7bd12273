----------------------------- MODULE PlacePlan ------------------------------
(***************************************************************************)
(* Placing data and plans into freed .text holes (BinaryEditor's           *)
(* place_data_in_holes, place_plan_in_holes, place_plan_scattered): each   *)
(* call composes the hole pool with the layout and the emitter.  A plan is *)
(* sized at base 0, a hole reserved for that size, the plan laid out again *)
(* at the hole, emitted and overlaid; whatever fails on the way must give  *)
(* the hole back.  Calls follow one another and share the pool.            *)
(***************************************************************************)
EXTENDS Emit, HoleOps

CONSTANTS
  Pools,       \* the pools a caller may start with
  DataSizes,   \* lengths of raw data
  Lifted,      \* whether a .text section is lifted: a subset of BOOLEAN
  MaxCalls     \* bound on the number of calls

ASSUME PlacePlanAssumption ==
  /\ Plans # {}
  /\ \A s \in Pools : IsPool(s)
  /\ DataSizes \subseteq Nat
  /\ Lifted \subseteq BOOLEAN
  /\ MaxCalls \in Nat

VARIABLES
  freed,     \* the pool as the caller handed it over
  holes,     \* the pool
  lifted,    \* whether self.text is Some
  phase,     \* "idle", "probe", "place", "take" or "scatter"
  before,    \* the pool when the current (or latest) call began
  resv,      \* the reservation of place_plan_in_holes
  wanted,    \* the plan place_plan_scattered finds holes for
  addrs,     \* the addresses it has found, one per block
  tentative, \* the cloned pool of place_plan_scattered
  probed,    \* history, for the properties: addresses and sizes the probe found
  placed,    \* spans handed out: see Span
  calls,     \* calls begun
  result     \* of the latest call: "none", "err" or "placed"

poolVars == <<freed, holes, lifted, phase, before, resv, wanted, addrs, tentative,
              probed, placed, calls, result>>

allVars == <<vars, poolVars>>

NoReservation ==
  [va |-> 0, need |-> 0, removed |-> FALSE, idx |-> 0,
   entry |-> [va |-> 0, size |-> 0]]

NoPlan == [ops |-> <<>>, starts |-> <<>>]

NoProbe == [address |-> <<>>, size |-> <<>>]

PlaceInit ==
  /\ freed \in Pools /\ lifted \in Lifted
  /\ holes = freed /\ before = freed /\ tentative = freed
  /\ phase = "idle" /\ calls = 0 /\ result = "none"
  /\ resv = NoReservation
  /\ wanted = NoPlan /\ addrs = <<>>
  /\ probed = NoProbe
  /\ placed = <<>>
  /\ out = <<>>
  /\ \E p \in {CHOOSE p \in Plans : TRUE} :
       StartLayout(p, "lay_out_for_size", 0, TRUE, <<>>)

NewCall ==
  /\ phase = "idle"
  /\ calls < MaxCalls
  /\ calls' = calls + 1
  /\ before' = holes

\* The bytes reserved at va, the bytes written there, and whether the layout there
\* was larger than the probe on account of a branch out of the plan.
Span(va, need, written, outgrew) ==
  [va |-> va, need |-> need, written |-> written, outgrew |-> outgrew]

\* The call returns r and leaves the pool as p; what it remembered is dropped.
Return(r, p) ==
  /\ phase' = "idle"
  /\ result' = r
  /\ holes' = p
  /\ resv' = NoReservation
  /\ wanted' = NoPlan /\ addrs' = <<>>
  /\ tentative' = p
  /\ probed' = NoProbe

-----------------------------------------------------------------------------
(* place_data_in_holes: the hole is taken before the lifted section is     *)
(* looked for.                                                             *)

place_data_in_holes(len) ==
  LET need == round4(len)
      i    == best_fit(holes, need)
  IN  /\ NewCall
      /\ placed' = IF i # 0 /\ lifted
                   THEN Append(placed, Span(holes[i].va, need, len, FALSE))
                   ELSE placed
      /\ Return(IF i # 0 /\ lifted THEN "placed" ELSE "none",
                IF i = 0 THEN holes ELSE take_hole(holes, i, need))
      /\ UNCHANGED <<freed, lifted, vars>>

-----------------------------------------------------------------------------
(* place_plan_in_holes.                                                    *)

\* lay_out_for_size at base 0.
BeginInHoles(p) ==
  /\ NewCall
  /\ phase' = "probe"
  /\ BeginLayout(p, "lay_out_for_size", 0, TRUE, <<>>)
  /\ out' = <<>>
  /\ UNCHANGED <<freed, holes, lifted, resv, wanted, addrs, tentative, probed, placed, result>>

total_size == address[NumOps + 1] - base

ProbeFails ==
  /\ phase = "probe"
  /\ pc = "error"
  /\ Return("err", holes)
  /\ UNCHANGED <<freed, lifted, before, placed, calls, vars>>

NothingFits ==
  /\ phase = "probe"
  /\ pc = "done"
  /\ best_fit(holes, round4(total_size)) = 0
  /\ Return("none", holes)
  /\ UNCHANGED <<freed, lifted, before, placed, calls, vars>>

\* reserve_hole, then lay_out at the hole.
ReserveHole ==
  /\ phase = "probe"
  /\ pc = "done"
  /\ LET need == round4(total_size)
         i    == best_fit(holes, need)
     IN  /\ i # 0
         /\ holes' = take_hole(holes, i, need)
         /\ resv' = HoleReservation(holes, i, need)
         /\ BeginLayout(plan, "lay_out", holes[i].va, TRUE, <<>>)
  /\ probed' = [address |-> address, size |-> size]
  /\ phase' = "place"
  /\ out' = <<>>
  /\ UNCHANGED <<freed, lifted, before, wanted, addrs, tentative, placed, calls, result>>

HasRelocations == \E j \in DOMAIN out : out[j].form = "relocated"

BytesOut == IF out = <<>> THEN 0 ELSE out[Len(out)].at + out[Len(out)].len - base

\* A branch out of the plan was widened at the hole and not at base 0.
OutgrewProbe ==
  \E j \in 1 .. NumOps :
    /\ ops[j].kind = "branch" /\ ops[j].target.kind # "block"
    /\ size[j] > probed.size[j]

\* Every early return after the reservation, up to the missing section.
GiveBack ==
  /\ phase = "place"
  /\ pc \in {"error", "emit_error"} \/ (pc = "emitted" /\ HasRelocations)
  /\ Return(IF pc = "emitted"
               \/ err \in {"DisplacementTooLarge", "DidNotConverge", "Encode"}
            THEN "none" ELSE "err",
            release_hole(holes, resv))
  /\ UNCHANGED <<freed, lifted, before, placed, calls, vars>>

\* The overlay of all bytes emitted, however many; without a lifted section the call fails and keeps the hole.
Overlay ==
  /\ phase = "place"
  /\ pc = "emitted"
  /\ ~HasRelocations
  /\ placed' = IF lifted THEN Append(placed, Span(base, resv.need, BytesOut, OutgrewProbe))
               ELSE placed
  /\ Return(IF lifted THEN "placed" ELSE "err", holes)
  /\ UNCHANGED <<freed, lifted, before, calls, vars>>

-----------------------------------------------------------------------------
(* place_plan_scattered.                                                   *)

\* The sum of the source sizes of ops first .. last - 1.
source_size(p, first, last) ==
  LET sum[j \in first .. last] ==
        IF j = last THEN 0 ELSE p.ops[j].size + sum[j + 1]
  IN  sum[first]

block_sizes(p) ==
  [b \in DOMAIN p.starts |->
     source_size(p, p.starts[b],
                 IF b + 1 \in DOMAIN p.starts THEN p.starts[b + 1]
                 ELSE Len(p.ops) + 1)]

\* Nothing to place, or an empty block.
ScatterNone(p) ==
  /\ NewCall
  /\ \/ p.starts = <<>>
     \/ \E b \in DOMAIN p.starts : block_sizes(p)[b] = 0
  /\ Return("none", holes)
  /\ UNCHANGED <<freed, lifted, placed, vars>>

\* A copy of the pool to take holes from.
ScatterBegin(p) ==
  /\ NewCall
  /\ p.starts # <<>>
  /\ \A b \in DOMAIN p.starts : block_sizes(p)[b] # 0
  /\ phase' = "take"
  /\ wanted' = p
  /\ addrs' = <<>>
  /\ tentative' = holes
  /\ UNCHANGED <<freed, holes, lifted, resv, probed, placed, result, vars>>

\* One hole for the next block.
TakeForBlock ==
  LET need == round4(block_sizes(wanted)[Len(addrs) + 1])
      i    == best_fit(tentative, need)
  IN  /\ phase = "take"
      /\ Len(addrs) < Len(wanted.starts)
      /\ i # 0
      /\ tentative' = take_hole(tentative, i, need)
      /\ addrs' = Append(addrs, tentative[i].va)
      /\ UNCHANGED <<freed, holes, lifted, phase, before, resv, wanted, probed, placed,
                     calls, result, vars>>

\* A block without a hole: the copy is dropped.
TakeFails ==
  /\ phase = "take"
  /\ Len(addrs) < Len(wanted.starts)
  /\ best_fit(tentative, round4(block_sizes(wanted)[Len(addrs) + 1])) = 0
  /\ Return("none", holes)
  /\ UNCHANGED <<freed, lifted, before, placed, calls, vars>>

\* lay_out_scattered at the addresses found.
ScatterLayOut ==
  /\ phase = "take"
  /\ Len(addrs) = Len(wanted.starts)
  /\ BeginLayout(wanted, "lay_out_scattered", addrs[1], TRUE, addrs)
  /\ phase' = "scatter"
  /\ out' = <<>>
  /\ wanted' = NoPlan /\ addrs' = <<>>
  /\ UNCHANGED <<freed, holes, lifted, before, resv, tentative, probed, placed, calls, result>>

ScatterFails ==
  /\ phase = "scatter"
  /\ pc \in {"error", "emit_error"} \/ (pc = "emitted" /\ HasRelocations)
  /\ Return(IF \/ pc = "emitted"
               \/ pc = "error" /\ err \in {"DisplacementTooLarge", "DidNotConverge"}
            THEN "none" ELSE "err",
            holes)
  /\ UNCHANGED <<freed, lifted, before, placed, calls, vars>>

\* The pool is replaced by the copy, then each block is overlaid.
ScatterCommit ==
  /\ phase = "scatter"
  /\ pc = "emitted"
  /\ ~HasRelocations
  /\ LET sizes == block_sizes(plan) IN
     placed' = IF lifted
               THEN placed \o [b \in 1 .. Len(plan.starts) |->
                                 Span(place[b], round4(sizes[b]), sizes[b], FALSE)]
               ELSE placed
  /\ Return(IF lifted THEN "placed" ELSE "err", tentative)
  /\ UNCHANGED <<freed, lifted, before, calls, vars>>

-----------------------------------------------------------------------------
\* The layout and emission a call is in the middle of.
Working == phase \notin {"idle", "take"} /\ ((LayoutStep /\ UNCHANGED out) \/ EmitStep)
             /\ UNCHANGED poolVars

Done == phase = "idle" /\ calls = MaxCalls /\ UNCHANGED allVars

PlaceNext ==
  \/ \E len \in DataSizes : place_data_in_holes(len)
  \/ \E p \in Plans : BeginInHoles(p) \/ ScatterNone(p) \/ ScatterBegin(p)
  \/ ProbeFails \/ NothingFits \/ ReserveHole \/ GiveBack \/ Overlay
  \/ TakeForBlock \/ TakeFails \/ ScatterLayOut \/ ScatterFails \/ ScatterCommit
  \/ Working
  \/ Done

PlaceSpec == PlaceInit /\ [][PlaceNext]_allVars

-----------------------------------------------------------------------------
(* Properties.                                                             *)

\* Every freed byte is accounted for, over any sequence of calls that succeed,
\* fall back and fail: the spans handed out, the reservation in progress and the
\* holes that remain never overlap, every span lies in one of the holes the caller
\* freed, and what is written lies in its span.  So no live code around a hole is
\* overwritten, on one condition: a branch out of the plan that is widened at the
\* hole but was not at base 0, where the plan is sized, makes the code longer than
\* its span, and nothing compares the two (editor.rs place_plan_in_holes).
SpansAccounted ==
  /\ \A i, j \in DOMAIN holes :
       i # j => Apart(holes[i].va, holes[i].size, holes[j].va, holes[j].size)
  /\ \A i \in DOMAIN placed, j \in DOMAIN holes :
       Apart(placed[i].va, placed[i].need, holes[j].va, holes[j].size)
  /\ \A i, j \in DOMAIN placed :
       i # j => Apart(placed[i].va, placed[i].need, placed[j].va, placed[j].need)
  /\ phase = "place" =>
       \A j \in DOMAIN holes : Apart(resv.va, resv.need, holes[j].va, holes[j].size)
  /\ \A i \in DOMAIN placed :
       \E h \in DOMAIN freed :
         /\ freed[h].va <= placed[i].va
         /\ placed[i].va + placed[i].need <= freed[h].va + freed[h].size
  /\ \A i \in DOMAIN placed : placed[i].written <= placed[i].need \/ placed[i].outgrew

\* "Returns None (holes unchanged)": a call that places nothing leaves the
\* pool, its order included, as it found it, whichever step failed.
PoolRestored ==
  (phase = "idle" /\ result # "placed") => holes = before

\* A block placed on its own in a hole stays connected: all references of a
\* scattered or contiguous plan land where the target block really is.
PlacedReferencesLand == phase # "idle" => ReferencesLand

=============================================================================
