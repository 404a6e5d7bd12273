----------------------------- MODULE TextSpace ------------------------------
(***************************************************************************)
(* Reserving and carving text space: plan_reservation scans the free       *)
(* extents one by one and keeps the best fit; reserve_text_region turns    *)
(* the result into a region (or, when the policy allows it, into the gap   *)
(* of a grown __TEXT); carve hands out slices of the region front to back. *)
(* Each iteration of the scan is a step, so that what the scan has         *)
(* established so far is an invariant.                                     *)
(***************************************************************************)
EXTENDS SpaceOps, Sequences

CONSTANTS
  ExtentLists,     \* the free lists a container may offer
  Requests,        \* the reservations a caller may ask for
  CarveSizes,      \* the lengths a caller may carve
  CarveAligns,     \* the alignments a caller may carve at
  MaxCarves,       \* bound on the number of successful carves
  PAGE,            \* the page size of the grow geometry
  GapAddress,      \* address of the gap a grow opens before __text
  GapOffset        \* its file offset

ASSUME TextSpaceAssumption ==
  /\ ExtentLists \subseteq Seq(FreeExtent)
  /\ Requests \subseteq ReserveRequest
  /\ CarveSizes \subseteq U64
  /\ CarveAligns \subseteq U64
  /\ MaxCarves \in Nat
  /\ PAGE \in U64 \ {0}
  /\ GapAddress \in U64
  /\ GapOffset \in U64

VARIABLES
  extents,   \* the free list, fixed for the session
  req,       \* the request being planned
  pc,        \* "scan", "reserved", "refused", "zeroalign"
  i,         \* next extent of the scan
  best,      \* index of the best candidate so far, 0 for none
  largest,   \* largest_available
  region,    \* the live region (meaningful when pc = "reserved")
  carves,    \* every slice handed out, oldest first
  last       \* the latest carve call and its result

vars == <<extents, req, pc, i, best, largest, region, carves, last>>

NoCarve == [len |-> 0, align |-> 0, result |-> "none"]

NoRegion == NewRegion(0, 0, 0, "GrewText")

Init ==
  /\ extents \in ExtentLists
  /\ req \in Requests
  /\ pc = IF req.align = 0 THEN "zeroalign" ELSE "scan"
  /\ i = 1
  /\ best = 0
  /\ largest = 0
  /\ region = NoRegion
  /\ carves = <<>>
  /\ last = NoCarve

\* Mutant: first fit instead of best fit.
pick_first(cur, k) == cur

\* pick_better on the current best and the candidate at index k.
pick_better(cur, k) ==
  IF Preferred(extents[cur], extents[k], req) THEN cur ELSE k

\* The running maximum of what the allowed extents offer.
largest_available(k) ==
  IF Usable(extents[k], req) > largest THEN Usable(extents[k], req) ELSE largest

\* One iteration of plan_reservation's loop.
EvaluateExtent ==
  /\ pc = "scan"
  /\ i <= Len(extents)
  /\ i' = i + 1
  /\ IF Offers(extents[i], req)
     THEN /\ largest' = largest_available(i)
          /\ best' = IF Usable(extents[i], req) < needed(req) THEN best
                     ELSE IF best = 0 THEN i
                     ELSE pick_better(best, i)
     ELSE UNCHANGED <<largest, best>>
  /\ UNCHANGED <<extents, req, pc, region, carves, last>>

\* The scan found a candidate: the region covers its aligned base.
FulfilFromFreeSpace ==
  /\ pc = "scan"
  /\ i > Len(extents)
  /\ best # 0
  /\ pc' = "reserved"
  /\ LET e   == extents[best]
         pad == BaseIn(e, req.align) - e.address
     IN  region' = NewRegion(BaseIn(e, req.align), e.file_offset + pad,
                             needed(req), e.source)
  /\ UNCHANGED <<extents, req, i, best, largest, carves, last>>

\* Mutant: the page count is rounded down.
GrowDeltaDown ==
  LET pages == needed(req) \div PAGE
  IN  PAGE * (IF pages = 0 THEN 1 ELSE pages)

\* (needed + PAGE - 1) / PAGE pages, at least one; the sum wraps.
GrowDelta ==
  LET pages == ((needed(req) + PAGE - 1) % (MaxU64 + 1)) \div PAGE
  IN  PAGE * (IF pages = 0 THEN 1 ELSE pages)

\* GrowthRequired: setup_grow_reservation opens a page-rounded gap.  The model
\* follows a grow only when the gap fits the address space.
FulfilByGrowing ==
  /\ pc = "scan"
  /\ i > Len(extents)
  /\ best = 0
  /\ req.on_exhaustion = "Grow"
  /\ GapAddress + GrowDelta <= MaxU64
  /\ GapOffset + GrowDelta <= MaxU64
  /\ pc' = "reserved"
  /\ region' = NewRegion(GapAddress, GapOffset, GrowDelta, "GrewText")
  /\ UNCHANGED <<extents, req, i, best, largest, carves, last>>

\* InsufficientFreeSpace, with largest_available in largest.
Refuse ==
  /\ pc = "scan"
  /\ i > Len(extents)
  /\ best = 0
  /\ req.on_exhaustion = "Fail"
  /\ pc' = "refused"
  /\ UNCHANGED <<extents, req, i, best, largest, region, carves, last>>

\* Region::carve: a failing call leaves the region as it was.
carve(len, align) ==
  /\ pc = "reserved"
  /\ Len(carves) < MaxCarves
  /\ last' = [len |-> len, align |-> align,
              result |-> carve_result(region, len, align)]
  /\ IF carve_result(region, len, align) = "Ok"
     THEN /\ carves' = Append(carves, CarveOf(region, len, align))
          /\ region' = [region EXCEPT !.cursor = NewCursor(region, len, align)]
     ELSE UNCHANGED <<carves, region>>
  /\ UNCHANGED <<extents, req, pc, i, best, largest>>

\* A session whose request failed, or that has made its last carve, is over.
Finished ==
  /\ \/ pc \in {"refused", "zeroalign"}
     \/ pc = "reserved" /\ Len(carves) = MaxCarves
     \/ /\ pc = "scan" /\ i > Len(extents) /\ best = 0
        /\ req.on_exhaustion = "Grow"
        /\ \/ GapAddress + GrowDelta > MaxU64
           \/ GapOffset + GrowDelta > MaxU64
  /\ UNCHANGED vars

Next ==
  \/ EvaluateExtent
  \/ FulfilFromFreeSpace
  \/ FulfilByGrowing
  \/ Refuse
  \/ \E len \in CarveSizes, align \in CarveAligns : carve(len, align)
  \/ Finished

Spec == Init /\ [][Next]_vars

-----------------------------------------------------------------------------
(* Properties.                                                             *)

\* Every variable keeps its type; the cursor never passes the capacity, which
\* remaining() (capacity - cursor, unchecked in the code) relies on.
TypeOK ==
  /\ extents \in Seq(FreeExtent)
  /\ req \in ReserveRequest
  /\ pc \in {"scan", "reserved", "refused", "zeroalign"}
  /\ i \in 1 .. (Len(extents) + 1)
  /\ best \in 0 .. Len(extents)
  /\ largest \in U64
  /\ region \in Region
  /\ carves \in Seq(Carve)
  /\ region.cursor <= region.capacity
  /\ pc = "scan" => req.align # 0

Sufficient(k) == Offers(extents[k], req) /\ Usable(extents[k], req) >= needed(req)

\* plan_reservation's promise ("smallest sufficient, then cheapest source, then
\* lowest address - fully deterministic"): whatever the order of the free list,
\* the extent a region is drawn from is sufficient and no other sufficient
\* extent is strictly preferred to it.
PlanIsBestFit ==
  (pc = "reserved" /\ best # 0) =>
    /\ Sufficient(best)
    /\ \A k \in DOMAIN extents :
         Sufficient(k) => Preferred(extents[best], extents[k], req)

\* Slices never overlap: the claim of Region's doc ("overlap is impossible by
\* construction") over every sequence of carves, alignments and failures.
CarvesDisjoint ==
  \A j, k \in DOMAIN carves :
    j < k => carves[j].address + carves[j].len <= carves[k].address

\* Every slice lies in the region, and in the free extent the region was drawn
\* from, at the same skew between address and file offset: what is written at
\* file_offset is what is mapped at address, and no byte outside the free
\* extent is overwritten.
CarvesInsideReservation ==
  \A k \in DOMAIN carves :
    LET c == carves[k] IN
    /\ c.address = region.base_address + c.offset_in_region
    /\ c.file_offset = region.base_file_offset + c.offset_in_region
    /\ c.offset_in_region + c.len <= region.capacity
    /\ best # 0 =>
         /\ c.address >= extents[best].address
         /\ c.address + c.len <= extents[best].address + extents[best].len
         /\ c.address - c.file_offset
              = extents[best].address - extents[best].file_offset

\* No refusal is mistaken.  A reservation is refused, or grows __TEXT, only when
\* no allowed extent holds an aligned run of the needed size, stated over
\* addresses and not over the rounding the scan computes; the shortfall it
\* reports is the largest run an allowed extent offers, so that the subtraction
\* needed - largest_available cannot underflow; and a carve is RegionFull only
\* when no aligned slice of that length is left past the cursor.
RefusalsAreGenuine ==
  /\ (pc = "refused" \/ (pc = "reserved" /\ best = 0)) =>
       \A k \in DOMAIN extents :
         LET e == extents[k] IN
         (e.source # "GrewText" /\ (e.source = "HeaderPad" => req.allow_headerpad))
           => ~ \E a \in e.address .. (e.address + e.len) :
                   a % req.align = 0 /\ a + needed(req) <= e.address + e.len
  /\ (pc = "scan" /\ i > Len(extents) /\ best = 0) =>
       /\ largest <= needed(req)
       /\ \A k \in DOMAIN extents :
            Offers(extents[k], req) => Usable(extents[k], req) <= largest
  /\ last.result = "RegionFull" =>
       LET end == region.base_address + region.capacity IN
       ~ \E a \in (region.base_address + region.cursor) .. end :
            a % last.align = 0 /\ a + last.len <= end

\* A grown gap holds what was asked for unless the page rounding wrapped u64.
GrowCoversRequest ==
  (pc = "reserved" /\ best = 0 /\ needed(req) + PAGE - 1 <= MaxU64) =>
    region.capacity >= needed(req)

=============================================================================
