-------------------------- MODULE TextSpaceProofs ---------------------------
(***************************************************************************)
(* For every free list, request, page size and sequence of carves:         *)
(* plan_reservation picks the best fit, and the slices carved from the     *)
(* region it returns are disjoint and inside the free extent.  And the     *)
(* negative answers: what plan_reservation or carve refuse really is not   *)
(* there, and a grown gap holds the request.                               *)
(***************************************************************************)
EXTENDS TextSpace, TLAPS

\* What the scan has established about the extents before index i.
ScanInv ==
  /\ pc \in {"reserved", "refused"} => i = Len(extents) + 1
  /\ best # 0 => best < i /\ Sufficient(best) /\ req.align # 0
  /\ \A k \in 1 .. (i - 1) :
       Sufficient(k) => best # 0 /\ Preferred(extents[best], extents[k], req)

\* The region is the aligned base of the chosen extent, or the grown gap, and
\* lies inside the address space and the file.
RegionInv ==
  /\ pc = "reserved" =>
       /\ region.base_address + region.capacity <= MaxU64
       /\ region.base_file_offset + region.capacity <= MaxU64
  /\ (pc = "reserved" /\ best # 0) =>
       LET e == extents[best] IN
       /\ region.base_address >= e.address
       /\ region.base_address + region.capacity <= e.address + e.len
       /\ region.base_address - region.base_file_offset
            = e.address - e.file_offset

\* Every slice ends at or before the cursor; slices are in address order.
CarveInv ==
  /\ pc # "reserved" => carves = <<>>
  /\ \A k \in DOMAIN carves :
       /\ carves[k].address = region.base_address + carves[k].offset_in_region
       /\ carves[k].file_offset
            = region.base_file_offset + carves[k].offset_in_region
       /\ carves[k].offset_in_region + carves[k].len <= region.cursor
  /\ CarvesDisjoint

IInv == TypeOK /\ ScanInv /\ RegionInv /\ CarveInv

-----------------------------------------------------------------------------
\* Rounding up never loses ground and stays a natural number.
LEMMA RoundUpBounds ==
  ASSUME NEW v \in Nat, NEW a \in Nat \ {0}
  PROVE  round_up(v, a) \in Nat /\ round_up(v, a) >= v
<1>1. v % a \in Nat /\ v % a < a
  OBVIOUS
<1> QED
  BY <1>1 DEF round_up

\* An extent that offers room has a usable size and an aligned base inside it.
LEMMA OfferBounds ==
  ASSUME NEW e \in FreeExtent, NEW r \in ReserveRequest, r.align # 0,
         Offers(e, r)
  PROVE  /\ BaseIn(e, r.align) \in U64
         /\ BaseIn(e, r.align) >= e.address
         /\ Usable(e, r) \in U64
         /\ BaseIn(e, r.align) + Usable(e, r) = e.address + e.len
<1>1. /\ e.address \in Nat /\ e.len \in Nat
      /\ e.address <= MaxU64 /\ e.len <= MaxU64
      /\ r.align \in Nat \ {0}
  BY MaxU64Assumption DEF FreeExtent, ReserveRequest, U64
<1>2. BaseIn(e, r.align) \in Nat /\ BaseIn(e, r.align) >= e.address
  BY <1>1, RoundUpBounds DEF BaseIn
<1> QED
  BY <1>1, <1>2, MaxU64Assumption DEF Offers, Usable, U64

\* Extents have comparable usable sizes, bases and ranks.
LEMMA OfferTypes ==
  ASSUME NEW e \in FreeExtent, NEW r \in ReserveRequest, r.align # 0
  PROVE  /\ BaseIn(e, r.align) \in Nat
         /\ Usable(e, r) \in Int
         /\ rank(e.source) \in Nat
<1>1. /\ e.address \in Nat /\ e.len \in Nat /\ r.align \in Nat \ {0}
      /\ e.source \in Source
  BY MaxU64Assumption DEF FreeExtent, ReserveRequest, U64
<1>2. BaseIn(e, r.align) \in Nat
  BY <1>1, RoundUpBounds DEF BaseIn
<1>3. Usable(e, r) \in Int
  BY <1>1, <1>2 DEF Usable
<1>4. rank(e.source) \in Nat
  BY <1>1 DEF rank, Source
<1> QED
  BY <1>2, <1>3, <1>4

\* pick_better's order is total and transitive, so keeping the preferred of two
\* candidates at every step keeps the preferred of all.
LEMMA PreferredOrder ==
  ASSUME NEW r \in ReserveRequest, r.align # 0,
         NEW a \in FreeExtent, NEW b \in FreeExtent, NEW c \in FreeExtent
  PROVE  /\ Preferred(a, a, r)
         /\ Preferred(a, b, r) \/ Preferred(b, a, r)
         /\ Preferred(a, b, r) /\ Preferred(b, c, r) => Preferred(a, c, r)
<1>1. /\ Usable(a, r) \in Int /\ Usable(b, r) \in Int /\ Usable(c, r) \in Int
      /\ rank(a.source) \in Nat /\ rank(b.source) \in Nat
      /\ rank(c.source) \in Nat
      /\ BaseIn(a, r.align) \in Nat /\ BaseIn(b, r.align) \in Nat
      /\ BaseIn(c, r.align) \in Nat
  BY OfferTypes
<1> QED
  BY <1>1 DEF Preferred

\* A request never asks for more than u64 can hold.
LEMMA NeededType ==
  ASSUME NEW r \in ReserveRequest
  PROVE  needed(r) \in U64
<1>1. r.min_bytes \in Nat /\ r.headroom \in Nat
  BY MaxU64Assumption DEF ReserveRequest, U64
<1> QED
  BY <1>1, MaxU64Assumption DEF needed, U64

\* The arithmetic of an aligned base inside an extent ...
LEMMA BaseArithmetic ==
  ASSUME NEW M \in Nat, NEW a \in Nat, NEW o \in Nat, NEW l \in Nat,
         NEW b \in Nat, NEW u \in Nat, NEW n \in Nat,
         b >= a, b + u = a + l, u >= n, a + l <= M, o + l <= M
  PROVE  /\ o + (b - a) \in 0 .. M
         /\ o + (b - a) + n <= M
         /\ b + n <= M
         /\ b + n <= a + l
         /\ b - (o + (b - a)) = a - o
OBVIOUS

\* ... and of a slice that ends at the new cursor.
LEMMA CarveArithmetic ==
  ASSUME NEW M \in Nat, NEW b \in Nat, NEW o \in Nat, NEW cap \in Nat,
         NEW cur \in Nat, NEW p \in Nat, NEW n \in Nat,
         cur + p + n <= cap, b + cap <= M, o + cap <= M
  PROVE  /\ b + cur + p \in 0 .. M
         /\ o + cur + p \in 0 .. M
         /\ cur + p \in 0 .. M
         /\ cur + p + n \in 0 .. M
         /\ b + cur + p = b + (cur + p)
         /\ o + cur + p = o + (cur + p)
         /\ b + cur + p >= b + cur
         /\ (cur + p) + n = cur + p + n
         /\ cur <= cur + p + n
OBVIOUS

-----------------------------------------------------------------------------
\* Before the scan nothing has been chosen, reserved or carved.
LEMMA InitIInv == Init => IInv
<1> SUFFICES ASSUME Init PROVE IInv
  OBVIOUS
<1> USE TextSpaceAssumption, MaxU64Assumption
<1>1. TypeOK
  <2>1. extents \in Seq(FreeExtent) /\ req \in ReserveRequest
    BY DEF Init
  <2>2. region \in Region /\ region.cursor <= region.capacity
    BY DEF Init, NoRegion, NewRegion, Region, U64, Source
  <2> QED
    BY <2>1, <2>2 DEF Init, TypeOK, U64
<1>2. ScanInv
  BY DEF Init, ScanInv
<1>3. RegionInv
  BY DEF Init, RegionInv
<1>4. CarveInv
  BY DEF Init, CarveInv, CarvesDisjoint
<1> QED
  BY <1>1, <1>2, <1>3, <1>4 DEF IInv

\* One iteration of the scan.
LEMMA EvaluateIInv == IInv /\ EvaluateExtent => IInv'
<1> SUFFICES ASSUME IInv, EvaluateExtent PROVE IInv'
  OBVIOUS
<1> USE MaxU64Assumption
<1> DEFINE e == extents[i]
<1>1. /\ e \in FreeExtent /\ i \in 1 .. Len(extents) /\ req \in ReserveRequest
      /\ req.align # 0 /\ extents \in Seq(FreeExtent) /\ best \in 0 .. Len(extents)
      /\ largest \in U64 /\ needed(req) \in U64
  BY NeededType DEF IInv, TypeOK, EvaluateExtent
<1>2. Offers(e, req) => Usable(e, req) \in U64
  BY <1>1, OfferBounds
<1>3. best' \in 0 .. Len(extents) /\ largest' \in U64 /\ i' \in 1 .. (Len(extents) + 1)
  BY <1>1, <1>2 DEF EvaluateExtent, pick_better, largest_available
<1>4. TypeOK'
  BY <1>1, <1>3 DEF IInv, TypeOK, EvaluateExtent
<1>5. ScanInv'
  <2>1. /\ extents' = extents /\ req' = req /\ i' = i + 1 /\ pc' = "scan"
    BY DEF EvaluateExtent
  <2>2. CASE ~ Offers(e, req) \/ Usable(e, req) < needed(req)
    <3>1. best' = best /\ ~ Sufficient(i)
      BY <2>2, <1>1, <1>2, OfferTypes DEF EvaluateExtent, Sufficient, U64
    <3> QED
      BY <2>1, <3>1, <1>1 DEF ScanInv, IInv, Sufficient
  <2>3. CASE Offers(e, req) /\ ~(Usable(e, req) < needed(req)) /\ best = 0
    <3>1. best' = i /\ Sufficient(i)
      BY <2>3, <1>1, <1>2 DEF EvaluateExtent, Sufficient, U64
    <3>2. Preferred(extents[i], extents[i], req)
      BY <1>1, PreferredOrder
    <3> QED
      BY <2>1, <2>3, <3>1, <3>2, <1>1 DEF ScanInv, IInv, Sufficient
  <2>4. CASE Offers(e, req) /\ ~(Usable(e, req) < needed(req)) /\ best # 0
    <3>1. best' = pick_better(best, i) /\ Sufficient(i) /\ Sufficient(best)
      BY <2>4, <1>1, <1>2 DEF EvaluateExtent, Sufficient, U64, ScanInv, IInv
    <3>2. \A k \in 1 .. Len(extents) : extents[k] \in FreeExtent
      BY <1>1
    <3>3. best' \in 1 .. i /\ (best' = best \/ best' = i)
      BY <3>1, <1>1, <2>4 DEF pick_better, ScanInv, IInv
    <3>4. /\ Preferred(extents[best'], extents[best], req)
          /\ Preferred(extents[best'], extents[i], req)
      BY <3>1, <3>2, <1>1, <2>4, PreferredOrder DEF pick_better
    <3>5. \A k \in 1 .. i : Sufficient(k) =>
             Preferred(extents[best'], extents[k], req)
      <4> SUFFICES ASSUME NEW k \in 1 .. i, Sufficient(k)
                   PROVE  Preferred(extents[best'], extents[k], req)
        OBVIOUS
      <4>1. CASE k = i
        BY <4>1, <3>4
      <4>2. CASE k # i
        <5>1. k \in 1 .. (i - 1)
          BY <4>2, <1>1
        <5>2. Preferred(extents[best], extents[k], req)
          BY <5>1 DEF ScanInv, IInv
        <5>3. /\ extents[best'] \in FreeExtent /\ extents[best] \in FreeExtent
              /\ extents[k] \in FreeExtent
          BY <3>2, <3>3, <5>1, <1>1, <2>4
        <5> QED
          BY <5>2, <5>3, <3>4, <1>1, PreferredOrder
      <4> QED
        BY <4>1, <4>2
    <3> QED
      BY <2>1, <3>1, <3>3, <3>5, <1>1 DEF ScanInv, Sufficient
  <2> QED
    BY <2>2, <2>3, <2>4
<1>6. RegionInv' /\ CarveInv'
  BY DEF IInv, RegionInv, CarveInv, CarvesDisjoint, EvaluateExtent
<1> QED
  BY <1>4, <1>5, <1>6 DEF IInv

\* The two ways a reservation is fulfilled establish RegionInv.
LEMMA FulfilFreeIInv == IInv /\ FulfilFromFreeSpace => IInv'
<1> SUFFICES ASSUME IInv, FulfilFromFreeSpace PROVE IInv'
  OBVIOUS
<1> USE MaxU64Assumption
<1> DEFINE e == extents[best]
<1>1. /\ e \in FreeExtent /\ req \in ReserveRequest /\ req.align # 0
      /\ Sufficient(best) /\ needed(req) \in U64 /\ best # 0
      /\ i = Len(extents) + 1 /\ carves = <<>>
  BY NeededType DEF IInv, TypeOK, ScanInv, CarveInv, FulfilFromFreeSpace
<1>2. /\ BaseIn(e, req.align) \in U64 /\ BaseIn(e, req.align) >= e.address
      /\ BaseIn(e, req.align) + Usable(e, req) = e.address + e.len
      /\ Usable(e, req) \in U64 /\ Usable(e, req) >= needed(req)
  BY <1>1, OfferBounds DEF Sufficient
<1>3. /\ e.address \in Nat /\ e.file_offset \in Nat /\ e.len \in Nat
      /\ e.address + e.len <= MaxU64 /\ e.file_offset + e.len <= MaxU64
      /\ e.source \in Source
  BY <1>1 DEF FreeExtent, U64
<1> DEFINE off == e.file_offset + (BaseIn(e, req.align) - e.address)
<1>4. /\ off \in U64 /\ off + needed(req) <= MaxU64
      /\ BaseIn(e, req.align) + needed(req) <= MaxU64
      /\ BaseIn(e, req.align) + needed(req) <= e.address + e.len
      /\ BaseIn(e, req.align) - off = e.address - e.file_offset
  <2>1. /\ BaseIn(e, req.align) \in Nat /\ Usable(e, req) \in Nat
        /\ needed(req) \in Nat /\ MaxU64 \in Nat
    BY <1>1, <1>2 DEF U64
  <2> QED
    BY <2>1, <1>2, <1>3, BaseArithmetic DEF U64
<1>5. /\ region' = NewRegion(BaseIn(e, req.align), off, needed(req), e.source)
      /\ pc' = "reserved" /\ carves' = <<>>
      /\ extents' = extents /\ req' = req /\ i' = i /\ best' = best
      /\ largest' = largest
  BY <1>1 DEF FulfilFromFreeSpace
<1>6. region' \in Region /\ region'.cursor <= region'.capacity
  BY <1>1, <1>2, <1>3, <1>4, <1>5 DEF NewRegion, Region, U64
<1>7. TypeOK'
  BY <1>5, <1>6 DEF IInv, TypeOK
<1>8. ScanInv'
  BY <1>1, <1>5 DEF IInv, ScanInv, Sufficient
<1>9. RegionInv'
  <2> HIDE DEF off, e
  <2>1. /\ region'.base_address = BaseIn(e, req.align)
        /\ region'.base_file_offset = off
        /\ region'.capacity = needed(req)
    BY <1>5 DEF NewRegion
  <2>2. extents'[best'] = e
    BY <1>5 DEF e
  <2> QED
    BY <1>2, <1>4, <2>1, <2>2 DEF RegionInv
<1>10. CarveInv'
  BY <1>5 DEF CarveInv, CarvesDisjoint
<1> QED
  BY <1>7, <1>8, <1>9, <1>10 DEF IInv

\* A grown gap establishes RegionInv by the guard that it fits the file.
LEMMA GrowIInv == IInv /\ FulfilByGrowing => IInv'
<1> SUFFICES ASSUME IInv, FulfilByGrowing PROVE IInv'
  OBVIOUS
<1> USE MaxU64Assumption, TextSpaceAssumption
<1>1. GrowDelta \in Nat
  <2>1. needed(req) \in Nat /\ PAGE \in Nat \ {0} /\ MaxU64 + 1 \in Nat \ {0}
    BY NeededType DEF IInv, TypeOK, U64
  <2>2. (needed(req) + PAGE - 1) % (MaxU64 + 1) \in Nat
    <3> DEFINE s == needed(req) + PAGE - 1
               m == MaxU64 + 1
    <3>1. s \in Nat /\ m \in Nat \ {0}
      BY <2>1
    <3> HIDE DEF s, m
    <3>2. s % m \in Nat
      BY <3>1
    <3> QED
      BY <3>2 DEF s, m
  <2>3. ((needed(req) + PAGE - 1) % (MaxU64 + 1)) \div PAGE \in Nat
    <3> DEFINE w == (needed(req) + PAGE - 1) % (MaxU64 + 1)
    <3>1. w \in Nat
      BY <2>2
    <3> HIDE DEF w
    <3>2. w \div PAGE \in Nat
      BY <3>1, <2>1
    <3> QED
      BY <3>2 DEF w
  <2> DEFINE p == ((needed(req) + PAGE - 1) % (MaxU64 + 1)) \div PAGE
             q == IF p = 0 THEN 1 ELSE p
  <2>4. q \in Nat
    BY <2>3
  <2>5. PAGE * q \in Nat
    <3> HIDE DEF q
    <3> QED
      BY <2>4, <2>1
  <2> QED
    BY <2>5 DEF GrowDelta
<1>2. /\ GapAddress \in Nat /\ GapOffset \in Nat
      /\ GapAddress + GrowDelta <= MaxU64 /\ GapOffset + GrowDelta <= MaxU64
  BY DEF FulfilByGrowing, U64
<1>3. GapAddress \in U64 /\ GapOffset \in U64 /\ GrowDelta \in U64
  BY <1>1, <1>2 DEF U64
<1>4. /\ region' = NewRegion(GapAddress, GapOffset, GrowDelta, "GrewText")
      /\ pc' = "reserved" /\ pc = "scan" /\ best = 0
      /\ extents' = extents /\ req' = req /\ i' = i /\ best' = best
      /\ largest' = largest /\ carves' = carves /\ i > Len(extents)
  BY DEF FulfilByGrowing
<1>5. region' \in Region /\ region'.cursor <= region'.capacity
  BY <1>3, <1>4 DEF NewRegion, Region, U64, Source
<1>6. TypeOK'
  BY <1>4, <1>5 DEF IInv, TypeOK
<1>7. ScanInv'
  BY <1>4 DEF IInv, TypeOK, ScanInv, Sufficient
<1>8. RegionInv'
  BY <1>2, <1>4 DEF RegionInv, NewRegion
<1>9. CarveInv'
  BY <1>4 DEF IInv, CarveInv, CarvesDisjoint
<1> QED
  BY <1>6, <1>7, <1>8, <1>9 DEF IInv

\* A refusal changes nothing but the outcome.
LEMMA RefuseIInv == IInv /\ Refuse => IInv'
<1> SUFFICES ASSUME IInv, Refuse PROVE IInv'
  OBVIOUS
<1>1. TypeOK' /\ RegionInv' /\ CarveInv'
  BY DEF IInv, TypeOK, RegionInv, CarveInv, CarvesDisjoint, Refuse
<1>2. ScanInv'
  BY DEF IInv, TypeOK, ScanInv, Sufficient, Refuse
<1> QED
  BY <1>1, <1>2 DEF IInv

\* A carve starts at or past the cursor and ends at the new cursor.
LEMMA CarveIInv ==
  ASSUME NEW len \in CarveSizes, NEW align \in CarveAligns,
         IInv, carve(len, align)
  PROVE  IInv'
<1> USE MaxU64Assumption, TextSpaceAssumption
<1>1. /\ pc = "reserved" /\ pc' = pc /\ extents' = extents /\ req' = req
      /\ i' = i /\ best' = best /\ largest' = largest
  BY DEF carve
<1>2. CASE carve_result(region, len, align) # "Ok"
  <2>1. carves' = carves /\ region' = region
    BY <1>2 DEF carve
  <2> QED
    BY <1>1, <2>1
    DEF IInv, TypeOK, ScanInv, RegionInv, CarveInv, CarvesDisjoint, Sufficient
<1>3. CASE carve_result(region, len, align) = "Ok"
  <2> DEFINE pad == CarvePad(region, align)
             c   == CarveOf(region, len, align)
  <2>1. /\ region \in Region /\ region.cursor \in Nat /\ region.capacity \in Nat
        /\ region.base_address \in Nat /\ region.base_file_offset \in Nat
        /\ region.capacity <= MaxU64
        /\ region.base_address + region.capacity <= MaxU64
        /\ region.base_file_offset + region.capacity <= MaxU64
    BY <1>1 DEF IInv, TypeOK, RegionInv, Region, U64
  <2>2. len \in Nat /\ align \in Nat /\ align # 0
    BY <1>3 DEF carve_result, U64
  <2>3. pad \in Nat
    <3>1. region.base_address + region.cursor \in Nat /\ align \in Nat \ {0}
      BY <2>1, <2>2
    <3> DEFINE v == region.base_address + region.cursor
    <3> HIDE DEF v
    <3>2. round_up(v, align) \in Nat /\ round_up(v, align) >= v /\ v \in Nat
      BY <3>1, RoundUpBounds DEF v
    <3>3. round_up(v, align) - v \in Nat
      BY <3>2
    <3> QED
      BY <3>3 DEF CarvePad, v
  <2>4. NewCursor(region, len, align) = region.cursor + pad + len
    BY DEF NewCursor
  <2>5. region.cursor + pad + len <= region.capacity
    BY <1>3, <2>1, <2>2, <2>3, <2>4 DEF carve_result
  <2> HIDE DEF pad
  <2>6. /\ region' = [region EXCEPT !.cursor = region.cursor + pad + len]
        /\ carves' = Append(carves, c)
    BY <1>3, <2>4 DEF carve
  <2>7. c = [address |-> region.base_address + region.cursor + pad,
             file_offset |-> region.base_file_offset + region.cursor + pad,
             offset_in_region |-> region.cursor + pad, len |-> len]
    BY DEF CarveOf, pad
  <2> HIDE DEF c
  <2>a. /\ region.base_address + region.cursor + pad \in U64
        /\ region.base_file_offset + region.cursor + pad \in U64
        /\ region.cursor + pad \in U64
        /\ region.cursor + pad + len \in U64
        /\ region.base_address + region.cursor + pad
             = region.base_address + (region.cursor + pad)
        /\ region.base_file_offset + region.cursor + pad
             = region.base_file_offset + (region.cursor + pad)
        /\ region.base_address + region.cursor + pad
             >= region.base_address + region.cursor
        /\ (region.cursor + pad) + len = region.cursor + pad + len
        /\ region.cursor <= region.cursor + pad + len
    <3> DEFINE b   == region.base_address
               o   == region.base_file_offset
               cap == region.capacity
               cur == region.cursor
    <3>1. /\ MaxU64 \in Nat /\ b \in Nat /\ o \in Nat /\ cap \in Nat
          /\ cur \in Nat /\ pad \in Nat /\ len \in Nat
          /\ cur + pad + len <= cap /\ b + cap <= MaxU64 /\ o + cap <= MaxU64
      BY <2>1, <2>2, <2>3, <2>5
    <3> HIDE DEF b, o, cap, cur
    <3>2. /\ b + cur + pad \in 0 .. MaxU64 /\ o + cur + pad \in 0 .. MaxU64
          /\ cur + pad \in 0 .. MaxU64 /\ cur + pad + len \in 0 .. MaxU64
          /\ b + cur + pad = b + (cur + pad)
          /\ o + cur + pad = o + (cur + pad)
          /\ b + cur + pad >= b + cur
          /\ (cur + pad) + len = cur + pad + len
          /\ cur <= cur + pad + len
      BY <3>1, CarveArithmetic
    <3> QED
      BY <3>2 DEF b, o, cap, cur, U64
  <2>8. c \in Carve
    <3>1. len \in U64
      OBVIOUS
    <3> QED
      BY <3>1, <2>a, <2>7 DEF Carve
  <2>9. region' \in Region /\ region'.cursor <= region'.capacity
        /\ region'.base_address = region.base_address
        /\ region'.base_file_offset = region.base_file_offset
        /\ region'.capacity = region.capacity
        /\ region'.cursor = region.cursor + pad + len
    BY <2>1, <2>5, <2>6, <2>a DEF Region
  <2>10. TypeOK'
    BY <1>1, <2>6, <2>8, <2>9 DEF IInv, TypeOK
  <2>11. ScanInv' /\ RegionInv'
    BY <1>1, <2>9 DEF IInv, ScanInv, RegionInv, Sufficient
  <2>12. CarveInv'
    <3>1. /\ carves \in Seq(Carve) /\ Len(carves') = Len(carves) + 1
          /\ \A k \in 1 .. Len(carves) : carves'[k] = carves[k]
          /\ carves'[Len(carves) + 1] = c
      BY <2>6, <2>8 DEF IInv, TypeOK
    <3>2. /\ c.address = region.base_address + c.offset_in_region
          /\ c.file_offset = region.base_file_offset + c.offset_in_region
          /\ c.offset_in_region + c.len = region.cursor + pad + len
          /\ c.address >= region.base_address + region.cursor
          /\ c.address \in Nat
      BY <2>7, <2>a DEF U64
    <3>3. \A k \in 1 .. Len(carves) :
            /\ carves[k] \in Carve
            /\ carves[k].address
                 = region.base_address + carves[k].offset_in_region
            /\ carves[k].file_offset
                 = region.base_file_offset + carves[k].offset_in_region
            /\ carves[k].offset_in_region + carves[k].len <= region.cursor
      BY <3>1 DEF IInv, CarveInv
    <3>4. \A k \in 1 .. Len(carves) :
            /\ carves[k].offset_in_region \in Nat /\ carves[k].len \in Nat
      BY <3>3 DEF Carve, U64
    <3>5. \A k \in 1 .. Len(carves) :
            carves[k].address + carves[k].len <= c.address
      <4> TAKE k \in 1 .. Len(carves)
      <4>1. /\ carves[k].offset_in_region \in Nat /\ carves[k].len \in Nat
            /\ carves[k].offset_in_region + carves[k].len <= region.cursor
            /\ carves[k].address
                 = region.base_address + carves[k].offset_in_region
        BY <3>3, <3>4
      <4> DEFINE x   == carves[k].address
                 n   == carves[k].len
                 off == carves[k].offset_in_region
                 b   == region.base_address
                 cur == region.cursor
                 y   == c.address
      <4>2. /\ off \in Nat /\ n \in Nat /\ b \in Nat /\ cur \in Nat /\ y \in Nat
            /\ off + n <= cur /\ x = b + off /\ y >= b + cur
        BY <4>1, <2>1, <3>2
      <4> HIDE DEF x, n, off, b, cur, y
      <4>3. x + n <= y
        BY <4>2
      <4> QED
        BY <4>3 DEF x, n, y
    <3>6. \A j, k \in 1 .. Len(carves) :
            j < k => carves[j].address + carves[j].len <= carves[k].address
      BY <3>1 DEF IInv, CarveInv, CarvesDisjoint
    <3>7. Len(carves) \in Nat /\ DOMAIN carves' = 1 .. (Len(carves) + 1)
      BY <3>1, <2>10 DEF TypeOK
    <3>8. CarvesDisjoint'
      BY <3>1, <3>5, <3>6, <3>7 DEF CarvesDisjoint
    <3>9. \A k \in DOMAIN carves' :
            /\ carves'[k].address
                 = region'.base_address + carves'[k].offset_in_region
            /\ carves'[k].file_offset
                 = region'.base_file_offset + carves'[k].offset_in_region
            /\ carves'[k].offset_in_region + carves'[k].len <= region'.cursor
      <4> TAKE k \in DOMAIN carves'
      <4>1. CASE k = Len(carves) + 1
        <5>1. region.cursor + pad + len \in Nat
          BY <2>a DEF U64
        <5> QED
          BY <4>1, <5>1, <3>1, <3>2, <2>9
      <4>2. CASE k \in 1 .. Len(carves)
        <5>1. carves'[k] = carves[k]
          BY <4>2, <3>1
        <5>2. /\ carves[k].address
                   = region.base_address + carves[k].offset_in_region
              /\ carves[k].file_offset
                   = region.base_file_offset + carves[k].offset_in_region
              /\ carves[k].offset_in_region + carves[k].len <= region.cursor
              /\ carves[k].offset_in_region + carves[k].len \in Nat
          BY <4>2, <3>3, <3>4
        <5>3. region.cursor + pad + len \in Nat
          BY <2>a DEF U64
        <5>4. carves[k].offset_in_region + carves[k].len
                <= region.cursor + pad + len
          BY <5>2, <5>3, <2>a, <2>1
        <5> QED
          BY <5>1, <5>2, <5>4, <2>9
      <4> QED
        BY <4>1, <4>2, <3>7
    <3> QED
      BY <3>8, <3>9, <1>1 DEF CarveInv
  <2> QED
    BY <2>10, <2>11, <2>12 DEF IInv
<1> QED
  BY <1>2, <1>3

\* Every step of a reservation session preserves the inductive invariant.
LEMMA NextIInv == IInv /\ [Next]_vars => IInv'
<1> SUFFICES ASSUME IInv, [Next]_vars PROVE IInv'
  OBVIOUS
<1>1. CASE EvaluateExtent
  BY <1>1, EvaluateIInv
<1>2. CASE FulfilFromFreeSpace
  BY <1>2, FulfilFreeIInv
<1>3. CASE FulfilByGrowing
  BY <1>3, GrowIInv
<1>4. CASE Refuse
  BY <1>4, RefuseIInv
<1>5. CASE \E len \in CarveSizes, align \in CarveAligns : carve(len, align)
  BY <1>5, CarveIInv
<1>6. CASE Finished \/ UNCHANGED vars
  BY <1>6
  DEF Finished, vars, IInv, TypeOK, ScanInv, RegionInv, CarveInv,
      CarvesDisjoint, Sufficient
<1> QED
  BY <1>1, <1>2, <1>3, <1>4, <1>5, <1>6 DEF Next

\* The inductive invariant holds in every state of plan_reservation, of
\* reserve_text_region and of every sequence of carves.
THEOREM SpecIInv == Spec => []IInv
<1> QED
  BY InitIInv, NextIInv, PTL DEF Spec

-----------------------------------------------------------------------------
\* Every variable of the allocator keeps its type, and the cursor never passes
\* the capacity, so remaining() (capacity - cursor) never underflows.
THEOREM TypeCorrect == Spec => []TypeOK
<1>1. IInv => TypeOK
  BY DEF IInv
<1> QED
  BY <1>1, SpecIInv, PTL

\* Slices carved from a region never overlap (Region::carve).
THEOREM CarvesNeverOverlap == Spec => []CarvesDisjoint
<1>1. IInv => CarvesDisjoint
  BY DEF IInv, CarveInv
<1> QED
  BY <1>1, SpecIInv, PTL

\* plan_reservation returns the best fit whatever the order of the free list.
THEOREM BestFit == Spec => []PlanIsBestFit
<1>1. IInv => PlanIsBestFit
  <2> SUFFICES ASSUME IInv, pc = "reserved", best # 0
               PROVE  /\ Sufficient(best)
                      /\ \A k \in DOMAIN extents : Sufficient(k) =>
                           Preferred(extents[best], extents[k], req)
    BY DEF PlanIsBestFit
  <2>1. Len(extents) \in Nat /\ DOMAIN extents = 1 .. Len(extents)
        /\ i = Len(extents) + 1
    BY DEF IInv, TypeOK, ScanInv
  <2> QED
    BY <2>1 DEF IInv, ScanInv
<1> QED
  BY <1>1, SpecIInv, PTL

\* Every slice lies inside the free extent its region was drawn from, at the
\* skew between address and file offset of that extent.
THEOREM CarvesStayInside == Spec => []CarvesInsideReservation
<1>1. IInv => CarvesInsideReservation
  <2> SUFFICES ASSUME IInv, NEW k \in DOMAIN carves
               PROVE  CarvesInsideReservation!(k)
    BY DEF CarvesInsideReservation
  <2> DEFINE c == carves[k]
  <2>1. pc = "reserved"
    BY DEF IInv, CarveInv
  <2>2. /\ c.address \in Nat /\ c.file_offset \in Nat
        /\ c.offset_in_region \in Nat /\ c.len \in Nat
    <3>1. c \in Carve
      BY DEF IInv, TypeOK
    <3> HIDE DEF c
    <3> QED
      BY <3>1, MaxU64Assumption DEF Carve, U64
  <2>3. /\ region.base_address \in Nat /\ region.base_file_offset \in Nat
        /\ region.capacity \in Nat /\ region.cursor \in Nat
        /\ region.cursor <= region.capacity
    BY MaxU64Assumption DEF IInv, TypeOK, Region, U64
  <2>4. best # 0 => /\ extents[best].address \in Nat
                    /\ extents[best].file_offset \in Nat
                    /\ extents[best].len \in Nat
    <3>1. best # 0 => extents[best] \in FreeExtent
      BY DEF IInv, TypeOK
    <3> QED
      BY <3>1, MaxU64Assumption DEF FreeExtent, U64
  <2>5. /\ c.address = region.base_address + c.offset_in_region
        /\ c.file_offset = region.base_file_offset + c.offset_in_region
        /\ c.offset_in_region + c.len <= region.cursor
    BY DEF IInv, CarveInv
  <2>6. best # 0 =>
          /\ region.base_address >= extents[best].address
          /\ region.base_address + region.capacity
               <= extents[best].address + extents[best].len
          /\ region.base_address - region.base_file_offset
               = extents[best].address - extents[best].file_offset
    BY <2>1 DEF IInv, RegionInv
  <2> QED
    BY <2>2, <2>3, <2>4, <2>5, <2>6
<1> QED
  BY <1>1, SpecIInv, PTL

-----------------------------------------------------------------------------
(* The negative answers.  They need that round_up returns the LEAST        *)
(* multiple at or above its argument.                                      *)

\* largest_available bounds what the extents before index i offer, and while no
\* candidate has been found none of them reached the size that is needed.
LargestInv ==
  /\ pc # "zeroalign" => req.align # 0
  /\ pc = "refused" => best = 0
  /\ \A k \in 1 .. (i - 1) :
       Offers(extents[k], req) => Usable(extents[k], req) <= largest
  /\ best = 0 => largest <= needed(req)

\* A carve that failed for lack of room would fail again: a failing carve moves
\* nothing, and a successful one replaces the recorded call.
FullInv ==
  last.result = "RegionFull" =>
    /\ pc = "reserved"
    /\ last.len \in U64
    /\ last.align \in U64 \ {0}
    /\ NewCursor(region, last.len, last.align) > region.capacity

RInv == IInv /\ LargestInv /\ FullInv /\ GrowCoversRequest

-----------------------------------------------------------------------------
\* Division with remainder, for the rounding of addresses and of page counts.
LEMMA DivMod ==
  ASSUME NEW v \in Nat, NEW a \in Nat \ {0}
  PROVE  /\ v \div a \in Nat /\ v % a \in Nat /\ v % a < a
         /\ v = a * (v \div a) + (v % a)
OBVIOUS

\* A multiple of a that exceeds a * q is at least the next one.
LEMMA NextMultiple ==
  ASSUME NEW a \in Nat \ {0}, NEW q \in Nat, NEW p \in Nat, NEW r \in Nat,
         r # 0, a * p >= a * q + r
  PROVE  a * p >= a * q + a
<1>1. CASE p <= q
  <2>1. PICK d \in Nat : q = p + d
    BY <1>1
  <2>2. a * q = a * p + a * d /\ a * d \in Nat /\ a * p \in Nat
    BY <2>1
  <2> QED
    BY <2>2
<1>2. CASE p > q
  <2>1. PICK d \in Nat : p = q + 1 + d
    <3>1. p - q - 1 \in Nat
      BY <1>2
    <3> QED
      BY <3>1
  <2>2. a * p = a * q + a + a * d /\ a * d \in Nat /\ a * q \in Nat
    BY <2>1
  <2> QED
    BY <2>2
<1> QED
  BY <1>1, <1>2

\* round_up skips no multiple: nothing aligned lies between the value and it.
LEMMA RoundUpLeast ==
  ASSUME NEW v \in Nat, NEW a \in Nat \ {0}, NEW m \in Nat, m >= v, m % a = 0
  PROVE  round_up(v, a) <= m
<1> DEFINE q == v \div a
           r == v % a
           p == m \div a
<1>1. q \in Nat /\ r \in Nat /\ r < a /\ v = a * q + r
  BY DivMod
<1>2. p \in Nat /\ m = a * p + (m % a)
  BY DivMod
<1>3. m = a * p
  <2> HIDE DEF p
  <2>1. a * p \in Nat
    BY <1>2
  <2> QED
    BY <1>2, <2>1
<1>4. round_up(v, a) = IF r = 0 THEN v ELSE v + (a - r)
  BY DEF round_up
<1> HIDE DEF q, r, p
<1>5. a * q \in Nat /\ a * p \in Nat
  BY <1>1, <1>2
<1>6. CASE r # 0
  <2>1. a * p >= a * q + a
    BY <1>1, <1>2, <1>3, <1>6, NextMultiple
  <2> QED
    BY <2>1, <1>1, <1>3, <1>4, <1>5, <1>6
<1>7. CASE r = 0
  BY <1>4, <1>7
<1> QED
  BY <1>6, <1>7

\* (n + P - 1) / P pages of P bytes hold n bytes.
LEMMA PagesCover ==
  ASSUME NEW n \in Nat, NEW P \in Nat \ {0}
  PROVE  P * ((n + P - 1) \div P) >= n
<1> DEFINE s == n + P - 1
           d == s \div P
<1>1. s \in Nat
  OBVIOUS
<1>2. d \in Nat /\ s % P \in Nat /\ s % P < P /\ s = P * d + (s % P)
  <2> HIDE DEF s
  <2> QED
    BY <1>1, DivMod DEF d
<1> HIDE DEF d
<1>3. P * d \in Nat
  BY <1>2
<1>4. P * d >= n
  <2> DEFINE x == P * d
             y == s % P
  <2>1. x \in Nat /\ y \in Nat /\ y < P /\ n + P - 1 = x + y
    BY <1>2, <1>3
  <2> HIDE DEF x, y
  <2>2. x >= n
    BY <2>1
  <2> QED
    BY <2>2 DEF x
<1> QED
  BY <1>4 DEF d

\* The gap of a grow holds the request unless the rounding sum wraps.
LEMMA GrowDeltaCovers ==
  ASSUME req \in ReserveRequest, needed(req) + PAGE - 1 <= MaxU64
  PROVE  GrowDelta >= needed(req)
<1> USE MaxU64Assumption, TextSpaceAssumption
<1> DEFINE n == needed(req)
           s == n + PAGE - 1
           d == s \div PAGE
<1>1. n \in Nat /\ PAGE \in Nat \ {0} /\ MaxU64 \in Nat
  BY NeededType DEF U64
<1> HIDE DEF n
<1>2. s \in Nat /\ s <= MaxU64
  BY <1>1 DEF n
<1>3. PAGE * d >= n
  BY <1>1, PagesCover
<1>4. s % (MaxU64 + 1) = s
  <2> DEFINE m == MaxU64 + 1
  <2>1. m \in Nat \ {0} /\ s < m
    BY <1>1, <1>2
  <2> HIDE DEF s, m
  <2>2. s % m = s
    BY <1>2, <2>1
  <2> QED
    BY <2>2 DEF m
<1>5. GrowDelta = PAGE * (IF d = 0 THEN 1 ELSE d)
  BY <1>4 DEF GrowDelta, n
<1>6. d \in Nat
  BY <1>1, <1>2, DivMod
<1> HIDE DEF d
<1>7. PAGE * (IF d = 0 THEN 1 ELSE d) >= n
  <2>1. CASE d = 0
    BY <2>1, <1>1, <1>3
  <2>2. CASE d # 0
    BY <2>2, <1>3
  <2> QED
    BY <2>1, <2>2
<1> QED
  BY <1>5, <1>7 DEF n

\* An extent that holds an aligned run of the needed size is sufficient: the
\* base the scan computes is at or below any other aligned base.
LEMMA AlignedRunIsSufficient ==
  ASSUME NEW e \in FreeExtent, NEW r \in ReserveRequest, r.align # 0,
         e.source # "GrewText", e.source = "HeaderPad" => r.allow_headerpad,
         NEW a \in e.address .. (e.address + e.len), a % r.align = 0,
         a + needed(r) <= e.address + e.len
  PROVE  Offers(e, r) /\ Usable(e, r) >= needed(r)
<1> USE MaxU64Assumption
<1>1. /\ e.address \in Nat /\ e.len \in Nat /\ r.align \in Nat \ {0}
      /\ e.address + e.len <= MaxU64 /\ needed(r) \in Nat /\ MaxU64 \in Nat
  BY NeededType DEF FreeExtent, ReserveRequest, U64
<1>2. a \in Nat /\ a >= e.address /\ a <= e.address + e.len
  BY <1>1
<1>3. BaseIn(e, r.align) <= a /\ BaseIn(e, r.align) \in Nat
  BY <1>1, <1>2, RoundUpLeast, RoundUpBounds DEF BaseIn
<1>4. /\ BaseIn(e, r.align) <= MaxU64
      /\ BaseIn(e, r.align) - e.address <= e.len
      /\ e.len - (BaseIn(e, r.align) - e.address) >= needed(r)
  BY <1>1, <1>2, <1>3
<1> QED
  BY <1>4 DEF Offers, Usable

\* A carve that would pass the capacity leaves no aligned slice past the cursor.
LEMMA FullLeavesNoSlice ==
  ASSUME NEW r \in Region, NEW len \in U64, NEW align \in U64 \ {0},
         NewCursor(r, len, align) > r.capacity,
         NEW a \in (r.base_address + r.cursor) .. (r.base_address + r.capacity),
         a % align = 0
  PROVE  a + len > r.base_address + r.capacity
<1> USE MaxU64Assumption
<1> DEFINE v == r.base_address + r.cursor
           u == round_up(v, align)
<1>1. /\ r.base_address \in Nat /\ r.cursor \in Nat /\ r.capacity \in Nat
      /\ len \in Nat /\ align \in Nat \ {0}
  BY DEF Region, U64
<1>2. v \in Nat /\ a \in Nat /\ a >= v
  BY <1>1
<1>3. u \in Nat /\ u <= a
  <2> HIDE DEF v
  <2> QED
    BY <1>1, <1>2, RoundUpLeast, RoundUpBounds
<1>4. NewCursor(r, len, align) = r.cursor + (u - v) + len
  BY DEF NewCursor, CarvePad
<1> HIDE DEF u
<1> QED
  BY <1>1, <1>2, <1>3, <1>4

-----------------------------------------------------------------------------
\* Nothing has been refused before the scan.
LEMMA InitRInv == Init => RInv
<1> SUFFICES ASSUME Init PROVE RInv
  OBVIOUS
<1>1. IInv
  BY InitIInv
<1>2. needed(req) \in Nat
  BY <1>1, NeededType, MaxU64Assumption DEF IInv, TypeOK, U64
<1>3. LargestInv
  BY <1>2 DEF Init, LargestInv
<1>4. FullInv /\ GrowCoversRequest
  BY DEF Init, FullInv, NoCarve, GrowCoversRequest
<1> QED
  BY <1>1, <1>3, <1>4 DEF RInv

\* One iteration of the scan raises largest_available to what it sees.
LEMMA EvaluateLargest == IInv /\ LargestInv /\ EvaluateExtent => LargestInv'
<1> SUFFICES ASSUME IInv, LargestInv, EvaluateExtent PROVE LargestInv'
  OBVIOUS
<1> DEFINE e == extents[i]
<1>1. /\ e \in FreeExtent /\ i \in 1 .. Len(extents) /\ req \in ReserveRequest
      /\ req.align # 0 /\ extents \in Seq(FreeExtent) /\ largest \in Nat
      /\ needed(req) \in Nat
  BY NeededType, MaxU64Assumption DEF IInv, TypeOK, EvaluateExtent, U64
<1>2. /\ extents' = extents /\ req' = req /\ i' = i + 1 /\ pc' = "scan"
  BY DEF EvaluateExtent
<1>3. \A k \in 1 .. (i - 1) :
        Offers(extents[k], req) => /\ Usable(extents[k], req) <= largest
                                   /\ Usable(extents[k], req) \in Int
  <2> TAKE k \in 1 .. (i - 1)
  <2>1. extents[k] \in FreeExtent
    BY <1>1
  <2> QED
    BY <1>1, <2>1, OfferTypes DEF LargestInv
<1>4. Usable(e, req) \in Int
  BY <1>1, OfferTypes
<1>5. CASE Offers(e, req)
  <2>1. largest' = largest_available(i)
    BY <1>5 DEF EvaluateExtent
  <2>2. largest' >= largest /\ largest' >= Usable(e, req) /\ largest' \in Int
    BY <2>1, <1>1, <1>4 DEF largest_available
  <2>3. \A k \in 1 .. i :
          Offers(extents[k], req) => Usable(extents[k], req) <= largest'
    <3> SUFFICES ASSUME NEW k \in 1 .. i, Offers(extents[k], req)
                 PROVE  Usable(extents[k], req) <= largest'
      OBVIOUS
    <3>1. CASE k = i
      BY <3>1, <2>2
    <3>2. CASE k # i
      <4>1. k \in 1 .. (i - 1)
        BY <3>2, <1>1
      <4> QED
        BY <4>1, <1>3, <2>2, <1>1
    <3> QED
      BY <3>1, <3>2
  <2>4. best' = 0 => largest' <= needed(req)
    <3> SUFFICES ASSUME best' = 0 PROVE largest' <= needed(req)
      OBVIOUS
    <3>1. best = 0 /\ Usable(e, req) < needed(req)
      BY <1>1, <1>5 DEF EvaluateExtent, pick_better
    <3> QED
      BY <3>1, <2>1, <1>1, <1>4 DEF largest_available, LargestInv
  <2> QED
    BY <2>3, <2>4, <1>1, <1>2 DEF LargestInv
<1>6. CASE ~ Offers(e, req)
  <2>1. largest' = largest /\ best' = best
    BY <1>6 DEF EvaluateExtent
  <2> QED
    BY <1>6, <2>1, <1>1, <1>2, <1>3 DEF LargestInv
<1> QED
  BY <1>5, <1>6

\* A carve records RegionFull only when the slice would pass the capacity; the
\* capacity itself never changes.
LEMMA CarveFull ==
  ASSUME NEW len \in CarveSizes, NEW align \in CarveAligns,
         IInv, FullInv, GrowCoversRequest, carve(len, align)
  PROVE  FullInv' /\ GrowCoversRequest'
<1> USE MaxU64Assumption, TextSpaceAssumption
<1>1. /\ last' = [len |-> len, align |-> align,
                  result |-> carve_result(region, len, align)]
      /\ pc' = "reserved" /\ pc = "reserved" /\ best' = best /\ req' = req
  BY DEF carve
<1>2. region \in Region
  BY DEF IInv, TypeOK
<1>3. region'.capacity = region.capacity
  BY <1>2 DEF carve, Region
<1>4. FullInv'
  <2> SUFFICES ASSUME carve_result(region, len, align) = "RegionFull"
               PROVE  /\ align # 0
                      /\ region' = region
                      /\ NewCursor(region, len, align) > region.capacity
    BY <1>1 DEF FullInv
  <2>1. align # 0 /\ NewCursor(region, len, align) > region.capacity
    BY DEF carve_result
  <2>2. region' = region
    BY DEF carve
  <2> QED
    BY <2>1, <2>2
<1>5. GrowCoversRequest'
  BY <1>1, <1>3 DEF GrowCoversRequest
<1> QED
  BY <1>4, <1>5

\* Every step of a reservation session preserves the refusal invariant.
LEMMA NextRInv == RInv /\ [Next]_vars => RInv'
<1> SUFFICES ASSUME RInv, [Next]_vars PROVE RInv'
  OBVIOUS
<1>1. IInv /\ IInv'
  BY NextIInv DEF RInv
<1>2. CASE EvaluateExtent
  <2>1. FullInv' /\ GrowCoversRequest'
    BY <1>2 DEF RInv, FullInv, GrowCoversRequest, EvaluateExtent
  <2> QED
    BY <1>1, <1>2, <2>1, EvaluateLargest DEF RInv
<1>3. CASE FulfilFromFreeSpace
  <2>1. LargestInv'
    BY <1>3 DEF RInv, LargestInv, FulfilFromFreeSpace
  <2>2. FullInv'
    BY <1>3 DEF RInv, FullInv, FulfilFromFreeSpace
  <2>3. GrowCoversRequest'
    BY <1>3 DEF GrowCoversRequest, FulfilFromFreeSpace
  <2> QED
    BY <1>1, <2>1, <2>2, <2>3 DEF RInv
<1>4. CASE FulfilByGrowing
  <2>1. LargestInv'
    BY <1>4 DEF RInv, LargestInv, FulfilByGrowing
  <2>2. FullInv'
    BY <1>4 DEF RInv, FullInv, FulfilByGrowing
  <2>3. GrowCoversRequest'
    <3>1. region'.capacity = GrowDelta /\ req' = req
      BY <1>4 DEF FulfilByGrowing, NewRegion
    <3>2. req \in ReserveRequest
      BY <1>1 DEF IInv, TypeOK
    <3> QED
      BY <3>1, <3>2, GrowDeltaCovers DEF GrowCoversRequest
  <2> QED
    BY <1>1, <2>1, <2>2, <2>3 DEF RInv
<1>5. CASE Refuse
  <2>1. LargestInv' /\ FullInv' /\ GrowCoversRequest'
    BY <1>5 DEF RInv, LargestInv, FullInv, GrowCoversRequest, Refuse
  <2> QED
    BY <1>1, <2>1 DEF RInv
<1>6. CASE \E len \in CarveSizes, align \in CarveAligns : carve(len, align)
  <2>1. PICK len \in CarveSizes, align \in CarveAligns : carve(len, align)
    BY <1>6
  <2>2. FullInv' /\ GrowCoversRequest'
    BY <1>1, <2>1, CarveFull DEF RInv
  <2>3. LargestInv'
    BY <2>1 DEF RInv, LargestInv, carve
  <2> QED
    BY <1>1, <2>2, <2>3 DEF RInv
<1>7. CASE Finished \/ UNCHANGED vars
  <2>1. LargestInv' /\ FullInv' /\ GrowCoversRequest'
    BY <1>7
    DEF RInv, LargestInv, FullInv, GrowCoversRequest, Finished, vars
  <2> QED
    BY <1>1, <2>1 DEF RInv
<1> QED
  BY <1>2, <1>3, <1>4, <1>5, <1>6, <1>7 DEF Next

\* The refusal invariant holds in every state of a reservation session.
THEOREM SpecRInv == Spec => []RInv
<1> QED
  BY InitRInv, NextRInv, PTL DEF Spec

-----------------------------------------------------------------------------
\* A grown gap holds what was asked for unless the page rounding wrapped u64
\* (setup_grow_reservation), for every page size.
THEOREM GrowCovers == Spec => []GrowCoversRequest
<1>1. RInv => GrowCoversRequest
  BY DEF RInv
<1> QED
  BY <1>1, SpecRInv, PTL

\* No refusal is mistaken: neither plan_reservation's InsufficientFreeSpace or
\* GrowthRequired, nor the shortfall it reports, nor carve's RegionFull.
THEOREM RefusalsGenuine == Spec => []RefusalsAreGenuine
<1>1. RInv => RefusalsAreGenuine
  <2> SUFFICES ASSUME RInv PROVE RefusalsAreGenuine
    OBVIOUS
  <2>1. /\ IInv /\ extents \in Seq(FreeExtent) /\ req \in ReserveRequest
        /\ DOMAIN extents = 1 .. Len(extents) /\ Len(extents) \in Nat
        /\ i \in 1 .. (Len(extents) + 1)
    BY DEF RInv, IInv, TypeOK
  <2>2. ASSUME pc = "refused" \/ (pc = "reserved" /\ best = 0),
               NEW k \in DOMAIN extents,
               extents[k].source # "GrewText",
               extents[k].source = "HeaderPad" => req.allow_headerpad,
               NEW a \in extents[k].address ..
                           (extents[k].address + extents[k].len),
               a % req.align = 0,
               a + needed(req) <= extents[k].address + extents[k].len
        PROVE  FALSE
    <3>1. req.align # 0 /\ i = Len(extents) + 1
      BY <2>1, <2>2 DEF RInv, LargestInv, IInv, ScanInv
    <3>2. best = 0
      BY <2>2 DEF RInv, LargestInv
    <3>3. Sufficient(k)
      <4>1. extents[k] \in FreeExtent
        BY <2>1
      <4> QED
        BY <2>1, <2>2, <3>1, <4>1, AlignedRunIsSufficient DEF Sufficient
    <3> QED
      BY <2>1, <3>1, <3>2, <3>3 DEF IInv, ScanInv
  <2>3. (pc = "scan" /\ i > Len(extents) /\ best = 0) =>
          /\ largest <= needed(req)
          /\ \A k \in DOMAIN extents :
               Offers(extents[k], req) => Usable(extents[k], req) <= largest
    BY <2>1 DEF RInv, LargestInv
  <2>4. ASSUME last.result = "RegionFull",
               NEW a \in (region.base_address + region.cursor) ..
                           (region.base_address + region.capacity),
               a % last.align = 0,
               a + last.len <= region.base_address + region.capacity
        PROVE  FALSE
    <3>1. /\ region \in Region /\ last.len \in U64 /\ last.align \in U64 \ {0}
          /\ NewCursor(region, last.len, last.align) > region.capacity
      BY <2>1, <2>4 DEF RInv, FullInv, IInv, TypeOK
    <3>2. a + last.len > region.base_address + region.capacity
      BY <3>1, <2>4, FullLeavesNoSlice
    <3>3. /\ a \in Int /\ last.len \in Int
          /\ region.base_address + region.capacity \in Int
      BY <3>1, MaxU64Assumption DEF Region, U64
    <3> QED
      BY <2>4, <3>2, <3>3
  <2> QED
    BY <2>2, <2>3, <2>4 DEF RefusalsAreGenuine
<1> QED
  BY <1>1, SpecRInv, PTL
=============================================================================
