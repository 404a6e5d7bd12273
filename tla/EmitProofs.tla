----------------------------- MODULE EmitProofs -----------------------------
(***************************************************************************)
(* Layout and emission of one plan (rewrite/layout.rs, rewrite/emit.rs)    *)
(* for every plan, base, placement, range, page size and iteration limit:  *)
(* first what every step of the layout fixpoint preserves, then what that  *)
(* says of the addresses, carried through the emitter to where each        *)
(* emitted reference lands.  The lemmas of the first part are about        *)
(* LayoutStep and BeginLayout, not about one specification, so that every  *)
(* module that drives the layout can use them.                             *)
(***************************************************************************)
EXTENDS Emit, TLAPS

-----------------------------------------------------------------------------
(* The layout.                                                             *)

Phase == {"assign", "widen", "done", "error", "emit", "emitted", "emit_error"}

\* A layout that was returned, and is perhaps being emitted.
Accepted == pc \in {"done", "emit", "emitted", "emit_error"}

Scattered == mode = "lay_out_scattered"

LayoutType ==
  /\ plan \in Plans
  /\ mode \in Mode
  /\ base \in Nat
  /\ container \in BOOLEAN
  /\ place \in Seq(Nat)
  /\ Scattered => Len(place) = Len(plan.starts)
  /\ pc \in Phase
  /\ k \in 1 .. (NumOps + 1)
  /\ cur \in Nat
  /\ address \in [1 .. (NumOps + 1) -> Nat]
  /\ size \in [1 .. NumOps -> Nat]
  /\ strategy \in [1 .. NumOps -> {"Normal", "InvertedConditional"}]
  /\ grew \in BOOLEAN

\* The size of an op is the one of its strategy, only conditional branches are
\* widened, and a scattered layout widens nothing it goes on with.
SizeInv ==
  /\ \A j \in 1 .. NumOps :
       /\ strategy[j] = "Normal" => size[j] = ops[j].size
       /\ strategy[j] # "Normal" =>
            size[j] = WidenedSize /\ ops[j].kind = "branch" /\ ops[j].invertible
       /\ Scattered /\ ~grew => strategy[j] = "Normal"
  /\ Scattered /\ pc = "assign" => ~grew
  /\ Accepted => ~grew

\* Op j + 1 begins where op j ends, or at the address chosen for its block.
Follows(j) ==
  \/ Scattered /\ BlocksAt(j + 1) # {}
  \/ address[j + 1] = address[j] + size[j]

AtItsBlock(j) == Scattered => \A b \in BlocksAt(j) : address[j] = place[b]

FirstAtBase == (~Scattered \/ BlocksAt(1) = {}) => address[1] = base

\* The addresses fit the sizes: up to the running index of assign_addresses, and
\* everywhere as long as the widening pass after it has changed no size.
AddressInv ==
  /\ pc = "assign" =>
       /\ k = 1 => cur = base
       /\ k > 1 => cur = address[k - 1] + size[k - 1] /\ FirstAtBase
       /\ \A j \in 1 .. (k - 2) : Follows(j)
       /\ \A j \in 1 .. (k - 1) : AtItsBlock(j)
  /\ (Accepted \/ (pc = "widen" /\ ~grew)) =>
       /\ NumOps > 0 => FirstAtBase
       /\ NumOps = 0 => address[1] = base
       /\ \A j \in 1 .. NumOps : Follows(j) /\ AtItsBlock(j)

\* The branch at j reaches its target in the form it has.
Reaches(j) ==
  (ops[j].kind = "branch" /\ ResolveError(ops[j].target) # "UndefinedSymbol") =>
    /\ ResolveError(ops[j].target) = "none"
    /\ effective_range(j) = 0 \/ InRange(j)

\* A pass that has widened nothing yet has found every branch before k in range.
RangeInv ==
  mode # "lay_out_for_size" =>
    /\ (pc = "widen" /\ ~grew) => \A j \in 1 .. (k - 1) : Reaches(j)
    /\ Accepted => \A j \in 1 .. NumOps : Reaches(j)

LayoutInv == LayoutType /\ SizeInv /\ AddressInv /\ RangeInv

-----------------------------------------------------------------------------
(* Distances only grow from pass to pass.                                  *)

\* The short form of the widened branch at j does not reach its block when the
\* ops are at addresses a.
OutOfReach(j, a) ==
  LET d == a[plan.starts[ops[j].target.v]] - a[j] IN
  d < - ops[j].range \/ d >= ops[j].range

\* The branch at j was widened and stays inside the plan.
WidenedInside(j) ==
  strategy[j] = "InvertedConditional" /\ ops[j].target.kind = "block"

\* Addresses a are in op order, no op is longer there than it is now, and the
\* widened branches are out of reach.
EarlierPass(a) ==
  /\ \A i, j \in 1 .. (NumOps + 1) : i <= j => a[i] <= a[j]
  /\ \A j \in 1 .. NumOps : a[j + 1] - a[j] <= size[j]
  /\ \A j \in 1 .. NumOps : WidenedInside(j) => OutOfReach(j, a)

\* While addresses are assigned again, those already assigned are at least as far
\* apart as they were in the pass before.
SpreadFrom(a) ==
  /\ \A i, j \in 1 .. (k - 1) : i <= j => address[j] - address[i] >= a[j] - a[i]
  /\ \A i \in 1 .. (k - 1) : cur - address[i] >= a[k] - a[i]

GrowthInv ==
  ~Scattered =>
    /\ pc = "assign" =>
         \E a \in [1 .. (NumOps + 1) -> Nat] : EarlierPass(a) /\ SpreadFrom(a)
    /\ (pc = "widen" \/ Accepted) => EarlierPass(address)

-----------------------------------------------------------------------------
(* Lemmas about plans and targets.                                         *)

\* What the constants' assumption says of the plan being laid out.
LEMMA PlanFacts ==
  ASSUME plan \in Plans
  PROVE  /\ NumOps \in Nat
         /\ plan.starts \in Seq(1 .. (NumOps + 1))
         /\ DOMAIN plan.starts = 1 .. Len(plan.starts)
         /\ Len(plan.starts) \in Nat
         /\ \A b \in DOMAIN plan.starts : plan.starts[b] \in 1 .. (NumOps + 1)
         /\ \A b, c \in DOMAIN plan.starts :
              b <= c => plan.starts[b] <= plan.starts[c]
         /\ \A j \in 1 .. NumOps :
              /\ ops[j].kind \in {"plain", "page", "branch"}
              /\ ops[j].size \in Nat
              /\ ops[j].range \in Nat
              /\ ops[j].invertible \in BOOLEAN
              /\ ops[j].target.kind \in {"block", "absolute", "symbol", "constant"}
              /\ ops[j].target.v \in Nat
              /\ ops[j].kind = "branch" /\ ops[j].invertible =>
                   ops[j].size <= WidenedSize
              /\ ops[j].target.kind = "block" =>
                   ops[j].target.v \in DOMAIN plan.starts
              /\ ops[j].target.kind = "symbol" =>
                   ops[j].target.v \in DOMAIN SymAddr
<1>1. IsPlan(plan) /\ NumOps \in Nat
  BY LayoutAssumption DEF NumOps
<1>2. /\ plan.starts \in Seq(1 .. (NumOps + 1))
      /\ DOMAIN plan.starts = 1 .. Len(plan.starts)
      /\ Len(plan.starts) \in Nat
      /\ \A b \in DOMAIN plan.starts : plan.starts[b] \in 1 .. (NumOps + 1)
      /\ \A b, c \in DOMAIN plan.starts :
           b <= c => plan.starts[b] <= plan.starts[c]
  BY <1>1 DEF IsPlan, NumOps
<1>3. ASSUME NEW j \in 1 .. NumOps
      PROVE  /\ IsOp(ops[j])
             /\ ops[j].target.kind = "block" =>
                  ops[j].target.v \in DOMAIN plan.starts
             /\ ops[j].target.kind = "symbol" =>
                  ops[j].target.v \in DOMAIN SymAddr
  BY <1>1 DEF IsPlan, NumOps, ops
<1> QED
  BY <1>1, <1>2, <1>3 DEF IsOp

\* A reference to a block leads to an op, or to the end.
LEMMA BlockStart ==
  ASSUME plan \in Plans, NEW j \in 1 .. NumOps, ops[j].target.kind = "block"
  PROVE  /\ plan.starts[ops[j].target.v] \in 1 .. (NumOps + 1)
         /\ j \in 1 .. (NumOps + 1)
         /\ ops[j].range \in Nat
<1>1. ops[j].target.v \in DOMAIN plan.starts /\ ops[j].range \in Nat
  BY PlanFacts
<1>2. plan.starts[ops[j].target.v] \in 1 .. (NumOps + 1)
  BY <1>1, PlanFacts
<1>3. NumOps \in Nat
  BY PlanFacts
<1> QED
  BY <1>1, <1>2, <1>3

\* At most one non-empty block begins at an op.
LEMMA OneBlockAt ==
  ASSUME plan \in Plans, NEW j, NEW b \in BlocksAt(j), NEW c \in BlocksAt(j)
  PROVE  b = c
<1>1. /\ b \in Nat /\ c \in Nat
      /\ b \in DOMAIN plan.starts /\ c \in DOMAIN plan.starts
      /\ DOMAIN plan.starts = 1 .. Len(plan.starts)
      /\ plan.starts[b] = j /\ plan.starts[c] = j /\ j \in Nat
  BY SMTT(30), PlanFacts DEF BlocksAt
<1>2. ASSUME NEW x \in BlocksAt(j), NEW y \in BlocksAt(j), x \in Nat, y \in Nat,
             x < y
      PROVE  FALSE
  <2>1. /\ x + 1 \in DOMAIN plan.starts /\ x + 1 <= y
        /\ y \in DOMAIN plan.starts /\ plan.starts[y] = j
    BY SMTT(30), <1>2, PlanFacts DEF BlocksAt
  <2>2. plan.starts[x + 1] > j
    BY <2>1 DEF BlocksAt
  <2>3. plan.starts[x + 1] <= plan.starts[y] /\ plan.starts[x + 1] \in Nat
    BY <2>1, PlanFacts
  <2> QED
    BY <2>1, <2>2, <2>3, <1>1
<1> QED
  BY <1>1, <1>2

\* assign_addresses puts the op at k where its block was placed, or at cur.
LEMMA NextAddressFacts ==
  ASSUME LayoutType
  PROVE  /\ NextAddress \in Nat
         /\ (Scattered /\ BlocksAt(k) # {}) =>
              \A b \in BlocksAt(k) : NextAddress = place[b]
         /\ ~(Scattered /\ BlocksAt(k) # {}) => NextAddress = cur
<1>1. CASE Scattered /\ BlocksAt(k) # {}
  <2> DEFINE c == CHOOSE b \in BlocksAt(k) : TRUE
  <2>1. c \in BlocksAt(k)
    BY <1>1
  <2>2. c \in DOMAIN place
    BY <2>1, <1>1, PlanFacts DEF BlocksAt, LayoutType
  <2>3. place[c] \in Nat
    BY <2>2 DEF LayoutType
  <2>4. NextAddress = place[c]
    BY <1>1 DEF NextAddress, Scattered
  <2>5. \A b \in BlocksAt(k) : b = c
    BY <2>1, OneBlockAt DEF LayoutType
  <2> QED
    BY <2>3, <2>4, <2>5, <1>1
<1>2. CASE ~(Scattered /\ BlocksAt(k) # {})
  BY <1>2 DEF NextAddress, Scattered, LayoutType
<1> QED
  BY <1>1, <1>2

\* A target that resolves has an integer address.
LEMMA ResolveType ==
  ASSUME LayoutType, NEW j \in 1 .. NumOps, ResolveError(ops[j].target) = "none"
  PROVE  resolve_target(ops[j].target) \in Nat
<1> DEFINE t == ops[j].target
<1>1. /\ t.kind \in {"block", "absolute", "symbol", "constant"} /\ t.v \in Nat
      /\ t.kind = "block" => t.v \in DOMAIN plan.starts
      /\ t.kind = "symbol" => t.v \in DOMAIN SymAddr
  BY PlanFacts DEF LayoutType
<1> HIDE DEF t
<1>2. ResolveError(t) = "none"
  BY DEF t
<1>3. CASE t.kind = "block"
  <2>1. resolve_target(t) = block_address(t.v)
    BY <1>3 DEF resolve_target
  <2>2. Scattered => place[t.v] \in Nat
    <3>1. Scattered => t.v \in DOMAIN place
      BY <1>1, <1>3, PlanFacts DEF LayoutType
    <3> QED
      BY <3>1 DEF LayoutType
  <2>3. ~Scattered => address[plan.starts[t.v]] \in Nat
    <3>1. plan.starts[t.v] \in 1 .. (NumOps + 1)
      BY <1>1, <1>3, PlanFacts DEF LayoutType
    <3> QED
      BY <3>1 DEF LayoutType
  <2> QED
    BY <2>1, <2>2, <2>3 DEF block_address, Scattered, t
<1>4. CASE t.kind = "symbol"
  <2>1. container /\ SymAddr[t.v] # -1
    BY <1>2, <1>4 DEF ResolveError, LayoutType
  <2>2. SymAddr[t.v] \in Nat
    BY <2>1, <1>1, <1>4, LayoutAssumption
  <2> QED
    BY <2>2, <1>4 DEF resolve_target, t
<1>5. CASE t.kind = "absolute"
  BY <1>1, <1>5 DEF resolve_target, t
<1>6. CASE t.kind = "constant"
  BY <1>2, <1>6 DEF ResolveError
<1> QED
  BY <1>1, <1>3, <1>4, <1>5, <1>6

-----------------------------------------------------------------------------
(* The layout fixpoint preserves its invariant.                            *)

\* What a call of the layout must be given.
IsCall(p, m, b, c, pl) ==
  /\ p \in Plans /\ m \in Mode /\ b \in Nat /\ c \in BOOLEAN /\ pl \in Seq(Nat)
  /\ m = "lay_out_scattered" => Len(pl) = Len(p.starts)

\* A call starts with every op in its normal form and no address assigned.
LEMMA StartInv ==
  ASSUME NEW p, NEW m, NEW b, NEW c, NEW pl,
         IsCall(p, m, b, c, pl), StartLayout(p, m, b, c, pl)
  PROVE  LayoutInv
<1>1. plan \in Plans /\ ops = p.ops /\ NumOps = Len(p.ops)
  BY DEF IsCall, StartLayout, ops, NumOps
<1>2. /\ NumOps \in Nat
      /\ \A j \in 1 .. NumOps : ops[j].size \in Nat
  BY <1>1, PlanFacts
<1>3. /\ address = [j \in 1 .. (NumOps + 1) |-> 0]
      /\ size = [j \in 1 .. NumOps |-> ops[j].size]
      /\ strategy = [j \in 1 .. NumOps |-> "Normal"]
      /\ plan = p /\ mode = m /\ base = b /\ container = c /\ place = pl
      /\ pc = "assign" /\ k = 1 /\ cur = b /\ grew = FALSE
  BY <1>1 DEF StartLayout
<1>4. LayoutType
  <2>1. /\ address \in [1 .. (NumOps + 1) -> Nat]
        /\ size \in [1 .. NumOps -> Nat]
        /\ strategy \in [1 .. NumOps -> {"Normal", "InvertedConditional"}]
        /\ k \in 1 .. (NumOps + 1)
    BY <1>2, <1>3
  <2> QED
    BY <1>1, <1>3, <2>1 DEF LayoutType, IsCall, Scattered, Phase
<1>5. SizeInv
  BY <1>2, <1>3 DEF SizeInv, Accepted
<1>6. AddressInv /\ RangeInv
  BY <1>3 DEF AddressInv, RangeInv, Accepted
<1> QED
  BY <1>4, <1>5, <1>6 DEF LayoutInv

\* The same for a call made from a running program.
LEMMA BeginInv ==
  ASSUME NEW p, NEW m, NEW b, NEW c, NEW pl,
         IsCall(p, m, b, c, pl), BeginLayout(p, m, b, c, pl)
  PROVE  LayoutInv'
<1>1. plan' \in Plans /\ ops' = p.ops /\ NumOps' = Len(p.ops) /\ p \in Plans
  BY DEF IsCall, BeginLayout, ops, NumOps
<1>2. /\ Len(p.ops) \in Nat
      /\ \A j \in 1 .. Len(p.ops) : p.ops[j].size \in Nat
  BY <1>1, LayoutAssumption DEF IsPlan, IsOp
<1>3. /\ address' = [j \in 1 .. (NumOps' + 1) |-> 0]
      /\ size' = [j \in 1 .. NumOps' |-> ops'[j].size]
      /\ strategy' = [j \in 1 .. NumOps' |-> "Normal"]
      /\ plan' = p /\ mode' = m /\ base' = b /\ container' = c /\ place' = pl
      /\ pc' = "assign" /\ k' = 1 /\ cur' = b /\ grew' = FALSE
  BY <1>1 DEF BeginLayout
<1>4. LayoutType'
  <2>1. /\ address' \in [1 .. (NumOps' + 1) -> Nat]
        /\ size' \in [1 .. NumOps' -> Nat]
        /\ strategy' \in [1 .. NumOps' -> {"Normal", "InvertedConditional"}]
        /\ k' \in 1 .. (NumOps' + 1)
    BY <1>1, <1>2, <1>3
  <2> QED
    BY <1>1, <1>3, <2>1 DEF LayoutType, IsCall, Scattered, Phase
<1>5. SizeInv'
  BY <1>1, <1>2, <1>3 DEF SizeInv, Accepted
<1>6. AddressInv' /\ RangeInv'
  BY <1>3 DEF AddressInv, RangeInv, Accepted
<1> QED
  BY <1>4, <1>5, <1>6 DEF LayoutInv

\* One op of assign_addresses.
LEMMA AssignInv == LayoutInv /\ assign_addresses => LayoutInv'
<1> SUFFICES ASSUME LayoutInv, assign_addresses PROVE LayoutInv'
  OBVIOUS
<1>1. /\ LayoutType /\ SizeInv /\ AddressInv
      /\ pc = "assign" /\ pc' = "assign" /\ k' = k + 1 /\ grew' = grew
      /\ plan' = plan /\ mode' = mode /\ base' = base /\ container' = container
      /\ place' = place /\ size' = size /\ strategy' = strategy
      /\ cur' = NextAddress + size[k]
      /\ address' = [address EXCEPT ![k] = NextAddress]
  BY DEF LayoutInv, assign_addresses, args
<1>2. /\ NumOps \in Nat /\ k \in 1 .. NumOps /\ NumOps' = NumOps
      /\ ops' = ops /\ Scattered' = Scattered
      /\ size[k] \in Nat /\ NextAddress \in Nat
  <2>1. NumOps \in Nat /\ plan \in Plans /\ k <= NumOps
    BY <1>1, PlanFacts DEF LayoutType, assign_addresses
  <2>2. k \in 1 .. NumOps
    BY <2>1, <1>1 DEF LayoutType
  <2>3. size[k] \in Nat
    BY <2>2, <1>1 DEF LayoutType
  <2>4. NumOps' = NumOps /\ ops' = ops /\ Scattered' = Scattered
    BY <1>1 DEF NumOps, ops, Scattered
  <2> QED
    BY <2>1, <2>2, <2>3, <2>4, <1>1, NextAddressFacts
<1>3. /\ address' \in [1 .. (NumOps + 1) -> Nat]
      /\ address'[k] = NextAddress
      /\ \A j \in 1 .. (NumOps + 1) : j # k => address'[j] = address[j]
  BY <1>1, <1>2 DEF LayoutType
<1>4. LayoutType'
  BY SMTT(30), <1>1, <1>2, <1>3 DEF LayoutType
<1>5. SizeInv'
  BY <1>1, <1>2 DEF SizeInv, Accepted
<1>6. RangeInv'
  BY <1>1 DEF RangeInv, Accepted
<1>7. AddressInv'
  <2>1. \A j : BlocksAt(j)' = BlocksAt(j)
    BY <1>1 DEF BlocksAt
  <2>0. PICK n \in 1 .. NumOps : n = k
    BY <1>2
  <2>2. AtItsBlock(n)'
    <3>1. address'[n] = NextAddress
      BY <2>0, <1>3
    <3>2. Scattered => \A b \in BlocksAt(n) : NextAddress = place[b]
      BY <2>0, <1>1, NextAddressFacts
    <3> QED
      BY <1>1, <1>2, <2>1, <3>1, <3>2 DEF AtItsBlock
  <2>3. \A j \in 1 .. (k - 1) : AtItsBlock(j)'
    BY <1>1, <1>2, <1>3, <2>1 DEF AtItsBlock, AddressInv
  <2>4. \A j \in 1 .. (k - 2) : Follows(j)'
    BY <1>1, <1>2, <1>3, <2>1 DEF Follows, AddressInv
  <2>5. n > 1 => Follows(n - 1)'
    <3> SUFFICES ASSUME n > 1 PROVE Follows(n - 1)'
      OBVIOUS
    <3>1. address'[n - 1] = address[n - 1] /\ (n - 1) + 1 = n
      BY <2>0, <1>2, <1>3
    <3>2. address'[n] = NextAddress /\ cur = address[n - 1] + size[n - 1]
      BY <2>0, <1>1, <1>3 DEF AddressInv
    <3>3. (Scattered /\ BlocksAt(n) # {}) \/ NextAddress = cur
      BY <2>0, <1>1, NextAddressFacts
    <3> QED
      BY <1>1, <1>2, <2>1, <3>1, <3>2, <3>3 DEF Follows
  <2>6. FirstAtBase'
    <3>1. CASE k = 1
      BY <3>1, <1>1, <1>2, <1>3, <2>1, NextAddressFacts DEF FirstAtBase, AddressInv
    <3>2. CASE k > 1
      <4>1. address'[1] = address[1] /\ FirstAtBase
        BY <3>2, <1>1, <1>2, <1>3 DEF AddressInv
      <4> QED
        BY <4>1, <1>1, <1>2, <2>1 DEF FirstAtBase
    <3> QED
      BY <3>1, <3>2, <1>2
  <2>7. /\ k' > 1
        /\ cur' = address'[k' - 1] + size'[k' - 1]
    BY <1>1, <1>2, <1>3
  <2>8. \A j \in 1 .. (k' - 2) : Follows(j)'
    <3> SUFFICES ASSUME NEW j \in 1 .. (k' - 2) PROVE Follows(j)'
      OBVIOUS
    <3>1. j \in 1 .. (k - 2) \/ (j = n - 1 /\ n > 1)
      BY <1>1, <1>2, <2>0
    <3> QED
      BY <3>1, <2>4, <2>5
  <2>9. \A j \in 1 .. (k' - 1) : AtItsBlock(j)'
    <3> SUFFICES ASSUME NEW j \in 1 .. (k' - 1) PROVE AtItsBlock(j)'
      OBVIOUS
    <3>1. j \in 1 .. (k - 1) \/ j = n
      BY <1>1, <1>2, <2>0
    <3> QED
      BY <3>1, <2>2, <2>3
  <2>10. ~Accepted' /\ pc' # "widen"
    BY <1>1 DEF Accepted
  <2> QED
    BY <2>6, <2>7, <2>8, <2>9, <2>10, <1>2, <1>1 DEF AddressInv
<1> QED
  BY <1>4, <1>5, <1>6, <1>7 DEF LayoutInv

\* The end of assign_addresses.
LEMMA AssignEndInv == LayoutInv /\ AssignEnd => LayoutInv'
<1> SUFFICES ASSUME LayoutInv, AssignEnd PROVE LayoutInv'
  OBVIOUS
<1>1. /\ LayoutType /\ SizeInv /\ AddressInv
      /\ pc = "assign" /\ pc' = "widen" /\ k = NumOps + 1 /\ k' = 1
      /\ grew' = FALSE
      /\ plan' = plan /\ mode' = mode /\ base' = base /\ container' = container
      /\ place' = place /\ size' = size /\ strategy' = strategy /\ cur' = cur
      /\ address' = [address EXCEPT ![k] = cur]
  BY DEF LayoutInv, AssignEnd, args
<1>2. /\ NumOps \in Nat /\ NumOps' = NumOps
      /\ ops' = ops /\ Scattered' = Scattered /\ cur \in Nat
  BY <1>1, PlanFacts DEF LayoutType, NumOps, ops, Scattered
<1>3. /\ address' \in [1 .. (NumOps + 1) -> Nat]
      /\ address'[NumOps + 1] = cur
      /\ \A j \in 1 .. NumOps : address'[j] = address[j]
  BY <1>1, <1>2 DEF LayoutType
<1>4. LayoutType'
  <2>1. k' \in 1 .. (NumOps + 1)
    BY <1>1, <1>2
  <2> QED
    BY <1>1, <1>2, <1>3, <2>1 DEF LayoutType, Phase
<1>5. SizeInv'
  BY <1>1, <1>2 DEF SizeInv, Accepted
<1>6. RangeInv'
  BY <1>1 DEF RangeInv, Accepted
<1>7. AddressInv'
  <2>1. \A j : BlocksAt(j)' = BlocksAt(j)
    BY <1>1 DEF BlocksAt
  <2>2. \A j \in 1 .. NumOps : AtItsBlock(j)'
    BY <1>1, <1>2, <1>3, <2>1 DEF AtItsBlock, AddressInv
  <2>3. \A j \in 1 .. NumOps : Follows(j)'
    <3> SUFFICES ASSUME NEW j \in 1 .. NumOps PROVE Follows(j)'
      OBVIOUS
    <3>1. CASE j = NumOps
      BY <3>1, <1>1, <1>2, <1>3 DEF Follows, AddressInv
    <3>2. CASE j # NumOps
      <4>1. j \in 1 .. (k - 2) /\ j + 1 \in 1 .. NumOps
        BY <3>2, <1>1, <1>2
      <4>2. Follows(j)
        BY <4>1, <1>1 DEF AddressInv
      <4> QED
        BY <4>1, <4>2, <1>1, <1>2, <1>3, <2>1 DEF Follows
    <3> QED
      BY <3>1, <3>2
  <2>4. NumOps > 0 => FirstAtBase'
    BY <1>1, <1>2, <1>3, <2>1 DEF FirstAtBase, AddressInv
  <2>5. NumOps = 0 => address'[1] = base
    BY <1>1, <1>2, <1>3 DEF AddressInv
  <2> QED
    BY <2>2, <2>3, <2>4, <2>5, <1>1, <1>2 DEF AddressInv
<1> QED
  BY <1>4, <1>5, <1>6, <1>7 DEF LayoutInv

\* What the predicates on ops depend on.
LEMMA LayoutFrame ==
  ASSUME UNCHANGED <<args, address, size, strategy>>
  PROVE  /\ NumOps' = NumOps /\ ops' = ops /\ Scattered' = Scattered
         /\ FirstAtBase' = FirstAtBase
         /\ \A j : /\ BlocksAt(j)' = BlocksAt(j)
                   /\ Follows(j)' = Follows(j)
                   /\ AtItsBlock(j)' = AtItsBlock(j)
                   /\ Reaches(j)' = Reaches(j)
<1>1. /\ plan' = plan /\ mode' = mode /\ base' = base /\ container' = container
      /\ place' = place /\ address' = address /\ size' = size
      /\ strategy' = strategy
  BY DEF args
<1>2. NumOps' = NumOps /\ ops' = ops /\ Scattered' = Scattered
  BY <1>1 DEF NumOps, ops, Scattered
<1>3. \A j : BlocksAt(j)' = BlocksAt(j)
  BY <1>1 DEF BlocksAt
<1>4. \A j : Follows(j)' = Follows(j)
  BY <1>1, <1>2, <1>3 DEF Follows
<1>5. \A j : AtItsBlock(j)' = AtItsBlock(j)
  BY <1>1, <1>2, <1>3 DEF AtItsBlock
<1>6. FirstAtBase' = FirstAtBase
  BY <1>1, <1>2, <1>3 DEF FirstAtBase
<1>7. \A t : ResolveError(t)' = ResolveError(t)
  BY <1>1 DEF ResolveError
<1>8. \A t : resolve_target(t)' = resolve_target(t)
  BY <1>1 DEF resolve_target, block_address
<1>9. \A j : /\ effective_range(j)' = effective_range(j)
             /\ displacement(j)' = displacement(j)
  BY <1>1, <1>2, <1>8 DEF effective_range, displacement
<1>10. \A j : InRange(j)' = InRange(j)
  BY <1>9 DEF InRange
<1>11. \A j : Reaches(j)' = Reaches(j)
  BY <1>2, <1>7, <1>9, <1>10 DEF Reaches
<1> QED
  BY <1>2, <1>3, <1>4, <1>5, <1>6, <1>11

\* A step of the widening pass that changes no op, or the end of the pass.
LEMMA KeepOpsInv ==
  ASSUME LayoutInv, UNCHANGED <<args, address, size, strategy, grew>>,
         k' \in 1 .. (NumOps + 1), cur' \in Nat, pc' \in Phase \ {"assign"},
         Accepted' => ~grew /\ (Accepted \/ pc = "widen"),
         pc' = "widen" => pc = "widen",
         RangeInv'
  PROVE  LayoutInv'
<1>1. /\ plan' = plan /\ mode' = mode /\ base' = base /\ container' = container
      /\ place' = place /\ address' = address /\ size' = size
      /\ strategy' = strategy /\ grew' = grew
  BY DEF args
<1>2. /\ NumOps' = NumOps /\ ops' = ops /\ Scattered' = Scattered
      /\ FirstAtBase' = FirstAtBase
      /\ \A j : Follows(j)' = Follows(j) /\ AtItsBlock(j)' = AtItsBlock(j)
  BY <1>1, LayoutFrame
<1>3. LayoutType'
  BY <1>1, <1>2 DEF LayoutInv, LayoutType
<1>4. SizeInv'
  BY <1>1, <1>2 DEF LayoutInv, SizeInv
<1>5. AddressInv'
  <2> SUFFICES ASSUME Accepted' \/ (pc' = "widen" /\ ~grew')
               PROVE  /\ NumOps' > 0 => FirstAtBase'
                      /\ NumOps' = 0 => address'[1] = base'
                      /\ \A j \in 1 .. NumOps' : Follows(j)' /\ AtItsBlock(j)'
    BY DEF AddressInv
  <2>1. Accepted \/ (pc = "widen" /\ ~grew)
    BY <1>1
  <2>2. /\ NumOps > 0 => FirstAtBase
        /\ NumOps = 0 => address[1] = base
        /\ \A j \in 1 .. NumOps : Follows(j) /\ AtItsBlock(j)
    BY <2>1 DEF LayoutInv, AddressInv
  <2> QED
    BY <1>1, <1>2, <2>2
<1> QED
  BY <1>3, <1>4, <1>5 DEF LayoutInv

\* An op the widening pass passes over is in range, unless the size is probed.
LEMMA SkipInv == LayoutInv /\ SkipOp => LayoutInv'
<1> SUFFICES ASSUME LayoutInv, SkipOp PROVE LayoutInv'
  OBVIOUS
<1>1. /\ pc = "widen" /\ pc' = "widen" /\ k' = k + 1 /\ cur' = cur
      /\ grew' = grew /\ PassesOver(k)
      /\ UNCHANGED <<args, address, size, strategy, grew>>
  BY DEF SkipOp
<1>2. /\ NumOps \in Nat /\ k \in 1 .. NumOps /\ cur \in Nat
  BY PlanFacts DEF LayoutInv, LayoutType, SkipOp
<1>3. /\ mode' = mode /\ \A j : Reaches(j)' = Reaches(j)
  BY <1>1, LayoutFrame DEF args
<1>4. RangeInv'
  <2> SUFFICES ASSUME mode # "lay_out_for_size", ~grew, NEW j \in 1 .. k
               PROVE  Reaches(j)
    BY <1>1, <1>2, <1>3 DEF RangeInv, Accepted
  <2>1. CASE j = k
    BY <2>1, <1>1 DEF PassesOver, Reaches
  <2>2. CASE j # k
    <3>1. j \in 1 .. (k - 1)
      BY <2>2, <1>2
    <3> QED
      BY <3>1, <1>1 DEF LayoutInv, RangeInv
  <2> QED
    BY <2>1, <2>2
<1>5. /\ k' \in 1 .. (NumOps + 1) /\ cur' \in Nat /\ pc' \in Phase \ {"assign"}
      /\ ~Accepted'
  BY <1>1, <1>2 DEF Phase, Accepted
<1> QED
  BY <1>1, <1>4, <1>5, KeepOpsInv

\* A failing op ends the layout.
LEMMA FailInv == LayoutInv /\ FailOp => LayoutInv'
<1> SUFFICES ASSUME LayoutInv, FailOp PROVE LayoutInv'
  OBVIOUS
<1>1. /\ pc = "widen" /\ pc' = "error" /\ k' = k /\ cur' = cur
      /\ UNCHANGED <<args, address, size, strategy, grew>>
  BY DEF FailOp
<1>2. k' \in 1 .. (NumOps + 1) /\ cur' \in Nat
  BY <1>1 DEF LayoutInv, LayoutType
<1>3. ~Accepted' /\ pc' \in Phase \ {"assign"} /\ RangeInv'
  BY <1>1 DEF Accepted, Phase, RangeInv
<1> QED
  BY <1>1, <1>2, <1>3, KeepOpsInv

\* Widening an op changes its size and form; the pass is no longer stable.
LEMMA WidenInv == LayoutInv /\ WidenOp => LayoutInv'
<1> SUFFICES ASSUME LayoutInv, WidenOp PROVE LayoutInv'
  OBVIOUS
<1>1. /\ pc = "widen" /\ pc' = "widen" /\ k' = k + 1 /\ cur' = cur
      /\ plan' = plan /\ mode' = mode /\ base' = base /\ container' = container
      /\ place' = place /\ address' = address /\ grew' = TRUE
      /\ strategy' = [strategy EXCEPT ![k] = "InvertedConditional"]
      /\ size' = [size EXCEPT ![k] = WidenedSize]
      /\ ops[k].invertible /\ ~PassesOver(k)
  BY DEF WidenOp, args
<1>2. /\ NumOps \in Nat /\ k \in 1 .. NumOps /\ LayoutType /\ SizeInv
      /\ WidenedSize \in Nat
  BY PlanFacts, LayoutAssumption DEF LayoutInv, LayoutType, WidenOp
<1>3. /\ NumOps' = NumOps /\ ops' = ops /\ Scattered' = Scattered
  BY <1>1 DEF NumOps, ops, Scattered
<1>4. ops[k].kind = "branch"
  BY <1>1 DEF PassesOver
<1>5. /\ strategy' \in [1 .. NumOps -> {"Normal", "InvertedConditional"}]
      /\ size' \in [1 .. NumOps -> Nat]
      /\ strategy'[k] = "InvertedConditional" /\ size'[k] = WidenedSize
      /\ \A j \in 1 .. NumOps :
           j # k => strategy'[j] = strategy[j] /\ size'[j] = size[j]
  BY <1>1, <1>2 DEF LayoutType
<1>6. LayoutType'
  BY <1>1, <1>2, <1>3, <1>5 DEF LayoutType
<1>7. SizeInv'
  <2> SUFFICES ASSUME NEW j \in 1 .. NumOps
               PROVE  /\ strategy'[j] = "Normal" => size'[j] = ops[j].size
                      /\ strategy'[j] # "Normal" =>
                           /\ size'[j] = WidenedSize
                           /\ ops[j].kind = "branch" /\ ops[j].invertible
    BY <1>1, <1>3 DEF SizeInv, Accepted
  <2>1. CASE j = k
    BY <2>1, <1>1, <1>4, <1>5
  <2>2. CASE j # k
    BY <2>2, <1>2, <1>5 DEF SizeInv
  <2> QED
    BY <2>1, <2>2
<1>8. AddressInv' /\ RangeInv'
  BY <1>1 DEF AddressInv, RangeInv, Accepted
<1> QED
  BY <1>6, <1>7, <1>8 DEF LayoutInv

\* A pass that widened nothing is the layout; another one starts over, with the
\* sizes of this one.
LEMMA PassEndInv == LayoutInv /\ PassEnd => LayoutInv'
<1> SUFFICES ASSUME LayoutInv, PassEnd PROVE LayoutInv'
  OBVIOUS
<1>1. /\ pc = "widen" /\ pc' = PassOutcome /\ k' = 1 /\ k = NumOps + 1
      /\ cur' = base /\ UNCHANGED <<args, address, size, strategy, grew>>
      /\ plan' = plan /\ mode' = mode /\ base' = base /\ container' = container
      /\ place' = place /\ address' = address /\ size' = size
      /\ strategy' = strategy /\ grew' = grew
  BY DEF PassEnd, args
<1>2. NumOps \in Nat /\ base \in Nat /\ grew \in BOOLEAN
  BY PlanFacts DEF LayoutInv, LayoutType
<1>3. /\ NumOps' = NumOps /\ ops' = ops /\ Scattered' = Scattered
      /\ \A j : Reaches(j)' = Reaches(j)
  BY <1>1, LayoutFrame
<1>4. CASE ~grew
  <2>1. pc' = "done"
    BY <1>1, <1>4 DEF PassOutcome
  <2>2. RangeInv'
    BY <1>1, <1>3, <1>4, <2>1, <1>2 DEF RangeInv, Accepted, LayoutInv
  <2>3. /\ k' \in 1 .. (NumOps + 1) /\ cur' \in Nat /\ pc' \in Phase \ {"assign"}
    BY <1>1, <1>2, <2>1 DEF Phase
  <2> QED
    BY <1>1, <1>4, <2>1, <2>2, <2>3, KeepOpsInv
<1>5. CASE grew
  <2>1. pc' \in {"assign", "error"} /\ (Scattered => pc' = "error")
    BY <1>1, <1>5 DEF PassOutcome, Scattered
  <2>2. LayoutType'
    <3>1. k' \in 1 .. (NumOps + 1) /\ cur' \in Nat /\ pc' \in Phase
      BY <1>1, <1>2, <2>1 DEF Phase
    <3> QED
      BY <3>1, <1>1, <1>3 DEF LayoutInv, LayoutType
  <2>3. SizeInv'
    BY <1>1, <1>3, <2>1 DEF LayoutInv, SizeInv, Accepted
  <2>4. RangeInv'
    BY <2>1 DEF RangeInv, Accepted
  <2>5. AddressInv'
    BY <1>1, <2>1 DEF AddressInv, Accepted
  <2> QED
    BY <2>2, <2>3, <2>4, <2>5 DEF LayoutInv
<1> QED
  BY <1>2, <1>4, <1>5

\* Every step of the fixpoint preserves the layout invariant.
LEMMA LayoutStepInv == LayoutInv /\ LayoutStep => LayoutInv'
BY AssignInv, AssignEndInv, SkipInv, WidenInv, FailInv, PassEndInv DEF LayoutStep

\* The invariant makes every finished layout consistent.
LEMMA ConsistentFromInv == LayoutInv => LayoutIsConsistent
<1> SUFFICES ASSUME LayoutInv, pc = "done" PROVE LayoutIsConsistent
  BY DEF LayoutIsConsistent
<1>1. Accepted /\ LayoutType /\ ~grew /\ plan \in Plans
  BY DEF Accepted, LayoutInv, LayoutType, SizeInv
<1>2. NumOps \in Nat
  BY <1>1, PlanFacts
<1>3. \A j \in 1 .. NumOps : Follows(j) /\ AtItsBlock(j)
  BY <1>1 DEF LayoutInv, AddressInv
<1>4. ASSUME Scattered, NEW b \in DOMAIN plan.starts,
             b \in BlocksAt(plan.starts[b]), plan.starts[b] <= NumOps
      PROVE  /\ address[plan.starts[b]] = place[b]
             /\ \A j \in 1 .. NumOps : size[j] = ops[j].size
  <2>1. plan.starts[b] \in 1 .. NumOps
    BY <1>1, <1>2, <1>4, PlanFacts
  <2> QED
    BY <2>1, <1>1, <1>3, <1>4 DEF AtItsBlock, LayoutInv, SizeInv
<1>5. ASSUME mode # "lay_out_for_size", NEW j \in 1 .. NumOps,
             ops[j].kind = "branch", ResolveError(ops[j].target) # "UndefinedSymbol"
      PROVE  /\ ResolveError(ops[j].target) = "none"
             /\ \/ effective_range(j) = 0
                \/ displacement(j) \in
                     (- effective_range(j)) .. (effective_range(j) - 1)
  <2>1. /\ ResolveError(ops[j].target) = "none"
        /\ effective_range(j) = 0 \/ InRange(j)
    BY <1>1, <1>5 DEF LayoutInv, RangeInv, Reaches
  <2>2. effective_range(j) \in Nat
    BY <1>1, PlanFacts, LayoutAssumption DEF effective_range
  <2>3. displacement(j) \in Int
    <3>1. address[j] \in Nat
      BY <1>1, <1>2 DEF LayoutType
    <3>2. resolve_target(ops[j].target) \in Nat
      BY <1>1, <2>1, ResolveType
    <3> QED
      BY <3>1, <3>2 DEF displacement
  <2> QED
    BY <2>1, <2>2, <2>3 DEF InRange
<1> QED
  BY <1>3, <1>4, <1>5 DEF LayoutIsConsistent, Follows, Scattered

-----------------------------------------------------------------------------
(* Widening is never regretted.                                            *)

\* A call starts with nothing widened, so any addresses will do for the past.
LEMMA StartGrowth ==
  ASSUME LayoutInv, pc = "assign", k = 1,
         \A j \in 1 .. NumOps : strategy[j] = "Normal"
  PROVE  GrowthInv
<1> DEFINE a == [j \in 1 .. (NumOps + 1) |-> 0]
<1>1. /\ NumOps \in Nat /\ a \in [1 .. (NumOps + 1) -> Nat]
      /\ \A j \in 1 .. NumOps : size[j] \in Nat
  BY PlanFacts DEF LayoutInv, LayoutType
<1>2. EarlierPass(a)
  <2>1. \A j \in 1 .. (NumOps + 1) : a[j] = 0
    OBVIOUS
  <2>2. \A j \in 1 .. NumOps : a[j + 1] = 0 /\ a[j] = 0
    BY <1>1
  <2> HIDE DEF a
  <2> QED
    BY <1>1, <2>1, <2>2 DEF EarlierPass, WidenedInside
<1>3. SpreadFrom(a)
  BY DEF SpreadFrom
<1>4. ~Accepted /\ pc # "widen"
  BY DEF Accepted
<1> HIDE DEF a
<1> QED
  BY <1>1, <1>2, <1>3, <1>4 DEF GrowthInv

LEMMA BeginGrowth ==
  ASSUME NEW p, NEW m, NEW b, NEW c, NEW pl,
         IsCall(p, m, b, c, pl), BeginLayout(p, m, b, c, pl)
  PROVE  GrowthInv'
<1> DEFINE N == Len(p.ops)
           a == [j \in 1 .. (N + 1) |-> 0]
<1>1. /\ pc' = "assign" /\ k' = 1 /\ NumOps' = N /\ N \in Nat
      /\ \A j \in 1 .. N : strategy'[j] = "Normal" /\ size'[j] \in Nat
  <2>1. LayoutInv'
    BY BeginInv
  <2> QED
    BY <2>1, LayoutAssumption
    DEF BeginLayout, NumOps, LayoutInv, LayoutType, IsCall
<1>2. a \in [1 .. (N + 1) -> Nat]
  OBVIOUS
<1>3. EarlierPass(a)'
  <2>1. \A j \in 1 .. (N + 1) : a[j] = 0
    OBVIOUS
  <2>2. \A j \in 1 .. N : a[j + 1] = 0 /\ a[j] = 0
    BY <1>1
  <2> HIDE DEF a
  <2> QED
    BY <1>1, <2>1, <2>2 DEF EarlierPass, WidenedInside
<1>4. SpreadFrom(a)'
  BY <1>1 DEF SpreadFrom
<1>5. (~Accepted)' /\ pc' # "widen"
  BY <1>1 DEF Accepted
<1> HIDE DEF a, N
<1> QED
  BY <1>1, <1>2, <1>3, <1>4, <1>5 DEF GrowthInv

\* What the growth of distances depends on.
LEMMA GrowthFrame ==
  ASSUME UNCHANGED <<plan, mode, size, strategy>>
  PROVE  /\ NumOps' = NumOps /\ Scattered' = Scattered
         /\ \A a : EarlierPass(a)' = EarlierPass(a)
<1>1. /\ NumOps' = NumOps /\ Scattered' = Scattered /\ ops' = ops
  BY DEF NumOps, Scattered, ops
<1>2. \A j : WidenedInside(j)' = WidenedInside(j)
  BY <1>1 DEF WidenedInside
<1>3. \A j, a : OutOfReach(j, a)' = OutOfReach(j, a)
  BY <1>1 DEF OutOfReach
<1> QED
  BY <1>1, <1>2, <1>3 DEF EarlierPass

\* Assigning the next address keeps the distances at least as large.
LEMMA AssignGrowth ==
  ASSUME LayoutInv, GrowthInv, assign_addresses
  PROVE  GrowthInv'
<1>1. /\ pc = "assign" /\ pc' = "assign" /\ k' = k + 1
      /\ UNCHANGED <<plan, mode, size, strategy>>
      /\ cur' = NextAddress + size[k]
      /\ address' = [address EXCEPT ![k] = NextAddress]
  BY DEF assign_addresses, args
<1>2. /\ NumOps' = NumOps /\ Scattered' = Scattered
      /\ \A a : EarlierPass(a)' = EarlierPass(a)
  BY <1>1, GrowthFrame
<1>3. ~Accepted' /\ pc' # "widen"
  BY <1>1 DEF Accepted
<1> SUFFICES ASSUME ~Scattered
             PROVE  \E a \in [1 .. (NumOps + 1) -> Nat] :
                      EarlierPass(a) /\ SpreadFrom(a)'
  BY <1>2, <1>3 DEF GrowthInv
<1>4. PICK a \in [1 .. (NumOps + 1) -> Nat] : EarlierPass(a) /\ SpreadFrom(a)
  BY <1>1 DEF GrowthInv
<1>5. /\ NumOps \in Nat /\ k \in 1 .. NumOps /\ size[k] \in Nat /\ cur \in Nat
      /\ address \in [1 .. (NumOps + 1) -> Nat]
  <2>1. /\ NumOps \in Nat /\ k \in 1 .. NumOps
        /\ size \in [1 .. NumOps -> Nat] /\ cur \in Nat
        /\ address \in [1 .. (NumOps + 1) -> Nat]
    BY PlanFacts DEF LayoutInv, LayoutType, assign_addresses
  <2> QED
    BY <2>1
<1>6. NextAddress = cur
  BY NextAddressFacts DEF LayoutInv
<1>7. /\ address'[k] = cur /\ cur' = cur + size[k]
      /\ \A i \in 1 .. (k - 1) : address'[i] = address[i] /\ address[i] \in Nat
  BY <1>1, <1>5, <1>6
<1>8. a[k] \in Nat /\ a[k + 1] \in Nat /\ a[k + 1] - a[k] <= size[k]
  BY <1>4, <1>5 DEF EarlierPass
<1>9. \A i \in 1 .. k : a[i] \in Nat
  BY <1>5
<1>10. /\ \A i, j \in 1 .. (k - 1) :
            i <= j => address[j] - address[i] >= a[j] - a[i]
       /\ \A i \in 1 .. (k - 1) : cur - address[i] >= a[k] - a[i]
  BY <1>4 DEF SpreadFrom
<1>11. \A i, j \in 1 .. k :
         i <= j => address'[j] - address'[i] >= a[j] - a[i]
  <2> SUFFICES ASSUME NEW i \in 1 .. k, NEW j \in 1 .. k, i <= j
               PROVE  address'[j] - address'[i] >= a[j] - a[i]
    OBVIOUS
  <2>1. CASE j = k /\ i = k
    BY <2>1, <1>5, <1>7, <1>8
  <2>2. CASE j = k /\ i # k
    <3>1. i \in 1 .. (k - 1)
      BY <2>2, <1>5
    <3> QED
      BY <2>2, <3>1, <1>7, <1>10
  <2>3. CASE j # k
    <3>1. i \in 1 .. (k - 1) /\ j \in 1 .. (k - 1)
      BY <2>3, <1>5
    <3> QED
      BY <3>1, <1>7, <1>10
  <2> QED
    BY <2>1, <2>2, <2>3
<1>12. \A i \in 1 .. k : cur' - address'[i] >= a[k + 1] - a[i]
  <2> SUFFICES ASSUME NEW i \in 1 .. k
               PROVE  cur' - address'[i] >= a[k + 1] - a[i]
    OBVIOUS
  <2>1. CASE i = k
    BY SMTT(30), <2>1, <1>5, <1>7, <1>8
  <2>2. CASE i # k
    <3>1. i \in 1 .. (k - 1)
      BY <2>2, <1>5
    <3>2. /\ cur - address[i] >= a[k] - a[i] /\ address'[i] = address[i]
          /\ address[i] \in Nat /\ a[i] \in Nat
      BY <3>1, <1>7, <1>9, <1>10
    <3> DEFINE x == address[i]
               y == a[i]
               z == a[k]
               w == a[k + 1]
               n == size[k]
    <3>3. /\ x \in Nat /\ y \in Nat /\ z \in Nat /\ w \in Nat /\ n \in Nat
          /\ cur \in Nat /\ cur - x >= z - y /\ w - z <= n
          /\ cur' = cur + n
      BY <3>2, <1>5, <1>7, <1>8
    <3> HIDE DEF x, y, z, w, n
    <3>4. cur' - x >= w - y
      BY <3>3
    <3> QED
      BY <3>2, <3>4 DEF x, y, w
  <2> QED
    BY <2>1, <2>2
<1>13. (k + 1) - 1 = k
  BY <1>5
<1>14. SpreadFrom(a)'
  BY <1>1, <1>11, <1>12, <1>13 DEF SpreadFrom
<1> QED
  BY <1>4, <1>14

\* Once all addresses are assigned they are a pass of their own: what was out of
\* reach before is out of reach now.
LEMMA AssignEndGrowth ==
  ASSUME LayoutInv, GrowthInv, AssignEnd
  PROVE  GrowthInv'
<1>1. /\ pc = "assign" /\ pc' = "widen" /\ k = NumOps + 1
      /\ UNCHANGED <<plan, mode, size, strategy>>
      /\ address' = [address EXCEPT ![k] = cur]
  BY DEF AssignEnd, args
<1>2. /\ NumOps' = NumOps /\ Scattered' = Scattered /\ ops' = ops
      /\ \A a : EarlierPass(a)' = EarlierPass(a)
  BY <1>1, GrowthFrame DEF ops
<1>3. LayoutInv'
  BY AssignEndInv
<1> SUFFICES ASSUME ~Scattered
             PROVE  EarlierPass(address)'
  BY <1>1, <1>2 DEF GrowthInv
<1>4. PICK a \in [1 .. (NumOps + 1) -> Nat] : EarlierPass(a) /\ SpreadFrom(a)
  BY <1>1 DEF GrowthInv
<1>5. /\ NumOps \in Nat /\ cur \in Nat /\ plan \in Plans
      /\ address \in [1 .. (NumOps + 1) -> Nat]
      /\ \A j \in 1 .. NumOps : size[j] \in Nat
  BY PlanFacts DEF LayoutInv, LayoutType
<1>6. /\ address'[NumOps + 1] = cur
      /\ \A i \in 1 .. NumOps : address'[i] = address[i] /\ address[i] \in Nat
      /\ \A i \in 1 .. (NumOps + 1) : address'[i] \in Nat /\ a[i] \in Nat
  BY <1>1, <1>5
<1>7. \A i, j \in 1 .. (NumOps + 1) :
        i <= j => address'[j] - address'[i] >= a[j] - a[i]
  <2> SUFFICES ASSUME NEW i \in 1 .. (NumOps + 1), NEW j \in 1 .. (NumOps + 1),
                      i <= j
               PROVE  address'[j] - address'[i] >= a[j] - a[i]
    OBVIOUS
  <2>0. /\ \A x, y \in 1 .. NumOps :
             x <= y => address[y] - address[x] >= a[y] - a[x]
        /\ \A x \in 1 .. NumOps : cur - address[x] >= a[NumOps + 1] - a[x]
    BY <1>1, <1>4, <1>5 DEF SpreadFrom
  <2>1. CASE j = NumOps + 1 /\ i = NumOps + 1
    BY <2>1, <1>6
  <2>2. CASE j = NumOps + 1 /\ i # NumOps + 1
    <3>1. i \in 1 .. NumOps
      BY <2>2, <1>5
    <3> QED
      BY <2>0, <2>2, <3>1, <1>6
  <2>3. CASE j # NumOps + 1
    <3>1. i \in 1 .. NumOps /\ j \in 1 .. NumOps
      BY <2>3, <1>5
    <3> QED
      BY <2>0, <3>1, <1>6
  <2> QED
    BY <2>1, <2>2, <2>3
<1>8. \A i, j \in 1 .. (NumOps + 1) : i <= j => a[i] <= a[j]
  BY <1>4 DEF EarlierPass
<1>9. \A i, j \in 1 .. (NumOps + 1) : i <= j => address'[i] <= address'[j]
  <2> TAKE i, j \in 1 .. (NumOps + 1)
  <2> QED
    BY <1>6, <1>7, <1>8
<1>10. \A j \in 1 .. NumOps : address'[j + 1] - address'[j] <= size'[j]
  <2> TAKE j \in 1 .. NumOps
  <2>1. Follows(j)'
    BY <1>1, <1>2, <1>3, <1>5 DEF LayoutInv, AddressInv, AssignEnd
  <2>2. address'[j + 1] = address'[j] + size'[j]
    BY <2>1, <1>2 DEF Follows
  <2>3. address'[j] \in Nat /\ size'[j] \in Nat
    BY <1>1, <1>5, <1>6
  <2> QED
    BY <2>2, <2>3
<1>11. \A j \in 1 .. NumOps : WidenedInside(j)' => OutOfReach(j, address)'
  <2> SUFFICES ASSUME NEW j \in 1 .. NumOps, WidenedInside(j)'
               PROVE  OutOfReach(j, address)'
    OBVIOUS
  <2>1. WidenedInside(j)
    BY <1>1, <1>2 DEF WidenedInside
  <2> DEFINE s == plan.starts[ops[j].target.v]
             r == ops[j].range
  <2>2. s \in 1 .. (NumOps + 1) /\ r \in Nat /\ j \in 1 .. (NumOps + 1)
    BY <2>1, <1>5, BlockStart DEF WidenedInside
  <2>3. a[s] - a[j] < - r \/ a[s] - a[j] >= r
    BY <2>1, <1>4 DEF EarlierPass, OutOfReach
  <2> HIDE DEF s, r
  <2>4. address'[s] - address'[j] < - r \/ address'[s] - address'[j] >= r
    <3>1. /\ a[s] \in Nat /\ a[j] \in Nat /\ address'[s] \in Nat
          /\ address'[j] \in Nat
      BY <2>2, <1>6
    <3>2. CASE s <= j
      <4>1. address'[j] - address'[s] >= a[j] - a[s] /\ a[s] <= a[j]
        BY <3>2, <2>2, <1>7, <1>8
      <4> QED
        BY <4>1, <3>1, <2>2, <2>3
    <3>3. CASE j <= s
      <4>1. address'[s] - address'[j] >= a[s] - a[j] /\ a[j] <= a[s]
        BY <3>3, <2>2, <1>7, <1>8
      <4> QED
        BY <4>1, <3>1, <2>2, <2>3
    <3> QED
      BY <3>2, <3>3, <2>2
  <2> QED
    BY <2>4, <1>1, <1>2 DEF OutOfReach, s, r
<1> QED
  BY <1>2, <1>9, <1>10, <1>11 DEF EarlierPass

\* A branch is widened because it is out of reach, and to a longer form.
LEMMA WidenGrowth ==
  ASSUME LayoutInv, GrowthInv, WidenOp
  PROVE  GrowthInv'
<1>1. /\ pc = "widen" /\ pc' = "widen"
      /\ plan' = plan /\ mode' = mode /\ address' = address
      /\ strategy' = [strategy EXCEPT ![k] = "InvertedConditional"]
      /\ size' = [size EXCEPT ![k] = WidenedSize]
      /\ ops[k].invertible /\ ~PassesOver(k) /\ strategy[k] = "Normal"
      /\ ResolveError(ops[k].target) = "none"
  BY DEF WidenOp, args
<1>2. /\ NumOps' = NumOps /\ Scattered' = Scattered /\ ops' = ops
  BY <1>1 DEF NumOps, Scattered, ops
<1> SUFFICES ASSUME ~Scattered PROVE EarlierPass(address)'
  BY <1>1, <1>2 DEF GrowthInv
<1>3. EarlierPass(address)
  BY <1>1 DEF GrowthInv
<1>4. /\ NumOps \in Nat /\ k \in 1 .. NumOps /\ plan \in Plans
      /\ address \in [1 .. (NumOps + 1) -> Nat]
      /\ size \in [1 .. NumOps -> Nat]
      /\ strategy \in [1 .. NumOps -> {"Normal", "InvertedConditional"}]
      /\ WidenedSize \in Nat
  BY PlanFacts, LayoutAssumption DEF LayoutInv, LayoutType, WidenOp
<1>5. /\ size'[k] = WidenedSize
      /\ \A j \in 1 .. NumOps :
           j # k => strategy'[j] = strategy[j] /\ size'[j] = size[j]
  BY <1>1, <1>4
<1>6. ops[k].kind = "branch" /\ ops[k].size <= WidenedSize /\ ops[k].size \in Nat
  BY <1>1, <1>4, PlanFacts DEF PassesOver
<1>7. size[k] = ops[k].size
  BY <1>1, <1>4 DEF LayoutInv, SizeInv
<1>8. \A j \in 1 .. NumOps : address'[j + 1] - address'[j] <= size'[j]
  <2> TAKE j \in 1 .. NumOps
  <2>1. /\ address[j + 1] - address[j] <= size[j]
        /\ address[j + 1] \in Nat /\ address[j] \in Nat /\ size[j] \in Nat
    BY <1>3, <1>4 DEF EarlierPass
  <2>2. CASE j = k
    BY <2>1, <2>2, <1>1, <1>4, <1>5, <1>6, <1>7
  <2>3. CASE j # k
    BY <2>1, <2>3, <1>1, <1>5
  <2> QED
    BY <2>2, <2>3
<1>9. \A j \in 1 .. NumOps : WidenedInside(j)' => OutOfReach(j, address)'
  <2> SUFFICES ASSUME NEW j \in 1 .. NumOps, WidenedInside(j)'
               PROVE  OutOfReach(j, address)
    BY <1>1, <1>2 DEF OutOfReach
  <2>1. ops[j].target.kind = "block"
    BY <1>2 DEF WidenedInside
  <2>2. CASE j = k
    <3>1. ~InRange(k) /\ effective_range(k) = ops[k].range
      BY <1>1, <1>6 DEF PassesOver, effective_range
    <3>2. displacement(k)
            = address[plan.starts[ops[k].target.v]] - address[k]
      BY <2>1, <2>2 DEF displacement, resolve_target, block_address, Scattered
    <3>3. /\ address[plan.starts[ops[k].target.v]] \in Nat /\ address[k] \in Nat
          /\ ops[k].range \in Nat
      <4>1. /\ plan.starts[ops[k].target.v] \in 1 .. (NumOps + 1)
            /\ k \in 1 .. (NumOps + 1) /\ ops[k].range \in Nat
        BY <2>1, <2>2, <1>4, BlockStart
      <4> QED
        BY <4>1, <1>4
    <3> DEFINE d == displacement(k)
               r == ops[k].range
    <3>4. d \in Int /\ r \in Nat
      BY <3>2, <3>3
    <3>5. ~(d >= - r /\ d < r)
      BY <3>1 DEF InRange
    <3> HIDE DEF d, r
    <3>6. d < - r \/ d >= r
      BY <3>4, <3>5
    <3> QED
      BY <2>2, <3>2, <3>6, Zenon DEF OutOfReach, d, r
  <2>3. CASE j # k
    <3>1. WidenedInside(j)
      BY <2>3, <1>2, <1>5 DEF WidenedInside
    <3> QED
      BY <3>1, <1>3 DEF EarlierPass
  <2> QED
    BY <2>2, <2>3
<1> QED
  BY <1>1, <1>2, <1>3, <1>8, <1>9 DEF EarlierPass

\* The end of a pass hands its addresses on as those of an earlier pass.
LEMMA PassEndGrowth ==
  ASSUME LayoutInv, GrowthInv, PassEnd
  PROVE  GrowthInv'
<1>1. /\ pc = "widen" /\ k' = 1 /\ UNCHANGED <<plan, mode, size, strategy>>
      /\ address' = address
  BY DEF PassEnd, args
<1>2. /\ NumOps' = NumOps /\ Scattered' = Scattered
      /\ \A a : EarlierPass(a)' = EarlierPass(a)
  BY <1>1, GrowthFrame
<1> SUFFICES ASSUME ~Scattered
             PROVE  /\ pc' = "assign" =>
                         \E a \in [1 .. (NumOps + 1) -> Nat] :
                           EarlierPass(a) /\ SpreadFrom(a)'
                    /\ EarlierPass(address)'
  BY <1>2 DEF GrowthInv
<1>3. EarlierPass(address)
  BY <1>1 DEF GrowthInv
<1>4. address \in [1 .. (NumOps + 1) -> Nat]
  BY DEF LayoutInv, LayoutType
<1>5. PICK a \in [1 .. (NumOps + 1) -> Nat] : a = address
  BY <1>4
<1>6. SpreadFrom(a)'
  BY <1>1 DEF SpreadFrom
<1>7. EarlierPass(a) /\ EarlierPass(a)'
  BY <1>2, <1>3, <1>5
<1>8. EarlierPass(address)'
  BY <1>1, <1>5, <1>7 DEF EarlierPass, OutOfReach
<1> QED
  BY <1>6, <1>7, <1>8

\* Every step of the fixpoint preserves the growth of distances.
LEMMA LayoutStepGrowth == LayoutInv /\ GrowthInv /\ LayoutStep => GrowthInv'
<1> SUFFICES ASSUME LayoutInv, GrowthInv, LayoutStep PROVE GrowthInv'
  OBVIOUS
<1>1. CASE SkipOp \/ FailOp
  <2>1. /\ pc = "widen" /\ pc' \in {"widen", "error"}
        /\ UNCHANGED <<plan, mode, size, strategy>> /\ address' = address
    BY <1>1 DEF SkipOp, FailOp, args
  <2>2. NumOps' = NumOps /\ Scattered' = Scattered /\ ops' = ops
    BY <2>1 DEF NumOps, Scattered, ops
  <2>3. ~Scattered => EarlierPass(address)'
    BY <2>1, <2>2
    DEF GrowthInv, EarlierPass, WidenedInside, OutOfReach
  <2> QED
    BY <2>1, <2>2, <2>3 DEF GrowthInv, Accepted
<1> QED
  BY <1>1, AssignGrowth, AssignEndGrowth, WidenGrowth, PassEndGrowth
  DEF LayoutStep

\* A widened branch inside the plan is out of reach of its short form.
LEMMA NeededFromInv ==
  ASSUME LayoutInv, GrowthInv
  PROVE  NoNeedlessWidening
<1> SUFFICES ASSUME pc = "done", ~Scattered, NEW j \in 1 .. NumOps,
                    strategy[j] = "InvertedConditional",
                    ops[j].target.kind = "block"
             PROVE  ~(displacement(j) >= - ops[j].range
                        /\ displacement(j) < ops[j].range)
  BY DEF NoNeedlessWidening, Scattered
<1>1. OutOfReach(j, address)
  BY DEF GrowthInv, Accepted, EarlierPass, WidenedInside
<1>2. displacement(j) = address[plan.starts[ops[j].target.v]] - address[j]
  BY DEF displacement, resolve_target, block_address, Scattered
<1>3. /\ plan.starts[ops[j].target.v] \in 1 .. (NumOps + 1)
      /\ j \in 1 .. (NumOps + 1) /\ ops[j].range \in Nat
  BY BlockStart DEF LayoutInv, LayoutType
<1>4. /\ address[plan.starts[ops[j].target.v]] \in Nat /\ address[j] \in Nat
  BY <1>3 DEF LayoutInv, LayoutType
<1> DEFINE d == displacement(j)
           r == ops[j].range
<1>5. d \in Int /\ r \in Nat
  BY <1>2, <1>3, <1>4
<1>6. d < - r \/ d >= r
  BY <1>1, <1>2, Zenon DEF OutOfReach
<1> HIDE DEF d, r
<1>7. ~(d >= - r /\ d < r)
  BY <1>5, <1>6
<1> QED
  BY <1>7 DEF d, r

-----------------------------------------------------------------------------
(* The emission.                                                           *)

Emitting == pc \in {"emit", "emitted", "emit_error"}

\* Where the reference of op j lands when its bytes are at address a.
LandsFrom(j, a) ==
  IF ops[j].kind = "plain" \/ form(j) = "relocated" THEN -1
  ELSE IF ops[j].kind = "page" THEN Page(a) + Displacement(j)
  ELSE IF form(j) = "widened" THEN a + 4 + Displacement(j)
  ELSE a + Displacement(j)

\* As long as every op took the room the layout gave it, the next one is emitted
\* at the address the layout gave it.
InPlace(j) == (\A i \in 1 .. (j - 1) : TakesItsRoom(i)) => out[j].at = address[j]

\* Nothing is emitted before the layout is accepted; each op is emitted in the
\* form the layout decided on, and an error is the one of the op it stopped at.
EmitInv ==
  /\ ~Emitting => out = <<>>
  /\ Emitting =>
       /\ mode # "lay_out_for_size"
       /\ out \in Seq(Emission)
       /\ Len(out) = k - 1
       /\ \A j \in 1 .. (k - 1) :
            /\ out[j].len = BytesEmitted(j)
            /\ out[j].form = form(j)
            /\ out[j].lands = LandsFrom(j, out[j].at)
            /\ emit_error(j) = "none"
            /\ InPlace(j)
  /\ pc = "emitted" => k = NumOps + 1
  /\ pc = "emit_error" => k <= NumOps /\ err = emit_error(k)

\* An untouched plan is laid out where it came from: no op is widened, and each
\* address that was assigned is the original one.
UntouchedInv ==
  Untouched =>
    /\ pc \notin {"error", "emit_error"}
    /\ ~grew
    /\ \A j \in 1 .. NumOps : strategy[j] = "Normal"
    /\ pc = "assign" => /\ k <= NumOps => cur = ops[k].orig
                        /\ \A j \in 1 .. (k - 1) : address[j] = ops[j].orig
    /\ pc # "assign" => \A j \in 1 .. NumOps : address[j] = ops[j].orig

\* The invariant of the whole specification.
EInv == LayoutInv /\ GrowthInv /\ EmitInv /\ UntouchedInv

-----------------------------------------------------------------------------
(* Lemmas about single ops.                                                *)

\* What the constants' assumption says of an op of the plan.
LEMMA OpFacts ==
  ASSUME LayoutType, NEW j \in 1 .. NumOps
  PROVE  /\ ops[j].orig \in Int /\ ops[j].orig_target \in Nat
         /\ ops[j].source \in {"same", "changed", "undecodable"}
         /\ ops[j].enc = ops[j].size /\ ops[j].orig_size = ops[j].size
         /\ ops[j].size \in Nat
         /\ ops[j].source = "undecodable" => ops[j].kind = "plain"
         /\ ops[j].kind = "page" => ops[j].orig_target % PageSize = 0
         /\ ops[j].kind \in {"plain", "page", "branch"}
         /\ address[j] \in Nat /\ size[j] \in Nat
<1>1. IsEmittable(ops[j])
  BY EmitAssumption DEF LayoutType, NumOps, ops
<1>2. ops[j].size \in Nat /\ ops[j].kind \in {"plain", "page", "branch"}
      /\ NumOps \in Nat
  BY PlanFacts DEF LayoutType
<1>3. address[j] \in Nat /\ size[j] \in Nat
  BY <1>2 DEF LayoutType
<1> QED
  BY <1>1, <1>2, <1>3 DEF IsEmittable

\* The four forms, and what each says of the op.
LEMMA FormCases ==
  ASSUME LayoutType, NEW j \in 1 .. NumOps
  PROVE  /\ form(j) \in {"verbatim", "relocated", "encoded", "widened"}
         /\ form(j) = "verbatim" => verbatim_bytes(j)
         /\ form(j) = "encoded" => strategy[j] = "Normal"
         /\ form(j) = "widened" => strategy[j] = "InvertedConditional"
<1>1. strategy[j] \in {"Normal", "InvertedConditional"}
  BY DEF LayoutType
<1> QED
  BY <1>1 DEF form, CopiesVerbatim

\* A page address is an integer.
LEMMA PageType ==
  ASSUME NEW a \in Int
  PROVE  Page(a) \in Int
<1>1. a % PageSize \in Int
  BY EmitAssumption
<1> QED
  BY <1>1 DEF Page

\* The address of a page is its own page.
LEMMA PageOfPage ==
  ASSUME NEW a \in Nat, a % PageSize = 0
  PROVE  Page(a) = a
BY DEF Page

\* An op that is encoded or widened without an error has a target.
LEMMA NoErrorResolves ==
  ASSUME LayoutType, NEW j \in 1 .. NumOps, ops[j].kind # "plain",
         form(j) \in {"encoded", "widened"}, emit_error(j) = "none"
  PROVE  ResolveError(ops[j].target) = "none"
BY DEF emit_error

\* The displacement an op carries makes its reference land on the target, from
\* the address the layout gave the op.
LEMMA LandsOnTarget ==
  ASSUME LayoutInv, NEW j \in 1 .. NumOps, ops[j].kind # "plain",
         form(j) # "relocated", emit_error(j) = "none"
  PROVE  /\ resolve_target(ops[j].target) \in Nat
         /\ Displacement(j) \in Int
         /\ LandsFrom(j, address[j])
              = IF ops[j].kind = "page" THEN Page(resolve_target(ops[j].target))
                ELSE resolve_target(ops[j].target)
<1> DEFINE t == resolve_target(ops[j].target)
           a == address[j]
           o == ops[j].orig
           ot == ops[j].orig_target
<1>0. LayoutType
  BY DEF LayoutInv
<1>1. /\ o \in Int /\ ot \in Nat /\ a \in Nat
      /\ ops[j].kind \in {"page", "branch"}
      /\ ops[j].source = "undecodable" => ops[j].kind = "plain"
      /\ ops[j].kind = "page" => ot % PageSize = 0
  BY <1>0, OpFacts
<1>2. form(j) \in {"verbatim", "encoded", "widened"}
  BY <1>0, FormCases
<1>3. ResolveError(ops[j].target) = "none"
  <2>1. CASE form(j) = "verbatim"
    BY <2>1, <1>0, <1>1, FormCases DEF verbatim_bytes, refers_as_before
  <2>2. CASE form(j) # "verbatim"
    BY <2>2, <1>0, <1>2, NoErrorResolves
  <2> QED
    BY <2>1, <2>2
<1>4. t \in Nat
  BY <1>0, <1>3, ResolveType
<1>5. Page(a) \in Int /\ Page(t) \in Int
  BY <1>1, <1>4, PageType
<1>6. CASE form(j) = "verbatim"
  <2>1. t = ot /\ a = o
    BY <1>6, <1>0, <1>1, FormCases DEF verbatim_bytes, refers_as_before
  <2>2. CASE ops[j].kind = "page"
    <3>1. Displacement(j) = ot - Page(o)
      BY <2>2, <1>6 DEF Displacement
    <3>2. LandsFrom(j, a) = Page(a) + Displacement(j)
      BY <2>2, <1>6 DEF LandsFrom
    <3>3. Page(t) = t
      BY <2>1, <2>2, <1>1, PageOfPage
    <3> HIDE DEF t, a, o, ot
    <3>4. Displacement(j) \in Int /\ LandsFrom(j, a) = Page(t)
      BY <3>1, <3>2, <3>3, <2>1, <1>4, <1>5
    <3> QED
      BY <3>4, <2>2, <1>4 DEF t, a
  <2>3. CASE ops[j].kind = "branch"
    <3>1. Displacement(j) = ot - o
      BY <2>3, <1>6 DEF Displacement
    <3>2. LandsFrom(j, a) = a + Displacement(j)
      BY <2>3, <1>6 DEF LandsFrom
    <3> HIDE DEF t, a, o, ot
    <3>3. Displacement(j) \in Int /\ LandsFrom(j, a) = t
      BY <3>1, <3>2, <2>1, <1>1, <1>4
    <3> QED
      BY <3>3, <2>3, <1>4 DEF t, a
  <2> QED
    BY <2>2, <2>3, <1>1
<1>7. CASE form(j) = "encoded"
  <2>2. CASE ops[j].kind = "page"
    <3>1. Displacement(j) = Page(t) - Page(a)
      BY <2>2, <1>7 DEF Displacement
    <3>2. LandsFrom(j, a) = Page(a) + Displacement(j)
      BY <2>2, <1>7 DEF LandsFrom
    <3> HIDE DEF t, a
    <3>3. Displacement(j) \in Int /\ LandsFrom(j, a) = Page(t)
      BY <3>1, <3>2, <1>5
    <3> QED
      BY <3>3, <2>2, <1>4 DEF t, a
  <2>3. CASE ops[j].kind = "branch"
    <3>1. Displacement(j) = t - a
      BY <2>3, <1>7 DEF Displacement, displacement
    <3>2. LandsFrom(j, a) = a + Displacement(j)
      BY <2>3, <1>7 DEF LandsFrom
    <3> HIDE DEF t, a
    <3>3. Displacement(j) \in Int /\ LandsFrom(j, a) = t
      BY <3>1, <3>2, <1>1, <1>4
    <3> QED
      BY <3>3, <2>3, <1>4 DEF t, a
  <2> QED
    BY <2>2, <2>3, <1>1
<1>8. CASE form(j) = "widened"
  <2>1. ops[j].kind = "branch"
    BY <1>8, <1>0, FormCases DEF LayoutInv, SizeInv
  <2>2. Displacement(j) = t - (a + 4)
    BY <2>1, <1>8 DEF Displacement
  <2>3. LandsFrom(j, a) = a + 4 + Displacement(j)
    BY <2>1, <1>8 DEF LandsFrom
  <2> HIDE DEF t, a
  <2>4. Displacement(j) \in Int /\ LandsFrom(j, a) = t
    BY <2>2, <2>3, <1>1, <1>4
  <2> QED
    BY <2>4, <2>1, <1>4 DEF t, a
<1> QED
  BY <1>2, <1>6, <1>7, <1>8

-----------------------------------------------------------------------------
(* The emitter preserves the layout and keeps to it.                       *)

\* The emitter changes nothing of an accepted layout.
LEMMA EmitKeepsLayout ==
  ASSUME LayoutInv, EmitStep
  PROVE  /\ LayoutInv'
         /\ UNCHANGED <<args, address, size, strategy, grew>>
         /\ Accepted /\ Accepted'
<1>1. /\ UNCHANGED <<args, address, size, strategy, grew>> /\ cur' = cur
      /\ pc \in {"done", "emit"} /\ pc' \in {"emit", "emitted", "emit_error"}
  BY DEF EmitStep, StartEmit, EmitOp, EmitFail, EmitEnd
<1>2. k' \in 1 .. (NumOps + 1)
  BY PlanFacts
  DEF LayoutInv, LayoutType, EmitStep, StartEmit, EmitOp, EmitFail, EmitEnd
<1>3. Accepted /\ Accepted' /\ pc' \in Phase \ {"assign"} /\ pc' # "widen"
  BY <1>1 DEF Accepted, Phase
<1>4. /\ mode' = mode /\ NumOps' = NumOps
      /\ \A j : Reaches(j)' = Reaches(j)
  BY <1>1, LayoutFrame DEF args
<1>5. RangeInv'
  BY <1>3, <1>4 DEF LayoutInv, RangeInv
<1>6. ~grew /\ cur' \in Nat
  BY <1>1, <1>3 DEF LayoutInv, SizeInv, LayoutType
<1> QED
  BY <1>1, <1>2, <1>3, <1>5, <1>6, KeepOpsInv

\* ... nor of the growth of distances.
LEMMA EmitKeepsGrowth ==
  ASSUME LayoutInv, GrowthInv, EmitStep
  PROVE  GrowthInv'
<1>1. /\ UNCHANGED <<args, address, size, strategy, grew>>
      /\ Accepted /\ Accepted'
  BY EmitKeepsLayout
<1>2. /\ plan' = plan /\ mode' = mode /\ size' = size /\ strategy' = strategy
      /\ address' = address /\ pc' # "assign"
  BY <1>1 DEF args, Accepted
<1>3. NumOps' = NumOps /\ Scattered' = Scattered /\ ops' = ops
  BY <1>2 DEF NumOps, Scattered, ops
<1>4. ~Scattered => EarlierPass(address)'
  BY <1>1, <1>2, <1>3 DEF GrowthInv, EarlierPass, WidenedInside, OutOfReach
<1> QED
  BY <1>2, <1>3, <1>4 DEF GrowthInv

\* What the emission of an op depends on.
LEMMA EmitFrame ==
  ASSUME UNCHANGED <<args, address, size, strategy>>
  PROVE  \A j : /\ form(j)' = form(j)
                /\ BytesEmitted(j)' = BytesEmitted(j)
                /\ emit_error(j)' = emit_error(j)
                /\ \A a : LandsFrom(j, a)' = LandsFrom(j, a)
<1>1. /\ plan' = plan /\ mode' = mode /\ base' = base /\ container' = container
      /\ place' = place /\ address' = address /\ size' = size
      /\ strategy' = strategy /\ ops' = ops
  BY DEF args, ops
<1>2. \A t : /\ ResolveError(t)' = ResolveError(t)
             /\ resolve_target(t)' = resolve_target(t)
  BY <1>1 DEF ResolveError, resolve_target, block_address
<1>3. \A j : /\ needs_relocation(j)' = needs_relocation(j)
             /\ verbatim_bytes(j)' = verbatim_bytes(j)
  BY <1>1, <1>2 DEF needs_relocation, verbatim_bytes, refers_as_before
<1>4. \A j : form(j)' = form(j)
  BY <1>1, <1>3 DEF form, CopiesVerbatim
<1>5. \A j : displacement(j)' = displacement(j)
  BY <1>1, <1>2 DEF displacement
<1>6. \A j : Displacement(j)' = Displacement(j)
  BY <1>1, <1>2, <1>4, <1>5 DEF Displacement, Page
<1>7. \A j : Encodes(j)' = Encodes(j)
  BY <1>1, <1>2, <1>4, <1>6 DEF Encodes
<1>8. \A j : emit_error(j)' = emit_error(j)
  BY <1>1, <1>2, <1>4, <1>7 DEF emit_error
<1>9. \A j : BytesEmitted(j)' = BytesEmitted(j)
  BY <1>1, <1>4 DEF BytesEmitted
<1>10. \A j, a : LandsFrom(j, a)' = LandsFrom(j, a)
  BY <1>1, <1>4, <1>6 DEF LandsFrom, Page
<1> QED
  BY <1>4, <1>8, <1>9, <1>10

\* The stream is at the address of the op that comes next, if every op so far
\* took its room.
LEMMA HereFacts ==
  ASSUME LayoutInv, EmitInv, Emitting,
         k <= NumOps \/ ~Scattered
  PROVE  /\ Here \in Nat
         /\ (\A i \in 1 .. (k - 1) : TakesItsRoom(i)) => Here = address[k]
<1>1. /\ LayoutType /\ plan \in Plans /\ NumOps \in Nat /\ k \in 1 .. (NumOps + 1)
      /\ Accepted /\ base \in Nat /\ address \in [1 .. (NumOps + 1) -> Nat]
      /\ out \in Seq(Emission) /\ Len(out) = k - 1
  BY PlanFacts DEF LayoutInv, LayoutType, EmitInv, Emitting, Accepted
<1>2. /\ NumOps > 0 => FirstAtBase
      /\ NumOps = 0 => address[1] = base
      /\ \A j \in 1 .. NumOps : Follows(j) /\ AtItsBlock(j)
  BY <1>1 DEF LayoutInv, AddressInv
<1>3. CASE Scattered /\ BlocksAt(k) # {}
  <2>1. k \in 1 .. NumOps
    BY <1>1, <1>3
  <2>2. Here = NextAddress
    BY <2>1, <1>3 DEF Here, Scattered
  <2>3. NextAddress \in Nat /\ \A b \in BlocksAt(k) : NextAddress = place[b]
    BY <1>1, <1>3, NextAddressFacts
  <2>4. \A b \in BlocksAt(k) : address[k] = place[b]
    BY <2>1, <1>2, <1>3 DEF AtItsBlock
  <2> QED
    BY <2>2, <2>3, <2>4, <1>3
<1>4. CASE ~(Scattered /\ BlocksAt(k) # {}) /\ k = 1
  <2>1. out = <<>>
    BY <1>1, <1>4
  <2>2. Here = base
    BY <2>1, <1>4 DEF Here, Scattered
  <2>3. address[1] = base
    BY <1>1, <1>2, <1>4 DEF FirstAtBase
  <2> QED
    BY <2>2, <2>3, <1>1, <1>4
<1>5. CASE ~(Scattered /\ BlocksAt(k) # {}) /\ k # 1
  <2>1. /\ k - 1 \in 1 .. NumOps /\ (k - 1) + 1 = k /\ k - 1 \in 1 .. Len(out)
        /\ out # <<>> /\ Len(out) = k - 1
    BY <1>1, <1>5
  <2>2. Here = out[k - 1].at + out[k - 1].len
    BY <2>1, <1>5 DEF Here, Scattered
  <2>3. out[k - 1] \in Emission
    BY <2>1, <1>1
  <2>4. out[k - 1].at \in Nat /\ out[k - 1].len \in Nat
    BY <2>3 DEF Emission
  <2>5. address[k] = address[k - 1] + size[k - 1]
    BY <2>1, <1>2, <1>5 DEF Follows
  <2>6. InPlace(k - 1)
    BY <2>1 DEF EmitInv, Emitting
  <2>7. ASSUME \A i \in 1 .. (k - 1) : TakesItsRoom(i)
        PROVE  Here = address[k]
    <3>1. out[k - 1].len = size[k - 1]
      BY <2>1, <2>7 DEF TakesItsRoom
    <3>2. \A i \in 1 .. ((k - 1) - 1) : TakesItsRoom(i)
      BY <2>1, <2>7
    <3>3. out[k - 1].at = address[k - 1]
      BY <2>6, <3>2 DEF InPlace
    <3> QED
      BY <2>2, <2>5, <3>1, <3>3
  <2> QED
    BY <2>2, <2>4, <2>7
<1> QED
  BY <1>3, <1>4, <1>5

\* One op is emitted.
LEMMA EmitOpInv ==
  ASSUME LayoutInv, EmitInv, EmitOp
  PROVE  EmitInv'
<1>1. /\ pc = "emit" /\ pc' = "emit" /\ k' = k + 1 /\ k <= NumOps
      /\ UNCHANGED <<args, address, size, strategy>>
      /\ emit_error(k) = "none"
      /\ out' = Append(out, [at |-> Here, len |-> BytesEmitted(k),
                             lands |-> Lands(k), form |-> form(k)])
  BY DEF EmitOp
<1>2. /\ Emitting /\ Emitting' /\ mode' = mode /\ address' = address
      /\ size' = size
  BY <1>1 DEF Emitting, args
<1>3. /\ LayoutType /\ NumOps \in Nat /\ k \in 1 .. NumOps
      /\ out \in Seq(Emission) /\ Len(out) = k - 1 /\ mode # "lay_out_for_size"
  BY <1>1, <1>2, PlanFacts DEF LayoutInv, LayoutType, EmitInv
<1>4. PICK n \in 1 .. NumOps : n = k
  BY <1>3
<1> DEFINE e == [at |-> Here, len |-> BytesEmitted(k),
                 lands |-> Lands(k), form |-> form(k)]
<1>5. Here \in Nat /\ ((\A i \in 1 .. (k - 1) : TakesItsRoom(i)) => Here = address[k])
  BY <1>1, <1>2, HereFacts
<1>6. form(k) \in {"verbatim", "relocated", "encoded", "widened"}
  BY <1>3, FormCases
<1>7. BytesEmitted(k) \in Nat
  BY <1>3, <1>6, OpFacts, LayoutAssumption DEF BytesEmitted
<1>8. Lands(k) = LandsFrom(n, Here)
  BY <1>4 DEF Lands, LandsFrom
<1>9. LandsFrom(n, Here) \in Int
  <2>1. CASE ops[n].kind = "plain" \/ form(n) = "relocated"
    BY <2>1 DEF LandsFrom
  <2>2. CASE ~(ops[n].kind = "plain" \/ form(n) = "relocated")
    <3>1. Displacement(n) \in Int
      BY <2>2, <1>1, <1>4, LandsOnTarget
    <3>2. Page(Here) \in Int
      BY <1>5, PageType
    <3> QED
      BY <2>2, <3>1, <3>2, <1>5 DEF LandsFrom
  <2> QED
    BY <2>1, <2>2
<1>10. e \in Emission
  BY <1>5, <1>6, <1>7, <1>8, <1>9 DEF Emission
<1> HIDE DEF e
<1>11. /\ out' \in Seq(Emission) /\ Len(out') = n /\ out'[n] = e
       /\ \A j \in 1 .. (n - 1) : out'[j] = out[j]
  <2>1. out' = Append(out, e)
    BY <1>1 DEF e
  <2> QED
    BY <2>1, <1>3, <1>4, <1>10
<1>12. \A j : /\ form(j)' = form(j)
              /\ BytesEmitted(j)' = BytesEmitted(j)
              /\ emit_error(j)' = emit_error(j)
              /\ \A a : LandsFrom(j, a)' = LandsFrom(j, a)
  BY <1>1, EmitFrame
<1>13. \A j \in 1 .. (n - 1) : TakesItsRoom(j)' = TakesItsRoom(j)
  BY <1>2, <1>11 DEF TakesItsRoom
<1>14. ASSUME NEW j \in 1 .. n
       PROVE  /\ out'[j].len = BytesEmitted(j)'
              /\ out'[j].form = form(j)'
              /\ out'[j].lands = LandsFrom(j, out[j].at)'
              /\ emit_error(j)' = "none"
              /\ InPlace(j)'
  <2>1. CASE j = n
    <3>1. /\ e.at = Here /\ e.len = BytesEmitted(n) /\ e.form = form(n)
          /\ e.lands = LandsFrom(n, Here)
      BY <1>4, <1>8 DEF e
    <3>2. /\ out'[j].len = BytesEmitted(j)' /\ out'[j].form = form(j)'
          /\ emit_error(j)' = "none" /\ out'[j].at = Here
      BY <2>1, <3>1, <1>1, <1>4, <1>11, <1>12
    <3>3. out'[j].lands = LandsFrom(j, out[j].at)'
      <4>1. PICK h \in Nat : h = Here
        BY <1>5
      <4>2. out'[j].lands = LandsFrom(j, h)' /\ out'[j].at = h
        BY <4>1, <2>1, <3>1, <3>2, <1>11, <1>12
      <4> QED
        BY <4>2 DEF LandsFrom
    <3>4. InPlace(j)'
      BY <2>1, <3>2, <1>2, <1>4, <1>5, <1>13 DEF InPlace
    <3> QED
      BY <3>2, <3>3, <3>4
  <2>2. CASE j # n
    <3>1. j \in 1 .. (n - 1) /\ j \in 1 .. (k - 1) /\ out'[j] = out[j]
      BY <2>2, <1>4, <1>11
    <3>2. /\ out[j].len = BytesEmitted(j) /\ out[j].form = form(j)
          /\ out[j].lands = LandsFrom(j, out[j].at)
          /\ emit_error(j) = "none" /\ InPlace(j)
      BY <3>1, <1>2 DEF EmitInv
    <3>3. /\ out'[j].len = BytesEmitted(j)' /\ out'[j].form = form(j)'
          /\ emit_error(j)' = "none"
      BY <3>1, <3>2, <1>12
    <3>4. out'[j].lands = LandsFrom(j, out[j].at)'
      <4>1. out[j] \in Emission
        BY <3>1, <1>3, <1>4
      <4>2. PICK h \in Nat : h = out[j].at
        BY <4>1 DEF Emission
      <4>3. out'[j].lands = LandsFrom(j, h)' /\ out'[j].at = h
        BY <4>2, <3>1, <3>2, <1>12
      <4> QED
        BY <4>3 DEF LandsFrom
    <3>5. InPlace(j)'
      <4>1. \A i \in 1 .. (j - 1) : i \in 1 .. (n - 1)
        BY <3>1, <1>3, <1>4
      <4> QED
        BY <4>1, <3>1, <3>2, <1>2, <1>13 DEF InPlace
    <3> QED
      BY <3>3, <3>4, <3>5
  <2> QED
    BY <2>1, <2>2
<1>15. k' - 1 = n /\ mode' # "lay_out_for_size" /\ Len(out') = k' - 1
  BY <1>1, <1>2, <1>3, <1>4, <1>11
<1> QED
  BY <1>1, <1>2, <1>11, <1>14, <1>15 DEF EmitInv

\* Emission starts with nothing, stops at the first error, or ends.
LEMMA EmitStepInv ==
  ASSUME LayoutInv, EmitInv, EmitStep
  PROVE  EmitInv'
<1>1. CASE EmitOp
  BY <1>1, EmitOpInv
<1>2. CASE StartEmit
  <2>1. /\ pc = "done" /\ pc' = "emit" /\ k' = 1 /\ mode # "lay_out_for_size"
        /\ out' = out /\ mode' = mode
    BY <1>2 DEF StartEmit, args
  <2>2. out = <<>> /\ Emitting' /\ out' \in Seq(Emission) /\ Len(out') = 0
    BY <2>1 DEF EmitInv, Emitting
  <2> QED
    BY <2>1, <2>2 DEF EmitInv
<1>3. CASE EmitFail \/ EmitEnd
  <2>1. /\ pc = "emit" /\ pc' \in {"emit_error", "emitted"} /\ k' = k
        /\ out' = out /\ UNCHANGED <<args, address, size, strategy>>
        /\ pc' = "emitted" => k = NumOps + 1
        /\ pc' = "emit_error" => k <= NumOps /\ err' = emit_error(k)
    BY <1>3 DEF EmitFail, EmitEnd
  <2>2. /\ Emitting /\ Emitting' /\ mode' = mode /\ address' = address
        /\ size' = size /\ NumOps' = NumOps
    BY <2>1 DEF Emitting, args, NumOps
  <2>3. /\ out \in Seq(Emission) /\ Len(out) = k - 1 /\ mode # "lay_out_for_size"
        /\ NumOps \in Nat /\ k \in 1 .. (NumOps + 1)
    BY <2>2, PlanFacts DEF EmitInv, LayoutInv, LayoutType
  <2>4. \A j : /\ form(j)' = form(j)
               /\ BytesEmitted(j)' = BytesEmitted(j)
               /\ emit_error(j)' = emit_error(j)
               /\ \A a : LandsFrom(j, a)' = LandsFrom(j, a)
    BY <2>1, EmitFrame
  <2>5. ASSUME NEW j \in 1 .. (k - 1)
        PROVE  /\ out'[j].len = BytesEmitted(j)'
               /\ out'[j].form = form(j)'
               /\ out'[j].lands = LandsFrom(j, out[j].at)'
               /\ emit_error(j)' = "none"
               /\ InPlace(j)'
    <3>1. /\ out[j].len = BytesEmitted(j) /\ out[j].form = form(j)
          /\ out[j].lands = LandsFrom(j, out[j].at)
          /\ emit_error(j) = "none" /\ InPlace(j)
      BY <2>2 DEF EmitInv
    <3>2. out'[j].lands = LandsFrom(j, out[j].at)'
      <4>1. out[j] \in Emission
        BY <2>3
      <4>2. PICK h \in Nat : h = out[j].at
        BY <4>1 DEF Emission
      <4>3. out'[j].lands = LandsFrom(j, h)' /\ out'[j].at = h
        BY <4>2, <3>1, <2>1, <2>4
      <4> QED
        BY <4>3 DEF LandsFrom
    <3>3. InPlace(j)'
      BY <3>1, <2>1, <2>2 DEF InPlace, TakesItsRoom
    <3> QED
      BY <3>1, <3>2, <3>3, <2>1, <2>4
  <2>6. pc' = "emit_error" => k' <= NumOps' /\ err' = emit_error(k)'
    <3>1. PICK n \in 1 .. (NumOps + 1) : n = k
      BY <2>3
    <3>2. emit_error(n)' = emit_error(n)
      BY <2>4
    <3>3. emit_error(k)' = emit_error(n)'
      BY <2>1, <3>1
    <3> QED
      BY <2>1, <2>2, <3>1, <3>2, <3>3
  <2> QED
    BY <2>1, <2>2, <2>3, <2>5, <2>6 DEF EmitInv
<1> QED
  BY <1>1, <1>2, <1>3 DEF EmitStep

\* While the layout runs nothing is emitted.
LEMMA LayoutKeepsEmit ==
  ASSUME EmitInv, LayoutStep, out' = out
  PROVE  EmitInv'
<1>1. pc \in {"assign", "widen"} /\ pc' \in {"assign", "widen", "done", "error"}
  BY DEF LayoutStep, assign_addresses, AssignEnd, SkipOp, WidenOp, FailOp,
         PassEnd, PassOutcome
<1>2. ~Emitting /\ ~Emitting'
  BY <1>1 DEF Emitting
<1> QED
  BY <1>1, <1>2 DEF EmitInv

-----------------------------------------------------------------------------
(* What the invariants say of the bytes.                                   *)

\* Every op takes its room, but for a widened branch emitted in another form.
LEMMA RoomFromInv ==
  ASSUME LayoutInv, EmitInv, NEW j \in 1 .. Len(out)
  PROVE  TakesItsRoom(j) \/ OverridesWidening(j)
<1>1. Emitting
  <2> SUFFICES ASSUME ~Emitting PROVE FALSE
    OBVIOUS
  <2>1. Len(out) = 0
    BY DEF EmitInv
  <2> QED
    BY <2>1
<1>2. /\ NumOps \in Nat /\ j \in 1 .. NumOps /\ j \in 1 .. (k - 1) /\ LayoutType
  BY <1>1, PlanFacts DEF EmitInv, LayoutInv, LayoutType
<1>3. out[j].len = BytesEmitted(j) /\ out[j].form = form(j)
  BY <1>1, <1>2 DEF EmitInv
<1>4. /\ ops[j].enc = ops[j].size /\ ops[j].orig_size = ops[j].size
  BY <1>2, OpFacts
<1>5. strategy[j] \in {"Normal", "InvertedConditional"}
  BY <1>2 DEF LayoutType
<1>6. /\ strategy[j] = "Normal" => size[j] = ops[j].size
      /\ strategy[j] = "InvertedConditional" => size[j] = WidenedSize
  BY <1>2 DEF LayoutInv, SizeInv
<1>7. CASE strategy[j] = "Normal"
  <2>1. form(j) # "widened"
    BY <1>2, <1>7, FormCases
  <2>2. BytesEmitted(j) = ops[j].size
    BY <2>1, <1>2, <1>4, FormCases DEF BytesEmitted
  <2> QED
    BY <2>2, <1>3, <1>6, <1>7 DEF TakesItsRoom
<1>8. CASE strategy[j] = "InvertedConditional"
  <2>1. CASE form(j) = "widened"
    BY <2>1, <1>3, <1>6, <1>8 DEF TakesItsRoom, BytesEmitted
  <2>2. CASE form(j) # "widened"
    BY <2>2, <1>3, <1>8 DEF OverridesWidening
  <2> QED
    BY <2>1, <2>2
<1> QED
  BY <1>5, <1>7, <1>8

\* Every reference lands on its target, wherever and in whichever form.
LEMMA LandsFromInv ==
  ASSUME LayoutInv, EmitInv, pc = "emitted",
         \A j \in 1 .. NumOps : TakesItsRoom(j),
         mode = "lay_out_scattered" => Scatterable,
         NEW j \in 1 .. NumOps, out[j].lands # -1
  PROVE  out[j].lands = ActualTarget(j)
<1>1. /\ Emitting /\ LayoutType /\ plan \in Plans /\ NumOps \in Nat
      /\ k = NumOps + 1 /\ Accepted /\ k - 1 = NumOps
  BY PlanFacts DEF Emitting, EmitInv, LayoutInv, LayoutType, Accepted
<1>2. \A i \in 1 .. NumOps : out[i].at = address[i]
  BY <1>1 DEF EmitInv, InPlace
<1>3. /\ out[j].lands = LandsFrom(j, address[j]) /\ emit_error(j) = "none"
  BY <1>1, <1>2 DEF EmitInv
<1>4. ops[j].kind # "plain" /\ form(j) # "relocated"
  BY <1>3 DEF LandsFrom
<1> DEFINE t == ops[j].target
<1>5. /\ resolve_target(t) \in Nat
      /\ out[j].lands = IF ops[j].kind = "page" THEN Page(resolve_target(t))
                        ELSE resolve_target(t)
  BY <1>3, <1>4, LandsOnTarget
<1>6. CASE t.kind # "block"
  BY <1>5, <1>6 DEF ActualTarget
<1>7. CASE t.kind = "block"
  <2> DEFINE s == plan.starts[t.v]
  <2>1. s \in 1 .. (NumOps + 1) /\ t.v \in DOMAIN plan.starts
    BY <1>1, <1>7, BlockStart, PlanFacts
  <2>2. resolve_target(t) = IF Scattered THEN place[t.v] ELSE address[s]
    BY <1>7 DEF resolve_target, block_address, Scattered
  <2>3. Scattered => s <= NumOps /\ t.v \in BlocksAt(s)
    BY <2>1 DEF Scattered, Scatterable
  <2>4. CASE s <= NumOps
    <3>1. s \in 1 .. NumOps
      BY <2>1, <2>4, <1>1
    <3>2. Scattered => address[s] = place[t.v]
      BY <3>1, <2>3, <1>1 DEF LayoutInv, AddressInv, AtItsBlock
    <3>3. resolve_target(t) = out[s].at
      BY <3>1, <3>2, <2>2, <1>2
    <3> QED
      BY <3>3, <2>4, <1>5, <1>7 DEF ActualTarget
  <2>5. CASE ~(s <= NumOps)
    <3>1. s = NumOps + 1 /\ ~Scattered
      BY <2>1, <2>3, <2>5, <1>1
    <3>2. Here = address[s]
      BY <3>1, <1>1, HereFacts
    <3> QED
      BY <3>1, <3>2, <2>2, <2>5, <1>5, <1>7 DEF ActualTarget
  <2> QED
    BY <2>4, <2>5
<1> QED
  BY <1>6, <1>7

\* The byte stream is the one that should land at the layout's addresses.
LEMMA ReferencesFromInv ==
  ASSUME LayoutInv, EmitInv
  PROVE  ReferencesLand
BY RoomFromInv, LandsFromInv DEF ReferencesLand

\* The encoder refuses nothing the layout accepted, but for the four bytes that
\* the far jump sits behind the branch it was measured from.
LEMMA BoundaryFromInv ==
  ASSUME LayoutInv, EmitInv
  PROVE  EncodeErrorsAreBoundary
<1> SUFFICES ASSUME pc = "emit_error", err = "Encode", ops[k].kind # "page"
             PROVE  /\ strategy[k] = "InvertedConditional"
                    /\ displacement(k) < 4 - WidenedRange
  BY DEF EncodeErrorsAreBoundary
<1>1. /\ LayoutType /\ NumOps \in Nat /\ k \in 1 .. NumOps /\ Accepted /\ Emitting
      /\ emit_error(k) = "Encode" /\ mode # "lay_out_for_size"
      /\ ops[k].kind \in {"plain", "branch"}
  BY PlanFacts, OpFacts DEF LayoutInv, LayoutType, EmitInv, Accepted, Emitting
<1>2. /\ form(k) \in {"encoded", "widened"} /\ ~Encodes(k)
      /\ ops[k].kind = "plain" \/ ResolveError(ops[k].target) = "none"
  BY <1>1 DEF emit_error
<1>3. ops[k].kind = "branch"
  <2>1. CASE ops[k].kind = "plain"
    <3>1. form(k) # "widened"
      BY <2>1, <1>1, FormCases DEF LayoutInv, SizeInv
    <3>2. Encodes(k)
      BY <2>1, <3>1, <1>2 DEF Encodes
    <3> QED
      BY <3>2, <1>2
  <2> QED
    BY <2>1, <1>1
<1>4. /\ ResolveError(ops[k].target) = "none"
      /\ effective_range(k) = 0 \/ InRange(k)
  BY <1>1, <1>2, <1>3 DEF LayoutInv, RangeInv, Reaches
<1>5. /\ resolve_target(ops[k].target) \in Nat /\ address[k] \in Nat
      /\ ops[k].range \in Nat /\ WidenedRange \in Nat \ {0}
  BY <1>1, <1>4, ResolveType, OpFacts, PlanFacts, LayoutAssumption DEF LayoutType
<1>6. CASE form(k) = "encoded"
  <2>1. strategy[k] = "Normal" /\ Displacement(k) = displacement(k)
    BY <1>1, <1>3, <1>6, FormCases DEF Displacement
  <2>2. Encodes(k)
    BY <2>1, <1>3, <1>4, <1>6 DEF Encodes, InRange, effective_range
  <2> QED
    BY <2>2, <1>2
<1>7. CASE form(k) = "widened"
  <2>1. strategy[k] = "InvertedConditional"
    BY <1>1, <1>7, FormCases
  <2>2. Displacement(k) = resolve_target(ops[k].target) - (address[k] + 4)
    BY <1>7 DEF Displacement
  <2>3. displacement(k) = resolve_target(ops[k].target) - address[k]
    BY DEF displacement
  <2>4. displacement(k) >= - WidenedRange /\ displacement(k) < WidenedRange
    BY <2>1, <1>4, <1>5 DEF InRange, effective_range
  <2>5. ~(Displacement(k) >= - WidenedRange /\ Displacement(k) < WidenedRange)
    BY <1>2, <1>7 DEF Encodes
  <2> DEFINE t == resolve_target(ops[k].target)
             a == address[k]
             d == displacement(k)
             e == Displacement(k)
  <2>6. /\ t \in Nat /\ a \in Nat /\ e = t - (a + 4) /\ d = t - a
        /\ d < WidenedRange
        /\ ~(e >= - WidenedRange /\ e < WidenedRange)
    BY <2>2, <2>3, <2>4, <2>5, <1>5
  <2> HIDE DEF t, a, d, e
  <2>7. d < 4 - WidenedRange
    BY <2>6, <1>5
  <2> QED
    BY <2>1, <2>7 DEF d
<1> QED
  BY <1>2, <1>6, <1>7

-----------------------------------------------------------------------------
(* Untouched plans.                                                        *)

\* Whether the plan is untouched is decided by the arguments of the call.
LEMMA UntouchedFrame ==
  ASSUME UNCHANGED args
  PROVE  Untouched' = Untouched
<1>1. /\ plan' = plan /\ mode' = mode /\ base' = base /\ container' = container
      /\ place' = place
  BY DEF args
<1>2. ops' = ops /\ NumOps' = NumOps
  BY <1>1 DEF ops, NumOps
<1>3. \A j : (ops[j].target.kind # "block" /\ refers_as_before(j))'
              = (ops[j].target.kind # "block" /\ refers_as_before(j))
  <2> TAKE j
  <2>1. ResolveError(ops[j].target)' = ResolveError(ops[j].target)
    BY <1>1, <1>2 DEF ResolveError
  <2>2. ops[j].target.kind # "block" =>
          resolve_target(ops[j].target)' = resolve_target(ops[j].target)
    BY <1>1, <1>2 DEF resolve_target
  <2> QED
    BY <2>1, <2>2, <1>2 DEF refers_as_before
<1> QED
  BY <1>1, <1>2, <1>3 DEF Untouched

\* Once its addresses are the original ones, the branches of an untouched plan
\* reach their targets in the short form, and every op is copied verbatim.
LEMMA UntouchedOps ==
  ASSUME LayoutType, Untouched, NEW j \in 1 .. NumOps,
         \A i \in 1 .. NumOps : strategy[i] = "Normal" /\ address[i] = ops[i].orig
  PROVE  PassesOver(j) /\ form(j) = "verbatim" /\ emit_error(j) = "none"
<1> DEFINE t == ops[j].target
<1>1. /\ ops[j].orig \in Nat /\ ops[j].orig_target \in Nat
      /\ ops[j].source \in {"same", "undecodable"}
      /\ ops[j].source = "undecodable" => ops[j].kind = "plain"
      /\ address[j] = ops[j].orig /\ strategy[j] = "Normal"
      /\ mode # "lay_out_scattered" /\ container /\ ~Relocatable
  BY OpFacts DEF Untouched
<1>2. ops[j].kind # "plain" =>
        ResolveError(t) = "none" /\ resolve_target(t) = ops[j].orig_target
  <2>1. CASE ops[j].kind # "plain" /\ t.kind = "block"
    <3>1. /\ plan.starts[t.v] \in 1 .. NumOps
          /\ ops[j].orig_target = ops[plan.starts[t.v]].orig
      BY <2>1 DEF Untouched
    <3>2. resolve_target(t) = address[plan.starts[t.v]]
      BY <2>1, <1>1 DEF resolve_target, block_address
    <3>3. ResolveError(t) = "none"
      BY <2>1 DEF ResolveError
    <3> QED
      BY <3>1, <3>2, <3>3
  <2>2. CASE ops[j].kind # "plain" /\ t.kind # "block"
    BY <2>2 DEF Untouched, refers_as_before
  <2> QED
    BY <2>1, <2>2
<1>3. PassesOver(j)
  <2>1. CASE ops[j].kind # "branch"
    BY <2>1 DEF PassesOver
  <2>2. CASE ops[j].kind = "branch"
    <3>1. displacement(j) = ops[j].orig_target - ops[j].orig
      BY <2>2, <1>1, <1>2 DEF displacement
    <3>2. /\ ops[j].orig_target - ops[j].orig >= - ops[j].range
          /\ ops[j].orig_target - ops[j].orig < ops[j].range
      BY <2>2 DEF Untouched
    <3>3. InRange(j)
      BY <3>1, <3>2, <1>1 DEF InRange, effective_range
    <3> QED
      BY <3>3, <2>2, <1>2 DEF PassesOver
  <2> QED
    BY <2>1, <2>2
<1>4. verbatim_bytes(j)
  BY <1>1, <1>2 DEF verbatim_bytes, refers_as_before
<1>5. form(j) = "verbatim"
  BY <1>1, <1>4 DEF form, CopiesVerbatim
<1> QED
  BY <1>3, <1>5 DEF emit_error

\* The first address is the base, which is where the first op came from.
LEMMA UntouchedStart ==
  ASSUME LayoutType, pc = "assign", k = 1, cur = base, ~grew,
         \A j \in 1 .. NumOps : strategy[j] = "Normal"
  PROVE  UntouchedInv
<1> SUFFICES ASSUME Untouched
             PROVE  k <= NumOps => cur = ops[k].orig
  BY DEF UntouchedInv
<1>1. NumOps \in Nat
  BY PlanFacts DEF LayoutType
<1> QED
  BY <1>1 DEF Untouched

\* Each pass over the ops of an untouched plan leaves it where it was.
LEMMA UntouchedLayoutStep ==
  ASSUME LayoutInv, UntouchedInv, LayoutStep
  PROVE  UntouchedInv'
<1>1. UNCHANGED args
  BY DEF LayoutStep, assign_addresses, AssignEnd, SkipOp, WidenOp, FailOp, PassEnd
<1>2. Untouched' = Untouched
  BY <1>1, UntouchedFrame
<1> SUFFICES ASSUME Untouched
             PROVE  UntouchedInv'
  BY <1>2 DEF UntouchedInv
<1>3. /\ LayoutType /\ NumOps \in Nat /\ k \in 1 .. (NumOps + 1)
      /\ ops' = ops /\ NumOps' = NumOps
      /\ address \in [1 .. (NumOps + 1) -> Nat]
  BY <1>1, PlanFacts DEF LayoutInv, LayoutType, args, ops, NumOps
<1>4. /\ ~grew /\ \A j \in 1 .. NumOps : strategy[j] = "Normal"
  BY DEF UntouchedInv
<1>5. CASE assign_addresses
  <2>1. /\ pc = "assign" /\ pc' = "assign" /\ k <= NumOps /\ k' = k + 1
        /\ address' = [address EXCEPT ![k] = NextAddress]
        /\ cur' = NextAddress + size[k] /\ strategy' = strategy /\ grew' = grew
    BY <1>5 DEF assign_addresses
  <2>2. NextAddress = cur /\ cur \in Nat
    BY <1>3 DEF NextAddress, Untouched, LayoutType
  <2>3. PICK n \in 1 .. NumOps : n = k
    BY <2>1, <1>3
  <2>4. /\ cur = ops[n].orig /\ size[n] = ops[n].size
        /\ \A j \in 1 .. (n - 1) : address[j] = ops[j].orig
    BY <2>1, <2>3, <1>4 DEF UntouchedInv, LayoutInv, SizeInv
  <2>5. \A j \in 1 .. n : address'[j] = ops[j].orig
    BY SMTT(30), <2>1, <2>2, <2>3, <2>4, <1>3
  <2>6. n + 1 <= NumOps => cur' = ops[n + 1].orig
    <3> SUFFICES ASSUME n + 1 <= NumOps
                 PROVE  cur' = ops[n + 1].orig
      OBVIOUS
    <3>1. n + 1 \in 1 .. NumOps /\ n + 1 # 1 /\ (n + 1) - 1 = n
      BY <2>3, <1>3
    <3>2. ops[n + 1].orig = ops[n].orig + ops[n].size
      BY <3>1 DEF Untouched
    <3> QED
      BY <3>2, <2>1, <2>2, <2>3, <2>4
  <2>7. k' = n + 1 /\ k' - 1 = n
    BY <2>1, <2>3
  <2>8. (k <= NumOps)' => cur' = (ops[k])'.orig
    BY <2>6, <2>7, <1>3
  <2> QED
    BY <2>1, <2>5, <2>7, <2>8, <1>3, <1>4 DEF UntouchedInv
<1>6. CASE AssignEnd
  <2>1. /\ pc = "assign" /\ pc' = "widen" /\ k = NumOps + 1 /\ grew' = FALSE
        /\ address' = [address EXCEPT ![k] = cur] /\ strategy' = strategy
    BY <1>6 DEF AssignEnd
  <2>2. \A j \in 1 .. NumOps : address[j] = ops[j].orig
    BY <2>1, <1>3 DEF UntouchedInv
  <2>3. \A j \in 1 .. NumOps : address'[j] = ops[j].orig
    BY <2>1, <2>2, <1>3
  <2> QED
    BY <2>1, <2>3, <1>3, <1>4 DEF UntouchedInv
<1>7. CASE SkipOp \/ WidenOp \/ FailOp \/ PassEnd
  <2>1. pc = "widen"
    BY <1>7 DEF SkipOp, WidenOp, FailOp, PassEnd
  <2>2. \A j \in 1 .. NumOps : address[j] = ops[j].orig
    BY <2>1 DEF UntouchedInv
  <2>3. k <= NumOps => PassesOver(k)
    BY <2>2, <1>3, <1>4, UntouchedOps
  <2>4. SkipOp \/ PassEnd
    BY <2>3, <1>7 DEF WidenOp, FailOp
  <2>5. /\ pc' \in {"widen", "done"} /\ strategy' = strategy /\ grew' = grew
        /\ address' = address
    BY <2>4, <1>4 DEF SkipOp, PassEnd, PassOutcome
  <2> QED
    BY <2>2, <2>5, <1>3, <1>4 DEF UntouchedInv
<1> QED
  BY <1>5, <1>6, <1>7 DEF LayoutStep

\* The emitter has no op of an untouched plan to refuse.
LEMMA UntouchedEmitStep ==
  ASSUME LayoutInv, UntouchedInv, EmitStep
  PROVE  UntouchedInv'
<1>1. /\ UNCHANGED <<args, address, size, strategy, grew>> /\ Accepted /\ Accepted'
  BY EmitKeepsLayout
<1>2. /\ Untouched' = Untouched /\ ops' = ops /\ NumOps' = NumOps
      /\ address' = address /\ strategy' = strategy /\ grew' = grew
  BY <1>1, UntouchedFrame DEF args, ops, NumOps
<1> SUFFICES ASSUME Untouched
             PROVE  UntouchedInv'
  BY <1>2 DEF UntouchedInv
<1>3. /\ ~grew
      /\ \A j \in 1 .. NumOps : strategy[j] = "Normal" /\ address[j] = ops[j].orig
  BY <1>1 DEF UntouchedInv, Accepted
<1>4. ~EmitFail
  <2> SUFFICES ASSUME EmitFail PROVE FALSE
    OBVIOUS
  <2>1. k \in 1 .. NumOps /\ emit_error(k) # "none" /\ LayoutType
    BY PlanFacts DEF EmitFail, LayoutInv, LayoutType
  <2> QED
    BY <2>1, <1>3, UntouchedOps
<1>5. pc' \in {"emit", "emitted"}
  BY <1>4 DEF EmitStep, StartEmit, EmitOp, EmitEnd
<1> QED
  BY <1>2, <1>3, <1>5 DEF UntouchedInv

\* What was emitted for an untouched plan is its source, in its place.
LEMMA RoundTripFromInv ==
  ASSUME EInv
  PROVE  UntouchedRoundTrips
<1> SUFFICES ASSUME Untouched, NEW j \in 1 .. Len(out)
             PROVE  out[j].form = "verbatim" /\ out[j].at = ops[j].orig
  BY DEF EInv, UntouchedInv, UntouchedRoundTrips
<1>1. Emitting
  <2> SUFFICES ASSUME ~Emitting PROVE FALSE
    OBVIOUS
  <2>1. Len(out) = 0
    BY DEF EInv, EmitInv
  <2> QED
    BY <2>1
<1>2. /\ LayoutType /\ NumOps \in Nat /\ j \in 1 .. (k - 1) /\ k - 1 <= NumOps
      /\ k \in Nat
  BY <1>1, PlanFacts DEF EInv, EmitInv, LayoutInv, LayoutType
<1>3. \A i \in 1 .. NumOps : strategy[i] = "Normal" /\ address[i] = ops[i].orig
  BY <1>1 DEF EInv, UntouchedInv, Emitting
<1>4. \A i \in 1 .. j : i \in 1 .. NumOps /\ i \in 1 .. (k - 1)
  BY <1>2
<1>5. \A i \in 1 .. j : form(i) = "verbatim"
  BY <1>2, <1>3, <1>4, UntouchedOps
<1>6. ASSUME NEW i \in 1 .. (j - 1)
      PROVE  TakesItsRoom(i)
  <2>1. i \in 1 .. j /\ i \in 1 .. NumOps /\ i \in 1 .. (k - 1)
    BY <1>2
  <2>2. out[i].len = BytesEmitted(i)
    BY <2>1, <1>1 DEF EInv, EmitInv
  <2>3. BytesEmitted(i) = ops[i].size
    BY <2>1, <1>2, <1>5, OpFacts DEF BytesEmitted
  <2>4. size[i] = ops[i].size
    BY <2>1, <1>3 DEF EInv, LayoutInv, SizeInv
  <2> QED
    BY <2>2, <2>3, <2>4 DEF TakesItsRoom
<1>7. out[j].at = address[j] /\ out[j].form = form(j)
  BY <1>1, <1>2, <1>6 DEF EInv, EmitInv, InPlace
<1> QED
  BY <1>2, <1>3, <1>4, <1>5, <1>7

-----------------------------------------------------------------------------
(* The specification.                                                      *)

LEMMA InitEInv == EmitInit => EInv
<1> SUFFICES ASSUME EmitInit PROVE EInv
  OBVIOUS
<1>1. PICK p \in Plans, m \in Modes, b \in Bases, c \in Containers, pl \in Placements :
        /\ Len(pl) = IF m = "lay_out_scattered" THEN Len(p.starts) ELSE 0
        /\ StartLayout(p, m, b, c, pl)
  BY DEF EmitInit, Init
<1>2. IsCall(p, m, b, c, pl)
  BY <1>1, LayoutAssumption DEF IsCall
<1>3. LayoutInv
  BY <1>1, <1>2, StartInv
<1>4. /\ pc = "assign" /\ k = 1 /\ cur = base /\ ~grew
      /\ \A j \in 1 .. NumOps : strategy[j] = "Normal"
  BY <1>1 DEF StartLayout, NumOps
<1>5. GrowthInv
  BY <1>3, <1>4, StartGrowth
<1>6. EmitInv
  BY <1>4 DEF EmitInit, EmitInv, Emitting
<1>7. UntouchedInv
  BY <1>3, <1>4, UntouchedStart DEF LayoutInv
<1> QED
  BY <1>3, <1>5, <1>6, <1>7 DEF EInv

\* Stuttering keeps each of them.
LEMMA StutterLayout ==
  ASSUME LayoutInv, UNCHANGED vars
  PROVE  LayoutInv'
<1>1. /\ plan' = plan /\ mode' = mode /\ base' = base /\ container' = container
      /\ place' = place /\ pc' = pc /\ k' = k /\ cur' = cur
      /\ address' = address /\ size' = size /\ strategy' = strategy
      /\ grew' = grew
      /\ UNCHANGED <<args, address, size, strategy>>
  BY DEF vars, layoutVars, args
<1>2. /\ NumOps' = NumOps /\ ops' = ops /\ Scattered' = Scattered
      /\ FirstAtBase' = FirstAtBase /\ Accepted' = Accepted
      /\ \A j : /\ Follows(j)' = Follows(j)
                /\ AtItsBlock(j)' = AtItsBlock(j)
                /\ Reaches(j)' = Reaches(j)
  BY <1>1, LayoutFrame DEF Accepted
<1>3. LayoutType' /\ SizeInv'
  BY <1>1, <1>2 DEF LayoutInv, LayoutType, SizeInv
<1>4. AddressInv' /\ RangeInv'
  BY <1>1, <1>2 DEF LayoutInv, AddressInv, RangeInv
<1> QED
  BY <1>3, <1>4 DEF LayoutInv

LEMMA StutterGrowth ==
  ASSUME GrowthInv, UNCHANGED vars
  PROVE  GrowthInv'
<1>1. /\ pc' = pc /\ k' = k /\ cur' = cur /\ address' = address
      /\ UNCHANGED <<plan, mode, size, strategy>>
  BY DEF vars, layoutVars
<1>2. /\ NumOps' = NumOps /\ Scattered' = Scattered /\ Accepted' = Accepted
      /\ \A a : EarlierPass(a)' = EarlierPass(a)
  BY <1>1, GrowthFrame DEF Accepted
<1>3. \A a : SpreadFrom(a)' = SpreadFrom(a)
  BY <1>1 DEF SpreadFrom
<1> QED
  BY <1>1, <1>2, <1>3 DEF GrowthInv

LEMMA StutterEmit ==
  ASSUME EmitInv, UNCHANGED vars
  PROVE  EmitInv'
<1>1. /\ plan' = plan /\ mode' = mode /\ pc' = pc /\ k' = k /\ cur' = cur
      /\ address' = address /\ size' = size /\ strategy' = strategy
      /\ grew' = grew /\ out' = out /\ err' = err
      /\ UNCHANGED <<args, address, size, strategy>>
  BY DEF vars, layoutVars, args
<1>2. /\ NumOps' = NumOps /\ ops' = ops /\ Emitting' = Emitting
  BY <1>1 DEF NumOps, ops, Emitting
<1>3. \A j : /\ form(j)' = form(j)
             /\ BytesEmitted(j)' = BytesEmitted(j)
             /\ emit_error(j)' = emit_error(j)
             /\ \A a : LandsFrom(j, a)' = LandsFrom(j, a)
             /\ InPlace(j)' = InPlace(j)
  BY <1>1, EmitFrame DEF InPlace, TakesItsRoom
<1>4. emit_error(k)' = emit_error(k)
  <2>1. \E n : n = k
    OBVIOUS
  <2>2. PICK n : n = k
    BY <2>1
  <2>3. emit_error(n)' = emit_error(n)
    BY <1>3
  <2> QED
    BY <2>2, <2>3, <1>1
<1>5. \A j : LandsFrom(j, out[j].at)' = LandsFrom(j, out[j].at)
  <2> TAKE j
  <2>1. \E h : h = out[j].at
    OBVIOUS
  <2>2. PICK h : h = out[j].at
    BY <2>1
  <2>3. LandsFrom(j, h)' = LandsFrom(j, h)
    BY <1>3
  <2> QED
    BY <2>2, <2>3, <1>1 DEF LandsFrom
<1> QED
  BY <1>1, <1>2, <1>3, <1>4, <1>5 DEF EmitInv

LEMMA StutterUntouched ==
  ASSUME UntouchedInv, UNCHANGED vars
  PROVE  UntouchedInv'
<1>1. /\ plan' = plan /\ pc' = pc /\ k' = k /\ cur' = cur /\ address' = address
      /\ strategy' = strategy /\ grew' = grew /\ UNCHANGED args
  BY DEF vars, layoutVars, args
<1>2. NumOps' = NumOps /\ ops' = ops /\ Untouched' = Untouched
  BY <1>1, UntouchedFrame DEF NumOps, ops
<1> QED
  BY <1>1, <1>2 DEF UntouchedInv

LEMMA NextEInv == EInv /\ [EmitNext]_vars => EInv'
<1> SUFFICES ASSUME EInv, [EmitNext]_vars PROVE EInv'
  OBVIOUS
<1>1. CASE LayoutStep /\ UNCHANGED out
  BY <1>1, LayoutStepInv, LayoutStepGrowth, LayoutKeepsEmit, UntouchedLayoutStep
  DEF EInv
<1>2. CASE EmitStep
  BY <1>2, EmitKeepsLayout, EmitKeepsGrowth, EmitStepInv, UntouchedEmitStep DEF EInv
<1>3. CASE UNCHANGED vars
  BY <1>3, StutterLayout, StutterGrowth, StutterEmit, StutterUntouched DEF EInv
<1> QED
  BY <1>1, <1>2, <1>3 DEF EmitNext, EmitReturned

\* Layout and emission keep the invariant, whatever the plan, the base, the
\* placement and the ranges of the instruction set.
THEOREM SpecEInv == EmitSpec => []EInv
BY InitEInv, NextEInv, PTL DEF EmitSpec

\* Every layout lay_out, lay_out_for_size or lay_out_scattered returns is
\* consistent: its ops neither overlap nor leave gaps, blocks stay where the
\* caller put them, and every branch reaches its target in the form it has.
THEOREM LayoutsConsistent == EmitSpec => []LayoutIsConsistent
<1>1. EInv => LayoutIsConsistent
  BY ConsistentFromInv DEF EInv
<1> QED
  BY <1>1, SpecEInv, PTL

\* widen_out_of_range never widens a branch inside the plan that the short form
\* would have reached in the final layout.
THEOREM WideningNeeded == EmitSpec => []NoNeedlessWidening
<1>1. EInv => NoNeedlessWidening
  BY NeededFromInv DEF EInv
<1> QED
  BY <1>1, SpecEInv, PTL

\* What emit returns takes the room the layout counted, and then every reference
\* in it lands on its target from where its bytes are.
THEOREM EmittedReferencesLand == EmitSpec => []ReferencesLand
<1>1. EInv => ReferencesLand
  BY ReferencesFromInv DEF EInv
<1> QED
  BY <1>1, SpecEInv, PTL

\* After a successful layout the encoder refuses only page references and widened
\* branches within four bytes of the far jump's backward limit.
THEOREM EncodeErrorsBoundary == EmitSpec => []EncodeErrorsAreBoundary
<1>1. EInv => EncodeErrorsAreBoundary
  BY BoundaryFromInv DEF EInv
<1> QED
  BY <1>1, SpecEInv, PTL

\* A function nobody edited, put back at its own address, is emitted as the bytes
\* it was lifted from.
THEOREM UntouchedVerbatim == EmitSpec => []UntouchedRoundTrips
<1>1. EInv => UntouchedRoundTrips
  BY RoundTripFromInv
<1> QED
  BY <1>1, SpecEInv, PTL
=============================================================================
