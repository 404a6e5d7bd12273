------------------------------- MODULE Layout -------------------------------
(***************************************************************************)
(* rewrite/layout.rs: assign an address to every op of a plan, widen the   *)
(* conditional branches that do not reach their target, and repeat until a *)
(* pass widens nothing.  One step per op of each of the two loops, so the  *)
(* addresses a widening pass reads are the ones the assignment before it   *)
(* wrote, whatever the pass has widened since.                             *)
(*                                                                         *)
(* A plan's blocks are flattened: ops is the sequence of all ops and       *)
(* starts[b] the index of the first op of block b (Len(ops) + 1 when there *)
(* is none), so a block's address is an op's address.  Addresses are       *)
(* integers: the code's wrapping u64 arithmetic is modelled for plans that *)
(* do not cross the end of the address space.                              *)
(***************************************************************************)
EXTENDS Integers, Sequences, FiniteSets

CONSTANTS
  Plans,                  \* the plans a caller may lay out
  Modes,                  \* which of the three entry points are called
  Bases,                  \* base addresses
  Placements,             \* lay_out_scattered: sequences of block addresses
  WidenedSize,            \* I::widened_conditional_size()
  WidenedRange,           \* I::widened_conditional_range()
  MAX_LAYOUT_ITERATIONS,  \* passes before DidNotConverge
  Containers,             \* whether a container is passed: a subset of BOOLEAN
  SymAddr                 \* symbol -> callable address, -1 for an undefined one

Mode == {"lay_out", "lay_out_for_size", "lay_out_scattered"}

\* An op is a branch with its range (0: the ISA gives none) and whether its
\* mnemonic can be inverted, or something the range check passes over: a page
\* reference, or a macro, raw bytes or another instruction ("plain").
IsOp(o) ==
  /\ o.kind \in {"plain", "page", "branch"}
  /\ o.size \in Nat
  /\ o.range \in Nat
  /\ o.invertible \in BOOLEAN
  /\ o.target \in [kind : {"block", "absolute", "symbol", "constant"}, v : Nat]
  /\ o.kind = "branch" /\ o.invertible => o.size <= WidenedSize

\* Blocks follow one another: the flattened starts are in order.
IsPlan(p) ==
  /\ p.starts \in Seq(1 .. (Len(p.ops) + 1))
  /\ \A b, c \in DOMAIN p.starts : b <= c => p.starts[b] <= p.starts[c]
  /\ \A k \in 1 .. Len(p.ops) :
       /\ IsOp(p.ops[k])
       /\ p.ops[k].target.kind = "block" =>
            p.ops[k].target.v \in DOMAIN p.starts
       /\ p.ops[k].target.kind = "symbol" => p.ops[k].target.v \in DOMAIN SymAddr

ASSUME LayoutAssumption ==
  /\ Modes \subseteq Mode
  /\ Bases \subseteq Nat
  /\ Placements \subseteq Seq(Nat)
  /\ WidenedSize \in Nat
  /\ WidenedRange \in Nat \ {0}
  /\ MAX_LAYOUT_ITERATIONS \in Nat \ {0}
  /\ Containers \subseteq BOOLEAN
  /\ \A s \in DOMAIN SymAddr : SymAddr[s] \in Nat \cup {-1}
  /\ \A p \in Plans : Len(p.ops) \in Nat /\ IsPlan(p)

VARIABLES
  plan,       \* the plan being laid out
  mode,       \* the entry point
  base,       \* base_address
  container,  \* whether the caller passed a container
  place,      \* the block addresses a caller of lay_out_scattered chose
  pc,         \* "assign", "widen", "done" or "error"
  err,        \* the LayoutError
  iter,       \* passes completed
  k,          \* index of the loop that is running
  cur,        \* `current` of assign_addresses
  address,    \* op -> address; Len(ops) + 1 -> the end
  size,       \* op -> size
  strategy,   \* op -> EmitStrategy
  grew        \* whether this pass widened an op

layoutVars == <<plan, mode, base, container, place, pc, err, iter, k, cur,
                address, size, strategy, grew>>

\* The arguments of the call.
args == <<plan, mode, base, container, place>>

ops == plan.ops

NumOps == Len(plan.ops)

\* The initial instruction_layouts and the entry of each of the three functions.
StartLayout(p, m, b, c, pl) ==
  /\ plan = p /\ mode = m /\ base = b /\ container = c /\ place = pl
  /\ pc = "assign"
  /\ err = "none"
  /\ iter = 0
  /\ k = 1
  /\ cur = b
  /\ address = [j \in 1 .. (Len(p.ops) + 1) |-> 0]
  /\ size = [j \in 1 .. Len(p.ops) |-> p.ops[j].size]
  /\ strategy = [j \in 1 .. Len(p.ops) |-> "Normal"]
  /\ grew = FALSE

\* The same, as a step: a caller that lays out one plan after another.
BeginLayout(p, m, b, c, pl) ==
  /\ plan' = p /\ mode' = m /\ base' = b /\ container' = c /\ place' = pl
  /\ pc' = "assign"
  /\ err' = "none"
  /\ iter' = 0
  /\ k' = 1
  /\ cur' = b
  /\ address' = [j \in 1 .. (Len(p.ops) + 1) |-> 0]
  /\ size' = [j \in 1 .. Len(p.ops) |-> p.ops[j].size]
  /\ strategy' = [j \in 1 .. Len(p.ops) |-> "Normal"]
  /\ grew' = FALSE

Init ==
  \E p \in Plans, m \in Modes, b \in Bases, c \in Containers, pl \in Placements :
    /\ Len(pl) = IF m = "lay_out_scattered" THEN Len(p.starts) ELSE 0
    /\ StartLayout(p, m, b, c, pl)

-----------------------------------------------------------------------------
(* assign_addresses, and the placement loop of lay_out_scattered.          *)

\* The non-empty block that op j begins, if any.
BlocksAt(j) ==
  {b \in DOMAIN plan.starts :
     /\ plan.starts[b] = j
     /\ b + 1 \in DOMAIN plan.starts => plan.starts[b + 1] > j}

NextAddress ==
  IF mode = "lay_out_scattered" /\ BlocksAt(k) # {}
  THEN place[CHOOSE b \in BlocksAt(k) : TRUE]
  ELSE cur

assign_addresses ==
  /\ pc = "assign"
  /\ k <= NumOps
  /\ address' = [address EXCEPT ![k] = NextAddress]
  /\ cur' = NextAddress + size[k]
  /\ k' = k + 1
  /\ UNCHANGED <<args, pc, err, iter, size, strategy, grew>>

AssignEnd ==
  /\ pc = "assign"
  /\ k = NumOps + 1
  /\ address' = [address EXCEPT ![k] = cur]
  /\ pc' = "widen"
  /\ k' = 1
  /\ grew' = FALSE
  /\ UNCHANGED <<args, err, iter, cur, size, strategy>>

-----------------------------------------------------------------------------
(* widen_out_of_range.                                                     *)

block_address(b) ==
  IF mode = "lay_out_scattered" THEN place[b] ELSE address[plan.starts[b]]

ResolveError(t) ==
  CASE t.kind = "symbol" /\ ~container        -> "SymbolWithoutContainer"
    [] t.kind = "symbol" /\ container /\ SymAddr[t.v] = -1
                                                 -> "UndefinedSymbol"
    [] t.kind = "constant"                       -> "UnresolvableTarget"
    [] OTHER                                     -> "none"

resolve_target(t) ==
  CASE t.kind = "block"  -> block_address(t.v)
    [] t.kind = "symbol" -> SymAddr[t.v]
    [] OTHER             -> t.v

\* 0 stands for None.
effective_range(j) ==
  IF strategy[j] = "Normal" THEN ops[j].range ELSE WidenedRange

displacement(j) == resolve_target(ops[j].target) - address[j]

\* Mutants: the upper bound is inclusive; the lower bound is exclusive.
InRangeClosed(j) ==
  /\ displacement(j) >= - effective_range(j)
  /\ displacement(j) <= effective_range(j)

InRangeOpen(j) ==
  /\ displacement(j) > - effective_range(j)
  /\ displacement(j) < effective_range(j)

InRange(j) ==
  /\ displacement(j) >= - effective_range(j)
  /\ displacement(j) < effective_range(j)

\* The `continue`s of the loop.
PassesOver(j) ==
  \/ ops[j].kind # "branch"
  \/ ResolveError(ops[j].target) = "UndefinedSymbol"
  \/ /\ ResolveError(ops[j].target) = "none"
     /\ \/ effective_range(j) = 0
        \/ InRange(j)
        \/ /\ mode = "lay_out_for_size"
           /\ ~(strategy[j] = "Normal" /\ ops[j].invertible)

SkipOp ==
  /\ pc = "widen"
  /\ k <= NumOps
  /\ PassesOver(k)
  /\ k' = k + 1
  /\ UNCHANGED <<args, pc, err, iter, cur, address, size,
                 strategy, grew>>

WidenOp ==
  /\ pc = "widen"
  /\ k <= NumOps
  /\ ~ PassesOver(k)
  /\ ResolveError(ops[k].target) = "none"
  /\ strategy[k] = "Normal" /\ ops[k].invertible
  /\ strategy' = [strategy EXCEPT ![k] = "InvertedConditional"]
  /\ size' = [size EXCEPT ![k] = WidenedSize]
  /\ grew' = TRUE
  /\ k' = k + 1
  /\ UNCHANGED <<args, pc, err, iter, cur, address>>

\* A target that cannot be resolved, or DisplacementTooLarge.
FailOp ==
  /\ pc = "widen"
  /\ k <= NumOps
  /\ ~ PassesOver(k)
  /\ \/ ResolveError(ops[k].target) # "none"
     \/ ~(strategy[k] = "Normal" /\ ops[k].invertible)
  /\ pc' = "error"
  /\ err' = IF ResolveError(ops[k].target) # "none"
            THEN ResolveError(ops[k].target)
            ELSE "DisplacementTooLarge"
  /\ UNCHANGED <<args, iter, k, cur, address, size,
                 strategy, grew>>

\* Mutant: one pass is taken to be enough.
PassOutcomeOnePass == "done"

PassOutcome ==
  CASE ~grew                                        -> "done"
    [] grew /\ mode = "lay_out_scattered"           -> "error"
    [] /\ grew /\ mode # "lay_out_scattered"
       /\ iter + 1 = MAX_LAYOUT_ITERATIONS          -> "error"
    [] OTHER                                        -> "assign"

\* Mutant: passes are repeated, uncounted, as long as any op is widened.
PassEndUncounted ==
  /\ pc = "widen"
  /\ k = NumOps + 1
  /\ pc' = IF \E j \in 1 .. NumOps : strategy[j] # "Normal"
           THEN "assign" ELSE "done"
  /\ k' = 1
  /\ cur' = base
  /\ UNCHANGED <<args, err, iter, address, size, strategy, grew>>

\* The end of a pass: stable, another pass, or DidNotConverge.
PassEnd ==
  /\ pc = "widen"
  /\ k = NumOps + 1
  /\ pc' = PassOutcome
  /\ err' = IF PassOutcome = "error" THEN "DidNotConverge" ELSE err
  /\ iter' = iter + 1
  /\ k' = 1
  /\ cur' = base
  /\ UNCHANGED <<args, address, size, strategy, grew>>

LayoutStep ==
  assign_addresses \/ AssignEnd \/ SkipOp \/ WidenOp \/ FailOp \/ PassEnd

Returned == pc \in {"done", "error"} /\ UNCHANGED layoutVars

Next == LayoutStep \/ Returned

\* The loops run in one thread and nothing suspends them.
Spec == Init /\ [][Next]_layoutVars /\ WF_layoutVars(LayoutStep)

-----------------------------------------------------------------------------
(* Properties.                                                             *)

\* A finished layout is consistent with itself.  Its ops do not overlap and leave
\* no gap inside a block: the addresses fit the sizes the layout ended with, not
\* those of an earlier pass.  A scattered layout keeps the blocks where the caller
\* put them, in their original sizes: nothing is widened into the next hole.  And
\* a layout that is used for placement (not the size probe) puts every branch
\* within the range of the form it will be emitted in, measured between the
\* final addresses.
LayoutIsConsistent ==
  pc = "done" =>
    /\ \A j \in 1 .. NumOps :
         (mode = "lay_out_scattered" /\ BlocksAt(j + 1) # {})
           \/ address[j + 1] = address[j] + size[j]
    /\ mode = "lay_out_scattered" =>
         \A b \in DOMAIN plan.starts :
           (b \in BlocksAt(plan.starts[b]) /\ plan.starts[b] <= NumOps) =>
             /\ address[plan.starts[b]] = place[b]
             /\ \A j \in 1 .. NumOps : size[j] = ops[j].size
    /\ mode # "lay_out_for_size" =>
         \A j \in 1 .. NumOps :
           (ops[j].kind = "branch" /\ ResolveError(ops[j].target) # "UndefinedSymbol")
             => /\ ResolveError(ops[j].target) = "none"
                /\ \/ effective_range(j) = 0
                   \/ displacement(j) \in
                        (- effective_range(j)) .. (effective_range(j) - 1)

\* Widening is never undone, but for a branch inside the plan it is never
\* regretted either: in the final layout such a branch is still out of reach of
\* the short form, however much later passes moved it and its target.
NoNeedlessWidening ==
  (pc = "done" /\ mode # "lay_out_scattered") =>
    \A j \in 1 .. NumOps :
      (strategy[j] = "InvertedConditional" /\ ops[j].target.kind = "block")
        => ~(displacement(j) >= - ops[j].range /\ displacement(j) < ops[j].range)

=============================================================================
