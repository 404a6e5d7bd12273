-------------------------------- MODULE Cfg ---------------------------------
(***************************************************************************)
(* Basic blocks and control-flow edges of an instruction slice             *)
(* (mc/cfg.rs, build).  The slice is a sequence of instructions with their *)
(* addresses, sorted, without gap or overlap, as a linear sweep returns    *)
(* it.  Indices count from 1; a block holds instructions first .. last.    *)
(***************************************************************************)
EXTENDS ControlFlow, Sequences, FiniteSets

\* The slices build is called with.
SliceOK(s) ==
  /\ Len(s) \in Nat /\ DOMAIN s = 1 .. Len(s)
  /\ \A i \in DOMAIN s : /\ s[i].kind \in Kinds /\ s[i].target \in Int
                        /\ s[i].size \in Nat \ {0} /\ s[i].address \in Nat
  /\ \A i \in 1 .. Len(s) - 1 : s[i + 1].address = s[i].address + s[i].size

VARIABLES
  instructions, \* the slice
  pc,           \* "leaders", "blocks", "successors" or "done"
  index,        \* next instruction, or next block to give successors to
  leaders,      \* indices that start a block
  blocks        \* [first, last, start, end, terminator, successors]

N == Len(instructions)

\* For a given slice.
CfgInit ==
  /\ pc = IF N = 0 THEN "done" ELSE "leaders"
  /\ index = 1
  /\ leaders = IF N = 0 THEN {} ELSE {1}
  /\ blocks = <<>>

-----------------------------------------------------------------------------
(* collect_leaders                                                         *)

\* The instruction after a terminator.
LeaderAfter(i) ==
  IF is_terminator(instructions[i]) /\ i < N THEN {i + 1} ELSE {}

\* The direct target of i, when an instruction of the slice starts there.
LeaderAt(i) ==
  {j \in 1 .. N : instructions[j].address \in direct_target(instructions[i])}

CollectLeader ==
  /\ pc = "leaders"
  /\ index <= N
  /\ leaders' = leaders \cup LeaderAfter(index) \cup LeaderAt(index)
  /\ index' = index + 1
  /\ UNCHANGED <<instructions, pc, blocks>>

LeadersCollected ==
  /\ pc = "leaders"
  /\ index > N
  /\ pc' = "blocks"
  /\ UNCHANGED <<instructions, index, leaders, blocks>>

-----------------------------------------------------------------------------
(* form_blocks: one block per leader, in order.                            *)

LowestOf(S) == CHOOSE i \in S : \A j \in S : i <= j

\* A block ends at its first terminator or before the next leader.
BlockFrom(first, next) ==
  LET stops == {i \in first .. next - 1 : is_terminator(instructions[i])}
      last  == IF stops = {} THEN next - 1 ELSE LowestOf(stops)
  IN [first |-> first, last |-> last,
      start |-> instructions[first].address,
      end   |-> instructions[last].address + instructions[last].size,
      terminator |-> IF stops = {} THEN {} ELSE {instructions[last]},
      successors |-> {}]

FormBlock ==
  /\ pc = "blocks"
  /\ leaders # {}
  /\ LET first == LowestOf(leaders)
         rest  == leaders \ {first}
     IN /\ blocks' = Append(blocks,
              BlockFrom(first, IF rest = {} THEN N + 1 ELSE LowestOf(rest)))
        /\ leaders' = rest
  /\ UNCHANGED <<instructions, pc, index>>

BlocksFormed ==
  /\ pc = "blocks"
  /\ leaders = {}
  /\ pc' = "successors"
  /\ index' = 1
  /\ UNCHANGED <<instructions, leaders, blocks>>

-----------------------------------------------------------------------------
(* attach_successors.  An edge is a kind with a target: a block, an        *)
(* external address, or unknown.                                           *)

Edge(kind, where, at) == [kind |-> kind, where |-> where, at |-> at]

Indirect(kind) == Edge(kind, "Indirect", 0)

resolve(kind, address) ==
  LET at == {k \in DOMAIN blocks : blocks[k].start = address}
  IN IF at = {} THEN Edge(kind, "External", address)
     ELSE Edge(kind, "Block", LowestOf(at))

\* Mutant: a block cut short by a leader has no successor.
FallsIntoNone(block) == {}

\* A block without a terminator falls into the one at its end, if there is one.
FallsInto(block) ==
  {e \in {resolve("Fallthrough", block.end)} : e.where = "Block"}

EdgesOf(insn, end) ==
  CASE insn.kind = "Jump"            -> {resolve("Jump", insn.target)}
    [] insn.kind = "ConditionalJump" -> {resolve("BranchTaken", insn.target),
                                         resolve("Fallthrough", end)}
    [] insn.kind = "Call"            -> {resolve("Call", insn.target),
                                         resolve("Fallthrough", end)}
    [] insn.kind = "Return"          -> {}
    [] insn.kind = "IndirectJump"    -> {Indirect("Jump")}
    [] insn.kind = "IndirectCall"    -> {Indirect("Call"), resolve("Fallthrough", end)}
    [] insn.kind = "Trap"            -> {resolve("Fallthrough", end)}

AttachSuccessors ==
  LET block == blocks[index]
      edges == IF block.terminator = {} THEN FallsInto(block)
               ELSE UNION {EdgesOf(insn, block.end) : insn \in block.terminator}
  IN /\ pc = "successors"
     /\ index <= Len(blocks)
     /\ blocks' = [blocks EXCEPT ![index].successors = edges]
     /\ index' = index + 1
     /\ UNCHANGED <<instructions, pc, leaders>>

SuccessorsAttached ==
  /\ pc = "successors"
  /\ index > Len(blocks)
  /\ pc' = "done"
  /\ UNCHANGED <<instructions, index, leaders, blocks>>

CfgStep ==
  \/ CollectLeader \/ LeadersCollected
  \/ FormBlock \/ BlocksFormed
  \/ AttachSuccessors \/ SuccessorsAttached

-----------------------------------------------------------------------------
(* Properties.                                                             *)

\* Where an instruction may hand control inside the slice, by its own
\* control-flow effect.
Flow(i) ==
  {j \in 1 .. N :
     instructions[j].address \in
       direct_target(instructions[i])
       \cup (IF has_fallthrough(instructions[i])
             THEN {instructions[i].address + instructions[i].size} ELSE {})}

\* The same as the finished graph tells it.
GraphFlow(i) ==
  LET k == CHOOSE k \in DOMAIN blocks : i \in blocks[k].first .. blocks[k].last
  IN IF i < blocks[k].last THEN {i + 1}
     ELSE {blocks[e.at].first : e \in {e \in blocks[k].successors : e.where = "Block"}}

\* No instruction is lost or listed twice: the blocks cut the slice into
\* consecutive pieces, although each is cut at its first terminator and leaders
\* are found by another pass.
BlocksPartitionSlice ==
  \A i \in 1 .. N :
    \E k \in DOMAIN blocks :
      /\ i \in blocks[k].first .. blocks[k].last
      /\ \A j \in DOMAIN blocks \ {k} : i \notin blocks[j].first .. blocks[j].last

\* The graph is exactly the slice's control flow: every instruction is in one
\* block, no edge is missing (a backward analysis would miss live values) and
\* none is invented, whatever mix of branches, calls and shared targets
\* (cfg.rs, form_blocks and attach_successors).
GraphIsControlFlow ==
  pc \notin {"leaders", "blocks", "successors"} =>
    /\ BlocksPartitionSlice
    /\ \A i \in 1 .. N : GraphFlow(i) = Flow(i)
=============================================================================
