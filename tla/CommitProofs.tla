---------------------------- MODULE CommitProofs ----------------------------
(***************************************************************************)
(* The control-flow graph, the editable plan, its emission and its commit  *)
(* (mc/cfg.rs, rewrite/plan.rs, isa/aarch64/emit.rs, macro_emit.rs,        *)
(* rewrite/commit.rs), for every slice, container and sequence of edits:   *)
(* the graph is the slice's control flow, the ops of the plan stay in the  *)
(* order of the source, an overlay replaces exactly the code that was at   *)
(* its address, and the relocations of the new section fit its bytes.      *)
(*                                                                         *)
(* The argument about the commit: while no edit changes the length, the    *)
(* ops of every block lie end to end and fill the block of the graph they  *)
(* were lifted from (TileInv), through fusion, splits, redirects and       *)
(* replacements.  Each op becomes as many words as it is wide, so word k   *)
(* of the section stands for the source address k - 1 behind its base, or  *)
(* for none.                                                               *)
(***************************************************************************)
EXTENDS LiftedCommit, TLAPS, WellFoundedInduction, SequenceTheorems

-----------------------------------------------------------------------------
(* The graph and the plan.                                                 *)

\* The instructions that start a block, by what the first n instructions say.
AllLeaders(n) ==
  {j \in 1 .. N : j = 1 \/ \E i \in 1 .. n : j \in LeaderAfter(i) \cup LeaderAt(i)}

\* A finished block, but for its successors.
BlockOK(block) ==
  /\ block = [first |-> block.first, last |-> block.last, start |-> block.start,
              end |-> block.end, terminator |-> block.terminator,
              successors |-> block.successors]
  /\ block.first \in 1 .. N /\ block.last \in block.first .. N
  /\ block.start = instructions[block.first].address
  /\ block.end = instructions[block.last].address + instructions[block.last].size
  /\ block.terminator = IF is_terminator(instructions[block.last])
                        THEN {instructions[block.last]} ELSE {}
  /\ \A i \in block.first .. (block.last - 1) : ~is_terminator(instructions[i])

BlocksOK ==
  /\ Len(blocks) \in Nat /\ blocks = [k \in 1 .. Len(blocks) |-> blocks[k]]
  /\ \A k \in 1 .. Len(blocks) : BlockOK(blocks[k])
  /\ \A i, j \in 1 .. Len(blocks) : i < j => blocks[i].last < blocks[j].first

\* Where the next block starts.
NextCut == IF leaders = {} THEN N + 1 ELSE LowestOf(leaders)

\* The blocks cover the slice up to n, and the leaders in L start one.
CoveredTo(n) ==
  \A i \in 1 .. n : \E k \in 1 .. Len(blocks) : i \in blocks[k].first .. blocks[k].last

StartBlocks(L) == \A l \in L : \E k \in 1 .. Len(blocks) : blocks[k].first = l

\* The edges of block k lead where its last instruction does.
EdgesInside(E) == \A e \in E : e.where = "Block" => e.at \in 1 .. Len(blocks)

SuccessorsOK(k) ==
  /\ EdgesInside(blocks[k].successors)
  /\ {blocks[e.at].first : e \in {e \in blocks[k].successors : e.where = "Block"}}
       = Flow(blocks[k].last)

SliceInv == input \in Inputs /\ instructions = input.slice

CollectInv ==
  pc = "leaders" =>
    /\ index \in 1 .. (N + 1) /\ blocks = <<>> /\ N > 0
    /\ leaders = AllLeaders(index - 1)

FormInv ==
  pc = "blocks" =>
    /\ N > 0 /\ leaders \subseteq AllLeaders(N)
    /\ BlocksOK
    /\ \A k \in 1 .. Len(blocks) : blocks[k].last < NextCut
    /\ \A l \in AllLeaders(N) \ leaders : l < NextCut
    /\ StartBlocks(AllLeaders(N) \ leaders)
    /\ CoveredTo(NextCut - 1)

AttachInv ==
  pc \notin {"leaders", "blocks"} =>
    /\ BlocksOK /\ StartBlocks(AllLeaders(N)) /\ CoveredTo(N)
    /\ pc = "successors" =>
         /\ index \in 1 .. (Len(blocks) + 1)
         /\ \A k \in 1 .. (index - 1) : SuccessorsOK(k)
    /\ pc # "successors" => \A k \in 1 .. Len(blocks) : SuccessorsOK(k)

GInv == SliceInv /\ CollectInv /\ FormInv /\ AttachInv

-----------------------------------------------------------------------------
(* Numbers and slices.                                                     *)

LEMMA LeastElement ==
  ASSUME NEW T \in SUBSET Nat, T # {}
  PROVE  \E m \in T : \A n \in T : m <= n
<1>1. \E x \in T : \A y \in T : ~ (<<y, x>> \in OpToRel(<, Nat))
  BY NatLessThanWellFounded, WFMin
<1>2. PICK x \in T : \A y \in T : ~ (<<y, x>> \in OpToRel(<, Nat))
  BY <1>1
<1>3. \A y \in T : ~ (y < x)
  BY <1>2 DEF OpToRel
<1> QED
  BY <1>3

LEMMA LowestFacts ==
  ASSUME NEW T \in SUBSET Nat, T # {}
  PROVE  LowestOf(T) \in T /\ \A n \in T : LowestOf(T) <= n
BY LeastElement DEF LowestOf

\* A set of numbers that holds 0 and every successor of a member is all of them.
LEMMA NatInduct ==
  ASSUME NEW T \in SUBSET Nat, 0 \in T, \A n \in T : n + 1 \in T
  PROVE  T = Nat
<1> SUFFICES ASSUME Nat \ T # {} PROVE FALSE
  OBVIOUS
<1>1. PICK m \in Nat \ T : \A n \in Nat \ T : m <= n
  BY LeastElement
<1>2. m # 0 /\ m - 1 \in Nat /\ m = (m - 1) + 1 /\ ~(m <= m - 1)
  BY <1>1
<1>3. m - 1 \in T
  BY <1>1, <1>2
<1> QED
  BY <1>1, <1>2, <1>3

LEMMA SliceFacts ==
  ASSUME SliceInv
  PROVE  /\ N \in Nat /\ DOMAIN instructions = 1 .. N
         /\ \A i \in 1 .. N :
              /\ instructions[i].kind \in Kinds /\ instructions[i].target \in Int
              /\ instructions[i].size \in Nat \ {0} /\ instructions[i].address \in Nat
         /\ \A i \in 1 .. (N - 1) :
              instructions[i + 1].address = instructions[i].address + instructions[i].size
BY PlanAssumption DEF SliceInv, InputOK, SliceOK, N

\* Instructions are in the order of their addresses.
LEMMA AddressesIncrease ==
  ASSUME SliceInv, NEW i \in 1 .. N, NEW j \in 1 .. N, i < j
  PROVE  instructions[i].address + instructions[i].size <= instructions[j].address
<1> DEFINE A(m) == instructions[m].address
           S(m) == instructions[m].size
           Good == {d \in Nat : i + 1 + d <= N => A(i) + S(i) <= A(i + 1 + d)}
<1>1. /\ N \in Nat /\ i \in Nat /\ j \in Nat /\ i >= 1
      /\ \A m \in 1 .. N : A(m) \in Nat /\ S(m) \in Nat \ {0}
      /\ \A m \in 1 .. (N - 1) : A(m + 1) = A(m) + S(m)
  BY SliceFacts
<1> HIDE DEF A, S
<1>2. 0 \in Good
  BY <1>1
<1>3. ASSUME NEW d \in Good PROVE d + 1 \in Good
  <2> SUFFICES ASSUME i + 1 + (d + 1) <= N PROVE A(i) + S(i) <= A(i + 1 + (d + 1))
    OBVIOUS
  <2>1. /\ d \in Nat /\ i + 1 + d \in 1 .. (N - 1) /\ i + 1 + d \in 1 .. N
        /\ i + 1 + (d + 1) = (i + 1 + d) + 1
    BY <1>1
  <2>2. A(i) + S(i) <= A(i + 1 + d)
    BY <2>1, <1>1
  <2>3. A((i + 1 + d) + 1) = A(i + 1 + d) + S(i + 1 + d)
    BY <1>1, <2>1
  <2>4. A(i) \in Nat /\ S(i) \in Nat /\ A(i + 1 + d) \in Nat /\ S(i + 1 + d) \in Nat
    BY <1>1, <2>1
  <2> QED
    BY <2>1, <2>2, <2>3, <2>4
<1>4. Good = Nat
  <2> HIDE DEF Good
  <2>1. Good \in SUBSET Nat
    BY DEF Good
  <2> QED
    BY <1>2, <1>3, <2>1, NatInduct
<1>5. PICK d \in Nat : i + 1 + d = j
  <2>1. (j - i) - 1 \in Nat /\ i + 1 + ((j - i) - 1) = j
    BY <1>1
  <2> QED
    BY <2>1
<1>6. A(i) + S(i) <= A(i + 1 + d)
  <2>1. d \in Good
    <3> HIDE DEF Good
    <3> QED
      BY <1>4
  <2>2. i + 1 + d <= N
    BY <1>1, <1>5
  <2> QED
    BY <2>1, <2>2
<1> QED
  BY <1>5, <1>6 DEF A, S

LEMMA AddressesDiffer ==
  ASSUME SliceInv, NEW i \in 1 .. N, NEW j \in 1 .. N,
         instructions[i].address = instructions[j].address
  PROVE  i = j
<1>1. /\ instructions[i].address \in Nat /\ instructions[j].address \in Nat
      /\ instructions[i].size \in Nat \ {0} /\ instructions[j].size \in Nat \ {0}
      /\ N \in Nat
  BY SliceFacts
<1>2. CASE i < j
  BY <1>1, <1>2, AddressesIncrease
<1>3. CASE j < i
  BY <1>1, <1>3, AddressesIncrease
<1> QED
  BY <1>1, <1>2, <1>3

LEMMA LeaderFacts ==
  ASSUME SliceInv, NEW n \in Nat
  PROVE  /\ AllLeaders(n) \subseteq 1 .. N
         /\ AllLeaders(n) \in SUBSET Nat
         /\ N > 0 => 1 \in AllLeaders(n)
BY SliceFacts DEF AllLeaders

-----------------------------------------------------------------------------
(* collect_leaders                                                         *)

LEMMA StartGraph ==
  ASSUME PlanInit
  PROVE  GInv
<1>1. SliceInv
  BY DEF PlanInit, SliceInv
<1>2. N \in Nat
  BY <1>1, SliceFacts
<1>3. /\ pc = IF N = 0 THEN "done" ELSE "leaders"
      /\ index = 1 /\ blocks = <<>>
      /\ leaders = IF N = 0 THEN {} ELSE {1}
  BY DEF PlanInit, CfgInit
<1>4. CollectInv
  <2> SUFFICES ASSUME pc = "leaders"
               PROVE  /\ index \in 1 .. (N + 1) /\ blocks = <<>> /\ N > 0
                      /\ leaders = AllLeaders(index - 1)
    BY DEF CollectInv
  <2>1. N > 0 /\ leaders = {1}
    BY <1>2, <1>3
  <2>2. AllLeaders(0) = {1}
    BY <1>2, <2>1 DEF AllLeaders
  <2> QED
    BY <1>2, <1>3, <2>1, <2>2
<1>5. FormInv
  BY <1>3 DEF FormInv
<1>6. AttachInv
  <2> SUFFICES ASSUME pc \notin {"leaders", "blocks"}
               PROVE  /\ BlocksOK /\ StartBlocks(AllLeaders(N)) /\ CoveredTo(N)
                      /\ pc # "successors" /\ \A k \in 1 .. Len(blocks) : SuccessorsOK(k)
    BY DEF AttachInv
  <2>1. N = 0 /\ pc = "done"
    BY <1>3
  <2>2. Len(blocks) = 0 /\ blocks = [k \in 1 .. Len(blocks) |-> blocks[k]]
    BY <1>3
  <2>3. AllLeaders(N) = {} /\ 1 .. N = {} /\ 1 .. 0 = {}
    BY <2>1 DEF AllLeaders
  <2> QED
    BY <2>1, <2>2, <2>3 DEF BlocksOK, StartBlocks, CoveredTo
<1> QED
  BY <1>1, <1>4, <1>5, <1>6 DEF GInv

LEMMA CollectLeaderInv ==
  ASSUME GInv, CollectLeader, UNCHANGED input
  PROVE  GInv'
<1>1. /\ SliceInv /\ pc = "leaders" /\ pc' = pc /\ index <= N /\ index' = index + 1
      /\ blocks' = blocks /\ instructions' = instructions /\ input' = input
      /\ leaders' = leaders \cup LeaderAfter(index) \cup LeaderAt(index)
  BY DEF GInv, CollectLeader
<1>2. /\ index \in 1 .. (N + 1) /\ blocks = <<>> /\ N > 0
      /\ leaders = AllLeaders(index - 1) /\ N \in Nat
  BY <1>1, SliceFacts DEF GInv, CollectInv
<1>3. SliceInv' /\ N' = N
  BY <1>1 DEF SliceInv, N
<1>4. ASSUME NEW n \in Int PROVE AllLeaders(n)' = AllLeaders(n)
  BY <1>1, <1>3 DEF AllLeaders, LeaderAfter, LeaderAt
<1>5. leaders' = AllLeaders(index)
  <2>1. LeaderAfter(index) \subseteq 1 .. N /\ LeaderAt(index) \subseteq 1 .. N
    BY <1>1, <1>2 DEF LeaderAfter, LeaderAt
  <2>2. index \in 1 .. index /\ 1 .. index = 1 .. (index - 1) \cup {index}
    BY <1>1, <1>2
  <2>3. ASSUME NEW j
        PROVE  j \in leaders' <=> j \in AllLeaders(index)
    BY <1>1, <1>2, <2>1, <2>2 DEF AllLeaders
  <2> QED
    BY <2>3
<1>6. CollectInv'
  <2>1. (index + 1) - 1 = index /\ index + 1 \in 1 .. (N + 1)
    BY <1>1, <1>2
  <2>2. PICK n \in Int : n = index
    BY <1>2
  <2>3. AllLeaders(n)' = AllLeaders(n)
    BY <1>4
  <2>4. (index - 1)' = n
    BY <2>1, <2>2, <1>1
  <2>5. AllLeaders(index - 1)' = AllLeaders(n)'
    BY <2>4 DEF AllLeaders
  <2> QED
    BY <1>1, <1>2, <1>3, <1>5, <2>1, <2>2, <2>3, <2>5 DEF CollectInv
<1> QED
  BY <1>1, <1>3, <1>6 DEF GInv, FormInv, AttachInv

LEMMA LeadersCollectedInv ==
  ASSUME GInv, LeadersCollected, UNCHANGED input
  PROVE  GInv'
<1>1. /\ SliceInv /\ pc = "leaders" /\ pc' = "blocks" /\ index > N
      /\ blocks' = blocks /\ instructions' = instructions /\ input' = input
      /\ leaders' = leaders
  BY DEF GInv, LeadersCollected
<1>2. /\ index \in 1 .. (N + 1) /\ blocks = <<>> /\ N > 0
      /\ leaders = AllLeaders(index - 1) /\ N \in Nat
  BY <1>1, SliceFacts DEF GInv, CollectInv
<1>3. SliceInv' /\ N' = N
  BY <1>1 DEF SliceInv, N
<1>4. AllLeaders(N)' = AllLeaders(N)
  BY <1>1, <1>3 DEF AllLeaders, LeaderAfter, LeaderAt
<1>5. leaders = AllLeaders(N)
  <2>1. index - 1 = N
    BY <1>1, <1>2
  <2> QED
    BY <1>2, <2>1
<1>6. LowestOf(leaders) = 1 /\ leaders # {}
  <2>1. leaders \in SUBSET Nat /\ leaders \subseteq 1 .. N /\ 1 \in leaders
    BY <1>1, <1>2, <1>5, LeaderFacts
  <2>2. LowestOf(leaders) \in leaders /\ LowestOf(leaders) <= 1
    BY <2>1, LowestFacts
  <2> QED
    BY <2>1, <2>2, <1>2
<1>7. FormInv'
  <2>1. NextCut' = 1
    BY <1>1, <1>6 DEF NextCut, LowestOf
  <2>2. BlocksOK' /\ Len(blocks') = 0
    BY <1>1, <1>2 DEF BlocksOK
  <2>3. (AllLeaders(N) \ leaders)' = {}
    BY <1>1, <1>4, <1>5
  <2>4. StartBlocks(AllLeaders(N) \ leaders)' /\ CoveredTo(NextCut - 1)'
    BY <2>1, <2>3 DEF StartBlocks, CoveredTo
  <2> QED
    BY <1>1, <1>2, <1>3, <1>4, <1>5, <2>1, <2>2, <2>3, <2>4 DEF FormInv
<1> QED
  BY <1>1, <1>3, <1>7 DEF GInv, CollectInv, AttachInv
-----------------------------------------------------------------------------
(* form_blocks                                                             *)

\* Between one leader and the next there is no terminator but the last
\* instruction: the one after a terminator is a leader.
LEMMA BlockFromFacts ==
  ASSUME SliceInv, NEW first \in 1 .. N, NEW next \in 1 .. (N + 1), first < next,
         \A i \in (first + 1) .. (next - 1) : i \notin AllLeaders(N)
  PROVE  BlockOK(BlockFrom(first, next)) /\ BlockFrom(first, next).first = first
         /\ BlockFrom(first, next).last = next - 1
<1> DEFINE stops == {i \in first .. (next - 1) : is_terminator(instructions[i])}
           last  == IF stops = {} THEN next - 1 ELSE LowestOf(stops)
           block == BlockFrom(first, next)
<1>1. N \in Nat /\ first \in Nat /\ next \in Nat /\ next - 1 \in first .. N
  BY SliceFacts
<1>2. ASSUME NEW i \in stops PROVE i = next - 1
  <2>1. i \in first .. (next - 1) /\ is_terminator(instructions[i])
    OBVIOUS
  <2> SUFFICES ASSUME i # next - 1 PROVE FALSE
    OBVIOUS
  <2>2. i \in 1 .. N /\ i < N /\ i + 1 \in 1 .. N /\ i + 1 \in (first + 1) .. (next - 1)
    BY <2>1, <1>1
  <2>3. i + 1 \in LeaderAfter(i)
    BY <2>1, <2>2 DEF LeaderAfter
  <2>4. i + 1 \in AllLeaders(N)
    BY <2>2, <2>3 DEF AllLeaders
  <2> QED
    BY <2>2, <2>4
<1>3. last = next - 1
  <2>1. CASE stops = {}
    BY <2>1
  <2>2. CASE stops # {}
    <3>1. stops \in SUBSET Nat
      BY <1>1
    <3>2. LowestOf(stops) \in stops
      BY <2>2, <3>1, LowestFacts
    <3> QED
      BY <2>2, <3>2, <1>2
  <2> QED
    BY <2>1, <2>2
<1>4. block = [first |-> first, last |-> last,
               start |-> instructions[first].address,
               end   |-> instructions[last].address + instructions[last].size,
               terminator |-> IF stops = {} THEN {} ELSE {instructions[last]},
               successors |-> {}]
  BY DEF BlockFrom
<1>5. stops # {} <=> is_terminator(instructions[last])
  <2>1. next - 1 \in first .. (next - 1)
    BY <1>1
  <2> QED
    BY <2>1, <1>2, <1>3
<1>6. \A i \in first .. (last - 1) : ~is_terminator(instructions[i])
  BY <1>1, <1>2, <1>3
<1> HIDE DEF block, last, stops
<1>7. /\ block.first = first /\ block.last = last
      /\ block.start = instructions[first].address
      /\ block.end = instructions[last].address + instructions[last].size
      /\ block.terminator = IF stops = {} THEN {} ELSE {instructions[last]}
      /\ block.successors = {}
  BY <1>4
<1>8. block = [first |-> block.first, last |-> block.last, start |-> block.start,
               end |-> block.end, terminator |-> block.terminator,
               successors |-> block.successors]
  BY <1>4, <1>7
<1>9. BlockOK(block)
  BY <1>1, <1>3, <1>5, <1>6, <1>7, <1>8 DEF BlockOK
<1> QED
  BY <1>3, <1>7, <1>9 DEF block

LEMMA SeqFacts ==
  ASSUME NEW q, Len(q) \in Nat, q = [k \in 1 .. Len(q) |-> q[k]], NEW e
  PROVE  /\ Len(Append(q, e)) = Len(q) + 1
         /\ Append(q, e) = [k \in 1 .. Len(Append(q, e)) |-> Append(q, e)[k]]
         /\ \A k \in 1 .. Len(q) : Append(q, e)[k] = q[k]
         /\ Append(q, e)[Len(q) + 1] = e
<1> DEFINE S == {q[k] : k \in 1 .. Len(q)} \cup {e}
<1>1. q \in Seq(S)
  <2>1. \A k \in 1 .. Len(q) : q[k] \in S
    OBVIOUS
  <2>2. q \in [1 .. Len(q) -> S]
    <3> HIDE DEF S
    <3> QED
      BY <2>1
  <2> QED
    BY <2>2, SeqDef
<1>2. e \in S
  OBVIOUS
<1> HIDE DEF S
<1>3. /\ Append(q, e) \in Seq(S) /\ Len(Append(q, e)) = Len(q) + 1
      /\ \A k \in 1 .. Len(q) : Append(q, e)[k] = q[k]
      /\ Append(q, e)[Len(q) + 1] = e
  BY <1>1, <1>2, AppendProperties
<1>4. Append(q, e) = [k \in 1 .. Len(Append(q, e)) |-> Append(q, e)[k]]
  <2> DEFINE t == Append(q, e)
  <2>1. t \in Seq(S)
    BY <1>3
  <2> HIDE DEF t
  <2>2. t = [k \in 1 .. Len(t) |-> t[k]]
    BY <2>1
  <2> QED
    BY <2>2 DEF t
<1> QED
  BY <1>3, <1>4

\* The blocks after one more was appended.
LEMMA FormBlockInv ==
  ASSUME GInv, FormBlock, UNCHANGED input
  PROVE  GInv'
<1> DEFINE first == LowestOf(leaders)
           rest  == leaders \ {first}
           next  == IF rest = {} THEN N + 1 ELSE LowestOf(rest)
           block == BlockFrom(first, next)
           n == Len(blocks)
<1>1. /\ SliceInv /\ pc = "blocks" /\ pc' = "blocks" /\ leaders # {}
      /\ blocks' = Append(blocks, block) /\ leaders' = rest
      /\ instructions' = instructions /\ input' = input
  BY DEF GInv, FormBlock
<1>2. /\ N > 0 /\ N \in Nat /\ leaders \subseteq AllLeaders(N)
      /\ BlocksOK
      /\ NextCut = first
      /\ \A k \in 1 .. n : blocks[k].last < first
      /\ \A l \in AllLeaders(N) \ leaders : l < first
      /\ StartBlocks(AllLeaders(N) \ leaders)
      /\ CoveredTo(first - 1)
  BY <1>1, SliceFacts DEF GInv, FormInv, NextCut
<1>3. SliceInv' /\ N' = N
  BY <1>1 DEF SliceInv, N
<1>4. AllLeaders(N)' = AllLeaders(N)
  BY <1>1, <1>3 DEF AllLeaders, LeaderAfter, LeaderAt
<1>5. /\ AllLeaders(N) \subseteq 1 .. N /\ AllLeaders(N) \in SUBSET Nat
      /\ leaders \in SUBSET Nat /\ rest \in SUBSET Nat
      /\ first \in leaders /\ first \in 1 .. N /\ \A l \in leaders : first <= l
  BY <1>1, <1>2, LeaderFacts, LowestFacts
<1>6. /\ next \in 1 .. (N + 1) /\ first < next /\ \A l \in rest : next <= l
  <2>1. CASE rest = {}
    BY <2>1, <1>2, <1>5
  <2>2. CASE rest # {}
    <3>1. LowestOf(rest) \in rest /\ \A l \in rest : LowestOf(rest) <= l
      BY <2>2, <1>5, LowestFacts
    <3>2. LowestOf(rest) \in 1 .. N /\ first <= LowestOf(rest) /\ LowestOf(rest) # first
      BY <3>1, <1>2, <1>5
    <3>3. next = LowestOf(rest)
      BY <2>2
    <3> HIDE DEF next, first, rest
    <3>4. next \in 1 .. N /\ first <= next /\ next # first /\ first \in 1 .. N
      BY <3>2, <3>3, <1>5
    <3>5. next \in 1 .. (N + 1) /\ first < next
      BY <3>4, <1>2
    <3> QED
      BY <3>1, <3>3, <3>5
  <2> QED
    BY <2>1, <2>2
<1>7. NextCut' = next
  BY <1>1, <1>3 DEF NextCut, LowestOf
<1>8. AllLeaders(N) \ rest = (AllLeaders(N) \ leaders) \cup {first}
  BY <1>2, <1>5
<1> HIDE DEF next, first, rest
<1>9. /\ BlockOK(block) /\ block.first = first /\ block.last = next - 1
  <2>1. ASSUME NEW i \in (first + 1) .. (next - 1) PROVE i \notin AllLeaders(N)
    <3>1. i \in Nat /\ first < i /\ i < next
      BY <1>5, <1>6
    <3>2. i \notin rest
      BY <3>1, <1>6
    <3> QED
      BY <3>1, <3>2, <1>2, <1>5, <1>8
  <2> QED
    BY <1>1, <1>5, <1>6, <2>1, BlockFromFacts
<1> HIDE DEF block
<1>10. /\ n \in Nat /\ Len(blocks') = n + 1
       /\ blocks' = [k \in 1 .. Len(blocks') |-> blocks'[k]]
       /\ \A k \in 1 .. n : blocks'[k] = blocks[k]
       /\ blocks'[n + 1] = block
  <2>1. n \in Nat /\ blocks = [k \in 1 .. n |-> blocks[k]]
    BY <1>2 DEF BlocksOK
  <2> QED
    BY <2>1, <1>1, SeqFacts
<1>11. \A k \in 1 .. (n + 1) : k \in 1 .. n \/ k = n + 1
  BY <1>10
<1>19. n \in Nat
  BY <1>10
<1>13. BlocksOK'
  <2>1. ASSUME NEW k \in 1 .. (n + 1) PROVE BlockOK(blocks[k])'
    <3>1. BlockOK(blocks'[k])
      BY <1>2, <1>9, <1>10, <1>11 DEF BlocksOK
    <3> QED
      BY <3>1, <1>1, <1>3 DEF BlockOK
  <2>2. ASSUME NEW i \in 1 .. (n + 1), NEW j \in 1 .. (n + 1), i < j
        PROVE  blocks'[i].last < blocks'[j].first
    <3>1. i \in 1 .. n
      BY <1>19, <2>2
    <3>2. CASE j \in 1 .. n
      <4>1. blocks[i].last < blocks[j].first
        BY <3>1, <3>2, <2>2, <1>2 DEF BlocksOK
      <4> QED
        BY <3>1, <3>2, <4>1, <1>10
    <3>3. CASE j = n + 1
      <4>1. blocks'[i] = blocks[i] /\ blocks[i].last < first
        BY <3>1, <1>2, <1>10
      <4> QED
        BY <4>1, <3>3, <1>9, <1>10
    <3> QED
      BY <3>2, <3>3, <1>11
  <2> QED
    BY <2>1, <2>2, <1>10 DEF BlocksOK
<1>14. \A k \in 1 .. (n + 1) : blocks'[k].last < next
  <2> SUFFICES ASSUME NEW k \in 1 .. (n + 1) PROVE blocks'[k].last < next
    OBVIOUS
  <2>1. CASE k \in 1 .. n
    <3>1. BlockOK(blocks[k])
      BY <2>1, <1>2 DEF BlocksOK
    <3>2. blocks[k].last \in Int /\ blocks[k].last < first
      BY <2>1, <3>1, <1>2, <1>5 DEF BlockOK
    <3> QED
      BY <2>1, <3>2, <1>5, <1>6, <1>10
  <2>2. CASE k = n + 1
    BY <2>2, <1>6, <1>9, <1>10
  <2> QED
    BY <2>1, <2>2, <1>11
<1>15. StartBlocks(AllLeaders(N) \ leaders)'
  <2>1. (AllLeaders(N) \ leaders)' = (AllLeaders(N) \ leaders) \cup {first}
    BY <1>1, <1>4, <1>8
  <2>2. ASSUME NEW l \in (AllLeaders(N) \ leaders) \cup {first}
        PROVE  \E k \in 1 .. (n + 1) : blocks'[k].first = l
    <3>1. CASE l = first
      <4>1. n + 1 \in 1 .. (n + 1)
        BY <1>10
      <4> QED
        BY <3>1, <4>1, <1>9, <1>10
    <3>2. CASE l # first
      <4>1. PICK k \in 1 .. n : blocks[k].first = l
        BY <3>2, <1>2 DEF StartBlocks
      <4>2. k \in 1 .. (n + 1)
        BY <1>10
      <4> QED
        BY <4>1, <4>2, <1>10
    <3> QED
      BY <3>1, <3>2
  <2> QED
    BY <2>1, <2>2, <1>10 DEF StartBlocks
<1>16. CoveredTo(NextCut - 1)'
  <2>1. ASSUME NEW i \in 1 .. (next - 1)
        PROVE  \E k \in 1 .. (n + 1) : i \in blocks'[k].first .. blocks'[k].last
    <3>1. CASE i < first
      <4>1. i \in 1 .. (first - 1)
        BY <3>1, <1>5, <1>6
      <4>2. PICK k \in 1 .. n : i \in blocks[k].first .. blocks[k].last
        BY <4>1, <1>2 DEF CoveredTo
      <4>3. k \in 1 .. (n + 1)
        BY <1>10
      <4> QED
        BY <4>2, <4>3, <1>10
    <3>2. CASE ~(i < first)
      <4>1. i \in first .. (next - 1) /\ n + 1 \in 1 .. (n + 1)
        BY <3>2, <1>5, <1>6, <1>10
      <4> QED
        BY <4>1, <1>9, <1>10
    <3> QED
      BY <3>1, <3>2
  <2> QED
    BY <2>1, <1>7, <1>10 DEF CoveredTo
<1>17. \A l \in (AllLeaders(N) \ leaders)' : l < next
  <2>1. (AllLeaders(N) \ leaders)' = (AllLeaders(N) \ leaders) \cup {first}
    BY <1>1, <1>4, <1>8
  <2> QED
    BY <2>1, <1>2, <1>5, <1>6
<1>18. FormInv'
  <2>1. leaders' \subseteq AllLeaders(N)'
    BY <1>1, <1>2, <1>4 DEF rest
  <2> QED
    BY <1>2, <1>3, <1>7, <1>10, <1>13, <1>14, <1>15, <1>16, <1>17, <2>1 DEF FormInv
<1> QED
  BY <1>1, <1>3, <1>18 DEF GInv, CollectInv, AttachInv

LEMMA BlocksFormedInv ==
  ASSUME GInv, BlocksFormed, UNCHANGED input
  PROVE  GInv'
<1>1. /\ SliceInv /\ pc = "blocks" /\ pc' = "successors" /\ leaders = {} /\ index' = 1
      /\ blocks' = blocks /\ leaders' = leaders
      /\ instructions' = instructions /\ input' = input
  BY DEF GInv, BlocksFormed
<1>2. /\ N \in Nat /\ BlocksOK /\ NextCut = N + 1 /\ Len(blocks) \in Nat
      /\ StartBlocks(AllLeaders(N) \ leaders)
      /\ CoveredTo(NextCut - 1)
  BY <1>1, SliceFacts DEF GInv, FormInv, NextCut, BlocksOK
<1>3. SliceInv' /\ N' = N
  BY <1>1 DEF SliceInv, N
<1>4. AllLeaders(N)' = AllLeaders(N)
  BY <1>1, <1>3 DEF AllLeaders, LeaderAfter, LeaderAt
<1>5. BlocksOK'
  BY <1>1, <1>2, <1>3 DEF BlocksOK, BlockOK
<1>6. StartBlocks(AllLeaders(N))'
  <2>1. StartBlocks(AllLeaders(N))
    BY <1>1, <1>2 DEF StartBlocks
  <2> QED
    BY <2>1, <1>1, <1>4 DEF StartBlocks
<1>7. CoveredTo(N)'
  <2>1. (N + 1) - 1 = N
    BY <1>2
  <2>2. CoveredTo(N)
    BY <1>2, <2>1
  <2> QED
    BY <2>2, <1>1, <1>3 DEF CoveredTo
<1>8. AttachInv'
  <2>1. index' \in 1 .. (Len(blocks') + 1) /\ \A k \in 1 .. (index' - 1) : FALSE
    BY <1>1, <1>2
  <2> QED
    BY <1>1, <1>5, <1>6, <1>7, <2>1 DEF AttachInv
<1> QED
  BY <1>1, <1>3, <1>8 DEF GInv, CollectInv, FormInv
-----------------------------------------------------------------------------
(* attach_successors                                                       *)

\* The instructions at an address: at most one.
InsnsAt(a) == {j \in 1 .. N : instructions[j].address = a}

\* Where an edge leads inside the slice.
Into(e) == IF e.where = "Block" THEN {blocks[e.at].first} ELSE {}

\* An address where every instruction starts a block resolves to it.
LEMMA ResolveFacts ==
  ASSUME SliceInv, BlocksOK, NEW kind, NEW a \in Int,
         \A j \in InsnsAt(a) : \E k \in 1 .. Len(blocks) : blocks[k].first = j
  PROVE  Into(resolve(kind, a)) = InsnsAt(a) /\ EdgesInside({resolve(kind, a)})
<1> DEFINE at == {k \in DOMAIN blocks : blocks[k].start = a}
<1>1. /\ Len(blocks) \in Nat /\ DOMAIN blocks = 1 .. Len(blocks)
      /\ \A k \in 1 .. Len(blocks) :
           blocks[k].first \in 1 .. N
           /\ blocks[k].start = instructions[blocks[k].first].address
  BY DEF BlocksOK, BlockOK
<1>2. \A j \in InsnsAt(a) : j \in 1 .. N /\ instructions[j].address = a
  BY DEF InsnsAt
<1>3. CASE at = {}
  <2>1. InsnsAt(a) = {}
    BY <1>1, <1>2, <1>3
  <2>2. resolve(kind, a).where = "External"
    BY <1>3 DEF resolve, Edge
  <2> QED
    BY <2>1, <2>2 DEF Into, EdgesInside
<1>4. CASE at # {}
  <2> DEFINE k == LowestOf(at)
  <2>1. at \in SUBSET Nat
    BY <1>1
  <2>2. k \in at
    BY <1>4, <2>1, LowestFacts
  <2>3. resolve(kind, a).where = "Block" /\ resolve(kind, a).at = k
    BY <1>4 DEF resolve, Edge
  <2>4. k \in 1 .. Len(blocks) /\ blocks[k].start = a
    BY <2>2, <1>1
  <2> HIDE DEF k
  <2>5. blocks[k].first \in 1 .. N /\ instructions[blocks[k].first].address = a
    BY <2>4, <1>1
  <2>6. \A j \in InsnsAt(a) : j = blocks[k].first
    BY <2>5, <1>2, AddressesDiffer
  <2>7. blocks[k].first \in InsnsAt(a)
    BY <2>5 DEF InsnsAt
  <2>8. Into(resolve(kind, a)) = InsnsAt(a)
    BY <2>3, <2>6, <2>7 DEF Into
  <2> QED
    BY <2>3, <2>4, <2>8 DEF EdgesInside
<1> QED
  BY <1>3, <1>4

\* What is behind an instruction is the next one.
LEMMA InsnsBehind ==
  ASSUME SliceInv, NEW i \in 1 .. N
  PROVE  InsnsAt(instructions[i].address + instructions[i].size) =
           IF i < N THEN {i + 1} ELSE {}
<1> DEFINE a == instructions[i].address + instructions[i].size
<1>1. N \in Nat /\ a \in Nat
  BY SliceFacts
<1>2. CASE i < N
  <2>1. i + 1 \in 1 .. N /\ i \in 1 .. (N - 1)
    BY <1>1, <1>2
  <2>2. instructions[i + 1].address = a
    BY <2>1, SliceFacts
  <2>3. \A j \in 1 .. N : instructions[j].address = a => j = i + 1
    BY <2>1, <2>2, AddressesDiffer
  <2> QED
    BY <1>2, <2>1, <2>2, <2>3 DEF InsnsAt
<1>3. CASE ~(i < N)
  <2>1. ASSUME NEW j \in 1 .. N PROVE instructions[j].address # a
    <3>1. j = i \/ j < i
      BY <1>1, <1>3
    <3>2. /\ instructions[j].address \in Nat /\ instructions[j].size \in Nat \ {0}
          /\ instructions[i].address \in Nat /\ instructions[i].size \in Nat \ {0}
      BY SliceFacts
    <3>3. CASE j = i
      <4>1. instructions[i].address < a
        BY <3>2
      <4> HIDE DEF a
      <4> QED
        BY <3>2, <3>3, <4>1, <1>1
    <3>4. CASE j < i
      BY <3>2, <3>4, AddressesIncrease
    <3> QED
      BY <3>1, <3>3, <3>4
  <2> QED
    BY <1>3, <2>1 DEF InsnsAt
<1> QED
  BY <1>2, <1>3

\* Where an instruction leads: to its target and to what is behind it.
LEMMA FlowFacts ==
  ASSUME SliceInv, NEW i \in 1 .. N
  PROVE  Flow(i) =
           (IF instructions[i].kind \in Targeted
            THEN InsnsAt(instructions[i].target) ELSE {})
           \cup (IF has_fallthrough(instructions[i])
                 THEN InsnsAt(instructions[i].address + instructions[i].size) ELSE {})
BY DEF Flow, InsnsAt, direct_target
\* The edges attached to a block, as the code computes them.
EdgesFrom(block) ==
  IF block.terminator = {} THEN FallsInto(block)
  ELSE UNION {EdgesOf(insn, block.end) : insn \in block.terminator}

LEMMA BlockFacts ==
  ASSUME SliceInv, BlocksOK, NEW k \in 1 .. Len(blocks)
  PROVE  /\ blocks[k].first \in 1 .. N /\ blocks[k].last \in 1 .. N
         /\ blocks[k].first \in Nat /\ blocks[k].last \in Nat
         /\ blocks[k].first <= blocks[k].last
         /\ blocks[k].end = instructions[blocks[k].last].address + instructions[blocks[k].last].size
         /\ blocks[k].terminator = IF is_terminator(instructions[blocks[k].last])
                                   THEN {instructions[blocks[k].last]} ELSE {}
         /\ \A i \in blocks[k].first .. (blocks[k].last - 1) : ~is_terminator(instructions[i])
<1>1. BlockOK(blocks[k]) /\ N \in Nat
  BY SliceFacts DEF BlocksOK
<1>2. blocks[k].first \in 1 .. N /\ blocks[k].last \in blocks[k].first .. N
  BY <1>1 DEF BlockOK
<1>3. blocks[k].last \in 1 .. N /\ blocks[k].first <= blocks[k].last
  BY <1>1, <1>2
<1>4. blocks[k].first \in Nat /\ blocks[k].last \in Nat
  BY <1>1, <1>2, <1>3
<1> QED
  BY <1>1, <1>2, <1>3, <1>4 DEF BlockOK

\* A block follows where one ends inside the slice.
LEMMA NextBlock ==
  ASSUME SliceInv, BlocksOK, CoveredTo(N), NEW k \in 1 .. Len(blocks), blocks[k].last < N
  PROVE  \E m \in 1 .. Len(blocks) : blocks[m].first = blocks[k].last + 1
<1> DEFINE i == blocks[k].last + 1
<1>1. /\ N \in Nat /\ Len(blocks) \in Nat
      /\ \A m \in 1 .. Len(blocks) :
           /\ blocks[m].first \in Nat /\ blocks[m].last \in Nat
           /\ blocks[m].first <= blocks[m].last
      /\ \A m, n \in 1 .. Len(blocks) : m < n => blocks[m].last < blocks[n].first
  <2>1. N \in Nat
    BY SliceFacts
  <2>2. /\ Len(blocks) \in Nat
        /\ \A m, n \in 1 .. Len(blocks) : m < n => blocks[m].last < blocks[n].first
    BY DEF BlocksOK
  <2> QED
    BY <2>1, <2>2, BlockFacts
<1>2. i \in 1 .. N
  BY <1>1
<1>3. PICK m \in 1 .. Len(blocks) : i \in blocks[m].first .. blocks[m].last
  BY <1>2 DEF CoveredTo
<1>4. m # k
  BY <1>1, <1>3
<1>5. CASE m < k
  <2>1. blocks[m].last < blocks[k].first
    BY <1>1, <1>5
  <2> QED
    BY <2>1, <1>1, <1>3
<1>6. CASE k < m
  <2>1. blocks[k].last < blocks[m].first
    BY <1>1, <1>6
  <2> QED
    BY <2>1, <1>1, <1>3
<1> QED
  BY <1>1, <1>4, <1>5, <1>6

LEMMA EdgesFollowFlow ==
  ASSUME SliceInv, BlocksOK, StartBlocks(AllLeaders(N)), CoveredTo(N),
         NEW k \in 1 .. Len(blocks)
  PROVE  /\ UNION {Into(e) : e \in EdgesFrom(blocks[k])} = Flow(blocks[k].last)
         /\ EdgesInside(EdgesFrom(blocks[k]))
<1> DEFINE block == blocks[k]
           i == block.last
           insn == instructions[i]
           behind == InsnsAt(block.end)
           reached == InsnsAt(insn.target)
<1>1. /\ i \in 1 .. N /\ block.end = insn.address + insn.size
      /\ block.terminator = IF is_terminator(insn) THEN {insn} ELSE {}
      /\ N \in Nat
  <2>1. N \in Nat
    BY SliceFacts
  <2> QED
    BY <2>1, BlockFacts
<1>2. /\ insn.kind \in Kinds /\ insn.target \in Int
      /\ insn.address \in Nat /\ insn.size \in Nat
  BY <1>1, SliceFacts
<1>3. block.end \in Int
  BY <1>1, <1>2
<1>4. ASSUME NEW kind
      PROVE  Into(resolve(kind, block.end)) = behind /\ EdgesInside({resolve(kind, block.end)})
  <2>1. behind = IF i < N THEN {i + 1} ELSE {}
    BY <1>1, InsnsBehind
  <2>2. \A j \in behind : \E m \in 1 .. Len(blocks) : blocks[m].first = j
    BY <2>1, NextBlock
  <2>3. PICK a \in Int : a = block.end
    BY <1>3
  <2>4. \A j \in InsnsAt(a) : \E m \in 1 .. Len(blocks) : blocks[m].first = j
    BY <2>2, <2>3
  <2>5. Into(resolve(kind, a)) = InsnsAt(a) /\ EdgesInside({resolve(kind, a)})
    BY <2>4, ResolveFacts
  <2> QED
    BY <2>3, <2>5
<1>5. ASSUME NEW kind, insn.kind \in Targeted
      PROVE  Into(resolve(kind, insn.target)) = reached /\ EdgesInside({resolve(kind, insn.target)})
  <2>1. ASSUME NEW j \in reached PROVE \E m \in 1 .. Len(blocks) : blocks[m].first = j
    <3>1. j \in 1 .. N /\ j \in LeaderAt(i)
      BY <1>5 DEF InsnsAt, LeaderAt, direct_target
    <3>2. j \in AllLeaders(N)
      BY <3>1, <1>1 DEF AllLeaders
    <3> QED
      BY <3>2 DEF StartBlocks
  <2>2. PICK a \in Int : a = insn.target
    BY <1>2
  <2>3. \A j \in InsnsAt(a) : \E m \in 1 .. Len(blocks) : blocks[m].first = j
    BY <2>1, <2>2
  <2>4. Into(resolve(kind, a)) = InsnsAt(a) /\ EdgesInside({resolve(kind, a)})
    BY <2>3, ResolveFacts
  <2> QED
    BY <2>2, <2>4
<1>6. Flow(i) = (IF insn.kind \in Targeted THEN reached ELSE {})
                \cup (IF has_fallthrough(insn) THEN behind ELSE {})
  BY <1>1, FlowFacts
<1>7. ASSUME NEW kind PROVE Into(Indirect(kind)) = {} /\ EdgesInside({Indirect(kind)})
  BY DEF Into, Indirect, Edge, EdgesInside
<1> DEFINE edges == EdgesFrom(block)
<1>8. CASE ~is_terminator(insn)
  <2>1. edges = FallsInto(block) /\ insn.kind = "Fall"
    BY <1>1, <1>8 DEF EdgesFrom, is_terminator
  <2>2. Flow(i) = behind
    BY <2>1, <1>6 DEF has_fallthrough, Targeted
  <2> DEFINE e == resolve("Fallthrough", block.end)
  <2>3. Into(e) = behind /\ EdgesInside({e})
    BY <1>4
  <2>4. edges = {x \in {e} : x.where = "Block"}
    BY <2>1 DEF FallsInto
  <2> HIDE DEF e, behind, edges
  <2>5. UNION {Into(x) : x \in edges} = Into(e)
    BY <2>4 DEF Into
  <2>6. EdgesInside(edges)
    BY <2>3, <2>4 DEF EdgesInside
  <2> QED
    BY <2>2, <2>3, <2>5, <2>6 DEF edges
<1>9. CASE is_terminator(insn)
  <2>1. edges = EdgesOf(insn, block.end) /\ insn.kind # "Fall"
    BY <1>1, <1>9 DEF EdgesFrom, is_terminator
  <2> DEFINE to(kind) == resolve(kind, insn.target)
             on == resolve("Fallthrough", block.end)
  <2>2. Into(on) = behind /\ EdgesInside({on})
    BY <1>4
  <2>3. CASE insn.kind = "Jump"
    <3>1. edges = {to("Jump")} /\ Into(to("Jump")) = reached /\ EdgesInside({to("Jump")})
      BY <2>1, <2>3, <1>5 DEF EdgesOf, Targeted
    <3>2. Flow(i) = reached
      BY <2>3, <1>6 DEF has_fallthrough, Targeted
    <3> HIDE DEF to, reached, edges
    <3> QED
      BY <3>1, <3>2 DEF edges, EdgesInside
  <2>4. CASE insn.kind = "ConditionalJump"
    <3>1. /\ edges = {to("BranchTaken"), on} /\ Into(to("BranchTaken")) = reached
          /\ EdgesInside({to("BranchTaken")})
      BY <2>1, <2>4, <1>5 DEF EdgesOf, Targeted
    <3>2. Flow(i) = reached \cup behind
      BY <2>4, <1>6 DEF has_fallthrough, Targeted
    <3> HIDE DEF to, on, reached, behind, edges
    <3> QED
      BY <3>1, <3>2, <2>2 DEF edges, EdgesInside
  <2>5. CASE insn.kind = "Call"
    <3>1. edges = {to("Call"), on} /\ Into(to("Call")) = reached /\ EdgesInside({to("Call")})
      BY <2>1, <2>5, <1>5 DEF EdgesOf, Targeted
    <3>2. Flow(i) = reached \cup behind
      BY <2>5, <1>6 DEF has_fallthrough, Targeted
    <3> HIDE DEF to, on, reached, behind, edges
    <3> QED
      BY <3>1, <3>2, <2>2 DEF edges, EdgesInside
  <2>6. CASE insn.kind \in {"Return", "IndirectJump"}
    <3>1. edges = {} \/ edges = {Indirect("Jump")}
      BY <2>1, <2>6 DEF EdgesOf
    <3>2. Flow(i) = {}
      BY <2>6, <1>6 DEF has_fallthrough, Targeted
    <3> HIDE DEF edges
    <3> QED
      BY <3>1, <3>2, <1>7 DEF edges, EdgesInside
  <2>7. CASE insn.kind \in {"IndirectCall", "Trap"}
    <3>1. edges = {on} \/ edges = {Indirect("Call"), on}
      BY <2>1, <2>7 DEF EdgesOf
    <3>2. Flow(i) = behind
      BY <2>7, <1>6 DEF has_fallthrough, Targeted
    <3> HIDE DEF on, behind, edges
    <3> QED
      BY <3>1, <3>2, <2>2, <1>7 DEF edges, EdgesInside
  <2> QED
    BY <2>1, <2>3, <2>4, <2>5, <2>6, <2>7, <1>2 DEF Kinds, Targeted
<1> QED
  BY <1>8, <1>9

LEMMA AttachSuccessorsInv ==
  ASSUME GInv, AttachSuccessors, UNCHANGED input
  PROVE  GInv'
<1> DEFINE edges == EdgesFrom(blocks[index])
           n == Len(blocks)
<1>1. /\ SliceInv /\ pc = "successors" /\ pc' = "successors" /\ index <= n
      /\ blocks' = [blocks EXCEPT ![index].successors = edges]
      /\ index' = index + 1
      /\ instructions' = instructions /\ input' = input
  BY DEF GInv, AttachSuccessors, EdgesFrom
<1>2. /\ BlocksOK /\ StartBlocks(AllLeaders(N)) /\ CoveredTo(N)
      /\ n \in Nat /\ N \in Nat /\ index \in 1 .. n
      /\ \A k \in 1 .. (index - 1) : SuccessorsOK(k)
  BY <1>1, SliceFacts DEF GInv, AttachInv, BlocksOK
<1>3. SliceInv' /\ N' = N
  BY <1>1 DEF SliceInv, N
<1>4. AllLeaders(N)' = AllLeaders(N)
  BY <1>1, <1>3 DEF AllLeaders, LeaderAfter, LeaderAt
<1>5. UNION {Into(e) : e \in edges} = Flow(blocks[index].last) /\ EdgesInside(edges)
  BY <1>1, <1>2, EdgesFollowFlow
<1> HIDE DEF edges
<1>6. /\ Len(blocks') = n /\ blocks' = [k \in 1 .. n |-> blocks'[k]]
      /\ \A k \in 1 .. n : k # index => blocks'[k] = blocks[k]
      /\ blocks'[index] = [blocks[index] EXCEPT !.successors = edges]
  <2>1. blocks = [k \in 1 .. n |-> blocks[k]]
    BY <1>2 DEF BlocksOK
  <2>2. DOMAIN blocks' = 1 .. n /\ blocks' = [k \in 1 .. n |-> blocks'[k]]
    BY <2>1, <1>1
  <2>3. Len(blocks') = n
    BY <2>2, <1>2
  <2> QED
    BY <2>1, <2>2, <2>3, <1>1, <1>2
<1>7. \A k \in 1 .. n :
        /\ blocks'[k].first = blocks[k].first /\ blocks'[k].last = blocks[k].last
        /\ blocks'[k].start = blocks[k].start /\ blocks'[k].end = blocks[k].end
        /\ blocks'[k].terminator = blocks[k].terminator
        /\ blocks'[k] = [first |-> blocks[k].first, last |-> blocks[k].last,
                         start |-> blocks[k].start, end |-> blocks[k].end,
                         terminator |-> blocks[k].terminator,
                         successors |-> IF k = index THEN edges ELSE blocks[k].successors]
  <2> SUFFICES ASSUME NEW k \in 1 .. n
               PROVE  blocks'[k] = [first |-> blocks[k].first, last |-> blocks[k].last,
                         start |-> blocks[k].start, end |-> blocks[k].end,
                         terminator |-> blocks[k].terminator,
                         successors |-> IF k = index THEN edges ELSE blocks[k].successors]
    OBVIOUS
  <2>1. blocks[k] = [first |-> blocks[k].first, last |-> blocks[k].last,
                     start |-> blocks[k].start, end |-> blocks[k].end,
                     terminator |-> blocks[k].terminator,
                     successors |-> blocks[k].successors]
    BY <1>2 DEF BlocksOK, BlockOK
  <2> QED
    BY <2>1, <1>6
<1>8. \A k \in 1 .. n :
         /\ blocks'[k].successors = IF k = index THEN edges ELSE blocks[k].successors
         /\ blocks'[k] = [first |-> blocks'[k].first, last |-> blocks'[k].last,
                          start |-> blocks'[k].start, end |-> blocks'[k].end,
                          terminator |-> blocks'[k].terminator,
                          successors |-> blocks'[k].successors]
  <2> SUFFICES ASSUME NEW k \in 1 .. n
               PROVE  /\ blocks'[k].successors = IF k = index THEN edges ELSE blocks[k].successors
                      /\ blocks'[k] = [first |-> blocks'[k].first, last |-> blocks'[k].last,
                                       start |-> blocks'[k].start, end |-> blocks'[k].end,
                                       terminator |-> blocks'[k].terminator,
                                       successors |-> blocks'[k].successors]
    OBVIOUS
  <2> DEFINE x == [first |-> blocks[k].first, last |-> blocks[k].last,
                   start |-> blocks[k].start, end |-> blocks[k].end,
                   terminator |-> blocks[k].terminator,
                   successors |-> IF k = index THEN edges ELSE blocks[k].successors]
  <2>1. blocks'[k] = x
    BY <1>7
  <2>2. /\ x.successors = IF k = index THEN edges ELSE blocks[k].successors
        /\ x = [first |-> x.first, last |-> x.last, start |-> x.start, end |-> x.end,
                terminator |-> x.terminator, successors |-> x.successors]
    OBVIOUS
  <2> HIDE DEF x
  <2> QED
    BY <2>1, <2>2
<1>9. BlocksOK'
  <2>1. ASSUME NEW k \in 1 .. n PROVE BlockOK(blocks[k])'
    <3>1. BlockOK(blocks[k])
      BY <1>2 DEF BlocksOK
    <3>2. blocks'[k] = [first |-> blocks'[k].first, last |-> blocks'[k].last,
                        start |-> blocks'[k].start, end |-> blocks'[k].end,
                        terminator |-> blocks'[k].terminator,
                        successors |-> blocks'[k].successors]
      BY <1>8
    <3>3. /\ blocks'[k].first = blocks[k].first /\ blocks'[k].last = blocks[k].last
          /\ blocks'[k].start = blocks[k].start /\ blocks'[k].end = blocks[k].end
          /\ blocks'[k].terminator = blocks[k].terminator
      BY <1>7
    <3> QED
      BY <3>1, <3>2, <3>3, <1>1, <1>3 DEF BlockOK
  <2> QED
    BY <2>1, <1>2, <1>6, <1>7 DEF BlocksOK
<1>10. StartBlocks(AllLeaders(N))' /\ CoveredTo(N)'
  BY <1>2, <1>3, <1>4, <1>6, <1>7 DEF StartBlocks, CoveredTo
<1>11. \A i \in 1 .. N : Flow(i)' = Flow(i)
  BY <1>1, <1>3 DEF Flow
<1>12. ASSUME NEW k \in 1 .. index PROVE SuccessorsOK(k)'
  <2> DEFINE S == IF k = index THEN edges ELSE blocks[k].successors
  <2>1. k \in 1 .. n
    BY <1>2
  <2>2. /\ EdgesInside(S)
        /\ {blocks[e.at].first : e \in {e \in S : e.where = "Block"}} = Flow(blocks[k].last)
    <3>1. CASE k = index
      BY <3>1, <1>5 DEF Into
    <3>2. CASE k # index
      <4>1. k \in 1 .. (index - 1)
        BY <3>2, <1>2
      <4> QED
        BY <3>2, <4>1, <1>2 DEF SuccessorsOK
    <3> QED
      BY <3>1, <3>2
  <2>3. blocks'[k].successors = S /\ blocks'[k].last = blocks[k].last
    BY <2>1, <1>7, <1>8
  <2> HIDE DEF S
  <2>4. \A e \in S : e.where = "Block" =>
          e.at \in 1 .. n /\ blocks'[e.at].first = blocks[e.at].first
    BY <2>2, <1>7 DEF EdgesInside
  <2>5. {blocks'[e.at].first : e \in {e \in S : e.where = "Block"}} =
          {blocks[e.at].first : e \in {e \in S : e.where = "Block"}}
    BY <2>4
  <2>6. PICK i \in 1 .. N : i = blocks[k].last
    BY <2>1, <1>1, <1>2, BlockFacts
  <2>7. Flow(blocks[k].last)' = Flow(i)'
    BY <2>3, <2>6 DEF Flow
  <2>8. Flow(blocks[k].last)' = Flow(blocks[k].last)
    BY <2>6, <2>7, <1>11
  <2>9. EdgesInside(blocks[k].successors)'
    BY <2>2, <2>3, <1>6 DEF EdgesInside
  <2> QED
    BY <2>2, <2>3, <2>5, <2>8, <2>9 DEF SuccessorsOK
<1>13. AttachInv'
  <2>1. /\ index' \in 1 .. (n + 1) /\ index' - 1 = index
    BY <1>1, <1>2
  <2>2. \A k \in 1 .. (index' - 1) : SuccessorsOK(k)'
    BY <2>1, <1>12
  <2> QED
    BY <2>1, <2>2, <1>1, <1>6, <1>9, <1>10 DEF AttachInv
<1> QED
  BY <1>1, <1>3, <1>13 DEF GInv, CollectInv, FormInv

\* Nothing the graph is made of changes.
LEMMA GraphFrame ==
  ASSUME GInv, UNCHANGED <<instructions, input, blocks>>,
         \/ pc = "successors" /\ index > Len(blocks)
         \/ pc \notin {"leaders", "blocks", "successors"},
         pc' \notin {"leaders", "blocks", "successors"}
  PROVE  GInv'
<1>1. SliceInv /\ SliceInv' /\ N' = N
  BY DEF GInv, SliceInv, N
<1>2. /\ BlocksOK /\ StartBlocks(AllLeaders(N)) /\ CoveredTo(N)
      /\ \A k \in 1 .. Len(blocks) : SuccessorsOK(k)
  <2>1. CASE pc = "successors" /\ index > Len(blocks)
    <3>1. index \in 1 .. (Len(blocks) + 1) /\ Len(blocks) \in Nat
      BY <2>1 DEF GInv, AttachInv, BlocksOK
    <3>2. index - 1 = Len(blocks)
      BY <2>1, <3>1
    <3> QED
      BY <2>1, <3>2 DEF GInv, AttachInv
  <2>2. CASE pc \notin {"leaders", "blocks", "successors"}
    BY <2>2 DEF GInv, AttachInv
  <2> QED
    BY <2>1, <2>2
<1>3. BlocksOK' /\ CoveredTo(N)'
  BY <1>1, <1>2 DEF BlocksOK, BlockOK, CoveredTo
<1>4. StartBlocks(AllLeaders(N))'
  <2>1. AllLeaders(N)' = AllLeaders(N)
    BY <1>1 DEF AllLeaders, LeaderAfter, LeaderAt
  <2> QED
    BY <1>2, <2>1 DEF StartBlocks
<1>5. \A k \in 1 .. Len(blocks) : SuccessorsOK(k)'
  BY <1>1, <1>2 DEF SuccessorsOK, EdgesInside, Flow
<1>6. AttachInv'
  BY <1>3, <1>4, <1>5 DEF AttachInv
<1> QED
  BY <1>1, <1>6 DEF GInv, CollectInv, FormInv

LEMMA GraphNext ==
  ASSUME GInv, [CommitNext]_planVars
  PROVE  GInv'
<1>1. CASE CollectLeader /\ UNCHANGED input
  BY <1>1, CollectLeaderInv
<1>2. CASE LeadersCollected /\ UNCHANGED input
  BY <1>2, LeadersCollectedInv
<1>3. CASE FormBlock /\ UNCHANGED input
  BY <1>3, FormBlockInv
<1>4. CASE BlocksFormed /\ UNCHANGED input
  BY <1>4, BlocksFormedInv
<1>5. CASE AttachSuccessors /\ UNCHANGED input
  BY <1>5, AttachSuccessorsInv
<1>6. CASE SuccessorsAttached /\ UNCHANGED input
  BY <1>6, GraphFrame DEF SuccessorsAttached
<1>7. CASE Lift \/ Commit \/ EmitCopy \/ EmitGrownText \/ EmitGrownGap
  BY <1>7, GraphFrame DEF Lift, Commit, EmitCopy, EmitGrownText, EmitGrownGap, EmitGrown
<1>8. CASE Edit
  <2>1. pc = "edit" /\ UNCHANGED <<cfgVars, input>>
    BY <1>8 DEF Edit, RedirectBranch, RedirectMacro, Replace, ReplaceTerminator,
                InsertAfter, RemoveOp, OverlayBytes, Apply
  <2> QED
    BY <2>1, GraphFrame DEF cfgVars
<1>9. CASE UNCHANGED planVars
  <2>1. UNCHANGED <<instructions, pc, index, leaders, blocks, input>>
    BY <1>9 DEF planVars, cfgVars
  <2>2. SliceInv' /\ N' = N
    BY <2>1 DEF GInv, SliceInv, N
  <2>3. CollectInv'
    <3>1. AllLeaders(index - 1)' = AllLeaders(index - 1)
      BY <2>1, <2>2 DEF AllLeaders, LeaderAfter, LeaderAt
    <3> QED
      BY <2>1, <2>2, <3>1 DEF GInv, CollectInv
  <2>4. /\ AllLeaders(N)' = AllLeaders(N) /\ (BlocksOK => BlocksOK')
        /\ NextCut' = NextCut
    <3>1. AllLeaders(N)' = AllLeaders(N)
      BY <2>1, <2>2 DEF AllLeaders, LeaderAfter, LeaderAt
    <3>2. BlocksOK => BlocksOK'
      BY <2>1, <2>2 DEF BlocksOK, BlockOK
    <3>3. NextCut' = NextCut
      BY <2>1, <2>2 DEF NextCut, LowestOf
    <3> QED
      BY <3>1, <3>2, <3>3
  <2>5. FormInv'
    <3>1. /\ StartBlocks(AllLeaders(N) \ leaders) => StartBlocks(AllLeaders(N) \ leaders)'
          /\ CoveredTo(NextCut - 1) => CoveredTo(NextCut - 1)'
      BY <2>1, <2>4 DEF StartBlocks, CoveredTo
    <3> QED
      BY <2>1, <2>2, <2>4, <3>1 DEF GInv, FormInv
  <2>6. AttachInv'
    <3>1. /\ StartBlocks(AllLeaders(N)) => StartBlocks(AllLeaders(N))'
          /\ CoveredTo(N) => CoveredTo(N)'
      BY <2>1, <2>2, <2>4 DEF StartBlocks, CoveredTo
    <3>2. ASSUME NEW k PROVE SuccessorsOK(k) => SuccessorsOK(k)'
      BY <2>1, <2>2 DEF SuccessorsOK, EdgesInside, Flow
    <3> QED
      BY <2>1, <2>4, <3>1, <3>2 DEF GInv, AttachInv
  <2> QED
    BY <2>2, <2>3, <2>5, <2>6 DEF GInv
<1> QED
  BY <1>1, <1>2, <1>3, <1>4, <1>5, <1>6, <1>7, <1>8, <1>9
     DEF CommitNext, PlanStep, CfgStep, Committed

LEMMA GraphFromInv ==
  ASSUME GInv
  PROVE  GraphIsControlFlow
<1> SUFFICES ASSUME pc \notin {"leaders", "blocks", "successors"}
             PROVE  BlocksPartitionSlice /\ \A i \in 1 .. N : GraphFlow(i) = Flow(i)
  BY DEF GraphIsControlFlow
<1>1. /\ SliceInv /\ BlocksOK /\ CoveredTo(N)
      /\ \A k \in 1 .. Len(blocks) : SuccessorsOK(k)
  BY DEF GInv, AttachInv
<1>2. /\ N \in Nat /\ Len(blocks) \in Nat /\ DOMAIN blocks = 1 .. Len(blocks)
      /\ \A m, n \in 1 .. Len(blocks) : m < n => blocks[m].last < blocks[n].first
  BY <1>1, SliceFacts DEF BlocksOK
<1>3. \A m \in 1 .. Len(blocks) :
        /\ blocks[m].first \in Nat /\ blocks[m].last \in Nat
        /\ blocks[m].last \in 1 .. N /\ blocks[m].first <= blocks[m].last
  BY <1>1, BlockFacts
<1>4. BlocksPartitionSlice
  <2> SUFFICES ASSUME NEW i \in 1 .. N
               PROVE  \E k \in DOMAIN blocks :
                        /\ i \in blocks[k].first .. blocks[k].last
                        /\ \A j \in DOMAIN blocks \ {k} : i \notin blocks[j].first .. blocks[j].last
    BY DEF BlocksPartitionSlice
  <2>1. PICK k \in 1 .. Len(blocks) : i \in blocks[k].first .. blocks[k].last
    BY <1>1 DEF CoveredTo
  <2>2. ASSUME NEW j \in (1 .. Len(blocks)) \ {k} PROVE i \notin blocks[j].first .. blocks[j].last
    <3>1. CASE j < k
      <4>1. blocks[j].last < blocks[k].first
        BY <3>1, <1>2
      <4> QED
        BY <4>1, <2>1, <1>3
    <3>2. CASE k < j
      <4>1. blocks[k].last < blocks[j].first
        BY <3>2, <1>2
      <4> QED
        BY <4>1, <2>1, <1>3
    <3> QED
      BY <3>1, <3>2, <1>2
  <2> QED
    BY <2>1, <2>2, <1>2
<1>5. ASSUME NEW i \in 1 .. N PROVE GraphFlow(i) = Flow(i)
  <2> DEFINE k == CHOOSE k \in DOMAIN blocks : i \in blocks[k].first .. blocks[k].last
  <2>1. k \in 1 .. Len(blocks) /\ i \in blocks[k].first .. blocks[k].last
    BY <1>1, <1>2 DEF CoveredTo
  <2>2. GraphFlow(i) =
          IF i < blocks[k].last THEN {i + 1}
          ELSE {blocks[e.at].first : e \in {e \in blocks[k].successors : e.where = "Block"}}
    BY DEF GraphFlow
  <2> HIDE DEF k
  <2>3. CASE i < blocks[k].last
    <3>1. i \in blocks[k].first .. (blocks[k].last - 1) /\ i < N
      BY <2>1, <2>3, <1>2, <1>3
    <3>2. ~is_terminator(instructions[i])
      BY <3>1, <2>1, <1>1, BlockFacts
    <3>3. Flow(i) = InsnsAt(instructions[i].address + instructions[i].size)
      BY <3>2, <1>1, FlowFacts DEF is_terminator, has_fallthrough, Targeted
    <3>4. Flow(i) = {i + 1}
      BY <3>1, <3>3, <1>1, InsnsBehind
    <3> QED
      BY <2>2, <2>3, <3>4
  <2>4. CASE ~(i < blocks[k].last)
    <3>1. i = blocks[k].last
      BY <2>1, <2>4, <1>3
    <3> QED
      BY <2>1, <2>2, <2>4, <3>1, <1>1 DEF SuccessorsOK
  <2> QED
    BY <2>3, <2>4
<1> QED
  BY <1>4, <1>5

-----------------------------------------------------------------------------
(* The ops of a plan.                                                      *)

\* A lifted or new instruction; only the source has an address that is not -1.
\* A page is what an adrp refers to, and a word is one instruction of a container.
InsnOK(op) ==
  /\ op = [op |-> "insn", mn |-> op.mn, rd |-> op.rd, rn |-> op.rn, imm |-> op.imm,
           ref |-> op.ref, target |-> op.target, orig |-> op.orig, size |-> op.size]
  /\ op.orig \in Nat \cup {-1}
  /\ op.size \in Nat
  /\ op.ref = "page" => op.mn = "adrp"
  /\ op.ref \notin {"none", "page"} => op.mn \in {"other", "new"}
  /\ input.container => op.size = 1

\* A macro stands for two instructions of the source, in order: an adrp and the
\* one that completes it.
MacroOK(op) ==
  /\ op = [op |-> "macro", kind |-> op.kind, rd |-> op.rd, target |-> op.target,
           originals |-> op.originals]
  /\ op.originals = <<op.originals[1], op.originals[2]>>
  /\ InsnOK(op.originals[1]) /\ InsnOK(op.originals[2])
  /\ op.originals[1].orig \in Nat /\ op.originals[2].orig \in Nat
  /\ op.originals[1].orig < op.originals[2].orig
  /\ op.originals[1].mn = "adrp"
  /\ op.kind # "LoadAddress" =>
       op.kind = "AccessValue" /\ op.originals[2].mn = "ldst" /\ input.container

OpOK(op) == InsnOK(op) \/ MacroOK(op)

IsSeq(s) == Len(s) \in Nat /\ s = [k \in 1 .. Len(s) |-> s[k]]

OpsOK(s) == IsSeq(s) /\ \A k \in 1 .. Len(s) : OpOK(s[k])

Source(op) == OriginalAddresses(op) \ {-1}

\* Ops in the order of the source, and the addresses they stand for.
Ascending(s) ==
  \A i, j \in 1 .. Len(s) : i < j => \A a \in Source(s[i]), c \in Source(s[j]) : a < c

Sources(s) == UNION {Source(s[i]) : i \in 1 .. Len(s)}

PlanOK(p) ==
  /\ IsSeq(p)
  /\ \A b \in 1 .. Len(p) : OpsOK(p[b]) /\ Ascending(p[b])
  /\ \A b, d \in 1 .. Len(p) : b < d => \A a \in Sources(p[b]), c \in Sources(p[d]) : a < c

EditInv == pc = "edit" => PlanOK(plan)

LEMMA SourceFacts ==
  ASSUME NEW op, OpOK(op)
  PROVE  /\ Source(op) \subseteq Nat
         /\ op.op = "insn" => InsnOK(op) /\ Source(op) = {op.orig} \ {-1}
         /\ op.op = "macro" =>
              MacroOK(op) /\ Source(op) = {op.originals[1].orig, op.originals[2].orig}
         /\ op.op \in {"insn", "macro"}
<1>1. CASE InsnOK(op)
  <2>1. op.op = "insn" /\ op.orig \in Nat \cup {-1}
    BY <1>1 DEF InsnOK
  <2> QED
    BY <1>1, <2>1 DEF Source, OriginalAddresses
<1>2. CASE MacroOK(op)
  <2>1. op.op = "macro" /\ op.originals[1].orig \in Nat /\ op.originals[2].orig \in Nat
    BY <1>2 DEF MacroOK
  <2> QED
    BY <1>2, <2>1 DEF Source, OriginalAddresses
<1> QED
  BY <1>1, <1>2 DEF OpOK

LEMMA SeqOver ==
  ASSUME NEW s, IsSeq(s), NEW S, \A k \in 1 .. Len(s) : s[k] \in S
  PROVE  s \in Seq(S)
<1>1. s \in [1 .. Len(s) -> S]
  BY DEF IsSeq
<1> QED
  BY <1>1, SeqDef DEF IsSeq

LEMMA SeqIs ==
  ASSUME NEW S, NEW s \in Seq(S)
  PROVE  IsSeq(s)
BY DEF IsSeq

LEMMA LenOfFunction ==
  ASSUME NEW n \in Nat, NEW q, q = [k \in 1 .. n |-> q[k]]
  PROVE  IsSeq(q) /\ Len(q) = n
<1> DEFINE S == {q[k] : k \in 1 .. n}
<1>1. \A k \in 1 .. n : q[k] \in S
  OBVIOUS
<1> HIDE DEF S
<1>2. q \in [1 .. n -> S]
  BY <1>1
<1>3. q \in Seq(S)
  BY <1>2, SeqDef
<1>4. IsSeq(q)
  BY <1>3, SeqIs
<1>5. DOMAIN q = 1 .. n /\ DOMAIN q = 1 .. Len(q) /\ Len(q) \in Nat
  BY <1>2, <1>4 DEF IsSeq
<1> QED
  BY <1>4, <1>5

\* The sequence a splice makes.
Spliced(s, i, ops) == SubSeq(s, 1, i - 1) \o ops \o SubSeq(s, i + 1, Len(s))

LEMMA SplicedSeq ==
  ASSUME NEW s, IsSeq(s), NEW ops, IsSeq(ops), NEW i \in 1 .. Len(s)
  PROVE  /\ IsSeq(Spliced(s, i, ops))
         /\ Len(Spliced(s, i, ops)) = (Len(s) - 1) + Len(ops)
         /\ \A k \in 1 .. ((Len(s) - 1) + Len(ops)) :
              Spliced(s, i, ops)[k] =
                IF k < i THEN s[k]
                ELSE IF k < i + Len(ops) THEN ops[(k - i) + 1]
                ELSE s[(k - Len(ops)) + 1]
<1> DEFINE S == {s[k] : k \in 1 .. Len(s)} \cup {ops[k] : k \in 1 .. Len(ops)}
           l == SubSeq(s, 1, i - 1)
           r == SubSeq(s, i + 1, Len(s))
<1>1. Len(s) \in Nat /\ Len(ops) \in Nat /\ i \in Nat /\ i >= 1 /\ i <= Len(s)
  BY DEF IsSeq
<1>2. /\ \A k \in 1 .. Len(s) : s[k] \in S
      /\ \A k \in 1 .. Len(ops) : ops[k] \in S
  OBVIOUS
<1> HIDE DEF S
<1>3. ops \in Seq(S)
  BY <1>2, SeqOver
<1>4. /\ l \in Seq(S) /\ Len(l) = i - 1
      /\ \A k \in 1 .. (i - 1) : l[k] = s[k]
  <2>1. 1 \in Int /\ i - 1 \in Int /\ \A k \in 1 .. (i - 1) : s[k] \in S
    BY <1>1, <1>2
  <2>2. /\ l \in Seq(S) /\ Len(l) = IF 1 <= i - 1 THEN (i - 1) - 1 + 1 ELSE 0
        /\ \A k \in 1 .. ((i - 1) - 1 + 1) : l[k] = s[1 + k - 1]
    BY <2>1, SubSeqProperties
  <2> HIDE DEF l
  <2>3. Len(l) = i - 1 /\ (i - 1) - 1 + 1 = i - 1
    BY <2>2, <1>1
  <2>4. \A k \in 1 .. (i - 1) : 1 + k - 1 = k
    BY <1>1
  <2> QED
    BY <2>2, <2>3, <2>4
<1>5. /\ r \in Seq(S) /\ Len(r) = Len(s) - i
      /\ \A k \in 1 .. (Len(s) - i) : r[k] = s[i + k]
  <2>1. i + 1 \in Int /\ Len(s) \in Int /\ \A k \in (i + 1) .. Len(s) : s[k] \in S
    BY <1>1, <1>2
  <2>2. /\ r \in Seq(S) /\ Len(r) = IF i + 1 <= Len(s) THEN Len(s) - (i + 1) + 1 ELSE 0
        /\ \A k \in 1 .. (Len(s) - (i + 1) + 1) : r[k] = s[(i + 1) + k - 1]
    BY <2>1, SubSeqProperties
  <2> HIDE DEF r
  <2>3. Len(r) = Len(s) - i /\ Len(s) - (i + 1) + 1 = Len(s) - i
    BY <2>2, <1>1
  <2>4. \A k \in 1 .. (Len(s) - i) : (i + 1) + k - 1 = i + k
    BY <1>1
  <2> QED
    BY <2>2, <2>3, <2>4
<1> HIDE DEF l, r
<1> DEFINE m == l \o ops
<1>6. /\ m \in Seq(S) /\ Len(m) = (i - 1) + Len(ops)
      /\ \A k \in 1 .. ((i - 1) + Len(ops)) : m[k] = IF k <= i - 1 THEN l[k] ELSE ops[k - (i - 1)]
  <2>1. /\ l \o ops \in Seq(S) /\ Len(l \o ops) = Len(l) + Len(ops)
        /\ \A k \in 1 .. Len(l) + Len(ops) :
             (l \o ops)[k] = IF k <= Len(l) THEN l[k] ELSE ops[k - Len(l)]
    BY <1>3, <1>4, ConcatProperties
  <2> HIDE DEF m
  <2>2. /\ m \in Seq(S) /\ Len(m) = Len(l) + Len(ops)
        /\ \A k \in 1 .. Len(l) + Len(ops) : m[k] = IF k <= Len(l) THEN l[k] ELSE ops[k - Len(l)]
    BY <2>1 DEF m
  <2>3. Len(l) = i - 1
    BY <1>4
  <2> QED
    BY <2>2, <2>3, Zenon
<1> HIDE DEF m
<1>7. /\ m \o r \in Seq(S) /\ Len(m \o r) = ((i - 1) + Len(ops)) + (Len(s) - i)
      /\ \A k \in 1 .. (((i - 1) + Len(ops)) + (Len(s) - i)) :
           (m \o r)[k] = IF k <= (i - 1) + Len(ops) THEN m[k] ELSE r[k - ((i - 1) + Len(ops))]
  <2>1. /\ m \o r \in Seq(S) /\ Len(m \o r) = Len(m) + Len(r)
        /\ \A k \in 1 .. Len(m) + Len(r) :
             (m \o r)[k] = IF k <= Len(m) THEN m[k] ELSE r[k - Len(m)]
    BY <1>5, <1>6, ConcatProperties
  <2>2. Len(m) = (i - 1) + Len(ops) /\ Len(r) = Len(s) - i
    BY <1>5, <1>6
  <2> QED
    BY <2>1, <2>2, Zenon
<1>8. Spliced(s, i, ops) = m \o r
  BY DEF Spliced, l, m, r
<1> DEFINE t == m \o r
<1> HIDE DEF t
<1>9. IsSeq(t) /\ Len(t) = (Len(s) - 1) + Len(ops)
  <2>1. IsSeq(t)
    BY <1>7, SeqIs DEF t
  <2> QED
    BY <2>1, <1>7, <1>1 DEF t
<1>10. ASSUME NEW k \in 1 .. ((Len(s) - 1) + Len(ops))
       PROVE  t[k] = IF k < i THEN s[k]
                     ELSE IF k < i + Len(ops) THEN ops[(k - i) + 1]
                     ELSE s[(k - Len(ops)) + 1]
  <2>1. t[k] = IF k <= (i - 1) + Len(ops) THEN m[k] ELSE r[k - ((i - 1) + Len(ops))]
    <3>1. ((i - 1) + Len(ops)) + (Len(s) - i) = (Len(s) - 1) + Len(ops)
      BY <1>1
    <3>2. k \in 1 .. (((i - 1) + Len(ops)) + (Len(s) - i))
      BY <3>1
    <3> QED
      BY ZenonT(30), <3>2, <1>7 DEF t
  <2>2. CASE k < i
    <3>1. /\ k <= (i - 1) + Len(ops) /\ k \in 1 .. ((i - 1) + Len(ops))
          /\ k <= i - 1 /\ k \in 1 .. (i - 1)
      BY <2>2, <1>1
    <3> QED
      BY <2>1, <2>2, <3>1, <1>6, <1>4
  <2>3. CASE ~(k < i) /\ k < i + Len(ops)
    <3>1. /\ k <= (i - 1) + Len(ops) /\ k \in 1 .. ((i - 1) + Len(ops)) /\ ~(k <= i - 1)
          /\ k - (i - 1) = (k - i) + 1
      BY <2>3, <1>1
    <3> QED
      BY <2>1, <2>3, <3>1, <1>6
  <2>4. CASE ~(k < i) /\ ~(k < i + Len(ops))
    <3>1. /\ ~(k <= (i - 1) + Len(ops)) /\ k - ((i - 1) + Len(ops)) \in 1 .. (Len(s) - i)
          /\ i + (k - ((i - 1) + Len(ops))) = (k - Len(ops)) + 1
      BY <2>4, <1>1
    <3> QED
      BY <2>1, <2>4, <3>1, <1>5
  <2> QED
    BY <2>2, <2>3, <2>4
<1> QED
  BY <1>8, <1>9, <1>10 DEF t

\* Ops that stand for no more than the op they replace, in its order.
LEMMA SplicedOps ==
  ASSUME NEW s, OpsOK(s), Ascending(s), NEW i \in 1 .. Len(s),
         NEW ops, OpsOK(ops), Ascending(ops), Sources(ops) \subseteq Source(s[i])
  PROVE  /\ OpsOK(Spliced(s, i, ops)) /\ Ascending(Spliced(s, i, ops))
         /\ Sources(Spliced(s, i, ops)) \subseteq Sources(s)
<1> DEFINE t == Spliced(s, i, ops)
           L == Len(ops)
           from(k) == IF k < i THEN k ELSE IF k < i + L THEN i ELSE (k - L) + 1
<1>1. /\ IsSeq(s) /\ IsSeq(ops) /\ Len(s) \in Nat /\ L \in Nat /\ i \in Nat
      /\ \A k \in 1 .. Len(s) : OpOK(s[k])
      /\ \A k \in 1 .. L : OpOK(ops[k])
  BY DEF OpsOK, IsSeq
<1>2. /\ IsSeq(t) /\ Len(t) = (Len(s) - 1) + L
      /\ \A k \in 1 .. ((Len(s) - 1) + L) :
           t[k] = IF k < i THEN s[k] ELSE IF k < i + L THEN ops[(k - i) + 1] ELSE s[(k - L) + 1]
  BY <1>1, SplicedSeq
<1>3. \A k \in 1 .. L : Source(ops[k]) \subseteq Source(s[i])
  BY DEF Sources
<1> HIDE DEF t, L
<1>4. ASSUME NEW k \in 1 .. Len(t)
      PROVE  /\ OpOK(t[k]) /\ from(k) \in 1 .. Len(s) /\ Source(t[k]) \subseteq Source(s[from(k)])
             /\ (i <= k /\ k < i + L) => (k - i) + 1 \in 1 .. L /\ t[k] = ops[(k - i) + 1]
  <2>1. CASE k < i
    <3>1. k \in 1 .. Len(s) /\ from(k) = k /\ ~(i <= k)
      BY <2>1, <1>1, <1>2
    <3>2. t[k] = s[k]
      BY <2>1, <1>2
    <3> QED
      BY <3>1, <3>2, <1>1
  <2>2. CASE i <= k /\ k < i + L
    <3>1. (k - i) + 1 \in 1 .. L /\ from(k) = i /\ ~(k < i)
      BY <2>2, <1>1, <1>2
    <3>2. t[k] = ops[(k - i) + 1]
      BY <2>2, <3>1, <1>2
    <3> QED
      BY <3>1, <3>2, <1>1, <1>3
  <2>3. CASE ~(k < i) /\ ~(k < i + L)
    <3>1. (k - L) + 1 \in 1 .. Len(s) /\ from(k) = (k - L) + 1
      BY <2>3, <1>1, <1>2
    <3>2. t[k] = s[(k - L) + 1]
      BY <2>3, <1>2
    <3> QED
      BY <2>3, <3>1, <3>2, <1>1
  <2> QED
    BY <2>1, <2>2, <2>3, <1>1, <1>2
<1>5. OpsOK(t)
  BY <1>2, <1>4 DEF OpsOK
<1>6. Sources(t) \subseteq Sources(s)
  <2> SUFFICES ASSUME NEW k \in 1 .. Len(t), NEW a \in Source(t[k]) PROVE a \in Sources(s)
    BY DEF Sources
  <2>1. from(k) \in 1 .. Len(s) /\ a \in Source(s[from(k)])
    BY <1>4
  <2> HIDE DEF from
  <2> QED
    BY <2>1 DEF Sources
<1>7. ASSUME NEW j \in 1 .. Len(t), NEW k \in 1 .. Len(t), j < k,
             NEW a \in Source(t[j]), NEW c \in Source(t[k])
      PROVE  a < c
  <2>1. /\ a \in Source(s[from(j)]) /\ c \in Source(s[from(k)])
        /\ from(j) \in 1 .. Len(s) /\ from(k) \in 1 .. Len(s)
    BY <1>4
  <2>2. CASE from(j) < from(k)
    <3> HIDE DEF from
    <3> QED
      BY <2>1, <2>2 DEF Ascending
  <2>3. CASE ~(from(j) < from(k))
    <3>1. i <= j /\ j < i + L /\ i <= k /\ k < i + L
      BY <2>3, <1>1, <1>2, <1>7
    <3>2. /\ t[j] = ops[(j - i) + 1] /\ t[k] = ops[(k - i) + 1]
          /\ (j - i) + 1 \in 1 .. L /\ (k - i) + 1 \in 1 .. L
      BY <3>1, <1>4
    <3>3. (j - i) + 1 < (k - i) + 1
      BY <1>1, <1>2, <1>7
    <3> QED
      BY <3>2, <3>3 DEF Ascending, L
  <2> QED
    BY <2>2, <2>3
<1>8. Ascending(t)
  BY <1>7 DEF Ascending
<1> QED
  BY <1>5, <1>6, <1>8 DEF t

LEMMA PlanUpdate ==
  ASSUME NEW p, PlanOK(p), NEW b \in 1 .. Len(p),
         NEW s, OpsOK(s), Ascending(s), Sources(s) \subseteq Sources(p[b])
  PROVE  PlanOK([p EXCEPT ![b] = s])
<1> DEFINE q == [p EXCEPT ![b] = s]
<1>1. Len(p) \in Nat /\ p = [k \in 1 .. Len(p) |-> p[k]]
  BY DEF PlanOK, IsSeq
<1>2. /\ q = [k \in 1 .. Len(p) |-> q[k]]
      /\ \A d \in 1 .. Len(p) : q[d] = IF d = b THEN s ELSE p[d]
  BY <1>1
<1> HIDE DEF q
<1>3. IsSeq(q) /\ Len(q) = Len(p)
  BY <1>1, <1>2, LenOfFunction
<1>4. \A d \in 1 .. Len(p) : OpsOK(q[d]) /\ Ascending(q[d]) /\ Sources(q[d]) \subseteq Sources(p[d])
  <2> TAKE d \in 1 .. Len(p)
  <2>1. CASE d = b
    BY <1>2, <2>1
  <2>2. CASE d # b
    <3>1. q[d] = p[d]
      BY <1>2, <2>2
    <3> QED
      BY <3>1 DEF PlanOK
  <2> QED
    BY <2>1, <2>2
<1>5. \A c, d \in 1 .. Len(p) : c < d => \A x \in Sources(q[c]), y \in Sources(q[d]) : x < y
  <2> TAKE c, d \in 1 .. Len(p)
  <2>1. Sources(q[c]) \subseteq Sources(p[c]) /\ Sources(q[d]) \subseteq Sources(p[d])
    BY <1>4
  <2> QED
    BY <2>1 DEF PlanOK
<1>6. PlanOK(q)
  BY <1>3, <1>4, <1>5 DEF PlanOK
<1> QED
  BY <1>6 DEF q

\* Where an op can be.
LEMMA PlaceFacts ==
  ASSUME NEW p, PlanOK(p), NEW x \in Places(p)
  PROVE  /\ x[1] \in 1 .. Len(p) /\ x[2] \in 1 .. Len(p[x[1]])
         /\ OpOK(OpAt(p, x)) /\ OpsOK(p[x[1]]) /\ Ascending(p[x[1]])
<1>1. PICK b \in DOMAIN p : x \in {<<b, i>> : i \in DOMAIN p[b]}
  BY DEF Places
<1>2. PICK i \in DOMAIN p[b] : x = <<b, i>>
  BY <1>1
<1>3. DOMAIN p = 1 .. Len(p)
  BY DEF PlanOK, IsSeq
<1>4. b \in 1 .. Len(p)
  BY <1>3
<1>5. OpsOK(p[b]) /\ Ascending(p[b])
  BY <1>4 DEF PlanOK
<1>6. DOMAIN p[b] = 1 .. Len(p[b])
  BY <1>5 DEF OpsOK, IsSeq
<1>7. i \in 1 .. Len(p[b])
  BY <1>6
<1>8. OpOK(p[b][i])
  BY <1>5, <1>7 DEF OpsOK
<1>9. x[1] = b /\ x[2] = i
  BY <1>2
<1> QED
  BY <1>4, <1>5, <1>7, <1>8, <1>9 DEF OpAt

\* A splice that adds no source address keeps the order.
LEMMA SpliceKeeps ==
  ASSUME NEW p, PlanOK(p), NEW x \in Places(p),
         NEW ops, OpsOK(ops), Ascending(ops), Sources(ops) \subseteq Source(OpAt(p, x))
  PROVE  PlanOK(Splice(p, x, ops))
<1>1. /\ x[1] \in 1 .. Len(p) /\ x[2] \in 1 .. Len(p[x[1]])
      /\ OpsOK(p[x[1]]) /\ Ascending(p[x[1]])
  BY PlaceFacts
<1> DEFINE s == p[x[1]]
           t == Spliced(s, x[2], ops)
<1>2. Sources(ops) \subseteq Source(s[x[2]])
  BY DEF OpAt
<1>3. OpsOK(t) /\ Ascending(t) /\ Sources(t) \subseteq Sources(s)
  <2> HIDE DEF s
  <2>1. OpsOK(s) /\ Ascending(s) /\ x[2] \in 1 .. Len(s)
    BY <1>1 DEF s
  <2> QED
    BY <2>1, <1>2, SplicedOps
<1>4. p = [k \in 1 .. Len(p) |-> p[k]]
  BY DEF PlanOK, IsSeq
<1>5. Splice(p, x, ops) = [p EXCEPT ![x[1]] = t]
  BY <1>1, <1>4 DEF Splice, Spliced
<1>6. OpsOK(t) /\ Ascending(t) /\ Sources(t) \subseteq Sources(p[x[1]])
  BY <1>3
<1> HIDE DEF t, s
<1>7. PlanOK([p EXCEPT ![x[1]] = t])
  BY <1>1, <1>6, PlanUpdate
<1> QED
  BY <1>5, <1>7

LEMMA PairSeq ==
  ASSUME NEW u, NEW v
  PROVE  /\ IsSeq(<<>>) /\ Len(<<>>) = 0
         /\ IsSeq(<<u>>) /\ Len(<<u>>) = 1 /\ <<u>>[1] = u
         /\ IsSeq(<<u, v>>) /\ Len(<<u, v>>) = 2 /\ <<u, v>>[1] = u /\ <<u, v>>[2] = v
<1>1. <<>> \in Seq({u, v}) /\ <<u>> \in Seq({u, v}) /\ <<u, v>> \in Seq({u, v})
  OBVIOUS
<1>2. IsSeq(<<>>) /\ IsSeq(<<u>>) /\ IsSeq(<<u, v>>)
  BY <1>1, SeqIs
<1> QED
  BY <1>2

\* The sequences of ops an edit puts in.
LEMMA ShortOps ==
  ASSUME NEW u, OpOK(u), NEW v, OpOK(v)
  PROVE  /\ OpsOK(<<>>) /\ Ascending(<<>>) /\ Sources(<<>>) = {}
         /\ OpsOK(<<u>>) /\ Ascending(<<u>>) /\ Sources(<<u>>) = Source(u)
         /\ OpsOK(<<u, v>>) /\ Sources(<<u, v>>) = Source(u) \cup Source(v)
         /\ (\A a \in Source(u), c \in Source(v) : a < c) => Ascending(<<u, v>>)
<1>1. /\ IsSeq(<<>>) /\ Len(<<>>) = 0
      /\ IsSeq(<<u>>) /\ Len(<<u>>) = 1 /\ <<u>>[1] = u
      /\ IsSeq(<<u, v>>) /\ Len(<<u, v>>) = 2 /\ <<u, v>>[1] = u /\ <<u, v>>[2] = v
  BY PairSeq
<1>2. 1 .. 0 = {} /\ 1 .. 1 = {1} /\ 1 .. 2 = {1, 2} /\ ~(1 < 1) /\ ~(2 < 1) /\ ~(2 < 2)
  OBVIOUS
<1>3. OpsOK(<<>>) /\ Ascending(<<>>) /\ Sources(<<>>) = {}
  BY <1>1, <1>2 DEF OpsOK, Ascending, Sources
<1> DEFINE one == <<u>>
           two == <<u, v>>
<1>4. /\ IsSeq(one) /\ Len(one) = 1 /\ one[1] = u
      /\ IsSeq(two) /\ Len(two) = 2 /\ two[1] = u /\ two[2] = v
  BY <1>1
<1> HIDE DEF one, two
<1>5. OpsOK(one) /\ Ascending(one) /\ Sources(one) = Source(u)
  BY <1>2, <1>4 DEF OpsOK, Ascending, Sources
<1>6. OpsOK(two) /\ Sources(two) = Source(u) \cup Source(v)
  <2>1. OpsOK(two)
    BY <1>2, <1>4 DEF OpsOK
  <2>2. Sources(two) = Source(u) \cup Source(v)
    BY <1>2, <1>4 DEF Sources
  <2> QED
    BY <2>1, <2>2
<1>7. ASSUME \A a \in Source(u), c \in Source(v) : a < c
      PROVE  Ascending(two)
  BY <1>2, <1>4, <1>7 DEF Ascending
<1> QED
  BY <1>3, <1>5, <1>6, <1>7 DEF one, two

LEMMA NewInsnFacts ==
  ASSUME NEW ref \in {"none", "branch"}, NEW t
  PROVE  OpOK(NewInsn(ref, t)) /\ Source(NewInsn(ref, t)) = {}
<1>1. InsnOK(NewInsn(ref, t))
  BY DEF InsnOK, NewInsn
<1>2. NewInsn(ref, t).op = "insn" /\ NewInsn(ref, t).orig = -1
  BY DEF NewInsn
<1> QED
  BY <1>1, <1>2 DEF OpOK, Source, OriginalAddresses

-----------------------------------------------------------------------------
(* The edits, one by one.                                                  *)

\* A new target leaves an op's addresses alone.
LEMMA RetargetedOpOK ==
  ASSUME NEW e, OpOK(e), NEW t
  PROVE  OpOK([e EXCEPT !.target = t]) /\ Source([e EXCEPT !.target = t]) = Source(e)
<1> DEFINE o == [e EXCEPT !.target = t]
<1> SUFFICES OpOK(o) /\ Source(o) = Source(e)
  OBVIOUS
<1>1. CASE InsnOK(e)
  <2>1. e = [op |-> "insn", mn |-> e.mn, rd |-> e.rd, rn |-> e.rn, imm |-> e.imm,
             ref |-> e.ref, target |-> e.target, orig |-> e.orig, size |-> e.size]
        /\ InsnOK(e)
    BY <1>1 DEF InsnOK
  <2>2. o = [op |-> "insn", mn |-> e.mn, rd |-> e.rd, rn |-> e.rn, imm |-> e.imm,
             ref |-> e.ref, target |-> t, orig |-> e.orig, size |-> e.size]
    BY <2>1
  <2> HIDE DEF o
  <2>3. InsnOK(o) /\ o.op = "insn" /\ o.orig = e.orig
    BY <2>1, <2>2 DEF InsnOK
  <2>4. e.op = "insn"
    BY <2>1
  <2> QED
    BY <2>3, <2>4 DEF OpOK, Source, OriginalAddresses
<1>2. CASE MacroOK(e)
  <2>1. /\ e = [op |-> "macro", kind |-> e.kind, rd |-> e.rd, target |-> e.target,
                originals |-> e.originals]
        /\ MacroOK(e)
    BY <1>2 DEF MacroOK
  <2>2. o = [op |-> "macro", kind |-> e.kind, rd |-> e.rd, target |-> t,
             originals |-> e.originals]
    BY <2>1
  <2> HIDE DEF o
  <2>3. /\ o = [op |-> "macro", kind |-> o.kind, rd |-> o.rd, target |-> o.target,
                originals |-> o.originals]
        /\ o.op = "macro" /\ o.originals = e.originals /\ o.kind = e.kind
    BY <2>2
  <2>4. MacroOK(o)
    BY <2>1, <2>3 DEF MacroOK
  <2>5. e.op = "macro"
    BY <2>1
  <2> QED
    BY <2>3, <2>4, <2>5 DEF OpOK, Source, OriginalAddresses
<1> QED
  BY <1>1, <1>2 DEF OpOK

LEMMA RetargetKeeps ==
  ASSUME NEW p, PlanOK(p), NEW x \in Places(p), NEW t
  PROVE  PlanOK(Retarget(p, x, t))
<1> DEFINE s == p[x[1]]
           i == x[2]
           r == [s EXCEPT ![i].target = t]
<1>1. /\ x[1] \in 1 .. Len(p) /\ i \in 1 .. Len(s)
      /\ OpOK(s[i]) /\ OpsOK(s) /\ Ascending(s)
  BY PlaceFacts DEF OpAt
<1>2. p = [k \in 1 .. Len(p) |-> p[k]]
  BY DEF PlanOK, IsSeq
<1>3. Retarget(p, x, t) = [p EXCEPT ![x[1]] = r]
  BY <1>1, <1>2 DEF Retarget
<1> HIDE DEF s, i
<1>4. /\ Len(s) \in Nat /\ s = [k \in 1 .. Len(s) |-> s[k]]
      /\ \A k \in 1 .. Len(s) : OpOK(s[k])
  BY <1>1 DEF OpsOK, IsSeq
<1> DEFINE o == [s[i] EXCEPT !.target = t]
<1>5. OpOK(o) /\ Source(o) = Source(s[i])
  BY <1>1, RetargetedOpOK
<1>6. /\ r = [k \in 1 .. Len(s) |-> r[k]]
      /\ \A k \in 1 .. Len(s) : r[k] = IF k = i THEN o ELSE s[k]
  BY <1>1, <1>4
<1> HIDE DEF r, o
<1>7. IsSeq(r) /\ Len(r) = Len(s)
  BY <1>4, <1>6, LenOfFunction
<1>8. \A k \in 1 .. Len(s) : OpOK(r[k]) /\ Source(r[k]) = Source(s[k])
  <2> TAKE k \in 1 .. Len(s)
  <2>1. CASE k = i
    BY <2>1, <1>5, <1>6
  <2>2. CASE k # i
    BY <2>2, <1>4, <1>6
  <2> QED
    BY <2>1, <2>2
<1>9. OpsOK(r) /\ Ascending(r) /\ Sources(r) = Sources(s)
  <2>1. OpsOK(r)
    BY <1>7, <1>8 DEF OpsOK
  <2>2. Ascending(r)
    BY <1>1, <1>7, <1>8 DEF Ascending
  <2>3. Sources(r) = Sources(s)
    BY <1>7, <1>8 DEF Sources
  <2> QED
    BY <2>1, <2>2, <2>3
<1>10. PlanOK([p EXCEPT ![x[1]] = r])
  <2>1. Sources(r) \subseteq Sources(p[x[1]])
    BY <1>9 DEF s
  <2> QED
    BY <1>1, <1>9, <2>1, PlanUpdate
<1> QED
  BY <1>3, <1>10 DEF r

LEMMA LocateFacts ==
  ASSUME NEW p, NEW a, NEW x \in locate(p, a)
  PROVE  x \in Places(p)
BY DEF locate

LEMMA UnfuseKeeps ==
  ASSUME NEW p, PlanOK(p), NEW a
  PROVE  PlanOK(unfuse_macro_at(p, a))
<1> DEFINE begins == {x \in locate(p, a) :
                        OpAt(p, x).op = "macro" /\ OpAt(p, x).originals[1].orig = a}
<1>1. CASE begins = {}
  BY <1>1 DEF unfuse_macro_at
<1>2. CASE begins # {}
  <2> DEFINE x == CHOOSE x \in begins : TRUE
  <2>1. x \in begins
    BY <1>2
  <2>2. unfuse_macro_at(p, a) = Splice(p, x, OpAt(p, x).originals)
    BY <1>2 DEF unfuse_macro_at
  <2>3. x \in Places(p) /\ OpAt(p, x).op = "macro"
    BY <2>1, LocateFacts
  <2> HIDE DEF x, begins
  <2> DEFINE m == OpAt(p, x)
  <2>4. OpOK(m) /\ m.op = "macro"
    BY <2>3, PlaceFacts
  <2> HIDE DEF m
  <2>5. MacroOK(m) /\ Source(m) = {m.originals[1].orig, m.originals[2].orig}
    BY <2>4, SourceFacts
  <2> DEFINE u == m.originals[1]
             v == m.originals[2]
  <2>6. /\ OpOK(u) /\ OpOK(v) /\ m.originals = <<u, v>> /\ u.orig < v.orig
        /\ InsnOK(u) /\ InsnOK(v) /\ u.orig \in Nat /\ v.orig \in Nat
    BY <2>5 DEF MacroOK, OpOK
  <2> HIDE DEF u, v
  <2>7. u.op = "insn" /\ v.op = "insn"
    BY <2>6 DEF InsnOK
  <2>8. Source(u) = {u.orig} /\ Source(v) = {v.orig}
    BY <2>6, <2>7 DEF Source, OriginalAddresses
  <2>9. OpsOK(<<u, v>>) /\ Ascending(<<u, v>>) /\ Sources(<<u, v>>) = {u.orig, v.orig}
    <3>1. \A i \in Source(u), k \in Source(v) : i < k
      BY <2>6, <2>8
    <3>2. OpsOK(<<u, v>>) /\ Ascending(<<u, v>>) /\ Sources(<<u, v>>) = Source(u) \cup Source(v)
      BY <2>6, <3>1, ShortOps
    <3> QED
      BY <3>2, <2>8
  <2>10. Sources(m.originals) \subseteq Source(m) /\ OpsOK(m.originals) /\ Ascending(m.originals)
    BY <2>5, <2>6, <2>9 DEF u, v
  <2>11. PlanOK(Splice(p, x, m.originals))
    BY <2>3, <2>10, SpliceKeeps DEF m
  <2> QED
    BY <2>2, <2>11 DEF m
<1> QED
  BY <1>1, <1>2

LEMMA ConcatSingletons ==
  ASSUME NEW u, NEW v
  PROVE  <<u>> \o <<v>> = <<u, v>>
<1> DEFINE S == {u, v}
           t == <<u>> \o <<v>>
           two == <<u, v>>
<1>1. <<u>> \in Seq(S) /\ <<v>> \in Seq(S) /\ two \in Seq(S)
  OBVIOUS
<1>2. /\ Len(<<u>>) = 1 /\ Len(<<v>>) = 1 /\ <<u>>[1] = u /\ <<v>>[1] = v
      /\ Len(two) = 2 /\ two[1] = u /\ two[2] = v
  OBVIOUS
<1>3. /\ t \in Seq(S) /\ Len(t) = Len(<<u>>) + Len(<<v>>)
      /\ \A k \in 1 .. Len(<<u>>) + Len(<<v>>) :
           t[k] = IF k <= Len(<<u>>) THEN <<u>>[k] ELSE <<v>>[k - Len(<<u>>)]
  <2> HIDE DEF S
  <2> QED
    BY <1>1, ConcatProperties
<1> HIDE DEF S, t, two
<1>4. Len(t) = 2 /\ t[1] = u /\ t[2] = v
  BY <1>2, <1>3
<1>5. t = two
  <2>1. Len(t) = Len(two) /\ \A k \in 1 .. Len(t) : t[k] = two[k]
    <3>1. 1 .. 2 = {1, 2}
      OBVIOUS
    <3> QED
      BY <3>1, <1>2, <1>4
  <2> QED
    BY <2>1, <1>1, <1>3, SeqEqual
<1> QED
  BY <1>5 DEF t, two

\* What the edits make of a plan, whether they succeed or not.
LEMMA RedirectKeeps ==
  ASSUME NEW p, PlanOK(p), NEW a, NEW t
  PROVE  /\ PlanOK(redirect_branch(p, a, t).plan)
         /\ PlanOK(redirect_macro_target(p, a, t).plan)
<1> DEFINE x == locate(p, a)
           y == CHOOSE y \in x : TRUE
<1>1. /\ redirect_branch(p, a, t).plan \in {p, Retarget(p, y, t)}
      /\ redirect_macro_target(p, a, t).plan \in {p, Retarget(p, y, t)}
      /\ x = {} => redirect_branch(p, a, t).plan = p /\ redirect_macro_target(p, a, t).plan = p
  <2>1. \A q, e : Ok(q).plan = q /\ Err(q, e).plan = q
    BY DEF Ok, Err
  <2> QED
    BY <2>1 DEF redirect_branch, redirect_macro_target
<1>2. CASE x = {}
  BY <1>1, <1>2
<1>3. CASE x # {}
  <2>1. y \in Places(p)
    BY <1>3, LocateFacts
  <2> HIDE DEF y, x
  <2>2. PlanOK(Retarget(p, y, t))
    BY <2>1, RetargetKeeps
  <2> QED
    BY <1>1, <2>2
<1> QED
  BY <1>2, <1>3

LEMMA ReplaceKeeps ==
  ASSUME NEW p, PlanOK(p), NEW a, NEW ref \in {"none", "branch"}, NEW t
  PROVE  PlanOK(replace_instruction_at(p, a, NewInsn(ref, t)).plan)
<1> DEFINE q == unfuse_macro_at(p, a)
           x == {y \in locate(q, a) : OpAt(q, y).op = "insn"}
           z == CHOOSE y \in x : TRUE
           insn == NewInsn(ref, t)
<1>1. PlanOK(q)
  BY UnfuseKeeps
<1> HIDE DEF q
<1>2. replace_instruction_at(p, a, insn).plan = IF x = {} THEN q ELSE Splice(q, z, <<insn>>)
  BY DEF replace_instruction_at, Ok, Err, q
<1>3. CASE x # {}
  <2>1. z \in Places(q)
    BY <1>3, LocateFacts
  <2> HIDE DEF z, x
  <2>2. OpOK(insn) /\ Source(insn) = {}
    BY NewInsnFacts
  <2> HIDE DEF insn
  <2>3. OpsOK(<<insn>>) /\ Ascending(<<insn>>) /\ Sources(<<insn>>) \subseteq Source(OpAt(q, z))
    BY <2>2, ShortOps
  <2>4. PlanOK(Splice(q, z, <<insn>>))
    BY <1>1, <2>1, <2>3, SpliceKeeps
  <2> QED
    BY <1>2, <1>3, <2>4 DEF insn
<1> QED
  BY <1>1, <1>2, <1>3

LEMMA TerminatorKeeps ==
  ASSUME NEW p, PlanOK(p), NEW b, NEW ref \in {"none", "branch"}, NEW t
  PROVE  PlanOK(replace_terminator(p, b, NewInsn(ref, t)).plan)
<1> DEFINE insn == NewInsn(ref, t)
<1>1. OpOK(insn) /\ Source(insn) = {}
  BY NewInsnFacts
<1>2. replace_terminator(p, b, insn).plan =
        IF b \notin DOMAIN p THEN p
        ELSE IF p[b] = <<>> THEN [p EXCEPT ![b] = <<insn>>]
        ELSE Splice(p, <<b, Len(p[b])>>, <<insn>>)
  BY DEF replace_terminator, Ok, Err
<1> HIDE DEF insn
<1>3. OpsOK(<<insn>>) /\ Ascending(<<insn>>) /\ Sources(<<insn>>) = {}
  BY <1>1, ShortOps
<1>4. CASE b \in DOMAIN p
  <2>1. b \in 1 .. Len(p)
    BY <1>4 DEF PlanOK, IsSeq
  <2>2. PlanOK([p EXCEPT ![b] = <<insn>>])
    BY <2>1, <1>3, PlanUpdate
  <2>3. CASE p[b] # <<>>
    <3> DEFINE x == <<b, Len(p[b])>>
    <3>1. Len(p[b]) \in Nat /\ p[b] = [k \in 1 .. Len(p[b]) |-> p[b][k]]
      BY <2>1 DEF PlanOK, OpsOK, IsSeq
    <3>2. Len(p[b]) # 0
      <4>1. SUFFICES ASSUME Len(p[b]) = 0 PROVE FALSE
        OBVIOUS
      <4>2. p[b] = [k \in 1 .. 0 |-> p[b][k]] /\ 1 .. 0 = {}
        BY <3>1, <4>1
      <4>3. p[b] = <<>>
        BY <4>2
      <4> QED
        BY <2>3, <4>3
    <3>3. Len(p[b]) \in DOMAIN p[b]
      <4>1. Len(p[b]) \in 1 .. Len(p[b])
        BY <3>1, <3>2
      <4> QED
        BY <3>1, <4>1
    <3>4. x \in Places(p)
      BY <1>4, <3>3 DEF Places
    <3>5. Sources(<<insn>>) \subseteq Source(OpAt(p, x))
      BY <1>3
    <3> HIDE DEF x
    <3>6. PlanOK(Splice(p, x, <<insn>>))
      BY <3>4, <3>5, <1>3, SpliceKeeps
    <3> QED
      BY <1>2, <1>4, <2>3, <3>6 DEF x, insn
  <2> QED
    BY <1>2, <1>4, <2>2, <2>3 DEF insn
<1> QED
  BY <1>2, <1>4 DEF insn

LEMMA InsertKeeps ==
  ASSUME NEW p, PlanOK(p), NEW a, NEW ref \in {"none", "branch"}, NEW t
  PROVE  PlanOK(insert_after_address(p, a, <<NewInsn(ref, t)>>).plan)
<1> DEFINE insn == NewInsn(ref, t)
           x == locate(p, a)
           y == CHOOSE y \in x : TRUE
<1>1. OpOK(insn) /\ Source(insn) = {}
  BY NewInsnFacts
<1>2. insert_after_address(p, a, <<insn>>).plan =
        IF x = {} THEN p ELSE Splice(p, y, <<OpAt(p, y)>> \o <<insn>>)
  BY DEF insert_after_address, Ok, Err
<1> HIDE DEF insn
<1>3. CASE x # {}
  <2>1. y \in Places(p)
    BY <1>3, LocateFacts
  <2> HIDE DEF x, y
  <2> DEFINE u == OpAt(p, y)
  <2>2. OpOK(u)
    BY <2>1, PlaceFacts
  <2> HIDE DEF u
  <2>3. <<u>> \o <<insn>> = <<u, insn>>
    BY ConcatSingletons
  <2>4. /\ OpsOK(<<u, insn>>) /\ Ascending(<<u, insn>>)
        /\ Sources(<<u, insn>>) \subseteq Source(u)
    <3>1. \A i \in Source(u), k \in Source(insn) : i < k
      BY <1>1
    <3>2. /\ OpsOK(<<u, insn>>) /\ Ascending(<<u, insn>>)
          /\ Sources(<<u, insn>>) = Source(u) \cup Source(insn)
      BY <1>1, <2>2, <3>1, ShortOps
    <3> QED
      BY <3>2, <1>1
  <2>5. PlanOK(Splice(p, y, <<u, insn>>))
    BY <2>1, <2>4, SpliceKeeps DEF u
  <2> QED
    BY <1>2, <1>3, <2>3, <2>5 DEF u, insn
<1> QED
  BY <1>2, <1>3 DEF insn

LEMMA RemoveKeeps ==
  ASSUME NEW p, PlanOK(p), NEW a
  PROVE  PlanOK(remove_at_address(p, a).plan)
<1> DEFINE x == locate(p, a)
           y == CHOOSE y \in x : TRUE
<1>1. remove_at_address(p, a).plan = IF x = {} THEN p ELSE Splice(p, y, <<>>)
  BY DEF remove_at_address, Ok, Err
<1>2. CASE x # {}
  <2>1. y \in Places(p)
    BY <1>2, LocateFacts
  <2> HIDE DEF x, y
  <2>2. OpOK(OpAt(p, y))
    BY <2>1, PlaceFacts
  <2>3. OpsOK(<<>>) /\ Ascending(<<>>) /\ Sources(<<>>) \subseteq Source(OpAt(p, y))
    BY <2>2, ShortOps
  <2>4. PlanOK(Splice(p, y, <<>>))
    BY <2>1, <2>3, SpliceKeeps
  <2> QED
    BY <1>1, <1>2, <2>4
<1> QED
  BY <1>1, <1>2

LEMMA EditKeeps ==
  ASSUME PlanOK(plan), Edit
  PROVE  PlanOK(plan')
<1>1. CASE RedirectBranch
  BY <1>1, RedirectKeeps DEF RedirectBranch, Apply
<1>2. CASE RedirectMacro
  BY <1>2, RedirectKeeps DEF RedirectMacro, Apply
<1>3. CASE Replace
  BY <1>3, ReplaceKeeps DEF Replace, Apply
<1>4. CASE ReplaceTerminator
  BY <1>4, TerminatorKeeps DEF ReplaceTerminator, Apply
<1>5. CASE InsertAfter
  BY <1>5, InsertKeeps DEF InsertAfter, Apply
<1>6. CASE RemoveOp
  BY <1>6, RemoveKeeps DEF RemoveOp, Apply
<1>7. CASE OverlayBytes
  BY <1>7 DEF OverlayBytes
<1> QED
  BY <1>1, <1>2, <1>3, <1>4, <1>5, <1>6, <1>7 DEF Edit

-----------------------------------------------------------------------------
(* Fusion and lifting.                                                     *)

LEMMA MacroFacts ==
  ASSUME NEW a, NEW b, InsnOK(a), InsnOK(b), a.orig \in Nat, b.orig \in Nat, a.orig < b.orig,
         NEW m \in MacroOps(a, b)
  PROVE  /\ OpOK(m) /\ Source(m) = {a.orig, b.orig}
         /\ a.mn = "adrp" /\ b.mn # "adrp"
<1>1. a.mn = "adrp"
  BY DEF MacroOps
<1>2. \E kind, t : m = [op |-> "macro", kind |-> kind, rd |-> a.rd, target |-> t,
                        originals |-> <<a, b>>]
  BY DEF MacroOps
<1>3. b.mn # "adrp"
  <2>1. try_fuse_adrp_add(a, b) # {} \/ try_fuse_adrp_ldst(a, b) # {}
    BY DEF MacroOps
  <2>2. try_fuse_adrp_add(a, b) # {} => b.mn \in {"add", "mov"}
    BY DEF try_fuse_adrp_add
  <2>3. try_fuse_adrp_ldst(a, b) # {} => b.mn = "ldst"
    BY DEF try_fuse_adrp_ldst
  <2> QED
    BY <2>1, <2>2, <2>3
<1>4. PICK kind, t : m = [op |-> "macro", kind |-> kind, rd |-> a.rd, target |-> t,
                          originals |-> <<a, b>>]
  BY <1>2
<1>5. /\ m = [op |-> "macro", kind |-> m.kind, rd |-> m.rd, target |-> m.target,
              originals |-> m.originals]
      /\ m.op = "macro" /\ m.originals = <<a, b>>
  BY <1>4
<1>9. m.kind # "LoadAddress" => m.kind = "AccessValue" /\ b.mn = "ldst" /\ input.container
  <2>1. try_fuse_adrp_ldst(a, b) # {} => b.mn = "ldst" /\ input.container
    <3>1. RelocAt(a.orig) # {} => input.container
      BY DEF RelocAt
    <3> QED
      BY <3>1 DEF try_fuse_adrp_ldst, macro_target_from_relocations
  <2>2. ASSUME NEW u \in try_fuse_adrp_add(a, b) PROVE m.kind = "LoadAddress"
    <3>1. m \in {[op |-> "macro", kind |-> "LoadAddress", rd |-> a.rd, target |-> w,
                  originals |-> <<a, b>>] : w \in try_fuse_adrp_add(a, b)}
      BY Zenon DEF MacroOps
    <3> QED
      BY <3>1
  <2>3. try_fuse_adrp_add(a, b) # {} \/ try_fuse_adrp_ldst(a, b) # {}
    BY DEF MacroOps
  <2>4. ASSUME try_fuse_adrp_add(a, b) = {} PROVE m.kind = "AccessValue"
    <3>1. m \in {[op |-> "macro", kind |-> "AccessValue", rd |-> a.rd, target |-> w,
                  originals |-> <<a, b>>] : w \in try_fuse_adrp_ldst(a, b)}
      BY <2>4, Zenon DEF MacroOps
    <3> QED
      BY <3>1
  <2> QED
    BY <2>1, <2>2, <2>3, <2>4
<1>6. m.originals[1] = a /\ m.originals[2] = b
  BY <1>5
<1>7. MacroOK(m)
  BY <1>1, <1>5, <1>6, <1>9 DEF MacroOK
<1>8. Source(m) = {a.orig, b.orig}
  BY <1>5, <1>6 DEF Source, OriginalAddresses
<1> QED
  BY <1>1, <1>3, <1>7, <1>8 DEF OpOK

LEMMA AppendOps ==
  ASSUME NEW s, OpsOK(s), Ascending(s), NEW op, OpOK(op),
         \A a \in Sources(s), c \in Source(op) : a < c
  PROVE  /\ OpsOK(Append(s, op)) /\ Ascending(Append(s, op))
         /\ Sources(Append(s, op)) = Sources(s) \cup Source(op)
<1> DEFINE t == Append(s, op)
<1>1. Len(s) \in Nat /\ s = [k \in 1 .. Len(s) |-> s[k]] /\ \A k \in 1 .. Len(s) : OpOK(s[k])
  BY DEF OpsOK, IsSeq
<1>2. /\ Len(t) = Len(s) + 1 /\ t = [k \in 1 .. Len(t) |-> t[k]]
      /\ \A k \in 1 .. Len(s) : t[k] = s[k]
      /\ t[Len(s) + 1] = op
  BY <1>1, SeqFacts
<1> HIDE DEF t
<1>3. /\ Len(t) \in Nat /\ 1 .. Len(t) = (1 .. Len(s)) \cup {Len(s) + 1}
      /\ \A k \in 1 .. Len(s) : ~(Len(s) + 1 < k) /\ k # Len(s) + 1
      /\ ~(Len(s) + 1 < Len(s) + 1)
  BY <1>1, <1>2
<1>4. OpsOK(t)
  BY <1>1, <1>2, <1>3 DEF OpsOK, IsSeq
<1>5. Sources(t) = Sources(s) \cup Source(op)
  BY <1>2, <1>3 DEF Sources
<1>6. Ascending(t)
  <2> SUFFICES ASSUME NEW i \in 1 .. Len(t), NEW j \in 1 .. Len(t), i < j,
                      NEW a \in Source(t[i]), NEW c \in Source(t[j])
               PROVE  a < c
    BY DEF Ascending
  <2>1. i \in 1 .. Len(s)
    BY <1>1, <1>3
  <2>2. t[i] = s[i] /\ a \in Sources(s)
    BY <2>1, <1>2 DEF Sources
  <2>3. CASE j = Len(s) + 1
    BY <2>2, <2>3, <1>2
  <2>4. CASE j \in 1 .. Len(s)
    BY <2>1, <2>2, <2>4, <1>2 DEF Ascending
  <2> QED
    BY <2>3, <2>4, <1>3
<1> QED
  BY <1>4, <1>5, <1>6 DEF t

\* Instructions of a block, as they are lifted.
Lifted(insns) ==
  /\ IsSeq(insns)
  /\ \A i \in 1 .. Len(insns) : InsnOK(insns[i]) /\ insns[i].orig \in Nat
  /\ \A i, j \in 1 .. Len(insns) : i < j => insns[i].orig < insns[j].orig

\* What the pair at i may become, what the n-th instruction becomes when no pair
\* has taken it, and one step of fuse_macros.
Fusable(insns, i) ==
  IF i \in 1 .. Len(insns) - 1 THEN MacroOps(insns[i], insns[i + 1]) ELSE {}

Chosen(insns, n) ==
  IF Fusable(insns, n) = {} THEN insns[n] ELSE CHOOSE m \in Fusable(insns, n) : TRUE

FuseStep(insns, q, n) ==
  IF Fusable(insns, n - 1) # {} THEN q ELSE Append(q, Chosen(insns, n))

LEMMA FuseSteps ==
  ASSUME NEW insns, Len(insns) \in Nat
  PROVE  \E ops : /\ ops[0] = <<>> /\ fuse_macros(insns) = ops[Len(insns)]
                 /\ \A n \in 1 .. Len(insns) : ops[n] = FuseStep(insns, ops[n - 1], n)
<1> DEFINE L == Len(insns)
           step(q, n) == FuseStep(insns, q, n)
           Rec(f, m) == \A n \in 0 .. m :
                          f[n] = IF n = 0 THEN <<>> ELSE step(f[n - 1], n)
           Ok1 == {m \in Nat : m <= L => \E f : f = [n \in 0 .. m |-> f[n]] /\ Rec(f, m)}
<1>1. L \in Nat
  OBVIOUS
<1>2. Ok1 = Nat
  <2>1. 0 \in Ok1
    <3> DEFINE g == [n \in 0 .. 0 |-> <<>>]
    <3> HIDE DEF step, L
    <3>1. g = [n \in 0 .. 0 |-> g[n]]
      BY Zenon
    <3>2. 0 \in 0 .. 0 /\ \A n \in 0 .. 0 : n = 0
      OBVIOUS
    <3>3. Rec(g, 0)
      BY <3>2
    <3> QED
      BY <3>1, <3>3
  <2>2. ASSUME NEW m \in Ok1 PROVE m + 1 \in Ok1
    <3> HIDE DEF step, L
    <3> SUFFICES ASSUME m + 1 <= L
                 PROVE  \E g : g = [n \in 0 .. (m + 1) |-> g[n]] /\ Rec(g, m + 1)
      OBVIOUS
    <3>1. m \in Nat /\ m <= L
      BY <1>1
    <3>2. PICK f : f = [n \in 0 .. m |-> f[n]] /\ Rec(f, m)
      BY <3>1
    <3> DEFINE g == [n \in 0 .. (m + 1) |-> IF n = m + 1 THEN step(f[m], m + 1) ELSE f[n]]
    <3>3. Rec(g, m + 1)
      <4> SUFFICES ASSUME NEW n \in 0 .. (m + 1)
                   PROVE  g[n] = IF n = 0 THEN <<>> ELSE step(g[n - 1], n)
        OBVIOUS
      <4>1. CASE n = m + 1
        <5>1. n # 0 /\ n - 1 = m /\ m \in 0 .. (m + 1) /\ m # m + 1
          BY <4>1, <3>1
        <5> QED
          BY <4>1, <5>1
      <4>2. CASE n # m + 1
        <5>1. n \in 0 .. m /\ (n # 0 => n - 1 \in 0 .. (m + 1) /\ n - 1 # m + 1)
          BY <4>2, <3>1
        <5>2. g[n] = f[n] /\ (n # 0 => g[n - 1] = f[n - 1])
          BY <4>2, <5>1
        <5> QED
          BY <5>1, <5>2, <3>2
      <4> QED
        BY <4>1, <4>2
    <3>4. g = [n \in 0 .. (m + 1) |-> g[n]]
      BY Zenon
    <3> QED
      BY <3>3, <3>4
  <2> HIDE DEF Ok1
  <2>3. Ok1 \in SUBSET Nat
    BY DEF Ok1
  <2> QED
    BY <2>1, <2>2, <2>3, NatInduct
<1> DEFINE IsOps(f) == f = [n \in 0 .. L |-> IF n = 0 THEN <<>> ELSE step(f[n - 1], n)]
           ops == CHOOSE f : IsOps(f)
<1>3. IsOps(ops)
  <2>1. L \in Nat /\ L <= L
    BY <1>1
  <2>2. \E f : f = [n \in 0 .. L |-> f[n]] /\ Rec(f, L)
    <3> HIDE DEF L, Rec
    <3> QED
      BY <1>2, <2>1
  <2>3. PICK f : f = [n \in 0 .. L |-> f[n]] /\ Rec(f, L)
    BY <2>2
  <2> HIDE DEF step
  <2>4. IsOps(f)
    BY <2>3, Zenon
  <2> HIDE DEF IsOps
  <2> QED
    BY <2>4
<1>4. \A n \in 0 .. L : ops[n] = IF n = 0 THEN <<>> ELSE step(ops[n - 1], n)
  <2> HIDE DEF step, ops
  <2> QED
    BY <1>3
<1>5. fuse_macros(insns) = ops[L]
  BY Zenon DEF fuse_macros, FuseStep, Fusable, Chosen
<1> HIDE DEF ops, IsOps
<1>6. ops[0] = <<>> /\ \A n \in 1 .. L : ops[n] = step(ops[n - 1], n)
  <2>1. 0 \in 0 .. L /\ \A n \in 1 .. L : n \in 0 .. L /\ n # 0
    BY <1>1
  <2> HIDE DEF step, L
  <2> QED
    BY <1>4, <2>1
<1> HIDE DEF L
<1> QED
  BY <1>5, <1>6 DEF L

LEMMA FuseKeeps ==
  ASSUME NEW insns, Lifted(insns)
  PROVE  /\ OpsOK(fuse_macros(insns)) /\ Ascending(fuse_macros(insns))
         /\ Sources(fuse_macros(insns)) \subseteq {insns[i].orig : i \in 1 .. Len(insns)}
<1> DEFINE L == Len(insns)
           macro(i) == Fusable(insns, i)
           chosen(n) == Chosen(insns, n)
<1>1. /\ L \in Nat
      /\ \A i \in 1 .. L : InsnOK(insns[i]) /\ insns[i].orig \in Nat /\ OpOK(insns[i])
      /\ \A i, j \in 1 .. L : i < j => insns[i].orig < insns[j].orig
  BY DEF Lifted, IsSeq, OpOK
<1>5. PICK ops : /\ ops[0] = <<>> /\ fuse_macros(insns) = ops[L]
               /\ \A n \in 1 .. L : ops[n] = FuseStep(insns, ops[n - 1], n)
  BY <1>1, FuseSteps
<1>4. \A n \in 1 .. L : ops[n] = IF macro(n - 1) # {} THEN ops[n - 1] ELSE Append(ops[n - 1], chosen(n))
  BY <1>5 DEF FuseStep
<1>6. ASSUME NEW n \in 1 .. L
      PROVE  /\ OpOK(chosen(n))
             /\ macro(n) = {} => Source(chosen(n)) \subseteq {insns[n].orig}
             /\ macro(n) # {} => /\ n + 1 \in 1 .. L /\ macro(n + 1) = {}
                                 /\ Source(chosen(n)) = {insns[n].orig, insns[n + 1].orig}
  <2>1. CASE macro(n) = {}
    <3>1. chosen(n) = insns[n] /\ OpOK(insns[n]) /\ insns[n].op = "insn"
      <4>1. chosen(n) = insns[n]
        BY <2>1 DEF Chosen
      <4>2. InsnOK(insns[n]) /\ OpOK(insns[n])
        BY <1>1
      <4> HIDE DEF macro, chosen
      <4> QED
        BY <4>1, <4>2 DEF InsnOK
    <3> HIDE DEF macro, chosen
    <3> QED
      BY <2>1, <3>1 DEF Source, OriginalAddresses
  <2>2. CASE macro(n) # {}
    <3>1. n \in 1 .. (L - 1) /\ macro(n) = MacroOps(insns[n], insns[n + 1])
      BY <2>2 DEF Fusable
    <3>2. n + 1 \in 1 .. L /\ n < n + 1
      BY <3>1, <1>1
    <3>3. /\ InsnOK(insns[n]) /\ InsnOK(insns[n + 1]) /\ insns[n].orig \in Nat
          /\ insns[n + 1].orig \in Nat /\ insns[n].orig < insns[n + 1].orig
      BY <3>2, <1>1
    <3>4. chosen(n) \in MacroOps(insns[n], insns[n + 1])
      BY <2>2, <3>1 DEF Chosen
    <3> HIDE DEF chosen
    <3>5. /\ OpOK(chosen(n)) /\ Source(chosen(n)) = {insns[n].orig, insns[n + 1].orig}
          /\ insns[n + 1].mn # "adrp"
      BY <3>3, <3>4, MacroFacts
    <3>6. macro(n + 1) = {}
      BY <3>5 DEF MacroOps, Fusable
    <3> QED
      BY <2>2, <3>2, <3>5, <3>6
  <2> QED
    BY <2>1, <2>2
<1> DEFINE Upto(m) == {insns[i].orig :
                         i \in {i \in 1 .. L : i <= m \/ (i = m + 1 /\ macro(m) # {})}}
           Good == {m \in Nat : m <= L => /\ OpsOK(ops[m]) /\ Ascending(ops[m])
                                          /\ Sources(ops[m]) \subseteq Upto(m)}
<1>7. Good = Nat
  <2>1. 0 \in Good
    <3>1. ops[0] = <<>>
      BY <1>5
    <3>2. 1 .. 0 = {} /\ Len(<<>>) = 0 /\ IsSeq(<<>>)
      <4>1. Len(<<>>) = 0 /\ IsSeq(<<>>)
        BY PairSeq, Zenon
      <4>2. 1 .. 0 = {}
        OBVIOUS
      <4> QED
        BY <4>1, <4>2
    <3>3. OpsOK(<<>>) /\ Ascending(<<>>) /\ Sources(<<>>) = {}
      BY <3>2 DEF OpsOK, Ascending, Sources
    <3> QED
      BY <3>1, <3>3
  <2>2. ASSUME NEW m \in Good PROVE m + 1 \in Good
    <3> HIDE DEF Upto
    <3> SUFFICES ASSUME m + 1 <= L
                 PROVE  /\ OpsOK(ops[m + 1]) /\ Ascending(ops[m + 1])
                        /\ Sources(ops[m + 1]) \subseteq Upto(m + 1)
      OBVIOUS
    <3>1. /\ m \in Nat /\ m <= L /\ m + 1 \in 0 .. L /\ m + 1 \in 1 .. L
          /\ m + 1 # 0 /\ (m + 1) - 1 = m
      BY <1>1
    <3>2. OpsOK(ops[m]) /\ Ascending(ops[m]) /\ Sources(ops[m]) \subseteq Upto(m)
      BY <3>1
    <3>3. ops[m + 1] = IF macro(m) # {} THEN ops[m] ELSE Append(ops[m], chosen(m + 1))
      <4> HIDE DEF macro, chosen
      <4> QED
        BY <1>4, <3>1
    <3>4. CASE macro(m) # {}
      <4>1. ops[m + 1] = ops[m]
        BY <3>3, <3>4
      <4>2. Upto(m) \subseteq Upto(m + 1)
        <5> HIDE DEF macro
        <5> QED
          BY <3>1, <1>1 DEF Upto
      <4> QED
        BY <3>2, <4>1, <4>2
    <3>5. CASE macro(m) = {}
      <4>1. ops[m + 1] = Append(ops[m], chosen(m + 1))
        BY <3>3, <3>5
      <4> HIDE DEF macro, chosen, Good
      <4>2. /\ OpOK(chosen(m + 1))
            /\ macro(m + 1) = {} => Source(chosen(m + 1)) \subseteq {insns[m + 1].orig}
            /\ macro(m + 1) # {} =>
                 /\ (m + 1) + 1 \in 1 .. L
                 /\ Source(chosen(m + 1)) = {insns[m + 1].orig, insns[(m + 1) + 1].orig}
        BY <1>6, <3>1
      <4>3. \A c \in Source(chosen(m + 1)) :
              c \in Upto(m + 1) /\ \E j \in 1 .. L : j >= m + 1 /\ c = insns[j].orig
        <5>1. m + 1 <= m + 1 /\ m + 1 >= m + 1 /\ (m + 1) + 1 >= m + 1
          BY <3>1
        <5>2. insns[m + 1].orig \in Upto(m + 1)
          BY <3>1, <5>1 DEF Upto
        <5>3. macro(m + 1) # {} => insns[(m + 1) + 1].orig \in Upto(m + 1)
          BY <4>2 DEF Upto
        <5> QED
          BY <4>2, <5>1, <5>2, <5>3, <3>1
      <4>4. /\ Upto(m) \subseteq Upto(m + 1)
            /\ \A a \in Upto(m) : \E i \in 1 .. L : i <= m /\ a = insns[i].orig
        <5>1. Upto(m) = {insns[i].orig : i \in {i \in 1 .. L : i <= m}}
          BY <3>5 DEF Upto
        <5>2. \A i \in 1 .. L : i <= m => i <= m + 1
          BY <3>1, <1>1
        <5>3. Upto(m) \subseteq Upto(m + 1)
          BY <5>1, <5>2 DEF Upto
        <5> QED
          BY <5>1, <5>3
      <4>5. \A a \in Sources(ops[m]), c \in Source(chosen(m + 1)) : a < c
        <5> TAKE a \in Sources(ops[m]), c \in Source(chosen(m + 1))
        <5>1. PICK i \in 1 .. L : i <= m /\ a = insns[i].orig
          BY <3>2, <4>4
        <5>2. PICK j \in 1 .. L : j >= m + 1 /\ c = insns[j].orig
          BY <4>3
        <5>3. i < j
          BY <5>1, <5>2, <3>1, <1>1
        <5> QED
          BY <5>1, <5>2, <5>3, <1>1
      <4>6. /\ OpsOK(Append(ops[m], chosen(m + 1))) /\ Ascending(Append(ops[m], chosen(m + 1)))
            /\ Sources(Append(ops[m], chosen(m + 1))) = Sources(ops[m]) \cup Source(chosen(m + 1))
        BY <3>2, <4>2, <4>5, AppendOps
      <4> QED
        BY <4>1, <4>3, <4>4, <4>6, <3>2
    <3> QED
      BY <3>4, <3>5
  <2> HIDE DEF Good
  <2>3. Good \in SUBSET Nat
    BY DEF Good
  <2> QED
    BY <2>1, <2>2, <2>3, NatInduct
<1>8. OpsOK(ops[L]) /\ Ascending(ops[L]) /\ Sources(ops[L]) \subseteq Upto(L)
  <2>1. L \in Nat /\ L <= L
    BY <1>1
  <2> HIDE DEF L, Upto
  <2> QED
    BY <1>7, <2>1
<1>9. Upto(L) \subseteq {insns[i].orig : i \in 1 .. L}
  <2> HIDE DEF macro
  <2> QED
    OBVIOUS
<1> HIDE DEF Upto, L
<1>10. Sources(ops[L]) \subseteq {insns[i].orig : i \in 1 .. L}
  BY <1>8, <1>9
<1> QED
  BY <1>5, <1>8, <1>10 DEF L

LEMMA LiftedInsn ==
  ASSUME SliceInv, NEW i \in 1 .. N
  PROVE  /\ InsnOK(lift_instruction(instructions[i]))
         /\ lift_instruction(instructions[i]).orig \in Nat
         /\ lift_instruction(instructions[i]).orig = instructions[i].address
<1> DEFINE insn == instructions[i]
           e == lift_instruction(insn)
<1>1. /\ insn.address \in Nat /\ (insn.kind \in Targeted => insn.mn = "other")
      /\ insn.size \in Nat /\ (input.container => insn.size = 1)
  BY PlanAssumption DEF SliceInv, InputOK, SliceOK, N
<1> HIDE DEF insn
<1>2. \E ref, t :
        /\ e = [op |-> "insn", mn |-> insn.mn, rd |-> insn.rd, rn |-> insn.rn, imm |-> insn.imm,
                ref |-> ref, target |-> t, orig |-> insn.address, size |-> insn.size]
        /\ ref = IF insn.mn = "adrp" THEN "page"
                 ELSE IF insn.kind \in Targeted THEN "branch" ELSE "none"
  BY Zenon DEF lift_instruction
<1> HIDE DEF e
<1>3. PICK ref, t :
        /\ e = [op |-> "insn", mn |-> insn.mn, rd |-> insn.rd, rn |-> insn.rn, imm |-> insn.imm,
                ref |-> ref, target |-> t, orig |-> insn.address, size |-> insn.size]
        /\ ref = IF insn.mn = "adrp" THEN "page"
                 ELSE IF insn.kind \in Targeted THEN "branch" ELSE "none"
  BY <1>2
<1>4. InsnOK(e) /\ e.orig = insn.address
  BY <1>1, <1>3 DEF InsnOK
<1> QED
  BY <1>1, <1>4 DEF e, insn

\* The instructions of block b, lifted.
LiftedBlock(b) ==
  [i \in 1 .. blocks[b].last - blocks[b].first + 1 |->
     lift_instruction(instructions[blocks[b].first + i - 1])]

LEMMA BlockLifts ==
  ASSUME SliceInv, BlocksOK, NEW b \in 1 .. Len(blocks)
  PROVE  /\ Lifted(LiftedBlock(b))
         /\ Len(LiftedBlock(b)) = (blocks[b].last - blocks[b].first) + 1
         /\ \A i \in 1 .. Len(LiftedBlock(b)) :
              LiftedBlock(b)[i].orig = instructions[(blocks[b].first + i) - 1].address
         /\ \A i \in 1 .. Len(LiftedBlock(b)) :
              \E j \in blocks[b].first .. blocks[b].last :
                j \in 1 .. N /\ LiftedBlock(b)[i].orig = instructions[j].address
<1> DEFINE f == blocks[b].first
           l == blocks[b].last
           n == (l - f) + 1
           s == LiftedBlock(b)
<1>1. f \in Nat /\ l \in Nat /\ l \in 1 .. N /\ f <= l /\ N \in Nat /\ f \in 1 .. N
  <2>1. /\ f \in Nat /\ l \in Nat /\ l \in 1 .. N /\ f <= l
    BY BlockFacts
  <2>2. N \in Nat
    BY SliceFacts
  <2>3. f \in 1 .. N
    BY DEF BlocksOK, BlockOK
  <2> QED
    BY <2>1, <2>2, <2>3
<1>2. s = [i \in 1 .. l - f + 1 |-> lift_instruction(instructions[f + i - 1])]
  BY DEF LiftedBlock
<1> HIDE DEF s, f, l
<1>3. n \in Nat /\ l - f + 1 = n
  BY <1>1
<1>4. /\ s = [i \in 1 .. n |-> s[i]]
      /\ \A i \in 1 .. n : s[i] = lift_instruction(instructions[f + i - 1])
  <2> HIDE DEF n
  <2>1. s = [i \in 1 .. n |-> lift_instruction(instructions[f + i - 1])]
    BY <1>2, <1>3
  <2> QED
    BY <2>1, Zenon
<1>5. \A i \in 1 .. n : (f + i) - 1 \in f .. l /\ (f + i) - 1 \in 1 .. N /\ f + i - 1 = (f + i) - 1
  BY <1>1
<1> HIDE DEF n
<1>6. IsSeq(s) /\ Len(s) = n
  BY <1>3, <1>4, LenOfFunction
<1>7. ASSUME NEW i \in 1 .. n
      PROVE  /\ InsnOK(s[i]) /\ s[i].orig \in Nat
             /\ s[i].orig = instructions[(f + i) - 1].address
  <2>1. s[i] = lift_instruction(instructions[(f + i) - 1])
    BY <1>4, <1>5
  <2> QED
    BY <1>5, <2>1, LiftedInsn
<1>8. ASSUME NEW i \in 1 .. n, NEW j \in 1 .. n, i < j
      PROVE  s[i].orig < s[j].orig
  <2> DEFINE u == (f + i) - 1
             v == (f + j) - 1
  <2>1. u \in 1 .. N /\ v \in 1 .. N /\ u < v
    BY <1>5, <1>8, <1>1, <1>3
  <2>2. s[i].orig = instructions[u].address /\ s[j].orig = instructions[v].address
    BY <1>7
  <2> HIDE DEF u, v
  <2>3. instructions[u].address + instructions[u].size <= instructions[v].address
    BY <2>1, AddressesIncrease
  <2>4. instructions[u].address \in Nat /\ instructions[u].size \in Nat \ {0}
        /\ instructions[v].address \in Nat
    BY <2>1, SliceFacts
  <2> QED
    BY <2>2, <2>3, <2>4
<1>9. Lifted(s)
  BY <1>6, <1>7, <1>8 DEF Lifted
<1>10. \A i \in 1 .. Len(s) : \E j \in f .. l : j \in 1 .. N /\ s[i].orig = instructions[j].address
  BY <1>5, <1>6, <1>7
<1>11. /\ Len(s) = (l - f) + 1
       /\ \A i \in 1 .. Len(s) : s[i].orig = instructions[(f + i) - 1].address
  BY <1>6, <1>7 DEF n
<1> QED
  BY <1>9, <1>10, <1>11 DEF s, f, l

LEMMA LiftOrders ==
  ASSUME GInv, Lift
  PROVE  PlanOK(plan')
<1> DEFINE n == Len(blocks)
           q == plan'
<1>1. SliceInv /\ BlocksOK
  BY DEF GInv, AttachInv, Lift
<1>2. n \in Nat /\ DOMAIN blocks = 1 .. n
  BY <1>1 DEF BlocksOK
<1>3. \A b \in 1 .. n : q[b] = fuse_macros(LiftedBlock(b))
  BY <1>2 DEF Lift, LiftedBlock
<1>4. q = [b \in 1 .. n |-> q[b]]
  <2>1. q = [b \in 1 .. n |-> fuse_macros(LiftedBlock(b))]
    BY <1>2 DEF Lift, LiftedBlock
  <2> QED
    BY <2>1, Zenon
<1> HIDE DEF q, n
<1>5. IsSeq(q) /\ Len(q) = n
  BY <1>2, <1>4, LenOfFunction
<1>6. ASSUME NEW b \in 1 .. n
      PROVE  /\ OpsOK(q[b]) /\ Ascending(q[b])
             /\ \A a \in Sources(q[b]) : \E j \in blocks[b].first .. blocks[b].last :
                  j \in 1 .. N /\ a = instructions[j].address
  <2> DEFINE s == LiftedBlock(b)
  <2>1. /\ Lifted(s)
        /\ \A i \in 1 .. Len(s) : \E j \in blocks[b].first .. blocks[b].last :
             j \in 1 .. N /\ s[i].orig = instructions[j].address
    BY <1>1, BlockLifts DEF n
  <2> HIDE DEF s
  <2>2. /\ OpsOK(fuse_macros(s)) /\ Ascending(fuse_macros(s))
        /\ Sources(fuse_macros(s)) \subseteq {s[i].orig : i \in 1 .. Len(s)}
    BY <2>1, FuseKeeps
  <2>3. q[b] = fuse_macros(s)
    BY <1>3 DEF s
  <2>4. \A a \in Sources(q[b]) : \E i \in 1 .. Len(s) : a = s[i].orig
    BY <2>2, <2>3
  <2> QED
    BY <2>1, <2>2, <2>3, <2>4
<1>7. ASSUME NEW b \in 1 .. n, NEW d \in 1 .. n, b < d,
             NEW a \in Sources(q[b]), NEW c \in Sources(q[d])
      PROVE  a < c
  <2>1. PICK i \in blocks[b].first .. blocks[b].last : i \in 1 .. N /\ a = instructions[i].address
    BY <1>6
  <2>2. PICK j \in blocks[d].first .. blocks[d].last : j \in 1 .. N /\ c = instructions[j].address
    BY <1>6
  <2>3. /\ blocks[b].last < blocks[d].first
        /\ blocks[b].last \in Nat /\ blocks[d].first \in Nat
        /\ blocks[b].first \in Nat /\ blocks[d].last \in Nat
    <3>1. blocks[b].last < blocks[d].first
      BY <1>1, <1>7 DEF BlocksOK, n
    <3> QED
      BY <3>1, <1>1, BlockFacts DEF n
  <2>4. i < j
    BY <2>1, <2>2, <2>3
  <2>5. instructions[i].address + instructions[i].size <= instructions[j].address
    BY <2>1, <2>2, <2>4, <1>1, AddressesIncrease
  <2>6. instructions[i].address \in Nat /\ instructions[i].size \in Nat \ {0}
        /\ instructions[j].address \in Nat
    BY <2>1, <2>2, <1>1, SliceFacts
  <2> QED
    BY <2>1, <2>2, <2>5, <2>6
<1>8. PlanOK(q)
  BY <1>5, <1>6, <1>7 DEF PlanOK
<1> QED
  BY <1>8 DEF q

\* The input stays, so a plan is as good after a step as before it.
LEMMA PlanOKNext ==
  ASSUME UNCHANGED input, PlanOK(plan')
  PROVE  PlanOK(plan)'
<1>1. ASSUME NEW op PROVE InsnOK(op)' <=> InsnOK(op)
  BY DEF InsnOK
<1>2. ASSUME NEW op PROVE MacroOK(op)' <=> MacroOK(op)
  BY DEF MacroOK, InsnOK
<1>3. ASSUME NEW op PROVE OpOK(op)' <=> OpOK(op)
  BY <1>1, <1>2 DEF OpOK
<1>4. ASSUME NEW s PROVE OpsOK(s)' <=> OpsOK(s)
  BY <1>3 DEF OpsOK, IsSeq
<1>5. /\ IsSeq(plan')
      /\ \A b \in 1 .. Len(plan') : OpsOK(plan'[b]) /\ Ascending(plan'[b])
      /\ \A b, d \in 1 .. Len(plan') : b < d =>
           \A a \in Sources(plan'[b]), c \in Sources(plan'[d]) : a < c
  BY DEF PlanOK
<1>6. ASSUME NEW b \in 1 .. Len(plan')
      PROVE OpsOK(plan[b])' /\ Ascending(plan[b])'
  BY <1>4, <1>5
<1> QED
  BY <1>5, <1>6 DEF PlanOK, IsSeq, Ascending, Sources, Source, OriginalAddresses

LEMMA EditNext ==
  ASSUME GInv, EditInv, [CommitNext]_planVars
  PROVE  EditInv'
<1> UNCHANGED input
  BY DEF CommitNext, PlanStep, Lift, Edit, RedirectBranch, RedirectMacro, Replace,
         ReplaceTerminator, InsertAfter, RemoveOp, OverlayBytes, Apply, Commit, EmitCopy,
         EmitGrownText, EmitGrownGap, EmitGrown, Committed, planVars
<1> SUFFICES ASSUME pc' = "edit" PROVE PlanOK(plan')
  BY PlanOKNext DEF EditInv
<1>1. CASE CfgStep /\ UNCHANGED <<input, plan, log, overlays, container, out>>
  <2>1. pc' = pc \/ pc' \in {"blocks", "successors", "done"}
    BY <1>1 DEF CfgStep, CollectLeader, LeadersCollected, FormBlock, BlocksFormed,
                AttachSuccessors, SuccessorsAttached
  <2>2. pc \in {"leaders", "blocks", "successors"}
    BY <1>1 DEF CfgStep, CollectLeader, LeadersCollected, FormBlock, BlocksFormed,
                AttachSuccessors, SuccessorsAttached
  <2> QED
    BY <2>1, <2>2
<1>2. CASE Lift
  BY <1>2, LiftOrders
<1>3. CASE Edit
  <2>1. pc = "edit"
    BY <1>3 DEF Edit, RedirectBranch, RedirectMacro, Replace, ReplaceTerminator,
                InsertAfter, RemoveOp, OverlayBytes, Apply
  <2> QED
    BY <1>3, <2>1, EditKeeps DEF EditInv
<1>4. CASE Commit \/ EmitCopy \/ EmitGrownText \/ EmitGrownGap
  <2>1. pc' = "committed"
    BY <1>4 DEF Commit, EmitCopy, EmitGrownText, EmitGrownGap, EmitGrown
  <2> QED
    BY <2>1
<1>5. CASE UNCHANGED planVars
  BY <1>5 DEF planVars, cfgVars, EditInv
<1> QED
  BY <1>1, <1>2, <1>3, <1>4, <1>5 DEF CommitNext, PlanStep, Committed

LEMMA EditFromInv ==
  ASSUME EditInv
  PROVE  SourceOrderKept
<1> SUFFICES ASSUME pc = "edit",
                    NEW x \in Places(plan), NEW y \in Places(plan), x # y, Before(x, y),
                    NEW a \in Source(OpAt(plan, x)), NEW c \in Source(OpAt(plan, y))
             PROVE  a < c
  BY DEF SourceOrderKept, Source
<1>1. PlanOK(plan)
  BY DEF EditInv
<1>2. /\ x[1] \in 1 .. Len(plan) /\ x[2] \in 1 .. Len(plan[x[1]])
      /\ y[1] \in 1 .. Len(plan) /\ y[2] \in 1 .. Len(plan[y[1]])
  BY <1>1, PlaceFacts
<1>3. CASE x[1] < y[1]
  <2>1. a \in Sources(plan[x[1]]) /\ c \in Sources(plan[y[1]])
    BY <1>2 DEF Sources, OpAt
  <2> QED
    BY <1>1, <1>2, <1>3, <2>1 DEF PlanOK
<1>4. CASE x[1] = y[1] /\ x[2] <= y[2]
  <2>1. x[2] # y[2]
    <3>1. x = <<x[1], x[2]>> /\ y = <<y[1], y[2]>>
      BY DEF Places
    <3> QED
      BY <1>4, <3>1
  <2>2. x[2] \in Nat /\ y[2] \in Nat
    BY <1>1, <1>2 DEF PlanOK, OpsOK, IsSeq
  <2>3. x[2] < y[2]
    BY <1>4, <2>1, <2>2
  <2>4. Ascending(plan[x[1]])
    BY <1>1, <1>2 DEF PlanOK
  <2> QED
    BY <1>2, <1>4, <2>3, <2>4 DEF Ascending, OpAt
<1> QED
  BY <1>3, <1>4 DEF Before

-----------------------------------------------------------------------------
(* The theorems.                                                           *)

\* The inductive invariant of the graph and of the plan.
THEOREM PlanInv == CommitSpec => [](GInv /\ EditInv)
<1>1. PlanInit => GInv /\ EditInv
  <2>1. PlanInit => EditInv
    BY DEF PlanInit, CfgInit, EditInv
  <2> QED
    BY <2>1, StartGraph
<1>2. (GInv /\ EditInv) /\ [CommitNext]_planVars => (GInv /\ EditInv)'
  BY GraphNext, EditNext
<1> QED
  BY <1>1, <1>2, PTL DEF CommitSpec

\* For every slice, the finished graph is the slice's control flow: its blocks
\* cut the slice into consecutive pieces and its edges are what the last
\* instruction of each does (cfg.rs, form_blocks and attach_successors).
THEOREM GraphIsFlow == CommitSpec => []GraphIsControlFlow
<1>1. GInv /\ EditInv => GraphIsControlFlow
  BY GraphFromInv
<1> QED
  BY PlanInv, <1>1, PTL

\* For every slice, container and sequence of edits, the ops of the plan that
\* come from the source stay in its order and stand for each address once, so an
\* edit by address finds the op that is meant (plan.rs, locate).
THEOREM OrderIsKept == CommitSpec => []SourceOrderKept
<1>1. GInv /\ EditInv => SourceOrderKept
  BY EditFromInv
<1> QED
  BY PlanInv, <1>1, PTL

-----------------------------------------------------------------------------
(* Emission and commit.                                                    *)

-----------------------------------------------------------------------------
(* Sequences.                                                              *)

LEMMA ConcatSeq ==
  ASSUME NEW l, IsSeq(l), NEW r, IsSeq(r)
  PROVE  /\ IsSeq(l \o r) /\ Len(l \o r) = Len(l) + Len(r)
         /\ \A k \in 1 .. Len(l) : (l \o r)[k] = l[k]
         /\ \A k \in 1 .. Len(r) : (l \o r)[Len(l) + k] = r[k]
         /\ \A k \in 1 .. Len(l \o r) :
              k \in 1 .. Len(l) \/ \E j \in 1 .. Len(r) : k = Len(l) + j
<1> DEFINE S == {l[k] : k \in 1 .. Len(l)} \cup {r[k] : k \in 1 .. Len(r)}
           t == l \o r
<1>1. Len(l) \in Nat /\ Len(r) \in Nat
  BY DEF IsSeq
<1>2. (\A k \in 1 .. Len(l) : l[k] \in S) /\ (\A k \in 1 .. Len(r) : r[k] \in S)
  OBVIOUS
<1> HIDE DEF S
<1>3. l \in Seq(S) /\ r \in Seq(S)
  BY <1>2, SeqOver
<1>4. /\ t \in Seq(S) /\ Len(t) = Len(l) + Len(r)
      /\ \A k \in 1 .. Len(l) + Len(r) : t[k] = IF k <= Len(l) THEN l[k] ELSE r[k - Len(l)]
  BY <1>3, ConcatProperties
<1> HIDE DEF t
<1>5. IsSeq(t)
  BY <1>4, SeqIs
<1>6. \A k \in 1 .. Len(l) : k \in 1 .. Len(l) + Len(r) /\ k <= Len(l)
  BY <1>1
<1>7. \A k \in 1 .. Len(r) :
        /\ Len(l) + k \in 1 .. Len(l) + Len(r) /\ ~(Len(l) + k <= Len(l))
        /\ (Len(l) + k) - Len(l) = k
  BY <1>1
<1>8. \A k \in 1 .. Len(l) : t[k] = l[k]
  BY <1>4, <1>6
<1>9. \A k \in 1 .. Len(r) : t[Len(l) + k] = r[k]
  BY <1>4, <1>7
<1>10. ASSUME NEW k \in 1 .. Len(t), k \notin 1 .. Len(l)
       PROVE  \E j \in 1 .. Len(r) : k = Len(l) + j
  <2>1. k - Len(l) \in 1 .. Len(r) /\ k = Len(l) + (k - Len(l))
    BY <1>1, <1>4, <1>10
  <2> QED
    BY <2>1
<1> QED
  BY <1>4, <1>5, <1>8, <1>9, <1>10 DEF t

-----------------------------------------------------------------------------
(* Ops that lie end to end.                                                *)

Width(op) == IF op.op = "macro" THEN 2 ELSE 1

\* A source op stands where it was.
SitsAt(op, a) ==
  IF op.op = "macro" THEN op.originals[1].orig = a /\ op.originals[2].orig = a + 1
  ELSE op.orig \in {-1, a}

\* The ops of s, one behind the other, from lo to hi; op k begins at pos[k].
Placing(s, pos, lo, hi) ==
  /\ pos[1] = lo /\ pos[Len(s) + 1] = hi
  /\ \A k \in 1 .. Len(s) + 1 : pos[k] \in Nat
  /\ \A k \in 1 .. Len(s) : pos[k + 1] = pos[k] + Width(s[k]) /\ SitsAt(s[k], pos[k])

Tiled(s, lo, hi) == \E pos : Placing(s, pos, lo, hi)

\* Each block of the plan fills its block of the graph g.
PlanTiled(p, g) ==
  /\ Len(p) = Len(g)
  /\ \A b \in 1 .. Len(p) : Tiled(p[b], g[b].start, g[b].end)

LEMMA TilesInNat ==
  ASSUME NEW s, Len(s) \in Nat, NEW lo, NEW hi, Tiled(s, lo, hi)
  PROVE  lo \in Nat /\ hi \in Nat
<1>1. PICK pos : Placing(s, pos, lo, hi)
  BY DEF Tiled
<1>2. 1 \in 1 .. Len(s) + 1 /\ Len(s) + 1 \in 1 .. Len(s) + 1
  OBVIOUS
<1> QED
  BY <1>1, <1>2 DEF Placing

LEMMA TileNone ==
  ASSUME NEW lo \in Nat
  PROVE  Tiled(<<>>, lo, lo)
<1> DEFINE pos == [k \in {1} |-> lo]
<1>1. Len(<<>>) = 0 /\ 1 .. 0 + 1 = {1} /\ 1 .. 0 = {} /\ 0 + 1 = 1
  OBVIOUS
<1>2. pos[1] = lo
  OBVIOUS
<1> HIDE DEF pos
<1>3. Placing(<<>>, pos, lo, lo)
  BY <1>1, <1>2 DEF Placing
<1> QED
  BY <1>3 DEF Tiled

LEMMA TileConcat ==
  ASSUME NEW l, IsSeq(l), NEW r, IsSeq(r), NEW lo, NEW mid, NEW hi,
         Tiled(l, lo, mid), Tiled(r, mid, hi)
  PROVE  Tiled(l \o r, lo, hi)
<1> DEFINE t == l \o r
           a == Len(l)
           b == Len(r)
<1>1. a \in Nat /\ b \in Nat
  BY DEF IsSeq
<1>2. /\ Len(t) = a + b
      /\ \A k \in 1 .. a : t[k] = l[k]
      /\ \A k \in 1 .. b : t[a + k] = r[k]
      /\ \A k \in 1 .. Len(t) : k \in 1 .. a \/ \E j \in 1 .. b : k = a + j
  BY ConcatSeq
<1> HIDE DEF t
<1>3. PICK p : Placing(l, p, lo, mid)
  BY DEF Tiled
<1>4. PICK q : Placing(r, q, mid, hi)
  BY DEF Tiled
<1>5. /\ p[1] = lo /\ p[a + 1] = mid /\ q[1] = mid /\ q[b + 1] = hi
      /\ \A k \in 1 .. a + 1 : p[k] \in Nat
      /\ \A k \in 1 .. b + 1 : q[k] \in Nat
      /\ \A k \in 1 .. a : p[k + 1] = p[k] + Width(l[k]) /\ SitsAt(l[k], p[k])
      /\ \A k \in 1 .. b : q[k + 1] = q[k] + Width(r[k]) /\ SitsAt(r[k], q[k])
  BY <1>3, <1>4 DEF Placing
<1> DEFINE pos == [k \in 1 .. Len(t) + 1 |-> IF k <= a + 1 THEN p[k] ELSE q[k - a]]
<1> HIDE DEF a, b
<1>6. \A k \in 1 .. a + 1 : k \in 1 .. Len(t) + 1 /\ pos[k] = p[k]
  BY <1>1, <1>2
<1>7. \A k \in 1 .. b + 1 : a + k \in 1 .. Len(t) + 1 /\ pos[a + k] = q[k]
  <2> TAKE k \in 1 .. b + 1
  <2>1. a + k \in 1 .. Len(t) + 1 /\ (a + k) - a = k
    BY <1>1, <1>2
  <2>2. CASE k = 1
    <3>1. a + k = a + 1 /\ a + 1 \in 1 .. a + 1
      BY <2>2, <1>1
    <3> QED
      BY <2>1, <2>2, <3>1, <1>5, <1>6
  <2>3. CASE k # 1
    <3>1. ~(a + k <= a + 1)
      BY <2>3, <1>1
    <3> QED
      BY <2>1, <3>1
  <2> QED
    BY <2>2, <2>3
<1> HIDE DEF pos
<1>8. pos[1] = lo /\ pos[Len(t) + 1] = hi
  <2>1. 1 \in 1 .. a + 1 /\ b + 1 \in 1 .. b + 1 /\ Len(t) + 1 = a + (b + 1)
    BY <1>1, <1>2
  <2> QED
    BY <2>1, <1>5, <1>6, <1>7
<1>9. \A k \in 1 .. Len(t) + 1 : pos[k] \in Nat
  <2> TAKE k \in 1 .. Len(t) + 1
  <2>1. CASE k \in 1 .. a + 1
    BY <2>1, <1>5, <1>6
  <2>2. CASE k \notin 1 .. a + 1
    <3>1. k - a \in 1 .. b + 1 /\ k = a + (k - a)
      BY <2>2, <1>1, <1>2
    <3> QED
      BY <3>1, <1>5, <1>7
  <2> QED
    BY <2>1, <2>2
<1>10. \A k \in 1 .. Len(t) : pos[k + 1] = pos[k] + Width(t[k]) /\ SitsAt(t[k], pos[k])
  <2> TAKE k \in 1 .. Len(t)
  <2>1. CASE k \in 1 .. a
    <3>1. k \in 1 .. a + 1 /\ k + 1 \in 1 .. a + 1
      BY <2>1, <1>1
    <3> QED
      BY <2>1, <3>1, <1>2, <1>5, <1>6
  <2>2. ASSUME NEW j \in 1 .. b, k = a + j
        PROVE  pos[k + 1] = pos[k] + Width(t[k]) /\ SitsAt(t[k], pos[k])
    <3>1. j \in 1 .. b + 1 /\ j + 1 \in 1 .. b + 1 /\ k + 1 = a + (j + 1)
      BY <2>2, <1>1
    <3>2. t[k] = r[j] /\ pos[k] = q[j] /\ pos[k + 1] = q[j + 1]
      BY <2>2, <3>1, <1>2, <1>7
    <3> QED
      BY <3>2, <1>5
  <2> QED
    BY <2>1, <2>2, <1>2
<1>11. Placing(t, pos, lo, hi)
  BY <1>8, <1>9, <1>10 DEF Placing
<1> QED
  BY <1>11 DEF Tiled, t

LEMMA TileOne ==
  ASSUME NEW op, NEW a \in Nat, SitsAt(op, a)
  PROVE  Tiled(<<op>>, a, a + Width(op))
<1> DEFINE pos == [k \in {1, 2} |-> IF k = 1 THEN a ELSE a + Width(op)]
<1>1. Len(<<op>>) = 1 /\ <<op>>[1] = op /\ 1 .. 1 = {1} /\ 1 .. 1 + 1 = {1, 2} /\ 1 + 1 = 2
  OBVIOUS
<1>2. Width(op) \in Nat
  BY DEF Width
<1>3. pos[1] = a /\ pos[2] = a + Width(op)
  OBVIOUS
<1> HIDE DEF pos
<1>4. Placing(<<op>>, pos, a, a + Width(op))
  BY <1>1, <1>2, <1>3 DEF Placing
<1> QED
  BY <1>4 DEF Tiled

\* Ops in the place of others, each where the other was.
LEMMA TileSwap ==
  ASSUME NEW s, Len(s) \in Nat, NEW t, Len(t) = Len(s), NEW lo, NEW hi, Tiled(s, lo, hi),
         \A k \in 1 .. Len(s) :
           Width(t[k]) = Width(s[k]) /\ \A a \in Nat : SitsAt(s[k], a) => SitsAt(t[k], a)
  PROVE  Tiled(t, lo, hi)
<1>1. PICK pos : Placing(s, pos, lo, hi)
  BY DEF Tiled
<1>2. \A k \in 1 .. Len(s) : k \in 1 .. Len(s) + 1
  OBVIOUS
<1>3. Placing(t, pos, lo, hi)
  BY <1>1, <1>2 DEF Placing
<1> QED
  BY <1>3 DEF Tiled

LEMMA SplitSeq ==
  ASSUME NEW s, IsSeq(s), NEW i \in 1 .. Len(s)
  PROVE  /\ IsSeq(SubSeq(s, 1, i - 1)) /\ Len(SubSeq(s, 1, i - 1)) = i - 1
         /\ \A k \in 1 .. (i - 1) : SubSeq(s, 1, i - 1)[k] = s[k]
         /\ IsSeq(SubSeq(s, i + 1, Len(s))) /\ Len(SubSeq(s, i + 1, Len(s))) = Len(s) - i
         /\ \A k \in 1 .. (Len(s) - i) : SubSeq(s, i + 1, Len(s))[k] = s[i + k]
<1> DEFINE S == {s[k] : k \in 1 .. Len(s)}
           l == SubSeq(s, 1, i - 1)
           r == SubSeq(s, i + 1, Len(s))
<1>1. Len(s) \in Nat /\ i \in Nat /\ i >= 1 /\ i <= Len(s)
  BY DEF IsSeq
<1>2. \A k \in 1 .. Len(s) : s[k] \in S
  OBVIOUS
<1> HIDE DEF S
<1>3. /\ l \in Seq(S) /\ Len(l) = i - 1
      /\ \A k \in 1 .. (i - 1) : l[k] = s[k]
  <2>1. 1 \in Int /\ i - 1 \in Int /\ \A k \in 1 .. (i - 1) : s[k] \in S
    BY <1>1, <1>2
  <2>2. /\ l \in Seq(S) /\ Len(l) = IF 1 <= i - 1 THEN (i - 1) - 1 + 1 ELSE 0
        /\ \A k \in 1 .. ((i - 1) - 1 + 1) : l[k] = s[1 + k - 1]
    BY <2>1, SubSeqProperties
  <2> HIDE DEF l
  <2>3. Len(l) = i - 1 /\ (i - 1) - 1 + 1 = i - 1
    BY <2>2, <1>1
  <2>4. \A k \in 1 .. (i - 1) : 1 + k - 1 = k
    BY <1>1
  <2> QED
    BY <2>2, <2>3, <2>4
<1>4. /\ r \in Seq(S) /\ Len(r) = Len(s) - i
      /\ \A k \in 1 .. (Len(s) - i) : r[k] = s[i + k]
  <2>1. i + 1 \in Int /\ Len(s) \in Int /\ \A k \in (i + 1) .. Len(s) : s[k] \in S
    BY <1>1, <1>2
  <2>2. /\ r \in Seq(S) /\ Len(r) = IF i + 1 <= Len(s) THEN Len(s) - (i + 1) + 1 ELSE 0
        /\ \A k \in 1 .. (Len(s) - (i + 1) + 1) : r[k] = s[(i + 1) + k - 1]
    BY <2>1, SubSeqProperties
  <2> HIDE DEF r
  <2>3. Len(r) = Len(s) - i /\ Len(s) - (i + 1) + 1 = Len(s) - i
    BY <2>2, <1>1
  <2>4. \A k \in 1 .. (Len(s) - i) : (i + 1) + k - 1 = i + k
    BY <1>1
  <2> QED
    BY <2>2, <2>3, <2>4
<1> HIDE DEF l, r
<1>5. IsSeq(l) /\ IsSeq(r)
  BY <1>3, <1>4, SeqIs
<1> QED
  BY <1>3, <1>4, <1>5 DEF l, r

\* What is before an op, the op, and what is behind it.
LEMMA TileSplit ==
  ASSUME NEW s, IsSeq(s), NEW i \in 1 .. Len(s), NEW lo, NEW hi, Tiled(s, lo, hi)
  PROVE  \E a \in Nat : /\ SitsAt(s[i], a)
                        /\ Tiled(SubSeq(s, 1, i - 1), lo, a)
                        /\ Tiled(SubSeq(s, i + 1, Len(s)), a + Width(s[i]), hi)
<1> DEFINE n == Len(s)
           l == SubSeq(s, 1, i - 1)
           r == SubSeq(s, i + 1, Len(s))
<1>1. n \in Nat /\ i \in Nat /\ i >= 1 /\ i <= n
  BY DEF IsSeq
<1>2. /\ Len(l) = i - 1 /\ \A k \in 1 .. (i - 1) : l[k] = s[k]
      /\ Len(r) = n - i /\ \A k \in 1 .. (n - i) : r[k] = s[i + k]
  BY SplitSeq
<1>3. PICK pos : Placing(s, pos, lo, hi)
  BY DEF Tiled
<1>4. /\ pos[1] = lo /\ pos[n + 1] = hi
      /\ \A k \in 1 .. n + 1 : pos[k] \in Nat
      /\ \A k \in 1 .. n : pos[k + 1] = pos[k] + Width(s[k]) /\ SitsAt(s[k], pos[k])
  BY <1>3 DEF Placing
<1> HIDE DEF l, r, n
<1>5. i \in 1 .. n /\ i \in 1 .. n + 1
  BY <1>1
<1>6. Tiled(l, lo, pos[i])
  <2>1. /\ \A k \in 1 .. (i - 1) : k \in 1 .. n
        /\ \A k \in 1 .. (i - 1) + 1 : k \in 1 .. n + 1
        /\ (i - 1) + 1 = i
    BY <1>1
  <2>2. Placing(l, pos, lo, pos[i])
    BY <2>1, <1>2, <1>4 DEF Placing
  <2> QED
    BY <2>2 DEF Tiled
<1>7. Tiled(r, pos[i] + Width(s[i]), hi)
  <2> DEFINE q == [k \in 1 .. (n - i) + 1 |-> pos[i + k]]
  <2>1. /\ \A k \in 1 .. (n - i) + 1 : q[k] = pos[i + k] /\ i + k \in 1 .. n + 1
        /\ \A k \in 1 .. (n - i) : /\ i + k \in 1 .. n /\ k \in 1 .. (n - i) + 1
                                   /\ k + 1 \in 1 .. (n - i) + 1 /\ i + (k + 1) = (i + k) + 1
        /\ 1 \in 1 .. (n - i) + 1 /\ (n - i) + 1 \in 1 .. (n - i) + 1 /\ i + ((n - i) + 1) = n + 1
    BY <1>1
  <2> HIDE DEF q
  <2>2. q[1] = pos[i] + Width(s[i]) /\ q[(n - i) + 1] = hi
    BY <2>1, <1>4, <1>5
  <2>3. \A k \in 1 .. (n - i) + 1 : q[k] \in Nat
    BY <2>1, <1>4
  <2>4. \A k \in 1 .. (n - i) : q[k + 1] = q[k] + Width(r[k]) /\ SitsAt(r[k], q[k])
    <3> TAKE k \in 1 .. (n - i)
    <3>2. k \in 1 .. (n - i) + 1 /\ k + 1 \in 1 .. (n - i) + 1 /\ i + (k + 1) = (i + k) + 1
      BY <2>1
    <3>3. q[k] = pos[i + k] /\ q[k + 1] = pos[i + (k + 1)]
      BY <2>1, <3>2
    <3>1. q[k] = pos[i + k] /\ q[k + 1] = pos[(i + k) + 1] /\ r[k] = s[i + k]
      BY <3>2, <3>3, <1>2
    <3> QED
      BY <3>1, <2>1, <1>4
  <2>5. Placing(r, q, pos[i] + Width(s[i]), hi)
    BY <2>2, <2>3, <2>4, <1>2 DEF Placing
  <2> QED
    BY <2>5 DEF Tiled
<1>8. pos[i] \in Nat /\ SitsAt(s[i], pos[i])
  BY <1>4, <1>5
<1> QED
  BY <1>6, <1>7, <1>8 DEF l, r

\* A splice of ops that fill what the old op filled.
LEMMA TileSplice ==
  ASSUME NEW s, IsSeq(s), NEW i \in 1 .. Len(s), NEW lo, NEW hi, Tiled(s, lo, hi),
         NEW ops, IsSeq(ops),
         \A a \in Nat : SitsAt(s[i], a) => Tiled(ops, a, a + Width(s[i]))
  PROVE  Tiled(Spliced(s, i, ops), lo, hi)
<1> DEFINE l == SubSeq(s, 1, i - 1)
           r == SubSeq(s, i + 1, Len(s))
<1>1. IsSeq(l) /\ IsSeq(r)
  BY SplitSeq
<1>2. PICK a \in Nat : SitsAt(s[i], a) /\ Tiled(l, lo, a) /\ Tiled(r, a + Width(s[i]), hi)
  BY TileSplit
<1>3. Spliced(s, i, ops) = (l \o ops) \o r
  BY DEF Spliced
<1> HIDE DEF l, r
<1>4. Tiled(l \o ops, lo, a + Width(s[i])) /\ IsSeq(l \o ops)
  BY <1>1, <1>2, TileConcat, ConcatSeq
<1>5. Tiled((l \o ops) \o r, lo, hi)
  BY <1>1, <1>2, <1>4, TileConcat
<1> QED
  BY <1>3, <1>5

LEMMA TileUpdate ==
  ASSUME NEW p, IsSeq(p), NEW g, PlanTiled(p, g), NEW b \in 1 .. Len(p),
         NEW s, Tiled(s, g[b].start, g[b].end)
  PROVE  PlanTiled([p EXCEPT ![b] = s], g)
<1> DEFINE q == [p EXCEPT ![b] = s]
<1>1. Len(p) \in Nat /\ p = [k \in 1 .. Len(p) |-> p[k]]
  BY DEF IsSeq
<1>2. /\ q = [k \in 1 .. Len(p) |-> q[k]]
      /\ \A d \in 1 .. Len(p) : q[d] = IF d = b THEN s ELSE p[d]
  BY <1>1
<1> HIDE DEF q
<1>3. Len(q) = Len(p)
  BY <1>1, <1>2, LenOfFunction
<1>4. \A d \in 1 .. Len(q) : Tiled(q[d], g[d].start, g[d].end)
  BY <1>2, <1>3 DEF PlanTiled
<1>5. PlanTiled(q, g)
  BY <1>3, <1>4 DEF PlanTiled
<1> QED
  BY <1>5 DEF q

-----------------------------------------------------------------------------
(* Edits that leave the length alone.                                      *)

LEMMA SpliceTiles ==
  ASSUME NEW p, PlanOK(p), NEW g, PlanTiled(p, g), NEW x \in Places(p), NEW ops, IsSeq(ops),
         \A a \in Nat : SitsAt(OpAt(p, x), a) => Tiled(ops, a, a + Width(OpAt(p, x)))
  PROVE  PlanTiled(Splice(p, x, ops), g)
<1> DEFINE b == x[1]
           s == p[x[1]]
           i == x[2]
           t == Spliced(s, i, ops)
<1>1. b \in 1 .. Len(p) /\ i \in 1 .. Len(s) /\ IsSeq(s) /\ OpAt(p, x) = s[i]
  BY PlaceFacts DEF OpsOK, OpAt
<1>2. IsSeq(p) /\ p = [k \in 1 .. Len(p) |-> p[k]]
  BY DEF PlanOK, IsSeq
<1>3. Splice(p, x, ops) = [p EXCEPT ![b] = t]
  BY <1>1, <1>2 DEF Splice, Spliced
<1>4. Tiled(s, g[b].start, g[b].end)
  BY <1>1 DEF PlanTiled
<1> HIDE DEF s, i, t, b
<1>5. Tiled(Spliced(s, i, ops), g[b].start, g[b].end)
  BY <1>1, <1>4, TileSplice
<1>6. PlanTiled([p EXCEPT ![b] = t], g)
  BY <1>1, <1>2, <1>5, TileUpdate DEF t
<1> QED
  BY <1>3, <1>6

LEMMA RetargetedOp ==
  ASSUME NEW e, OpOK(e), NEW t
  PROVE  /\ Width([e EXCEPT !.target = t]) = Width(e)
         /\ \A a : SitsAt(e, a) <=> SitsAt([e EXCEPT !.target = t], a)
<1> DEFINE o == [e EXCEPT !.target = t]
<1>1. CASE InsnOK(e)
  <2>1. e = [op |-> "insn", mn |-> e.mn, rd |-> e.rd, rn |-> e.rn, imm |-> e.imm,
             ref |-> e.ref, target |-> e.target, orig |-> e.orig, size |-> e.size]
    BY <1>1 DEF InsnOK
  <2>2. o.op = "insn" /\ o.orig = e.orig /\ e.op = "insn"
    BY <2>1
  <2> HIDE DEF o
  <2> QED
    BY <2>2 DEF Width, SitsAt, o
<1>2. CASE MacroOK(e)
  <2>1. e = [op |-> "macro", kind |-> e.kind, rd |-> e.rd, target |-> e.target,
             originals |-> e.originals]
    BY <1>2 DEF MacroOK
  <2>2. o.op = "macro" /\ o.originals = e.originals /\ e.op = "macro"
    BY <2>1
  <2> HIDE DEF o
  <2> QED
    BY <2>2 DEF Width, SitsAt, o
<1> QED
  BY <1>1, <1>2 DEF OpOK

LEMMA RetargetTiles ==
  ASSUME NEW p, PlanOK(p), NEW g, PlanTiled(p, g), NEW x \in Places(p), NEW t
  PROVE  PlanTiled(Retarget(p, x, t), g)
<1> DEFINE b == x[1]
           s == p[x[1]]
           i == x[2]
           r == [s EXCEPT ![i].target = t]
<1>1. b \in 1 .. Len(p) /\ i \in 1 .. Len(s) /\ OpsOK(s)
  BY PlaceFacts
<1>2. IsSeq(p) /\ p = [k \in 1 .. Len(p) |-> p[k]]
  BY DEF PlanOK, IsSeq
<1>3. Retarget(p, x, t) = [p EXCEPT ![b] = r]
  BY <1>1, <1>2 DEF Retarget
<1>4. Tiled(s, g[b].start, g[b].end)
  BY <1>1 DEF PlanTiled
<1> HIDE DEF s, i, b
<1>5. Len(s) \in Nat /\ s = [k \in 1 .. Len(s) |-> s[k]] /\ OpOK(s[i])
  BY <1>1 DEF OpsOK, IsSeq
<1> DEFINE o == [s[i] EXCEPT !.target = t]
<1>6. /\ r = [k \in 1 .. Len(s) |-> r[k]]
      /\ \A k \in 1 .. Len(s) : r[k] = IF k = i THEN o ELSE s[k]
  BY <1>1, <1>5
<1>7. Width(o) = Width(s[i]) /\ \A a : SitsAt(s[i], a) <=> SitsAt(o, a)
  BY <1>5, RetargetedOp
<1> HIDE DEF r, o
<1>8. Len(r) = Len(s)
  BY <1>5, <1>6, LenOfFunction
<1>9. \A k \in 1 .. Len(s) :
        Width(r[k]) = Width(s[k]) /\ \A a \in Nat : SitsAt(s[k], a) => SitsAt(r[k], a)
  <2> TAKE k \in 1 .. Len(s)
  <2>1. CASE k = i
    BY <2>1, <1>6, <1>7
  <2>2. CASE k # i
    BY <2>2, <1>6
  <2> QED
    BY <2>1, <2>2
<1>10. Tiled(r, g[b].start, g[b].end)
  BY <1>4, <1>5, <1>8, <1>9, TileSwap
<1>11. PlanTiled([p EXCEPT ![b] = r], g)
  BY <1>1, <1>2, <1>10, TileUpdate
<1> QED
  BY <1>3, <1>11

LEMMA RedirectTiles ==
  ASSUME NEW p, PlanOK(p), NEW g, PlanTiled(p, g), NEW a, NEW t
  PROVE  /\ PlanTiled(redirect_branch(p, a, t).plan, g)
         /\ PlanTiled(redirect_macro_target(p, a, t).plan, g)
<1> DEFINE x == locate(p, a)
           y == CHOOSE y \in x : TRUE
<1>1. /\ redirect_branch(p, a, t).plan \in {p, Retarget(p, y, t)}
      /\ redirect_macro_target(p, a, t).plan \in {p, Retarget(p, y, t)}
      /\ x = {} => redirect_branch(p, a, t).plan = p /\ redirect_macro_target(p, a, t).plan = p
  <2>1. \A q, e : Ok(q).plan = q /\ Err(q, e).plan = q
    BY DEF Ok, Err
  <2> QED
    BY <2>1 DEF redirect_branch, redirect_macro_target
<1>2. CASE x = {}
  BY <1>1, <1>2
<1>3. CASE x # {}
  <2>1. y \in Places(p)
    BY <1>3, LocateFacts
  <2> HIDE DEF y, x
  <2>2. PlanTiled(Retarget(p, y, t), g)
    BY <2>1, RetargetTiles
  <2> QED
    BY <1>1, <2>2
<1> QED
  BY <1>2, <1>3

\* A macro's instructions fill what the macro filled.
LEMMA UnfuseTiles ==
  ASSUME NEW p, PlanOK(p), NEW g, PlanTiled(p, g), NEW a
  PROVE  PlanTiled(unfuse_macro_at(p, a), g)
<1> DEFINE begins == {x \in locate(p, a) :
                        OpAt(p, x).op = "macro" /\ OpAt(p, x).originals[1].orig = a}
<1>1. CASE begins = {}
  BY <1>1 DEF unfuse_macro_at
<1>2. CASE begins # {}
  <2> DEFINE x == CHOOSE x \in begins : TRUE
  <2>1. x \in begins
    BY <1>2
  <2>2. unfuse_macro_at(p, a) = Splice(p, x, OpAt(p, x).originals)
    BY <1>2 DEF unfuse_macro_at
  <2>3. x \in Places(p) /\ OpAt(p, x).op = "macro"
    BY <2>1, LocateFacts
  <2> HIDE DEF x, begins
  <2> DEFINE m == OpAt(p, x)
  <2>4. OpOK(m) /\ m.op = "macro"
    BY <2>3, PlaceFacts
  <2> HIDE DEF m
  <2> DEFINE u == m.originals[1]
             v == m.originals[2]
  <2>5. m.originals = <<u, v>> /\ InsnOK(u) /\ InsnOK(v)
    BY <2>4, SourceFacts DEF MacroOK
  <2> HIDE DEF u, v
  <2>6. IsSeq(<<u, v>>) /\ IsSeq(<<u>>) /\ IsSeq(<<v>>) /\ <<u>> \o <<v>> = <<u, v>>
    BY PairSeq, ConcatSingletons
  <2>7. ASSUME NEW c \in Nat, SitsAt(m, c)
        PROVE  Tiled(<<u, v>>, c, c + Width(m))
    <3>1. u.orig = c /\ v.orig = c + 1
      BY <2>4, <2>7 DEF SitsAt, u, v
    <3>2. u.op = "insn" /\ v.op = "insn"
      BY <2>5 DEF InsnOK
    <3>3. SitsAt(u, c) /\ SitsAt(v, c + 1) /\ Width(u) = 1 /\ Width(v) = 1 /\ Width(m) = 2
      BY <3>1, <3>2, <2>4 DEF SitsAt, Width
    <3>4. c + 1 \in Nat /\ (c + 1) + 1 = c + 2
      OBVIOUS
    <3>5. Tiled(<<u>>, c, c + 1) /\ Tiled(<<v>>, c + 1, (c + 1) + 1)
      BY <3>3, <3>4, TileOne
    <3>6. Tiled(<<u>> \o <<v>>, c, (c + 1) + 1)
      BY <3>5, <2>6, TileConcat
    <3> QED
      BY <3>3, <3>4, <3>6, <2>6
  <2>8. PlanTiled(Splice(p, x, <<u, v>>), g)
    BY <2>3, <2>6, <2>7, SpliceTiles DEF m
  <2> QED
    BY <2>2, <2>5, <2>8 DEF m
<1> QED
  BY <1>1, <1>2

LEMMA ReplaceTiles ==
  ASSUME NEW p, PlanOK(p), NEW g, PlanTiled(p, g), NEW a, NEW ref, NEW t
  PROVE  PlanTiled(replace_instruction_at(p, a, NewInsn(ref, t)).plan, g)
<1> DEFINE q == unfuse_macro_at(p, a)
           x == {y \in locate(q, a) : OpAt(q, y).op = "insn"}
           z == CHOOSE y \in x : TRUE
           insn == NewInsn(ref, t)
<1>1. PlanOK(q) /\ PlanTiled(q, g)
  BY UnfuseKeeps, UnfuseTiles
<1> HIDE DEF q
<1>2. replace_instruction_at(p, a, insn).plan = IF x = {} THEN q ELSE Splice(q, z, <<insn>>)
  BY DEF replace_instruction_at, Ok, Err, q
<1>3. CASE x # {}
  <2>1. z \in Places(q) /\ OpAt(q, z).op = "insn"
    BY <1>3, LocateFacts
  <2> HIDE DEF z, x
  <2>2. insn.op = "insn" /\ insn.orig = -1
    BY DEF NewInsn
  <2> HIDE DEF insn
  <2>3. Width(OpAt(q, z)) = 1 /\ Width(insn) = 1 /\ IsSeq(<<insn>>)
    BY <2>1, <2>2, PairSeq DEF Width
  <2>4. \A c \in Nat : Tiled(<<insn>>, c, c + 1)
    <3> TAKE c \in Nat
    <3>1. SitsAt(insn, c)
      BY <2>2 DEF SitsAt
    <3> QED
      BY <3>1, <2>3, TileOne
  <2>5. PlanTiled(Splice(q, z, <<insn>>), g)
    BY <1>1, <2>1, <2>3, <2>4, SpliceTiles
  <2> QED
    BY <1>2, <1>3, <2>5 DEF insn
<1> QED
  BY <1>1, <1>2, <1>3

-----------------------------------------------------------------------------
(* A lifted block fills its block of the graph.                            *)

LEMMA TileAppend ==
  ASSUME NEW s, IsSeq(s), NEW lo, NEW mid, Tiled(s, lo, mid), NEW op, SitsAt(op, mid)
  PROVE  Tiled(Append(s, op), lo, mid + Width(op)) /\ IsSeq(Append(s, op))
<1> DEFINE t == Append(s, op)
           n == Len(s)
<1>1. n \in Nat /\ s = [k \in 1 .. n |-> s[k]]
  BY DEF IsSeq
<1>2. /\ Len(t) = n + 1 /\ t = [k \in 1 .. Len(t) |-> t[k]]
      /\ \A k \in 1 .. n : t[k] = s[k]
      /\ t[n + 1] = op
  BY <1>1, SeqFacts
<1>3. PICK p : Placing(s, p, lo, mid)
  BY DEF Tiled
<1>4. /\ p[1] = lo /\ p[n + 1] = mid
      /\ \A k \in 1 .. n + 1 : p[k] \in Nat
      /\ \A k \in 1 .. n : p[k + 1] = p[k] + Width(s[k]) /\ SitsAt(s[k], p[k])
  BY <1>3 DEF Placing
<1> HIDE DEF t, n
<1>5. Width(op) \in Nat /\ mid \in Nat
  <2>1. n + 1 \in 1 .. n + 1
    BY <1>1
  <2> QED
    BY <2>1, <1>4 DEF Width
<1> DEFINE pos == [k \in 1 .. (n + 1) + 1 |-> IF k = (n + 1) + 1 THEN mid + Width(op) ELSE p[k]]
<1>6. /\ \A k \in 1 .. n + 1 : pos[k] = p[k]
      /\ pos[(n + 1) + 1] = mid + Width(op)
  BY <1>1
<1> HIDE DEF pos
<1>7. pos[1] = lo /\ pos[n + 1] = mid
  BY <1>1, <1>4, <1>6
<1>8. \A k \in 1 .. (n + 1) + 1 : pos[k] \in Nat
  <2> TAKE k \in 1 .. (n + 1) + 1
  <2>1. k \in 1 .. n + 1 \/ k = (n + 1) + 1
    BY <1>1
  <2> QED
    BY <2>1, <1>4, <1>5, <1>6
<1>9. \A k \in 1 .. n + 1 : pos[k + 1] = pos[k] + Width(t[k]) /\ SitsAt(t[k], pos[k])
  <2> TAKE k \in 1 .. n + 1
  <2>1. CASE k = n + 1
    BY <2>1, <1>2, <1>6, <1>7
  <2>2. CASE k # n + 1
    <3>1. k \in 1 .. n /\ k + 1 \in 1 .. n + 1
      BY <2>2, <1>1
    <3> QED
      BY <3>1, <1>2, <1>4, <1>6
  <2> QED
    BY <2>1, <2>2
<1>10. Placing(t, pos, lo, mid + Width(op))
  BY <1>2, <1>6, <1>7, <1>8, <1>9 DEF Placing
<1>11. IsSeq(t)
  BY <1>1, <1>2 DEF IsSeq
<1> QED
  BY <1>10, <1>11 DEF Tiled, t

LEMMA FuseTiles ==
  ASSUME NEW insns, Lifted(insns), NEW lo \in Nat,
         \A i \in 1 .. Len(insns) : insns[i].orig = lo + (i - 1)
  PROVE  Tiled(fuse_macros(insns), lo, lo + Len(insns))
<1> DEFINE L == Len(insns)
           macro(i) == Fusable(insns, i)
           chosen(n) == Chosen(insns, n)
<1>1. /\ L \in Nat
      /\ \A i \in 1 .. L : InsnOK(insns[i]) /\ insns[i].orig \in Nat
      /\ \A i, j \in 1 .. L : i < j => insns[i].orig < insns[j].orig
  BY DEF Lifted, IsSeq
<1>2. PICK ops : /\ ops[0] = <<>> /\ fuse_macros(insns) = ops[L]
                 /\ \A n \in 1 .. L : ops[n] = FuseStep(insns, ops[n - 1], n)
  BY <1>1, FuseSteps
<1>3. \A n \in 1 .. L : ops[n] = IF macro(n - 1) # {} THEN ops[n - 1] ELSE Append(ops[n - 1], chosen(n))
  BY <1>2 DEF FuseStep
<1>4. macro(0) = {} /\ macro(L) = {}
  <2>1. 0 \notin 1 .. L - 1 /\ L \notin 1 .. L - 1
    BY <1>1
  <2> QED
    BY <2>1 DEF Fusable
<1>5. ASSUME NEW n \in 1 .. L
      PROVE  /\ SitsAt(chosen(n), lo + (n - 1))
             /\ macro(n) = {} => Width(chosen(n)) = 1
             /\ macro(n) # {} => Width(chosen(n)) = 2 /\ n + 1 \in 1 .. L /\ macro(n + 1) = {}
  <2>1. CASE macro(n) = {}
    <3>1. chosen(n) = insns[n] /\ InsnOK(insns[n]) /\ insns[n].orig = lo + (n - 1)
      BY <2>1, <1>1 DEF Chosen
    <3>2. insns[n].op = "insn"
      BY <3>1 DEF InsnOK
    <3> HIDE DEF macro, chosen
    <3> QED
      BY <2>1, <3>1, <3>2 DEF SitsAt, Width
  <2>2. CASE macro(n) # {}
    <3>1. n \in 1 .. (L - 1) /\ macro(n) = MacroOps(insns[n], insns[n + 1])
      BY <2>2 DEF Fusable
    <3>2. n + 1 \in 1 .. L /\ n < n + 1 /\ lo + ((n + 1) - 1) = (lo + (n - 1)) + 1
      BY <3>1, <1>1
    <3>3. chosen(n) \in MacroOps(insns[n], insns[n + 1])
      BY <2>2, <3>1 DEF Chosen
    <3> HIDE DEF chosen
    <3>4. \E kind, t : chosen(n) = [op |-> "macro", kind |-> kind, rd |-> insns[n].rd, target |-> t,
                                    originals |-> <<insns[n], insns[n + 1]>>]
      BY <3>3 DEF MacroOps
    <3>5. chosen(n).op = "macro" /\ chosen(n).originals = <<insns[n], insns[n + 1]>>
      BY <3>4
    <3>6. insns[n].orig = lo + (n - 1) /\ insns[n + 1].orig = (lo + (n - 1)) + 1
      BY <3>2
    <3>7. SitsAt(chosen(n), lo + (n - 1)) /\ Width(chosen(n)) = 2
      BY <3>5, <3>6 DEF SitsAt, Width
    <3>8. /\ InsnOK(insns[n]) /\ InsnOK(insns[n + 1]) /\ insns[n].orig \in Nat
          /\ insns[n + 1].orig \in Nat /\ insns[n].orig < insns[n + 1].orig
      BY <3>2, <1>1
    <3>9. insns[n + 1].mn # "adrp"
      BY <3>3, <3>8, MacroFacts
    <3>10. macro(n + 1) = {}
      BY <3>9 DEF MacroOps, Fusable
    <3> QED
      BY <2>2, <3>2, <3>7, <3>10
  <2> QED
    BY <2>1, <2>2
<1> DEFINE To(m) == (lo + m) + (IF macro(m) # {} THEN 1 ELSE 0)
           Good == {m \in Nat : m <= L => IsSeq(ops[m]) /\ Tiled(ops[m], lo, To(m))}
<1>6. Good = Nat
  <2>1. 0 \in Good
    <3>1. To(0) = lo
      BY <1>4
    <3>2. IsSeq(<<>>) /\ Tiled(<<>>, lo, lo)
      BY PairSeq, TileNone
    <3> QED
      BY <3>1, <3>2, <1>2
  <2>2. ASSUME NEW m \in Good PROVE m + 1 \in Good
    <3> SUFFICES ASSUME m + 1 <= L
                 PROVE  IsSeq(ops[m + 1]) /\ Tiled(ops[m + 1], lo, To(m + 1))
      OBVIOUS
    <3>1. /\ m \in Nat /\ m <= L /\ m + 1 \in 1 .. L /\ (m + 1) - 1 = m
      BY <1>1
    <3>2. IsSeq(ops[m]) /\ Tiled(ops[m], lo, To(m))
      BY <3>1
    <3>3. ops[m + 1] = IF macro(m) # {} THEN ops[m] ELSE Append(ops[m], chosen(m + 1))
      <4> HIDE DEF macro, chosen
      <4> QED
        BY <1>3, <3>1
    <3>4. CASE macro(m) # {}
      <4>1. m \in 1 .. L
        BY <3>1, <3>4, <1>4
      <4>2. macro(m + 1) = {}
        BY <4>1, <3>4, <1>5
      <4>3. To(m + 1) = To(m)
        <5> HIDE DEF macro
        <5> QED
          BY <3>1, <3>4, <4>2
      <4>4. ops[m + 1] = ops[m]
        BY <3>3, <3>4
      <4> HIDE DEF To
      <4> QED
        BY <3>2, <4>3, <4>4
    <3>5. CASE macro(m) = {}
      <4>1. ops[m + 1] = Append(ops[m], chosen(m + 1))
        BY <3>3, <3>5
      <4>2. SitsAt(chosen(m + 1), lo + m)
        BY <3>1, <1>5
      <4>3. To(m) = lo + m /\ To(m + 1) = (lo + m) + Width(chosen(m + 1))
        <5>1. Width(chosen(m + 1)) = IF macro(m + 1) = {} THEN 1 ELSE 2
          BY <3>1, <1>5
        <5> HIDE DEF macro, chosen
        <5> QED
          BY <3>1, <3>5, <5>1
      <4> HIDE DEF To, chosen
      <4>4. /\ Tiled(Append(ops[m], chosen(m + 1)), lo, (lo + m) + Width(chosen(m + 1)))
            /\ IsSeq(Append(ops[m], chosen(m + 1)))
        BY <3>2, <4>2, <4>3, TileAppend
      <4> QED
        BY <4>1, <4>3, <4>4
    <3> QED
      BY <3>4, <3>5
  <2> HIDE DEF Good
  <2>3. Good \in SUBSET Nat
    BY DEF Good
  <2> QED
    BY <2>1, <2>2, <2>3, NatInduct
<1>7. Tiled(ops[L], lo, To(L))
  <2>1. L \in Nat /\ L <= L
    BY <1>1
  <2> HIDE DEF L, To
  <2> QED
    BY <1>6, <2>1
<1>8. To(L) = lo + L
  <2> HIDE DEF macro
  <2> QED
    BY <1>1, <1>4
<1> HIDE DEF To
<1> QED
  BY <1>2, <1>7, <1>8

\* The blocks of a section lie end to end from its base.
LEMMA BlocksJoin ==
  ASSUME SliceInv, BlocksOK, CoveredTo(N), input.container
  PROVE  /\ input.base \in Nat
         /\ Len(blocks) = 0 => N = 0
         /\ Len(blocks) > 0 => /\ blocks[1].start = input.base
                               /\ blocks[Len(blocks)].end = input.base + N
         /\ \A b \in 1 .. Len(blocks) :
              /\ blocks[b].start = input.base + (blocks[b].first - 1)
              /\ blocks[b].end = input.base + blocks[b].last
         /\ \A b \in 1 .. (Len(blocks) - 1) : blocks[b].end = blocks[b + 1].start
<1>1. /\ N \in Nat /\ input.base \in Nat
      /\ \A i \in 1 .. N : instructions[i].address = input.base + (i - 1) /\ instructions[i].size = 1
  <2>1. InputOK(input) /\ instructions = input.slice
    BY PlanAssumption DEF SliceInv
  <2>2. DOMAIN input.slice = 1 .. N /\ N \in Nat
    BY SliceFacts, <2>1
  <2> QED
    BY <2>1, <2>2 DEF InputOK
<1> DEFINE n == Len(blocks)
           f(k) == blocks[k].first
           l(k) == blocks[k].last
<1>2. /\ n \in Nat
      /\ \A j, k \in 1 .. n : j < k => l(j) < f(k)
  BY DEF BlocksOK
<1>3. \A k \in 1 .. n : /\ f(k) \in Nat /\ l(k) \in Nat /\ f(k) >= 1 /\ l(k) <= N /\ f(k) <= l(k)
                        /\ f(k) \in 1 .. N /\ l(k) \in 1 .. N
  <2> TAKE k \in 1 .. n
  <2>1. f(k) \in 1 .. N /\ l(k) \in f(k) .. N
    BY DEF BlocksOK, BlockOK
  <2> QED
    BY <2>1, <1>1
<1>4. \A b \in 1 .. n : /\ blocks[b].start = input.base + (f(b) - 1)
                        /\ blocks[b].end = input.base + l(b)
  <2> TAKE b \in 1 .. n
  <2>1. /\ blocks[b].start = instructions[f(b)].address
        /\ blocks[b].end = instructions[l(b)].address + instructions[l(b)].size
    BY DEF BlocksOK, BlockOK
  <2> HIDE DEF f, l
  <2> QED
    BY <2>1, <1>1, <1>3
<1>5. \A i \in 1 .. N : \E k \in 1 .. n : f(k) <= i /\ i <= l(k)
  BY DEF CoveredTo
<1> HIDE DEF n, f, l
<1>6. n = 0 => N = 0
  BY <1>1, <1>2, <1>5
<1>7. ASSUME n > 0 PROVE f(1) = 1 /\ l(n) = N
  <2>1. 1 \in 1 .. n /\ n \in 1 .. n /\ \A k \in 1 .. n : k # 1 => 1 < k
    BY <1>2, <1>7
  <2>2. \A k \in 1 .. n : k # n => k < n
    BY <1>2
  <2>3. N >= 1 /\ 1 \in 1 .. N /\ N \in 1 .. N
    BY <1>1, <1>3, <2>1
  <2>4. PICK k \in 1 .. n : f(k) <= 1 /\ 1 <= l(k)
    BY <1>5, <2>3
  <2>5. f(1) = 1
    BY <2>1, <2>4, <1>2, <1>3
  <2>6. PICK j \in 1 .. n : f(j) <= N /\ N <= l(j)
    BY <1>5, <2>3
  <2>7. l(n) = N
    <3>1. CASE j = n
      <4>1. N <= l(n)
        BY <2>6, <3>1
      <4>2. l(n) <= N /\ l(n) \in Nat
        BY <2>1, <1>3
      <4> QED
        BY <4>1, <4>2, <1>1
    <3>2. CASE j < n
      BY <2>1, <2>6, <3>2, <1>1, <1>2, <1>3
    <3> QED
      BY <2>2, <3>1, <3>2
  <2> QED
    BY <2>5, <2>7
<1>8. ASSUME NEW b \in 1 .. (n - 1) PROVE f(b + 1) = l(b) + 1
  <2>1. /\ b \in 1 .. n /\ b + 1 \in 1 .. n /\ b < b + 1
        /\ \A k \in 1 .. n : k < b \/ k = b \/ k = b + 1 \/ b + 1 < k
    BY <1>2
  <2>2. l(b) < f(b + 1) /\ l(b) + 1 \in 1 .. N
    BY <2>1, <1>1, <1>2, <1>3
  <2>3. PICK k \in 1 .. n : f(k) <= l(b) + 1 /\ l(b) + 1 <= l(k)
    BY <1>5, <2>2
  <2>4. CASE k < b
    BY <2>1, <2>3, <2>4, <1>2, <1>3
  <2>5. CASE k = b
    BY <2>1, <2>3, <2>5, <1>3
  <2>6. CASE k = b + 1
    BY <2>1, <2>2, <2>3, <2>6, <1>3
  <2>7. CASE b + 1 < k
    BY <2>1, <2>2, <2>3, <2>7, <1>2, <1>3
  <2> QED
    BY <2>1, <2>4, <2>5, <2>6, <2>7
<1>9. \A b \in 1 .. (n - 1) : blocks[b].end = blocks[b + 1].start
  <2> TAKE b \in 1 .. (n - 1)
  <2>1. b \in 1 .. n /\ b + 1 \in 1 .. n
    BY <1>2
  <2> QED
    BY <2>1, <1>1, <1>3, <1>4, <1>8
<1>10. n > 0 => blocks[1].start = input.base /\ blocks[n].end = input.base + N
  <2> SUFFICES ASSUME n > 0 PROVE blocks[1].start = input.base /\ blocks[n].end = input.base + N
    OBVIOUS
  <2>1. 1 \in 1 .. n /\ n \in 1 .. n
    BY <1>2
  <2> QED
    BY <2>1, <1>1, <1>4, <1>7
<1> QED
  BY <1>1, <1>4, <1>6, <1>9, <1>10 DEF n, f, l

LEMMA LiftTiles ==
  ASSUME GInv, Lift, input.container
  PROVE  PlanTiled(plan', blocks)
<1> DEFINE n == Len(blocks)
           q == plan'
<1>1. SliceInv /\ BlocksOK /\ CoveredTo(N)
  BY DEF GInv, AttachInv, Lift
<1>2. n \in Nat /\ DOMAIN blocks = 1 .. n
  BY <1>1 DEF BlocksOK
<1>3. q = [b \in 1 .. n |-> fuse_macros(LiftedBlock(b))]
  BY <1>2 DEF Lift, LiftedBlock
<1>4. q = [b \in 1 .. n |-> q[b]] /\ \A b \in 1 .. n : q[b] = fuse_macros(LiftedBlock(b))
  BY <1>3, Zenon
<1> HIDE DEF q, n
<1>5. Len(q) = n
  BY <1>2, <1>4, LenOfFunction
<1>6. ASSUME NEW b \in 1 .. n PROVE Tiled(q[b], blocks[b].start, blocks[b].end)
  <2> DEFINE s == LiftedBlock(b)
             f == blocks[b].first
             l == blocks[b].last
  <2>1. /\ Lifted(s) /\ Len(s) = (l - f) + 1
        /\ \A i \in 1 .. Len(s) : s[i].orig = instructions[(f + i) - 1].address
    BY <1>1, BlockLifts DEF n
  <2>2. /\ blocks[b].start = input.base + (f - 1) /\ blocks[b].end = input.base + l
        /\ input.base \in Nat
    BY <1>1, BlocksJoin DEF n
  <2>3. f \in 1 .. N /\ l \in f .. N /\ N \in Nat
    BY <1>1, SliceFacts DEF BlocksOK, BlockOK, n
  <2>4. \A i \in 1 .. N : instructions[i].address = input.base + (i - 1)
    <3>1. InputOK(input) /\ instructions = input.slice
      BY PlanAssumption, <1>1 DEF SliceInv
    <3>2. DOMAIN input.slice = 1 .. N
      BY SliceFacts, <1>1, <3>1
    <3> QED
      BY <3>1, <3>2 DEF InputOK
  <2> HIDE DEF s, f, l
  <2>5. blocks[b].start \in Nat /\ blocks[b].end = blocks[b].start + Len(s)
    BY <2>1, <2>2, <2>3
  <2>6. \A i \in 1 .. Len(s) : s[i].orig = blocks[b].start + (i - 1)
    <3> TAKE i \in 1 .. Len(s)
    <3>1. (f + i) - 1 \in 1 .. N
      BY <2>1, <2>3
    <3>2. s[i].orig = input.base + (((f + i) - 1) - 1)
      BY <2>1, <2>4, <3>1
    <3> QED
      BY <3>2, <2>1, <2>2, <2>3
  <2>7. Tiled(fuse_macros(s), blocks[b].start, blocks[b].start + Len(s))
    BY <2>1, <2>5, <2>6, FuseTiles
  <2> QED
    BY <2>5, <2>7, <1>4 DEF s
<1>7. PlanTiled(q, blocks)
  BY <1>5, <1>6 DEF PlanTiled, n
<1> QED
  BY <1>7 DEF q

-----------------------------------------------------------------------------
(* The ops of all blocks.                                                  *)

LEMMA FlattenSteps ==
  ASSUME NEW p, Len(p) \in Nat
  PROVE  /\ Len(p) = 0 => FlattenSeq(p) = p
         /\ Len(p) > 0 => \E flat : /\ flat[1] = p[1] /\ FlattenSeq(p) = flat[Len(p)]
                                    /\ \A i \in 2 .. Len(p) : flat[i] = flat[i - 1] \o p[i]
<1> DEFINE L == Len(p)
           step(q, n) == q \o p[n]
           Rec(f, m) == \A n \in 1 .. m : f[n] = IF n = 1 THEN p[n] ELSE step(f[n - 1], n)
           Ok1 == {m \in Nat : m <= L => \E f : f = [n \in 1 .. m |-> f[n]] /\ Rec(f, m)}
<1>1. L \in Nat
  OBVIOUS
<1>2. Ok1 = Nat
  <2>1. 0 \in Ok1
    <3> DEFINE g == [n \in 1 .. 0 |-> <<>>]
    <3> HIDE DEF step, L
    <3>1. g = [n \in 1 .. 0 |-> g[n]]
      BY Zenon
    <3>2. \A n \in 1 .. 0 : FALSE
      OBVIOUS
    <3>3. Rec(g, 0)
      BY <3>2
    <3> QED
      BY <3>1, <3>3
  <2>2. ASSUME NEW m \in Ok1 PROVE m + 1 \in Ok1
    <3> HIDE DEF step, L
    <3> SUFFICES ASSUME m + 1 <= L
                 PROVE  \E g : g = [n \in 1 .. (m + 1) |-> g[n]] /\ Rec(g, m + 1)
      OBVIOUS
    <3>1. m \in Nat /\ m <= L
      BY <1>1
    <3>2. PICK f : f = [n \in 1 .. m |-> f[n]] /\ Rec(f, m)
      BY <3>1
    <3> DEFINE last == IF m = 0 THEN p[1] ELSE step(f[m], m + 1)
               g == [n \in 1 .. (m + 1) |-> IF n = m + 1 THEN last ELSE f[n]]
    <3>3. Rec(g, m + 1)
      <4> SUFFICES ASSUME NEW n \in 1 .. (m + 1)
                   PROVE  g[n] = IF n = 1 THEN p[n] ELSE step(g[n - 1], n)
        OBVIOUS
      <4>1. CASE n = m + 1 /\ m = 0
        BY <4>1
      <4>2. CASE n = m + 1 /\ m # 0
        <5>1. n # 1 /\ n - 1 = m /\ m \in 1 .. (m + 1) /\ m # m + 1
          BY <4>2, <3>1
        <5> QED
          BY <4>2, <5>1
      <4>3. CASE n # m + 1
        <5>1. n \in 1 .. m /\ (n # 1 => n - 1 \in 1 .. (m + 1) /\ n - 1 # m + 1)
          BY <4>3, <3>1
        <5> HIDE DEF last
        <5>2. g[n] = f[n] /\ (n # 1 => g[n - 1] = f[n - 1])
          BY <4>3, <5>1
        <5> QED
          BY <5>1, <5>2, <3>2
      <4> QED
        BY <4>1, <4>2, <4>3
    <3>4. g = [n \in 1 .. (m + 1) |-> g[n]]
      BY Zenon
    <3> QED
      BY <3>3, <3>4
  <2> HIDE DEF Ok1
  <2>3. Ok1 \in SUBSET Nat
    BY DEF Ok1
  <2> QED
    BY <2>1, <2>2, <2>3, NatInduct
<1> DEFINE IsFlat(f) == f = [n \in 1 .. L |-> IF n = 1 THEN p[n] ELSE step(f[n - 1], n)]
           flat == CHOOSE f : IsFlat(f)
<1>3. IsFlat(flat)
  <2>1. L \in Nat /\ L <= L
    BY <1>1
  <2>2. \E f : f = [n \in 1 .. L |-> f[n]] /\ Rec(f, L)
    <3> HIDE DEF L, Rec
    <3> QED
      BY <1>2, <2>1
  <2>3. PICK f : f = [n \in 1 .. L |-> f[n]] /\ Rec(f, L)
    BY <2>2
  <2> HIDE DEF step
  <2>4. IsFlat(f)
    BY <2>3, Zenon
  <2> HIDE DEF IsFlat
  <2> QED
    BY <2>4
<1>4. \A n \in 1 .. L : flat[n] = IF n = 1 THEN p[n] ELSE step(flat[n - 1], n)
  <2> HIDE DEF step, flat
  <2> QED
    BY <1>3
<1>5. FlattenSeq(p) = IF L = 0 THEN p ELSE flat[L]
  BY Zenon DEF FlattenSeq
<1> HIDE DEF flat, IsFlat
<1>6. L > 0 => /\ flat[1] = p[1]
               /\ \A i \in 2 .. L : flat[i] = flat[i - 1] \o p[i]
  <2>1. \A i \in 2 .. L : i \in 1 .. L /\ i # 1
    OBVIOUS
  <2>2. L > 0 => 1 \in 1 .. L
    OBVIOUS
  <2> QED
    BY <1>4, <2>1, <2>2
<1>7. L = 0 => FlattenSeq(p) = p
  BY <1>5
<1>8. L > 0 => FlattenSeq(p) = flat[L]
  BY <1>5
<1> HIDE DEF L
<1>9. L > 0 => \E f : /\ f[1] = p[1] /\ FlattenSeq(p) = f[L]
                      /\ \A i \in 2 .. L : f[i] = f[i - 1] \o p[i]
  BY <1>6, <1>8
<1> QED
  BY <1>7, <1>9 DEF L

LEMMA ConcatOps ==
  ASSUME NEW l, OpsOK(l), NEW r, OpsOK(r)
  PROVE  OpsOK(l \o r)
<1> DEFINE t == l \o r
<1>1. /\ IsSeq(l) /\ IsSeq(r)
      /\ \A k \in 1 .. Len(l) : OpOK(l[k])
      /\ \A k \in 1 .. Len(r) : OpOK(r[k])
  BY DEF OpsOK
<1>2. /\ IsSeq(t)
      /\ \A k \in 1 .. Len(l) : t[k] = l[k]
      /\ \A k \in 1 .. Len(r) : t[Len(l) + k] = r[k]
      /\ \A k \in 1 .. Len(t) : k \in 1 .. Len(l) \/ \E j \in 1 .. Len(r) : k = Len(l) + j
  BY <1>1, ConcatSeq
<1> HIDE DEF t
<1>3. \A k \in 1 .. Len(t) : OpOK(t[k])
  BY <1>1, <1>2
<1>4. OpsOK(t)
  BY <1>2, <1>3 DEF OpsOK
<1> QED
  BY <1>4 DEF t

LEMMA FlattenOps ==
  ASSUME NEW p, PlanOK(p)
  PROVE  OpsOK(FlattenSeq(p))
<1> DEFINE L == Len(p)
<1>1. L \in Nat /\ p = [k \in 1 .. L |-> p[k]] /\ \A b \in 1 .. L : OpsOK(p[b])
  BY DEF PlanOK, IsSeq
<1>2. CASE L = 0
  <2>1. FlattenSeq(p) = p
    BY <1>1, <1>2, FlattenSteps
  <2>2. IsSeq(p) /\ 1 .. 0 = {}
    BY DEF PlanOK
  <2> QED
    BY <1>2, <2>1, <2>2 DEF OpsOK
<1>3. CASE L > 0
  <2>1. PICK flat : /\ flat[1] = p[1] /\ FlattenSeq(p) = flat[L]
                    /\ \A i \in 2 .. L : flat[i] = flat[i - 1] \o p[i]
    BY <1>1, <1>3, FlattenSteps
  <2> HIDE DEF L
  <2> DEFINE Good == {m \in Nat : m + 1 <= L => OpsOK(flat[m + 1])}
  <2>2. 0 \in Good
    <3>1. 1 \in 1 .. L /\ 0 + 1 = 1
      BY <1>1, <1>3
    <3> QED
      BY <3>1, <2>1, <1>1
  <2>3. ASSUME NEW m \in Good PROVE m + 1 \in Good
    <3> SUFFICES ASSUME (m + 1) + 1 <= L PROVE OpsOK(flat[(m + 1) + 1])
      OBVIOUS
    <3>1. m + 1 <= L /\ (m + 1) + 1 \in 2 .. L /\ (m + 1) + 1 \in 1 .. L /\ ((m + 1) + 1) - 1 = m + 1
      BY <1>1
    <3>2. OpsOK(flat[m + 1]) /\ OpsOK(p[(m + 1) + 1])
      BY <3>1, <1>1
    <3>3. flat[(m + 1) + 1] = flat[m + 1] \o p[(m + 1) + 1]
      BY <3>1, <2>1
    <3> QED
      BY <3>2, <3>3, ConcatOps
  <2> HIDE DEF Good
  <2>4. Good = Nat
    <3>1. Good \in SUBSET Nat
      BY DEF Good
    <3> QED
      BY <2>2, <2>3, <3>1, NatInduct
  <2>5. L - 1 \in Good /\ (L - 1) + 1 = L /\ L <= L
    BY <2>4, <1>1, <1>3
  <2>6. OpsOK(flat[L])
    BY <2>5 DEF Good
  <2> QED
    BY <2>1, <2>6
<1> QED
  BY <1>1, <1>2, <1>3

LEMMA FlattenTiles ==
  ASSUME NEW p, PlanOK(p), NEW g, PlanTiled(p, g), Len(p) > 0,
         \A b \in 1 .. (Len(p) - 1) : g[b].end = g[b + 1].start
  PROVE  Tiled(FlattenSeq(p), g[1].start, g[Len(p)].end)
<1> DEFINE L == Len(p)
<1>1. /\ L \in Nat /\ \A b \in 1 .. L : IsSeq(p[b])
      /\ \A b \in 1 .. L : Tiled(p[b], g[b].start, g[b].end)
      /\ L > 0 /\ \A b \in 1 .. (L - 1) : g[b].end = g[b + 1].start
  BY DEF PlanOK, IsSeq, PlanTiled, OpsOK
<1>2. PICK flat : /\ flat[1] = p[1] /\ FlattenSeq(p) = flat[L]
                  /\ \A i \in 2 .. L : flat[i] = flat[i - 1] \o p[i]
  BY <1>1, FlattenSteps
<1> HIDE DEF L
<1> DEFINE Good == {m \in Nat : m + 1 <= L =>
                      IsSeq(flat[m + 1]) /\ Tiled(flat[m + 1], g[1].start, g[m + 1].end)}
<1>3. 0 \in Good
  <2>1. 1 \in 1 .. L /\ 0 + 1 = 1
    BY <1>1
  <2> QED
    BY <2>1, <1>1, <1>2
<1>4. ASSUME NEW m \in Good PROVE m + 1 \in Good
  <2> DEFINE k == (m + 1) + 1
  <2> SUFFICES ASSUME k <= L PROVE IsSeq(flat[k]) /\ Tiled(flat[k], g[1].start, g[k].end)
    OBVIOUS
  <2>1. m + 1 <= L /\ k \in 2 .. L /\ k \in 1 .. L /\ k - 1 = m + 1 /\ m + 1 \in 1 .. (L - 1)
    BY <1>1
  <2>2. IsSeq(flat[m + 1]) /\ Tiled(flat[m + 1], g[1].start, g[m + 1].end)
    BY <2>1
  <2>3. g[m + 1].end = g[k].start
    BY <2>1, <1>1
  <2> HIDE DEF k, Good
  <2>4. flat[k] = flat[m + 1] \o p[k]
    BY <2>1, <1>2
  <2>5. IsSeq(p[k]) /\ Tiled(p[k], g[m + 1].end, g[k].end)
    BY <2>1, <2>3, <1>1
  <2> QED
    BY <2>2, <2>4, <2>5, TileConcat, ConcatSeq
<1> HIDE DEF Good
<1>5. Good = Nat
  <2>1. Good \in SUBSET Nat
    BY DEF Good
  <2> QED
    BY <1>3, <1>4, <2>1, NatInduct
<1>6. L - 1 \in Good /\ (L - 1) + 1 = L /\ L <= L
  BY <1>5, <1>1
<1>7. Tiled(flat[L], g[1].start, g[L].end)
  BY <1>6 DEF Good
<1> QED
  BY <1>2, <1>7 DEF L

-----------------------------------------------------------------------------
(* Edits, the log and the overlays.                                        *)

ResizeEdits == {"insert", "remove", "terminator"}

\* As long as no edit changed the length, every block of the plan fills its block
\* of the graph.
TileInv == (pc = "edit" /\ input.container /\ ~Resized) => PlanTiled(plan, blocks)

\* An overlay begins in the section or right behind it.
OverlayOK(v) == v.va \in input.base .. (input.base + N) /\ v.len \in 1 .. 2

OverlayInv == input.container => \A v \in overlays : OverlayOK(v)

\* Before an emission nothing is out and the container is the input's.
FreshInv ==
  pc # "committed" =>
    out = <<>> /\ container = [symbols |-> input.symbols, relocs |-> input.relocs]

CommitInv == IsSeq(log) /\ TileInv /\ OverlayInv /\ FreshInv

LEMMA LogGrows ==
  ASSUME IsSeq(log), NEW e, log' = Append(log, e)
  PROVE  /\ IsSeq(log')
         /\ ~Resized' => ~Resized /\ ~(e.edit \in ResizeEdits /\ e.result = "Ok")
<1> DEFINE n == Len(log)
<1>1. n \in Nat /\ log = [k \in 1 .. n |-> log[k]]
  BY DEF IsSeq
<1>2. /\ Len(log') = n + 1 /\ log' = [k \in 1 .. Len(log') |-> log'[k]]
      /\ \A k \in 1 .. n : log'[k] = log[k]
      /\ log'[n + 1] = e
  BY <1>1, SeqFacts
<1> HIDE DEF n
<1>3. IsSeq(log')
  BY <1>1, <1>2 DEF IsSeq
<1>4. DOMAIN log = 1 .. n /\ DOMAIN log' = 1 .. (n + 1)
  BY <1>1, <1>2
<1>5. \A k \in 1 .. n : k \in 1 .. (n + 1)
  BY <1>1
<1>6. n + 1 \in 1 .. (n + 1)
  BY <1>1
<1>7. Resized => Resized'
  BY <1>2, <1>4, <1>5 DEF Resized, Succeeded
<1>8. e.edit \in ResizeEdits /\ e.result = "Ok" => Resized'
  BY <1>2, <1>4, <1>6 DEF Resized, Succeeded, ResizeEdits
<1> QED
  BY <1>3, <1>7, <1>8

\* An edit that would change the length and is refused leaves the plan alone.
LEMMA RefusedResize ==
  ASSUME NEW p, NEW a, NEW insn, NEW insns
  PROVE  /\ insert_after_address(p, a, insns).result # "Ok" =>
              insert_after_address(p, a, insns).plan = p
         /\ remove_at_address(p, a).result # "Ok" => remove_at_address(p, a).plan = p
         /\ replace_terminator(p, a, insn).result # "Ok" =>
              replace_terminator(p, a, insn).plan = p
<1>1. \A q, e : Ok(q).result = "Ok" /\ Err(q, e).plan = q
  BY DEF Ok, Err
<1> QED
  BY <1>1 DEF insert_after_address, remove_at_address, replace_terminator

LEMMA ApplyFacts ==
  ASSUME IsSeq(log), NEW edit, NEW a, NEW t, NEW r, Apply(edit, a, t, r)
  PROVE  /\ IsSeq(log') /\ pc = "edit" /\ pc' = "edit" /\ plan' = r.plan
         /\ ~Resized' => ~Resized /\ ~(edit \in ResizeEdits /\ r.result = "Ok")
         /\ UNCHANGED <<blocks, instructions, input, overlays, container, out>>
<1> DEFINE e == [edit |-> edit, at |-> a, target |-> t, result |-> r.result]
<1>1. log' = Append(log, e) /\ e.edit = edit /\ e.result = r.result
  BY DEF Apply
<1> HIDE DEF e
<1>2. IsSeq(log') /\ (~Resized' => ~Resized /\ ~(edit \in ResizeEdits /\ r.result = "Ok"))
  BY <1>1, LogGrows
<1> QED
  BY <1>2 DEF Apply, cfgVars

LEMMA EditTiles ==
  ASSUME SliceInv, EditInv, CommitInv, Edit
  PROVE  CommitInv'
<1>1. IsSeq(log) /\ TileInv /\ OverlayInv /\ FreshInv
  BY DEF CommitInv
<1> DEFINE Done == /\ IsSeq(log') /\ pc = "edit" /\ pc' = "edit"
                   /\ UNCHANGED <<blocks, instructions, input, overlays, container, out>>
                   /\ ~Resized' => ~Resized /\ (PlanTiled(plan, blocks) => PlanTiled(plan', blocks))
<1>2. ASSUME Done PROVE CommitInv'
  <2>1. TileInv'
    <3>1. (PlanTiled(plan', blocks')) => PlanTiled(plan, blocks)'
      BY DEF PlanTiled, Tiled, Placing, Width, SitsAt
    <3> QED
      BY <1>1, <1>2, <3>1 DEF TileInv
  <2>2. OverlayInv' /\ FreshInv'
    BY <1>1, <1>2 DEF OverlayInv, OverlayOK, FreshInv, N
  <2>3. IsSeq(log)'
    BY <1>2 DEF IsSeq
  <2> QED
    BY <2>1, <2>2, <2>3 DEF CommitInv
<1>3. pc = "edit" => PlanOK(plan)
  BY DEF EditInv
<1>4. CASE RedirectBranch
  <2>1. PICK a \in Addresses, t \in NewTargets :
          Apply("redirect_branch", a, t, redirect_branch(plan, a, t))
    BY <1>4 DEF RedirectBranch
  <2>2. Done
    BY <2>1, <1>1, <1>3, ApplyFacts, RedirectTiles
  <2> QED
    BY <2>2, <1>2
<1>5. CASE RedirectMacro
  <2>1. PICK a \in Addresses, t \in NewTargets :
          Apply("redirect_macro", a, t, redirect_macro_target(plan, a, t))
    BY <1>5 DEF RedirectMacro
  <2>2. Done
    BY <2>1, <1>1, <1>3, ApplyFacts, RedirectTiles
  <2> QED
    BY <2>2, <1>2
<1>6. CASE Replace
  <2>1. PICK a \in Addresses, t \in NewTargets :
          Apply("replace", a, t, replace_instruction_at(plan, a, NewInsn("branch", t)))
    BY <1>6 DEF Replace
  <2>2. Done
    BY <2>1, <1>1, <1>3, ApplyFacts, ReplaceTiles
  <2> QED
    BY <2>2, <1>2
<1>7. CASE ReplaceTerminator
  <2>1. PICK b \in 1 .. Len(plan) + 1, t \in NewTargets :
          Apply("terminator", b, t, replace_terminator(plan, b, NewInsn("branch", t)))
    BY <1>7 DEF ReplaceTerminator
  <2>2. Done
    BY <2>1, <1>1, ApplyFacts, RefusedResize DEF ResizeEdits
  <2> QED
    BY <2>2, <1>2
<1>8. CASE InsertAfter
  <2>1. PICK a \in Addresses :
          Apply("insert", a, NoTarget,
                insert_after_address(plan, a, <<NewInsn("none", NoTarget)>>))
    BY <1>8 DEF InsertAfter
  <2>2. Done
    BY <2>1, <1>1, ApplyFacts, RefusedResize DEF ResizeEdits
  <2> QED
    BY <2>2, <1>2
<1>9. CASE RemoveOp
  <2>1. PICK a \in Addresses : Apply("remove", a, NoTarget, remove_at_address(plan, a))
    BY <1>9 DEF RemoveOp
  <2>2. Done
    BY <2>1, <1>1, ApplyFacts, RefusedResize DEF ResizeEdits
  <2> QED
    BY <2>2, <1>2
<1>10. CASE OverlayBytes
  <2>1. PICK a \in Addresses, len \in 1 .. 2 :
          /\ overlays' = overlays \cup {[va |-> a, len |-> len]}
          /\ log' = Append(log, [edit |-> "overlay", at |-> a, target |-> NoTarget,
                                 result |-> "Ok"])
    BY <1>10 DEF OverlayBytes
  <2>2. /\ pc = "edit" /\ pc' = "edit" /\ plan' = plan
        /\ UNCHANGED <<blocks, instructions, input, container, out>>
    BY <1>10 DEF OverlayBytes, cfgVars
  <2>3. IsSeq(log') /\ (~Resized' => ~Resized)
    BY <2>1, <1>1, LogGrows
  <2>4. TileInv'
    <3>1. (PlanTiled(plan', blocks')) => PlanTiled(plan, blocks)'
      BY DEF PlanTiled, Tiled, Placing, Width, SitsAt
    <3> QED
      BY <1>1, <2>2, <2>3, <3>1 DEF TileInv
  <2>5. OverlayInv'
    <3>1. input.container => OverlayOK([va |-> a, len |-> len])
      <4> SUFFICES ASSUME input.container
                   PROVE a \in input.base .. (input.base + N)
        BY DEF OverlayOK
      <4>1. InputOK(input) /\ instructions = input.slice
        BY PlanAssumption DEF SliceInv
      <4>2. DOMAIN instructions = 1 .. N /\ N \in Nat /\ input.base \in Nat
        BY <4>1, SliceFacts DEF InputOK
      <4>3. \A i \in 1 .. N : instructions[i].address = input.base + (i - 1)
        BY <4>1, <4>2 DEF InputOK
      <4>4. a = input.base + N \/ \E i \in 1 .. N : a = instructions[i].address
        BY <2>1 DEF Addresses
      <4> QED
        BY <4>2, <4>3, <4>4
    <3>2. \A v : OverlayOK(v)' <=> OverlayOK(v)
      BY <2>2 DEF OverlayOK, N
    <3> QED
      BY <1>1, <2>1, <2>2, <3>1, <3>2 DEF OverlayInv
  <2>6. FreshInv'
    BY <1>1, <2>2 DEF FreshInv
  <2> QED
    BY <2>3, <2>4, <2>5, <2>6 DEF CommitInv, IsSeq
<1> QED
  BY <1>4, <1>5, <1>6, <1>7, <1>8, <1>9, <1>10 DEF Edit

-----------------------------------------------------------------------------
(* What one op becomes.                                                    *)

RelocKinds == {"AdrpPage21", "AddPageOffset12", "LoadStorePageOffset12", "Branch"}

\* A relocation on one of the words, the first of which is k words behind the base.
FitsIn(r, words, k) ==
  \E d \in 0 .. (Len(words) - 1), kind \in RelocKinds :
    /\ words[d + 1].mn \in Patchable(kind)
    /\ \E s : r = Reloc(k + d, kind, s)

EmittedOK(e, k) ==
  /\ e = [result |-> e.result, words |-> e.words, relocs |-> e.relocs]
  /\ IsSeq(e.words) /\ IsSeq(e.relocs)
  /\ \A n \in 1 .. Len(e.relocs) : FitsIn(e.relocs[n], e.words, k)

\* The words of an op stand for its source.
WordsOf(op, words) ==
  /\ Len(words) = Width(op)
  /\ \A a \in Nat : SitsAt(op, a) => \A j \in 1 .. Len(words) : words[j].src \in {-1, a + (j - 1)}

LEMMA NoRelocs ==
  ASSUME NEW words, IsSeq(words), NEW k
  PROVE  EmittedOK(Bytes(words, <<>>), k) /\ Bytes(words, <<>>).words = words
<1> DEFINE e == Bytes(words, <<>>)
<1>1. e = [result |-> "Ok", words |-> words, relocs |-> <<>>]
  BY DEF Bytes
<1>2. e = [result |-> e.result, words |-> e.words, relocs |-> e.relocs]
      /\ e.words = words /\ e.relocs = <<>>
  BY <1>1
<1> HIDE DEF e
<1>3. IsSeq(<<>>) /\ Len(<<>>) = 0
  BY PairSeq
<1>4. \A n \in 1 .. 0 : FALSE
  OBVIOUS
<1>5. EmittedOK(e, k)
  BY <1>2, <1>3, <1>4 DEF EmittedOK
<1> QED
  BY <1>2, <1>5 DEF e

LEMMA OneWord ==
  ASSUME NEW w, NEW o, o.op = "insn", w.src = o.orig
  PROVE  IsSeq(<<w>>) /\ Len(<<w>>) = 1 /\ WordsOf(o, <<w>>)
<1>1. IsSeq(<<w>>) /\ Len(<<w>>) = 1 /\ <<w>>[1] = w
  BY PairSeq
<1>3. \A j \in 1 .. 1 : j = 1
  OBVIOUS
<1>2. ASSUME NEW a \in Nat, SitsAt(o, a) PROVE w.src \in {-1, a + (1 - 1)}
  <2>1. SitsAt(o, a)
    BY <1>2
  <2>2. o.orig \in {-1, a}
    BY <2>1 DEF SitsAt
  <2>3. a + (1 - 1) = a
    OBVIOUS
  <2> QED
    BY <2>2, <2>3
<1> QED
  BY <1>1, <1>2, <1>3 DEF WordsOf, Width

LEMMA InsnEmits ==
  ASSUME input.container, NEW o, InsnOK(o), NEW p, NEW v, NEW here,
         v.base \in Int, here \in Int, emit_instruction(p, v, o, here).result = "Ok"
  PROVE  /\ EmittedOK(emit_instruction(p, v, o, here), here - v.base)
         /\ WordsOf(o, emit_instruction(p, v, o, here).words)
<1> DEFINE e == emit_instruction(p, v, o, here)
           syms == InsnRelocs(v, o)
           w == Word(o, IF o.ref = "page" THEN Page(here) ELSE here)
           kind == IF o.ref = "page" THEN "AdrpPage21" ELSE "Branch"
           r == Reloc(here - v.base, kind, LowestOf(syms))
<1>1. o.op = "insn"
  BY DEF InsnOK
<1>2. \A val : Word(o, val).src = o.orig /\ Word(o, val).mn = o.mn
  BY DEF Word
<1>3. SourceWord(o.orig).src = o.orig
  BY DEF SourceWord
<1>4. \A x : Failed(x).result = x
  BY DEF Failed
<1>5. \/ e = Bytes(<<SourceWord(o.orig)>>, <<>>)
      \/ syms # {} /\ e = Bytes(<<w>>, <<r>>)
      \/ \E val : e = Bytes(<<Word(o, val)>>, <<>>)
  <2>1. \/ e = Bytes(<<SourceWord(o.orig)>>, <<>>)
        \/ syms # {} /\ e = Bytes(<<w>>, <<r>>)
        \/ \E val : e = Bytes(<<Word(o, val)>>, <<>>)
        \/ e = Failed("Layout") \/ e = Failed("Encode")
    BY DEF emit_instruction
  <2> QED
    BY <2>1, <1>4
<1>6. CASE e = Bytes(<<SourceWord(o.orig)>>, <<>>)
  BY <1>6, <1>1, <1>3, OneWord, NoRelocs
<1>7. ASSUME NEW val, e = Bytes(<<Word(o, val)>>, <<>>)
      PROVE  EmittedOK(e, here - v.base) /\ WordsOf(o, e.words)
  <2> DEFINE u == Word(o, val)
  <2>1. u.src = o.orig
    BY <1>2
  <2> HIDE DEF u
  <2>2. IsSeq(<<u>>) /\ WordsOf(o, <<u>>)
    BY <2>1, <1>1, OneWord
  <2> QED
    BY <2>2, <1>7, NoRelocs DEF u
<1>8. CASE syms # {} /\ e = Bytes(<<w>>, <<r>>)
  <2>1. w.src = o.orig /\ w.mn = o.mn
    BY <1>2
  <2>2. w.mn \in Patchable(kind) /\ kind \in RelocKinds
    <3>1. o.ref # "none"
      BY <1>8 DEF InsnRelocs
    <3> HIDE DEF w, syms
    <3>2. CASE o.ref = "page"
      BY <2>1, <3>2 DEF InsnOK, Patchable, RelocKinds
    <3>3. CASE o.ref # "page"
      BY <2>1, <3>1, <3>3 DEF InsnOK, Patchable, RelocKinds
    <3> QED
      BY <3>2, <3>3
  <2>3. e = [result |-> "Ok", words |-> <<w>>, relocs |-> <<r>>]
    BY <1>8 DEF Bytes
  <2>4. e = [result |-> e.result, words |-> e.words, relocs |-> e.relocs]
        /\ e.words = <<w>> /\ e.relocs = <<r>>
    BY <2>3
  <2> HIDE DEF e, w, r, kind, syms
  <2>5. IsSeq(<<w>>) /\ Len(<<w>>) = 1 /\ WordsOf(o, <<w>>) /\ <<w>>[1] = w
    BY <2>1, <1>1, OneWord, PairSeq
  <2>6. IsSeq(<<r>>) /\ Len(<<r>>) = 1 /\ <<r>>[1] = r
    BY PairSeq
  <2>7. FitsIn(r, <<w>>, here - v.base)
    <3>1. r = Reloc((here - v.base) + 0, kind, LowestOf(syms))
      BY DEF r
    <3>2. 0 \in 0 .. (1 - 1) /\ 0 + 1 = 1
      OBVIOUS
    <3>3. <<w>>[0 + 1].mn \in Patchable(kind)
      BY <3>2, <2>2, <2>5
    <3> QED
      BY <3>1, <3>2, <3>3, <2>2, <2>5 DEF FitsIn
  <2>9. \A n \in 1 .. 1 : n = 1
    OBVIOUS
  <2>8. EmittedOK(e, here - v.base)
    <3>1. IsSeq(e.words) /\ IsSeq(e.relocs) /\ Len(e.relocs) = 1
      BY <2>4, <2>5, <2>6
    <3>2. \A n \in 1 .. 1 : e.relocs[n] = r
      BY <2>4, <2>6, <2>9
    <3>3. \A n \in 1 .. 1 : FitsIn(e.relocs[n], e.words, here - v.base)
      BY <2>4, <2>7, <3>2
    <3> QED
      BY <2>4, <3>1, <3>3 DEF EmittedOK
  <2>10. WordsOf(o, e.words)
    BY <2>4, <2>5
  <2> QED
    BY <2>8, <2>10 DEF e
<1> QED
  BY <1>5, <1>6, <1>7, <1>8

\* A pair of words for a macro, the second for the second instruction.
LEMMA TwoWords ==
  ASSUME NEW m, MacroOK(m), NEW w, NEW x,
         w.src = m.originals[1].orig, x.src = m.originals[2].orig
  PROVE  /\ IsSeq(<<w, x>>) /\ Len(<<w, x>>) = 2 /\ <<w, x>>[1] = w /\ <<w, x>>[2] = x
         /\ WordsOf(m, <<w, x>>)
<1>1. IsSeq(<<w, x>>) /\ Len(<<w, x>>) = 2 /\ <<w, x>>[1] = w /\ <<w, x>>[2] = x
  BY PairSeq
<1>2. m.op = "macro"
  BY DEF MacroOK
<1>3. ASSUME NEW a \in Nat, SitsAt(m, a)
      PROVE  w.src = a /\ x.src = a + 1
  BY <1>2, <1>3 DEF SitsAt
<1>4. \A a \in Nat : \A j \in 1 .. 2 : (j = 1 /\ a = a + (j - 1)) \/ (j = 2 /\ a + 1 = a + (j - 1))
  OBVIOUS
<1>5. ASSUME NEW a \in Nat, SitsAt(m, a), NEW j \in 1 .. 2
      PROVE  <<w, x>>[j].src \in {-1, a + (j - 1)}
  <2>1. w.src = a /\ x.src = a + 1
    BY <1>3, <1>5
  <2>2. CASE j = 1 /\ a = a + (j - 1)
    BY <2>1, <2>2, <1>1
  <2>3. CASE j = 2 /\ a + 1 = a + (j - 1)
    BY <2>1, <2>3, <1>1
  <2> QED
    BY <2>2, <2>3, <1>4
<1>6. WordsOf(m, <<w, x>>)
  BY <1>1, <1>2, <1>5 DEF WordsOf, Width
<1> QED
  BY <1>1, <1>6

\* Both words of a pair are relocated.
LEMMA PairFits ==
  ASSUME input.container, NEW m, MacroOK(m), NEW k \in Int, NEW s, NEW w, NEW x,
         NEW kind \in RelocKinds, w.mn = "adrp", x.mn \in Patchable(kind)
  PROVE  EmittedOK(Bytes(<<w, x>>, PairRelocs(m, k, kind, s)), k)
<1> DEFINE q == Reloc(k, "AdrpPage21", s)
           r == Reloc(k + m.originals[1].size, kind, s)
           relocs == PairRelocs(m, k, kind, s)
           e == Bytes(<<w, x>>, relocs)
<1>1. m.originals[1].size = 1
  BY DEF MacroOK, InsnOK
<1>2. q = Reloc(k + 0, "AdrpPage21", s) /\ r = Reloc(k + 1, kind, s) /\ relocs = <<q, r>>
  BY <1>1 DEF PairRelocs
<1> HIDE DEF q, r
<1>3. /\ IsSeq(<<w, x>>) /\ Len(<<w, x>>) = 2 /\ <<w, x>>[1] = w /\ <<w, x>>[2] = x
      /\ IsSeq(<<q, r>>) /\ Len(<<q, r>>) = 2 /\ <<q, r>>[1] = q /\ <<q, r>>[2] = r
  BY PairSeq
<1>4. 0 \in 0 .. (2 - 1) /\ 1 \in 0 .. (2 - 1) /\ 0 + 1 = 1 /\ 1 + 1 = 2
  OBVIOUS
<1>5. "AdrpPage21" \in RelocKinds /\ w.mn \in Patchable("AdrpPage21")
  BY DEF RelocKinds, Patchable
<1>6. FitsIn(q, <<w, x>>, k)
  <2>1. <<w, x>>[0 + 1].mn \in Patchable("AdrpPage21")
    BY <1>3, <1>4, <1>5
  <2> QED
    BY <2>1, <1>2, <1>3, <1>4, <1>5 DEF FitsIn
<1>7. FitsIn(r, <<w, x>>, k)
  <2>1. <<w, x>>[1 + 1].mn \in Patchable(kind)
    BY <1>3, <1>4
  <2> QED
    BY <2>1, <1>2, <1>3, <1>4 DEF FitsIn
<1>8. e = [result |-> "Ok", words |-> <<w, x>>, relocs |-> <<q, r>>]
  BY <1>2 DEF Bytes
<1>9. e = [result |-> e.result, words |-> e.words, relocs |-> e.relocs]
      /\ e.words = <<w, x>> /\ e.relocs = <<q, r>>
  BY <1>8
<1> HIDE DEF e, relocs
<1>10. ASSUME NEW n \in 1 .. 2 PROVE FitsIn(e.relocs[n], e.words, k)
  <2>1. n = 1 \/ n = 2
    OBVIOUS
  <2>2. e.relocs[1] = q /\ e.relocs[2] = r
    BY <1>3, <1>9
  <2>3. e.relocs[n] \in {q, r}
    BY <2>1, <2>2
  <2> QED
    BY <2>3, <1>6, <1>7, <1>9
<1>11. EmittedOK(e, k)
  BY <1>3, <1>9, <1>10 DEF EmittedOK
<1> QED
  BY <1>11 DEF e, relocs

LEMMA MacroEmits ==
  ASSUME input.container, NEW m, MacroOK(m), NEW p, NEW v, NEW here,
         v.base \in Int, here \in Int, emit_macro(p, v, m, here).result = "Ok"
  PROVE  /\ EmittedOK(emit_macro(p, v, m, here), here - v.base)
         /\ WordsOf(m, emit_macro(p, v, m, here).words)
<1> DEFINE e == emit_macro(p, v, m, here)
           k == here - v.base
           s == LowestOf(MacroRelocs(v, m))
           Good(x) == EmittedOK(x, k) /\ WordsOf(m, x.words)
<1>1. m.op = "macro" /\ m.originals[1].mn = "adrp" /\ k \in Int
  BY DEF MacroOK
<1>2. \A o, val : Word(o, val).src = o.orig /\ Word(o, val).mn = o.mn
  BY DEF Word
<1>3. \A x : Failed(x).result = x
  BY DEF Failed
<1>4. \A a : SourceWord(a).src = a
  BY DEF SourceWord
<1>5. ASSUME NEW w, NEW x, w.src = m.originals[1].orig, x.src = m.originals[2].orig
      PROVE  /\ Good(Bytes(<<w, x>>, <<>>))
             /\ \A kind \in RelocKinds : (w.mn = "adrp" /\ x.mn \in Patchable(kind)) =>
                  Good(Bytes(<<w, x>>, PairRelocs(m, k, kind, s)))
  <2>1. IsSeq(<<w, x>>) /\ WordsOf(m, <<w, x>>)
    BY <1>5, TwoWords
  <2>2. \A relocs : Bytes(<<w, x>>, relocs).words = <<w, x>>
    BY DEF Bytes
  <2>3. EmittedOK(Bytes(<<w, x>>, <<>>), k)
    BY <2>1, NoRelocs
  <2> HIDE DEF k, s
  <2>4. ASSUME NEW kind \in RelocKinds, w.mn = "adrp", x.mn \in Patchable(kind)
        PROVE  EmittedOK(Bytes(<<w, x>>, PairRelocs(m, k, kind, s)), k)
    BY <2>4, <1>1, PairFits
  <2> QED
    BY <2>1, <2>2, <2>3, <2>4
<1> HIDE DEF Good, s, k
<1>6. CASE verbatim_macro(p, v, m, here)
  <2> DEFINE f == [i \in 1 .. 2 |-> SourceWord(m.originals[i].orig)]
             w == SourceWord(m.originals[1].orig)
             x == SourceWord(m.originals[2].orig)
  <2>1. e = Bytes(f, <<>>)
    BY <1>6 DEF emit_macro
  <2>2. f = <<w, x>>
    <3>1. 1 .. 2 = {1, 2}
      OBVIOUS
    <3>2. f[1] = w /\ f[2] = x
      BY <3>1
    <3>3. f = [i \in 1 .. 2 |-> f[i]]
      OBVIOUS
    <3> HIDE DEF f, w, x
    <3>4. IsSeq(f) /\ Len(f) = 2
      BY <3>3, LenOfFunction
    <3>5. IsSeq(<<w, x>>) /\ Len(<<w, x>>) = 2 /\ <<w, x>>[1] = w /\ <<w, x>>[2] = x
      BY PairSeq
    <3>6. \A i \in 1 .. 2 : f[i] = <<w, x>>[i]
      BY <3>1, <3>2, <3>5
    <3>7. f = [i \in 1 .. 2 |-> f[i]] /\ <<w, x>> = [i \in 1 .. 2 |-> <<w, x>>[i]]
      BY <3>3, <3>5 DEF IsSeq
    <3> QED
      BY <3>6, <3>7
  <2>3. w.src = m.originals[1].orig /\ x.src = m.originals[2].orig
    BY <1>4
  <2> HIDE DEF f, w, x
  <2>4. Good(Bytes(<<w, x>>, <<>>))
    BY <2>3, <1>5
  <2> QED
    BY <2>1, <2>2, <2>4 DEF Good, e, k
<1>7. CASE ~verbatim_macro(p, v, m, here) /\ m.kind = "LoadAddress"
  <2>1. e = emit_load_address(p, v, m, here)
    BY <1>7 DEF emit_macro
  <2> DEFINE W(to) == Word(m.originals[1], Page(to))
             X(to) == [Word(m.originals[2], 0) EXCEPT !.mn = "add", !.imm = to % PageSize]
  <2>2. \A to : load_address_words(m, to) = <<W(to), X(to)>>
    BY DEF load_address_words
  <2>3. \A to : /\ W(to).src = m.originals[1].orig /\ W(to).mn = "adrp"
                /\ X(to).src = m.originals[2].orig /\ X(to).mn = "add"
                /\ [X(to) EXCEPT !.imm = 0].src = m.originals[2].orig
                /\ [X(to) EXCEPT !.imm = 0].mn = "add"
    <3> DEFINE u == Word(m.originals[2], 0)
    <3>1. u = [mn |-> m.originals[2].mn, rd |-> m.originals[2].rd, rn |-> m.originals[2].rn,
               imm |-> m.originals[2].imm, val |-> 0, src |-> m.originals[2].orig]
      BY DEF Word
    <3> HIDE DEF u
    <3>2. ASSUME NEW d
          PROVE  LET x == [u EXCEPT !.mn = "add", !.imm = d] IN
                 /\ x.mn = "add" /\ x.src = m.originals[2].orig
                 /\ [x EXCEPT !.imm = 0].src = m.originals[2].orig
                 /\ [x EXCEPT !.imm = 0].mn = "add"
      BY <3>1
    <3> QED
      BY <3>2, <1>1, <1>2 DEF u
  <2>4. \A to : [load_address_words(m, to) EXCEPT ![2].imm = 0]
                  = <<W(to), [X(to) EXCEPT !.imm = 0]>>
    <3> HIDE DEF W, X
    <3> QED
      BY <2>2
  <2> HIDE DEF W, X
  <2>5. CASE e = Bytes([load_address_words(m, here) EXCEPT ![2].imm = 0],
                       PairRelocs(m, k, "AddPageOffset12", s))
    <3> DEFINE x == [X(here) EXCEPT !.imm = 0]
    <3>1. "AddPageOffset12" \in RelocKinds /\ "add" \in Patchable("AddPageOffset12")
      BY DEF RelocKinds, Patchable
    <3>2. /\ W(here).src = m.originals[1].orig /\ W(here).mn = "adrp"
          /\ x.src = m.originals[2].orig /\ x.mn = "add"
      BY <2>3
    <3>3. e = Bytes(<<W(here), x>>, PairRelocs(m, k, "AddPageOffset12", s))
      BY <2>4, <2>5
    <3> HIDE DEF x, e
    <3>4. Good(e)
      BY <3>1, <3>2, <3>3, <1>5
    <3> QED
      BY <3>4 DEF Good, e, k
  <2>6. ASSUME NEW to, e = Bytes(load_address_words(m, to), <<>>)
        PROVE  Good(e)
    <3>1. W(to).src = m.originals[1].orig /\ X(to).src = m.originals[2].orig
      BY <2>3
    <3>2. Good(Bytes(<<W(to), X(to)>>, <<>>))
      BY <3>1, <1>5
    <3> QED
      BY <2>2, <2>6, <3>2
  <2>7. \/ e = Bytes([load_address_words(m, here) EXCEPT ![2].imm = 0],
                     PairRelocs(m, k, "AddPageOffset12", s))
        \/ \E to : e = Bytes(load_address_words(m, to), <<>>)
    <3>1. \/ e = Bytes([load_address_words(m, here) EXCEPT ![2].imm = 0],
                       PairRelocs(m, k, "AddPageOffset12", s))
          \/ \E to : e = Bytes(load_address_words(m, to), <<>>)
          \/ e = Failed("MalformedMacro")
      BY <2>1 DEF emit_load_address, k, s
    <3> QED
      BY <3>1, <1>3
  <2> QED
    BY <2>5, <2>6, <2>7 DEF Good, k
<1>8. CASE ~verbatim_macro(p, v, m, here) /\ m.kind # "LoadAddress"
  <2>1. e = emit_access_value(p, v, m, here)
    BY <1>8 DEF emit_macro
  <2> DEFINE W(page) == Word(m.originals[1], page)
             x == Word(m.originals[2], 0)
             kind == "LoadStorePageOffset12"
  <2>2. /\ x.src = m.originals[2].orig /\ x.mn = "ldst"
        /\ \A page : W(page).src = m.originals[1].orig /\ W(page).mn = "adrp"
    BY <1>1, <1>2, <1>8 DEF MacroOK
  <2>3. kind \in RelocKinds /\ "ldst" \in Patchable(kind)
    BY DEF RelocKinds, Patchable
  <2>4. \/ e = Bytes(<<W(Page(here)), x>>, PairRelocs(m, k, kind, s))
        \/ e = Bytes(<<W(0), x>>, <<>>)
    <3>1. \/ e = Bytes(<<W(Page(here)), x>>, PairRelocs(m, k, kind, s))
          \/ e = Bytes(<<W(0), x>>, <<>>)
          \/ e = Failed("NoRelocationForMnemonic")
      BY <2>1 DEF emit_access_value, k, s
    <3> QED
      BY <3>1, <1>3
  <2> HIDE DEF W, x, kind, e
  <2>5. Good(e)
    <3>1. Good(Bytes(<<W(0), x>>, <<>>))
      BY <2>2, <1>5
    <3>2. Good(Bytes(<<W(Page(here)), x>>, PairRelocs(m, k, kind, s)))
      BY <2>2, <2>3, <1>5
    <3> QED
      BY <2>4, <3>1, <3>2
  <2> QED
    BY <2>5 DEF Good, e, k
<1> QED
  BY <1>6, <1>7, <1>8

\* One step of emit.
EmitOp(p, v, op, here) ==
  IF op.op = "macro" THEN emit_macro(p, v, op, here) ELSE emit_instruction(p, v, op, here)

EmitStep(p, v, ops, prev, n) ==
  LET this == EmitOp(p, v, ops[n], prev.at)
  IN [at |-> prev.at + OpSize(ops[n]),
      bytes |-> IF prev.bytes.result # "Ok" THEN prev.bytes
                ELSE IF this.result # "Ok" THEN this
                ELSE Bytes(prev.bytes.words \o this.words, prev.bytes.relocs \o this.relocs)]

LEMMA EmitSteps ==
  ASSUME NEW p, NEW v, Len(FlattenSeq(p)) \in Nat
  PROVE  \E done : /\ done[0] = [at |-> v.base, bytes |-> Bytes(<<>>, <<>>)]
                  /\ emit(p, v) = done[Len(FlattenSeq(p))].bytes
                  /\ \A n \in 1 .. Len(FlattenSeq(p)) :
                       done[n] = EmitStep(p, v, FlattenSeq(p), done[n - 1], n)
<1> DEFINE ops == FlattenSeq(p)
           L == Len(ops)
           start == [at |-> v.base, bytes |-> Bytes(<<>>, <<>>)]
           step(q, n) == EmitStep(p, v, ops, q, n)
           Rec(f, m) == \A n \in 0 .. m :
                          f[n] = IF n = 0 THEN start ELSE step(f[n - 1], n)
           Ok1 == {m \in Nat : m <= L => \E f : f = [n \in 0 .. m |-> f[n]] /\ Rec(f, m)}
<1>1. L \in Nat
  OBVIOUS
<1>2. Ok1 = Nat
  <2>1. 0 \in Ok1
    <3> DEFINE g == [n \in 0 .. 0 |-> start]
    <3> HIDE DEF step, start, L, ops
    <3>1. g = [n \in 0 .. 0 |-> g[n]]
      BY Zenon
    <3>2. 0 \in 0 .. 0 /\ \A n \in 0 .. 0 : n = 0
      OBVIOUS
    <3>3. Rec(g, 0)
      BY <3>2
    <3> QED
      BY <3>1, <3>3
  <2>2. ASSUME NEW m \in Ok1 PROVE m + 1 \in Ok1
    <3> HIDE DEF step, start, L, ops
    <3> SUFFICES ASSUME m + 1 <= L
                 PROVE  \E g : g = [n \in 0 .. (m + 1) |-> g[n]] /\ Rec(g, m + 1)
      OBVIOUS
    <3>1. m \in Nat /\ m <= L
      BY <1>1
    <3>2. PICK f : f = [n \in 0 .. m |-> f[n]] /\ Rec(f, m)
      BY <3>1
    <3> DEFINE g == [n \in 0 .. (m + 1) |-> IF n = m + 1 THEN step(f[m], m + 1) ELSE f[n]]
    <3>3. Rec(g, m + 1)
      <4> SUFFICES ASSUME NEW n \in 0 .. (m + 1)
                   PROVE  g[n] = IF n = 0 THEN start ELSE step(g[n - 1], n)
        OBVIOUS
      <4>1. CASE n = m + 1
        <5>1. n # 0 /\ n - 1 = m /\ m \in 0 .. (m + 1) /\ m # m + 1
          BY <4>1, <3>1
        <5> QED
          BY <4>1, <5>1
      <4>2. CASE n # m + 1
        <5>1. n \in 0 .. m /\ (n # 0 => n - 1 \in 0 .. (m + 1) /\ n - 1 # m + 1)
          BY <4>2, <3>1
        <5>2. g[n] = f[n] /\ (n # 0 => g[n - 1] = f[n - 1])
          BY <4>2, <5>1
        <5> QED
          BY <5>1, <5>2, <3>2
      <4> QED
        BY <4>1, <4>2
    <3>4. g = [n \in 0 .. (m + 1) |-> g[n]]
      BY Zenon
    <3> QED
      BY <3>3, <3>4
  <2> HIDE DEF Ok1
  <2>3. Ok1 \in SUBSET Nat
    BY DEF Ok1
  <2> QED
    BY <2>1, <2>2, <2>3, NatInduct
<1> DEFINE IsDone(f) == f = [n \in 0 .. L |-> IF n = 0 THEN start ELSE step(f[n - 1], n)]
           done == CHOOSE f : IsDone(f)
<1>3. IsDone(done)
  <2>1. L \in Nat /\ L <= L
    BY <1>1
  <2>2. \E f : f = [n \in 0 .. L |-> f[n]] /\ Rec(f, L)
    <3> HIDE DEF L, Rec
    <3> QED
      BY <1>2, <2>1
  <2>3. PICK f : f = [n \in 0 .. L |-> f[n]] /\ Rec(f, L)
    BY <2>2
  <2> HIDE DEF step, start
  <2>4. IsDone(f)
    BY <2>3, Zenon
  <2> HIDE DEF IsDone
  <2> QED
    BY <2>4
<1>4. \A n \in 0 .. L : done[n] = IF n = 0 THEN start ELSE step(done[n - 1], n)
  <2> HIDE DEF step, start, done
  <2> QED
    BY <1>3
<1>5. emit(p, v) = done[L].bytes
  BY Zenon DEF emit, EmitStep, EmitOp
<1> HIDE DEF done, IsDone
<1>6. done[0] = start /\ \A n \in 1 .. L : done[n] = step(done[n - 1], n)
  <2>1. 0 \in 0 .. L /\ \A n \in 1 .. L : n \in 0 .. L /\ n # 0
    BY <1>1
  <2> HIDE DEF step, start, L, ops
  <2> QED
    BY <1>4, <2>1
<1> HIDE DEF L
<1> QED
  BY <1>5, <1>6 DEF L, start

\* One step of OtherSections.
KeepStep(relocs, q, n) == IF relocs[n].section = "text" THEN q ELSE Append(q, relocs[n])

LEMMA KeepSteps ==
  ASSUME NEW relocs, Len(relocs) \in Nat
  PROVE  \E kept : /\ kept[0] = <<>> /\ OtherSections(relocs) = kept[Len(relocs)]
                  /\ \A n \in 1 .. Len(relocs) : kept[n] = KeepStep(relocs, kept[n - 1], n)
<1> DEFINE L == Len(relocs)
           step(q, n) == KeepStep(relocs, q, n)
           Rec(f, m) == \A n \in 0 .. m :
                          f[n] = IF n = 0 THEN <<>> ELSE step(f[n - 1], n)
           Ok1 == {m \in Nat : m <= L => \E f : f = [n \in 0 .. m |-> f[n]] /\ Rec(f, m)}
<1>1. L \in Nat
  OBVIOUS
<1>2. Ok1 = Nat
  <2>1. 0 \in Ok1
    <3> DEFINE g == [n \in 0 .. 0 |-> <<>>]
    <3> HIDE DEF step, L
    <3>1. g = [n \in 0 .. 0 |-> g[n]]
      BY Zenon
    <3>2. 0 \in 0 .. 0 /\ \A n \in 0 .. 0 : n = 0
      OBVIOUS
    <3>3. Rec(g, 0)
      BY <3>2
    <3> QED
      BY <3>1, <3>3
  <2>2. ASSUME NEW m \in Ok1 PROVE m + 1 \in Ok1
    <3> HIDE DEF step, L
    <3> SUFFICES ASSUME m + 1 <= L
                 PROVE  \E g : g = [n \in 0 .. (m + 1) |-> g[n]] /\ Rec(g, m + 1)
      OBVIOUS
    <3>1. m \in Nat /\ m <= L
      BY <1>1
    <3>2. PICK f : f = [n \in 0 .. m |-> f[n]] /\ Rec(f, m)
      BY <3>1
    <3> DEFINE g == [n \in 0 .. (m + 1) |-> IF n = m + 1 THEN step(f[m], m + 1) ELSE f[n]]
    <3>3. Rec(g, m + 1)
      <4> SUFFICES ASSUME NEW n \in 0 .. (m + 1)
                   PROVE  g[n] = IF n = 0 THEN <<>> ELSE step(g[n - 1], n)
        OBVIOUS
      <4>1. CASE n = m + 1
        <5>1. n # 0 /\ n - 1 = m /\ m \in 0 .. (m + 1) /\ m # m + 1
          BY <4>1, <3>1
        <5> QED
          BY <4>1, <5>1
      <4>2. CASE n # m + 1
        <5>1. n \in 0 .. m /\ (n # 0 => n - 1 \in 0 .. (m + 1) /\ n - 1 # m + 1)
          BY <4>2, <3>1
        <5>2. g[n] = f[n] /\ (n # 0 => g[n - 1] = f[n - 1])
          BY <4>2, <5>1
        <5> QED
          BY <5>1, <5>2, <3>2
      <4> QED
        BY <4>1, <4>2
    <3>4. g = [n \in 0 .. (m + 1) |-> g[n]]
      BY Zenon
    <3> QED
      BY <3>3, <3>4
  <2> HIDE DEF Ok1
  <2>3. Ok1 \in SUBSET Nat
    BY DEF Ok1
  <2> QED
    BY <2>1, <2>2, <2>3, NatInduct
<1> DEFINE IsKept(f) == f = [n \in 0 .. L |-> IF n = 0 THEN <<>> ELSE step(f[n - 1], n)]
           kept == CHOOSE f : IsKept(f)
<1>3. IsKept(kept)
  <2>1. L \in Nat /\ L <= L
    BY <1>1
  <2>2. \E f : f = [n \in 0 .. L |-> f[n]] /\ Rec(f, L)
    <3> HIDE DEF L, Rec
    <3> QED
      BY <1>2, <2>1
  <2>3. PICK f : f = [n \in 0 .. L |-> f[n]] /\ Rec(f, L)
    BY <2>2
  <2> HIDE DEF step
  <2>4. IsKept(f)
    BY <2>3, Zenon
  <2> HIDE DEF IsKept
  <2> QED
    BY <2>4
<1>4. \A n \in 0 .. L : kept[n] = IF n = 0 THEN <<>> ELSE step(kept[n - 1], n)
  <2> HIDE DEF step, kept
  <2> QED
    BY <1>3
<1>5. OtherSections(relocs) = kept[L]
  BY Zenon DEF OtherSections, KeepStep
<1> HIDE DEF kept, IsKept
<1>6. kept[0] = <<>> /\ \A n \in 1 .. L : kept[n] = step(kept[n - 1], n)
  <2>1. 0 \in 0 .. L /\ \A n \in 1 .. L : n \in 0 .. L /\ n # 0
    BY <1>1
  <2> HIDE DEF step, L
  <2> QED
    BY <1>4, <2>1
<1> HIDE DEF L
<1> QED
  BY <1>5, <1>6 DEF L

-----------------------------------------------------------------------------
(* What a plan becomes.                                                    *)

\* The words from lo on stand for the source they replace, if they stand for any.
Stands(words, lo) == \A k \in 1 .. Len(words) : words[k].src \in {-1, lo + (k - 1)}

LEMMA ConcatFits ==
  ASSUME NEW l, IsSeq(l), NEW w, IsSeq(w), NEW r
  PROVE  /\ FitsIn(r, l, 0) => FitsIn(r, l \o w, 0)
         /\ FitsIn(r, w, Len(l)) => FitsIn(r, l \o w, 0)
<1> DEFINE t == l \o w
           n == Len(l)
<1>1. n \in Nat /\ Len(w) \in Nat
  BY DEF IsSeq
<1>2. /\ Len(t) = n + Len(w)
      /\ \A k \in 1 .. n : t[k] = l[k]
      /\ \A k \in 1 .. Len(w) : t[n + k] = w[k]
  BY ConcatSeq
<1> HIDE DEF t, n
<1>3. ASSUME NEW d \in 0 .. (n - 1), NEW kind \in RelocKinds, NEW s,
             r = Reloc(0 + d, kind, s), l[d + 1].mn \in Patchable(kind)
      PROVE  FitsIn(r, t, 0)
  <2>1. d \in 0 .. (Len(t) - 1) /\ d + 1 \in 1 .. n
    BY <1>1, <1>2
  <2>2. t[d + 1].mn \in Patchable(kind)
    BY <2>1, <1>2, <1>3
  <2> QED
    BY <2>1, <2>2, <1>3 DEF FitsIn
<1>4. ASSUME NEW d \in 0 .. (Len(w) - 1), NEW kind \in RelocKinds, NEW s,
             r = Reloc(n + d, kind, s), w[d + 1].mn \in Patchable(kind)
      PROVE  FitsIn(r, t, 0)
  <2> DEFINE c == n + d
  <2>1. c \in 0 .. (Len(t) - 1) /\ d + 1 \in 1 .. Len(w) /\ c + 1 = n + (d + 1) /\ 0 + c = c
    BY <1>1, <1>2
  <2>2. t[c + 1].mn \in Patchable(kind)
    BY <2>1, <1>2, <1>4
  <2>3. r = Reloc(0 + c, kind, s)
    BY <2>1, <1>4
  <2> HIDE DEF c
  <2> QED
    BY <2>1, <2>2, <2>3 DEF FitsIn
<1>5. FitsIn(r, l, 0) => FitsIn(r, t, 0)
  BY <1>3 DEF FitsIn, n
<1>6. FitsIn(r, w, n) => FitsIn(r, t, 0)
  BY <1>4 DEF FitsIn
<1> QED
  BY <1>5, <1>6 DEF t, n

LEMMA ConcatEmitted ==
  ASSUME NEW d, EmittedOK(d, 0), NEW e, EmittedOK(e, Len(d.words))
  PROVE  LET b == Bytes(d.words \o e.words, d.relocs \o e.relocs) IN
         /\ EmittedOK(b, 0) /\ b.result = "Ok" /\ b.words = d.words \o e.words
         /\ Len(b.words) = Len(d.words) + Len(e.words)
<1> DEFINE words == d.words \o e.words
           relocs == d.relocs \o e.relocs
           b == Bytes(words, relocs)
<1>1. /\ IsSeq(d.words) /\ IsSeq(e.words) /\ IsSeq(d.relocs) /\ IsSeq(e.relocs)
      /\ \A n \in 1 .. Len(d.relocs) : FitsIn(d.relocs[n], d.words, 0)
      /\ \A n \in 1 .. Len(e.relocs) : FitsIn(e.relocs[n], e.words, Len(d.words))
  BY DEF EmittedOK
<1>2. IsSeq(words) /\ Len(words) = Len(d.words) + Len(e.words)
  BY <1>1, ConcatSeq
<1>3. /\ IsSeq(relocs)
      /\ \A k \in 1 .. Len(d.relocs) : relocs[k] = d.relocs[k]
      /\ \A k \in 1 .. Len(e.relocs) : relocs[Len(d.relocs) + k] = e.relocs[k]
      /\ \A k \in 1 .. Len(relocs) :
           k \in 1 .. Len(d.relocs) \/ \E j \in 1 .. Len(e.relocs) : k = Len(d.relocs) + j
  <2> DEFINE x == d.relocs
             y == e.relocs
  <2>1. IsSeq(x) /\ IsSeq(y)
    BY <1>1
  <2> HIDE DEF x, y
  <2>2. /\ IsSeq(x \o y)
        /\ \A k \in 1 .. Len(x) : (x \o y)[k] = x[k]
        /\ \A k \in 1 .. Len(y) : (x \o y)[Len(x) + k] = y[k]
        /\ \A k \in 1 .. Len(x \o y) :
             k \in 1 .. Len(x) \/ \E j \in 1 .. Len(y) : k = Len(x) + j
    BY <2>1, ConcatSeq
  <2> QED
    BY <2>2 DEF x, y
<1>4. \A r : /\ FitsIn(r, d.words, 0) => FitsIn(r, words, 0)
             /\ FitsIn(r, e.words, Len(d.words)) => FitsIn(r, words, 0)
  BY <1>1, ConcatFits
<1>5. b = [result |-> "Ok", words |-> words, relocs |-> relocs]
  BY DEF Bytes
<1> HIDE DEF words, relocs
<1>6. b = [result |-> b.result, words |-> b.words, relocs |-> b.relocs]
      /\ b.words = words /\ b.relocs = relocs /\ b.result = "Ok"
  BY <1>5
<1> HIDE DEF b
<1>7. ASSUME NEW n \in 1 .. Len(relocs) PROVE FitsIn(relocs[n], words, 0)
  BY <1>1, <1>3, <1>4
<1>8. EmittedOK(b, 0)
  BY <1>2, <1>3, <1>6, <1>7 DEF EmittedOK
<1> QED
  BY <1>2, <1>6, <1>8 DEF b, words, relocs

LEMMA ConcatStands ==
  ASSUME NEW l, IsSeq(l), NEW w, IsSeq(w), NEW lo \in Nat,
         Stands(l, lo), Stands(w, lo + Len(l))
  PROVE  Stands(l \o w, lo)
<1> DEFINE t == l \o w
           n == Len(l)
<1>1. n \in Nat /\ Len(w) \in Nat
  BY DEF IsSeq
<1>2. /\ Len(t) = n + Len(w)
      /\ \A k \in 1 .. n : t[k] = l[k]
      /\ \A k \in 1 .. Len(w) : t[n + k] = w[k]
      /\ \A k \in 1 .. Len(t) : k \in 1 .. n \/ \E j \in 1 .. Len(w) : k = n + j
  BY ConcatSeq
<1>3. /\ \A k \in 1 .. n : l[k].src \in {-1, lo + (k - 1)}
      /\ \A k \in 1 .. Len(w) : w[k].src \in {-1, (lo + n) + (k - 1)}
  BY DEF Stands
<1> HIDE DEF t, n
<1>4. \A j \in 1 .. Len(w) : (lo + n) + (j - 1) = lo + ((n + j) - 1)
  BY <1>1
<1>5. ASSUME NEW k \in 1 .. Len(t) PROVE t[k].src \in {-1, lo + (k - 1)}
  <2>1. CASE k \in 1 .. n
    BY <2>1, <1>2, <1>3
  <2>2. ASSUME NEW j \in 1 .. Len(w), k = n + j PROVE t[k].src \in {-1, lo + (k - 1)}
    BY <2>2, <1>2, <1>3, <1>4
  <2> QED
    BY <2>1, <2>2, <1>2
<1>6. Stands(t, lo)
  BY <1>5 DEF Stands
<1> QED
  BY <1>6 DEF t

LEMMA OpEmits ==
  ASSUME input.container, NEW op, OpOK(op), NEW p, NEW v, NEW here,
         v.base \in Int, here \in Int, EmitOp(p, v, op, here).result = "Ok"
  PROVE  /\ EmittedOK(EmitOp(p, v, op, here), here - v.base)
         /\ WordsOf(op, EmitOp(p, v, op, here).words)
         /\ OpSize(op) = Width(op)
<1>1. CASE InsnOK(op)
  <2>1. op.op = "insn" /\ op.size = 1
    BY <1>1 DEF InsnOK
  <2>2. EmitOp(p, v, op, here) = emit_instruction(p, v, op, here)
    BY <2>1 DEF EmitOp
  <2>3. OpSize(op) = Width(op)
    BY <2>1 DEF OpSize, Width
  <2> QED
    BY <1>1, <2>2, <2>3, InsnEmits
<1>2. CASE MacroOK(op)
  <2>1. op.op = "macro" /\ op.originals[1].size = 1 /\ op.originals[2].size = 1
    BY <1>2 DEF MacroOK, InsnOK
  <2>2. EmitOp(p, v, op, here) = emit_macro(p, v, op, here)
    BY <2>1 DEF EmitOp
  <2>3. OpSize(op) = Width(op)
    BY <2>1 DEF OpSize, Width
  <2> QED
    BY <1>2, <2>2, <2>3, MacroEmits
<1> QED
  BY <1>1, <1>2 DEF OpOK

\* An emission that succeeds: every relocation sits on a word it can patch, and
\* ops that lie end to end from lo to hi become words that do.
LEMMA EmitFits ==
  ASSUME input.container, NEW p, PlanOK(p), NEW v, v.base \in Int, emit(p, v).result = "Ok"
  PROVE  /\ EmittedOK(emit(p, v), 0)
         /\ \A lo, hi : Tiled(FlattenSeq(p), lo, hi) =>
              Stands(emit(p, v).words, lo) /\ Len(emit(p, v).words) = hi - lo
<1> DEFINE ops == FlattenSeq(p)
           L == Len(ops)
<1>1. L \in Nat /\ \A n \in 1 .. L : OpOK(ops[n])
  BY FlattenOps DEF OpsOK, IsSeq
<1>2. PICK done : /\ done[0] = [at |-> v.base, bytes |-> Bytes(<<>>, <<>>)]
                  /\ emit(p, v) = done[L].bytes
                  /\ \A n \in 1 .. L : done[n] = EmitStep(p, v, ops, done[n - 1], n)
  BY <1>1, EmitSteps
<1> HIDE DEF ops, L
<1> DEFINE B(m) == done[m].bytes
           Laid(m) == \A pos, lo, hi : Placing(ops, pos, lo, hi) =>
                        Stands(B(m).words, lo) /\ Len(B(m).words) = pos[m + 1] - lo
           Fine(m) == /\ EmittedOK(B(m), 0)
                      /\ done[m].at = v.base + Len(B(m).words)
                      /\ Laid(m)
           Good == {m \in Nat : (m <= L /\ B(m).result = "Ok") => Fine(m)}
<1>3. 0 \in Good
  <2>1. B(0) = Bytes(<<>>, <<>>) /\ done[0].at = v.base
    BY <1>2
  <2>2. IsSeq(<<>>) /\ Len(<<>>) = 0
    BY PairSeq
  <2>3. EmittedOK(B(0), 0) /\ B(0).words = <<>>
    BY <2>1, <2>2, NoRelocs
  <2>4. v.base = v.base + 0 /\ \A k \in 1 .. 0 : FALSE
    OBVIOUS
  <2>5. Laid(0)
    <3> SUFFICES ASSUME NEW pos, NEW lo, NEW hi, Placing(ops, pos, lo, hi)
                 PROVE  Stands(B(0).words, lo) /\ Len(B(0).words) = pos[0 + 1] - lo
      OBVIOUS
    <3>1. pos[1] = lo /\ 0 + 1 = 1 /\ lo \in Nat
      <4>1. 1 \in 1 .. L + 1
        BY <1>1
      <4> QED
        BY <4>1 DEF Placing, L
    <3>2. Stands(<<>>, lo)
      BY <2>2, <2>4 DEF Stands
    <3> HIDE DEF B
    <3>3. Len(B(0).words) = 0
      BY <2>2, <2>3
    <3> QED
      BY <2>3, <3>1, <3>2, <3>3
  <2> HIDE DEF B, Laid
  <2> QED
    BY <2>2, <2>3, <2>1, <2>4, <2>5
<1>4. ASSUME NEW m \in Good PROVE m + 1 \in Good
  <2> DEFINE n == m + 1
             d == B(m)
             op == ops[n]
             e == EmitOp(p, v, op, done[m].at)
  <2>1. m \in Nat /\ n \in Nat /\ n - 1 = m /\ n # 0
    OBVIOUS
  <2> SUFFICES ASSUME n <= L, B(n).result = "Ok" PROVE Fine(n)
    BY <2>1
  <2>2. m <= L /\ n \in 1 .. L
    BY <1>1, <2>1
  <2>3. done[n] = EmitStep(p, v, ops, done[m], n)
    BY <1>2, <2>1, <2>2
  <2>4. /\ done[n].at = done[m].at + OpSize(op)
        /\ B(n) = IF d.result # "Ok" THEN d ELSE IF e.result # "Ok" THEN e
                  ELSE Bytes(d.words \o e.words, d.relocs \o e.relocs)
    BY <2>3 DEF EmitStep
  <2> HIDE DEF e, op, n
  <2>5. d.result = "Ok" /\ e.result = "Ok"
    BY <2>4
  <2>6. EmittedOK(d, 0) /\ done[m].at = v.base + Len(d.words) /\ Laid(m)
    BY <2>2, <2>5
  <2> HIDE DEF B, Laid
  <2>7. B(n) = Bytes(d.words \o e.words, d.relocs \o e.relocs)
    BY <2>4, <2>5
  <2> HIDE DEF d
  <2>8. Len(d.words) \in Nat /\ IsSeq(d.words)
    BY <2>6 DEF EmittedOK, IsSeq
  <2>9. done[m].at \in Int /\ done[m].at - v.base = Len(d.words)
    BY <2>6, <2>8
  <2>10. OpOK(op)
    BY <1>1, <2>2 DEF op
  <2>11. EmittedOK(e, Len(d.words)) /\ WordsOf(op, e.words) /\ OpSize(op) = Width(op)
    BY <2>5, <2>9, <2>10, OpEmits DEF e
  <2>12. Len(e.words) = Width(op) /\ IsSeq(e.words)
    BY <2>11 DEF WordsOf, EmittedOK
  <2>13. Width(op) \in Nat
    BY DEF Width
  <2>14. /\ EmittedOK(B(n), 0) /\ B(n).words = d.words \o e.words
         /\ Len(B(n).words) = Len(d.words) + Len(e.words)
    <3> DEFINE b == Bytes(d.words \o e.words, d.relocs \o e.relocs)
    <3>1. EmittedOK(d, 0) /\ EmittedOK(e, Len(d.words))
      BY <2>6, <2>11 DEF d
    <3>2. /\ EmittedOK(b, 0) /\ b.words = d.words \o e.words
          /\ Len(b.words) = Len(d.words) + Len(e.words)
      BY <3>1, ConcatEmitted
    <3> HIDE DEF b
    <3> QED
      BY <2>7, <3>2 DEF b
  <2>15. done[n].at = v.base + Len(B(n).words)
    BY <2>4, <2>6, <2>8, <2>11, <2>12, <2>13, <2>14
  <2>16. Laid(n)
    <3> SUFFICES ASSUME NEW pos, NEW lo, NEW hi, Placing(ops, pos, lo, hi)
                 PROVE  Stands(B(n).words, lo) /\ Len(B(n).words) = pos[n + 1] - lo
      BY DEF Laid
    <3>1. /\ lo \in Nat /\ pos[n] \in Nat
          /\ pos[n + 1] = pos[n] + Width(op) /\ SitsAt(op, pos[n])
      <4>1. /\ pos[1] = lo /\ \A k \in 1 .. L + 1 : pos[k] \in Nat
            /\ \A k \in 1 .. L : pos[k + 1] = pos[k] + Width(ops[k]) /\ SitsAt(ops[k], pos[k])
        BY DEF Placing, L
      <4>2. 1 \in 1 .. L + 1 /\ n \in 1 .. L + 1
        BY <1>1, <2>2
      <4> QED
        BY <4>1, <4>2, <2>2 DEF op
    <3>2. Stands(d.words, lo) /\ Len(d.words) = pos[n] - lo
      BY <2>6 DEF Laid, d, n
    <3>3. pos[n] = lo + Len(d.words)
      BY <2>8, <3>1, <3>2
    <3>4. Stands(e.words, lo + Len(d.words))
      BY <2>11, <3>1, <3>3 DEF Stands, WordsOf
    <3>5. Stands(d.words \o e.words, lo)
      BY <2>8, <2>12, <3>1, <3>2, <3>4, ConcatStands
    <3>6. Len(d.words) + Len(e.words) = pos[n + 1] - lo
      BY <2>8, <2>12, <2>13, <3>1, <3>3
    <3> QED
      BY <2>14, <3>5, <3>6
  <2> QED
    BY <2>14, <2>15, <2>16
<1> HIDE DEF Good
<1>5. Good = Nat
  <2>1. Good \in SUBSET Nat
    BY DEF Good
  <2> QED
    BY <1>3, <1>4, <2>1, NatInduct
<1>6. Fine(L)
  <2>1. L \in Good /\ L <= L /\ B(L).result = "Ok"
    BY <1>1, <1>2, <1>5
  <2> HIDE DEF Fine, B
  <2> QED
    BY <2>1 DEF Good
<1>7. \A lo, hi : Tiled(ops, lo, hi) =>
        Stands(B(L).words, lo) /\ Len(B(L).words) = hi - lo
  <2> SUFFICES ASSUME NEW lo, NEW hi, NEW pos, Placing(ops, pos, lo, hi)
               PROVE  Stands(B(L).words, lo) /\ Len(B(L).words) = hi - lo
    BY DEF Tiled
  <2>1. pos[L + 1] = hi
    BY DEF Placing, L
  <2> HIDE DEF B
  <2> QED
    BY <1>6, <2>1
<1> QED
  BY <1>2, <1>6, <1>7 DEF ops

-----------------------------------------------------------------------------
(* A grow shifts targets and nothing else.                                 *)

ShiftedOp(op) ==
  IF op.op = "insn" /\ op.ref = "none" THEN op ELSE [op EXCEPT !.target = Bump(@)]

LEMMA ShiftOp ==
  ASSUME NEW op, OpOK(op)
  PROVE  /\ OpOK(ShiftedOp(op)) /\ Source(ShiftedOp(op)) = Source(op)
         /\ Width(ShiftedOp(op)) = Width(op)
         /\ \A a : SitsAt(op, a) <=> SitsAt(ShiftedOp(op), a)
<1> DEFINE t == Bump(op.target)
           o == [op EXCEPT !.target = t]
<1>1. ShiftedOp(op) = op \/ ShiftedOp(op) = o
  BY DEF ShiftedOp
<1> HIDE DEF t
<1>2. /\ OpOK(o) /\ Source(o) = Source(op) /\ Width(o) = Width(op)
      /\ \A a : SitsAt(op, a) <=> SitsAt(o, a)
  BY RetargetedOpOK, RetargetedOp
<1> HIDE DEF o
<1> QED
  BY <1>1, <1>2

LEMMA ShiftKeeps ==
  ASSUME NEW p, PlanOK(p)
  PROVE  /\ PlanOK(shift_plan_absolute_targets(p))
         /\ Len(shift_plan_absolute_targets(p)) = Len(p)
         /\ \A g : PlanTiled(p, g) => PlanTiled(shift_plan_absolute_targets(p), g)
<1> DEFINE q == shift_plan_absolute_targets(p)
           n == Len(p)
           S(s) == [i \in DOMAIN s |-> ShiftedOp(s[i])]
<1>1. /\ n \in Nat /\ DOMAIN p = 1 .. n
      /\ \A b \in 1 .. n : OpsOK(p[b]) /\ Ascending(p[b])
      /\ \A b, d \in 1 .. n : b < d => \A a \in Sources(p[b]), c \in Sources(p[d]) : a < c
  BY DEF PlanOK, IsSeq
<1>2. q = [b \in 1 .. n |-> S(p[b])]
  BY <1>1 DEF shift_plan_absolute_targets, ShiftedOp
<1>3. q = [b \in 1 .. n |-> q[b]] /\ \A b \in 1 .. n : q[b] = S(p[b])
  BY <1>2, Zenon
<1> HIDE DEF q, n
<1>4. IsSeq(q) /\ Len(q) = n
  BY <1>1, <1>3, LenOfFunction
<1>5. ASSUME NEW s, OpsOK(s), Ascending(s)
      PROVE  /\ OpsOK(S(s)) /\ Ascending(S(s)) /\ Sources(S(s)) = Sources(s)
             /\ \A lo, hi : Tiled(s, lo, hi) => Tiled(S(s), lo, hi)
  <2> DEFINE r == S(s)
             m == Len(s)
  <2>1. m \in Nat /\ DOMAIN s = 1 .. m /\ \A k \in 1 .. m : OpOK(s[k])
    BY <1>5 DEF OpsOK, IsSeq
  <2>2. r = [k \in 1 .. m |-> r[k]] /\ \A k \in 1 .. m : r[k] = ShiftedOp(s[k])
    BY <2>1, Zenon
  <2> HIDE DEF r, m
  <2>3. IsSeq(r) /\ Len(r) = m
    BY <2>1, <2>2, LenOfFunction
  <2>4. \A k \in 1 .. m : /\ OpOK(r[k]) /\ Source(r[k]) = Source(s[k])
                          /\ Width(r[k]) = Width(s[k])
                          /\ \A a : SitsAt(s[k], a) <=> SitsAt(r[k], a)
    BY <2>1, <2>2, ShiftOp
  <2>5. OpsOK(r)
    BY <2>3, <2>4 DEF OpsOK
  <2>6. Ascending(r)
    BY <2>3, <2>4, <1>5 DEF Ascending, m
  <2>7. Sources(r) = Sources(s)
    BY <2>3, <2>4 DEF Sources, m
  <2>8. ASSUME NEW lo, NEW hi, Tiled(s, lo, hi) PROVE Tiled(r, lo, hi)
    BY <2>8, <2>1, <2>3, <2>4, TileSwap DEF m
  <2> QED
    BY <2>5, <2>6, <2>7, <2>8 DEF r
<1> HIDE DEF S
<1>6. \A b \in 1 .. n : OpsOK(q[b]) /\ Ascending(q[b]) /\ Sources(q[b]) = Sources(p[b])
  BY <1>1, <1>3, <1>5
<1>7. PlanOK(q)
  BY <1>1, <1>4, <1>6 DEF PlanOK
<1>8. ASSUME NEW g, PlanTiled(p, g) PROVE PlanTiled(q, g)
  <2>1. n = Len(g) /\ \A b \in 1 .. n : Tiled(p[b], g[b].start, g[b].end)
    BY <1>8 DEF PlanTiled, n
  <2>2. \A b \in 1 .. n : Tiled(q[b], g[b].start, g[b].end)
    BY <2>1, <1>1, <1>3, <1>5
  <2> QED
    BY <2>1, <2>2, <1>4 DEF PlanTiled
<1> QED
  BY <1>4, <1>7, <1>8 DEF q, n

-----------------------------------------------------------------------------
(* Overlays over words that stand for the section.                         *)

Overlaid(words, i) ==
  LET fit == {o \in overlays : o.va - input.base + o.len <= Len(words)}
      a   == input.base + i - 1
  IN IF \E o \in fit : a \in o.va .. o.va + o.len - 1 THEN OverlayWord(a) ELSE words[i]

LEMMA OverlayFacts ==
  ASSUME NEW words, IsSeq(words)
  PROVE  /\ IsSeq(ApplyOverlays(words)) /\ Len(ApplyOverlays(words)) = Len(words)
         /\ \A i \in 1 .. Len(words) : ApplyOverlays(words)[i] = Overlaid(words, i)
         /\ \A i \in 1 .. Len(words) :
              ApplyOverlays(words)[i].mn \in {words[i].mn, "overlay"}
<1> DEFINE t == ApplyOverlays(words)
           n == Len(words)
<1>1. n \in Nat /\ DOMAIN words = 1 .. n
  BY DEF IsSeq
<1>2. t = [i \in DOMAIN words |-> Overlaid(words, i)]
  BY Zenon DEF ApplyOverlays, Overlaid
<1>3. \A i : Overlaid(words, i).mn \in {words[i].mn, "overlay"}
  <2>1. \A a : OverlayWord(a).mn = "overlay"
    BY DEF OverlayWord
  <2> QED
    BY <2>1 DEF Overlaid
<1> HIDE DEF t, n
<1>4. t = [i \in 1 .. n |-> t[i]] /\ \A i \in 1 .. n : t[i] = Overlaid(words, i)
  BY <1>1, <1>2
<1>5. IsSeq(t) /\ Len(t) = n
  BY <1>1, <1>4, LenOfFunction
<1> QED
  BY <1>3, <1>4, <1>5 DEF t, n

LEMMA OverlaidWords ==
  ASSUME input.base \in Nat, N \in Nat, NEW words, IsSeq(words), Len(words) = N,
         Stands(words, input.base), NEW v \in overlays, OverlayOK(v),
         v.va + v.len <= input.base + N, NEW a \in v.va .. v.va + v.len - 1,
         NEW k \in 1 .. N
  PROVE  ApplyOverlays(words)[k].src # a
<1> DEFINE here == input.base + k - 1
           fit == {o \in overlays : o.va - input.base + o.len <= Len(words)}
           hit == \E o \in fit : here \in o.va .. o.va + o.len - 1
<1>1. /\ v.va \in Nat /\ v.len \in Nat /\ a \in Nat /\ a >= input.base /\ k \in Nat
      /\ here \in Nat /\ a # -1
  BY DEF OverlayOK
<1>2. ApplyOverlays(words)[k] = Overlaid(words, k)
  BY OverlayFacts
<1>3. ApplyOverlays(words)[k] = IF hit THEN OverlayWord(here) ELSE words[k]
  BY <1>2 DEF Overlaid
<1>4. OverlayWord(here).src = -1
  BY DEF OverlayWord
<1>5. words[k].src \in {-1, here}
  BY DEF Stands
<1>6. v \in fit
  BY <1>1
<1>7. CASE hit
  <2> HIDE DEF hit, here
  <2> QED
    BY <1>1, <1>3, <1>4, <1>7
<1>8. CASE ~hit
  <2>1. a # here
    BY <1>6, <1>8
  <2> HIDE DEF hit, here
  <2> QED
    BY <2>1, <1>1, <1>3, <1>5, <1>8
<1> QED
  BY <1>7, <1>8

-----------------------------------------------------------------------------
(* The relocations of a commit.                                            *)

NoText(s) == \A k \in 1 .. Len(s) : s[k].section # "text"

LEMMA OthersAreOther ==
  ASSUME NEW s, Len(s) \in Nat
  PROVE  IsSeq(OtherSections(s)) /\ NoText(OtherSections(s))
<1> DEFINE L == Len(s)
<1>1. L \in Nat
  OBVIOUS
<1>2. PICK kept : /\ kept[0] = <<>> /\ OtherSections(s) = kept[L]
                  /\ \A n \in 1 .. L : kept[n] = KeepStep(s, kept[n - 1], n)
  BY KeepSteps
<1> HIDE DEF L
<1> DEFINE Good == {m \in Nat : m <= L => IsSeq(kept[m]) /\ NoText(kept[m])}
<1>3. 0 \in Good
  <2>1. IsSeq(<<>>) /\ Len(<<>>) = 0
    BY PairSeq
  <2>3. \A k \in 1 .. 0 : FALSE
    OBVIOUS
  <2>2. NoText(<<>>)
    BY <2>1, <2>3 DEF NoText
  <2> QED
    BY <2>1, <2>2, <2>3, <1>2
<1>4. ASSUME NEW m \in Good PROVE m + 1 \in Good
  <2> DEFINE n == m + 1
             q == kept[m]
             e == s[n]
  <2>1. m \in Nat /\ n \in Nat /\ n - 1 = m
    OBVIOUS
  <2> SUFFICES ASSUME n <= L PROVE IsSeq(kept[n]) /\ NoText(kept[n])
    BY <2>1
  <2>2. m <= L /\ n \in 1 .. L
    BY <1>1, <2>1
  <2>3. IsSeq(q) /\ NoText(q)
    BY <2>2
  <2> HIDE DEF n, Good
  <2>4. kept[n] = KeepStep(s, q, n)
    BY <1>2, <2>1, <2>2
  <2>5. kept[n] = IF e.section = "text" THEN q ELSE Append(q, e)
    BY <2>4 DEF KeepStep
  <2> HIDE DEF q, e
  <2>6. CASE e.section = "text"
    BY <2>3, <2>5, <2>6
  <2>7. CASE e.section # "text"
    <3> DEFINE t == Append(q, e)
    <3>1. Len(q) \in Nat /\ q = [k \in 1 .. Len(q) |-> q[k]]
      BY <2>3 DEF IsSeq
    <3>2. /\ Len(t) = Len(q) + 1 /\ t = [k \in 1 .. Len(t) |-> t[k]]
          /\ \A k \in 1 .. Len(q) : t[k] = q[k]
          /\ t[Len(q) + 1] = e
      BY <3>1, SeqFacts
    <3> HIDE DEF t
    <3>3. IsSeq(t)
      BY <3>1, <3>2 DEF IsSeq
    <3>4. \A k \in 1 .. Len(t) : k \in 1 .. Len(q) \/ k = Len(q) + 1
      BY <3>1, <3>2
    <3>5. NoText(t)
      BY <2>3, <2>7, <3>2, <3>4 DEF NoText
    <3> QED
      BY <2>5, <2>7, <3>3, <3>5 DEF t
  <2> QED
    BY <2>6, <2>7
<1> HIDE DEF Good
<1>5. Good = Nat
  <2>1. Good \in SUBSET Nat
    BY DEF Good
  <2> QED
    BY <1>3, <1>4, <2>1, NatInduct
<1>6. L \in Good /\ L <= L
  BY <1>1, <1>5
<1>7. IsSeq(kept[L]) /\ NoText(kept[L])
  BY <1>6 DEF Good
<1> QED
  BY <1>2, <1>7

\* What is appended for the section is all that is dropped again.
LEMMA OthersKept ==
  ASSUME NEW t, IsSeq(t), NoText(t), NEW s, Len(s) \in Nat, Len(t) <= Len(s),
         \A k \in 1 .. Len(t) : s[k] = t[k],
         \A k \in 1 .. Len(s) : k \notin 1 .. Len(t) => s[k].section = "text"
  PROVE  OtherSections(s) = t
<1> DEFINE L == Len(s)
           T == Len(t)
<1>1. L \in Nat /\ T \in Nat /\ T <= L
  BY DEF IsSeq
<1>2. PICK kept : /\ kept[0] = <<>> /\ OtherSections(s) = kept[L]
                  /\ \A n \in 1 .. L : kept[n] = KeepStep(s, kept[n - 1], n)
  BY KeepSteps
<1> HIDE DEF L, T
<1> DEFINE Begins(q, m) == /\ IsSeq(q) /\ Len(q) = IF m <= T THEN m ELSE T
                           /\ \A k \in 1 .. Len(q) : q[k] = t[k]
           Good == {m \in Nat : m <= L => Begins(kept[m], m)}
<1>3. 0 \in Good
  <2>1. IsSeq(<<>>) /\ Len(<<>>) = 0
    BY PairSeq
  <2>3. \A k \in 1 .. 0 : FALSE
    OBVIOUS
  <2>2. 0 <= T
    BY <1>1
  <2> QED
    BY <2>1, <2>2, <2>3, <1>2
<1>4. ASSUME NEW m \in Good PROVE m + 1 \in Good
  <2> DEFINE n == m + 1
             q == kept[m]
             e == s[n]
  <2>1. m \in Nat /\ n \in Nat /\ n - 1 = m
    OBVIOUS
  <2> SUFFICES ASSUME n <= L PROVE Begins(kept[n], n)
    BY <2>1
  <2>2. m <= L /\ n \in 1 .. L
    BY <1>1, <2>1
  <2>3. Begins(q, m)
    BY <2>2
  <2>4. kept[n] = KeepStep(s, q, n)
    BY <1>2, <2>1, <2>2
  <2>5. kept[n] = IF e.section = "text" THEN q ELSE Append(q, e)
    BY <2>4 DEF KeepStep
  <2>6. CASE n <= T
    <3>1. n \in 1 .. T /\ m <= T
      BY <1>1, <2>1, <2>6
    <3>2. e = t[n] /\ e.section # "text"
      BY <3>1 DEF T, NoText
    <3> DEFINE r == Append(q, e)
    <3>3. Len(q) = m /\ q = [k \in 1 .. Len(q) |-> q[k]]
      BY <2>3, <3>1 DEF IsSeq
    <3>4. /\ Len(r) = m + 1 /\ r = [k \in 1 .. Len(r) |-> r[k]]
          /\ \A k \in 1 .. m : r[k] = q[k]
          /\ r[m + 1] = e
      BY <2>1, <3>3, SeqFacts
    <3>5. kept[n] = r
      BY <2>5, <3>2
    <3> HIDE DEF r, q, e
    <3>6. IsSeq(r) /\ Len(r) = n
      BY <2>1, <3>4 DEF IsSeq
    <3>7. \A k \in 1 .. n : k \in 1 .. m \/ k = n
      BY <2>1
    <3>8. \A k \in 1 .. m : q[k] = t[k]
      BY <2>3, <3>3
    <3>9. \A k \in 1 .. n : r[k] = t[k]
      BY <3>2, <3>4, <3>7, <3>8
    <3> QED
      BY <2>6, <3>5, <3>6, <3>9
  <2>7. CASE ~(n <= T)
    <3>1. n \notin 1 .. T /\ (m <= T => m = T)
      BY <1>1, <2>1, <2>7
    <3>2. e.section = "text"
      BY <2>2, <3>1 DEF L, T
    <3>3. kept[n] = q /\ Len(q) = T
      BY <2>3, <2>5, <3>1, <3>2
    <3> HIDE DEF q
    <3> QED
      BY <2>3, <2>7, <3>3
  <2> QED
    BY <2>6, <2>7
<1> HIDE DEF Good
<1>5. Good = Nat
  <2>1. Good \in SUBSET Nat
    BY DEF Good
  <2> QED
    BY <1>3, <1>4, <2>1, NatInduct
<1>6. L \in Good /\ L <= L
  BY <1>1, <1>5
<1>7. IsSeq(kept[L]) /\ Len(kept[L]) = T /\ \A k \in 1 .. T : kept[L][k] = t[k]
  BY <1>1, <1>6 DEF Good
<1>8. kept[L] = t
  BY <1>7 DEF IsSeq, T
<1> QED
  BY <1>2, <1>8

\* A committed list: the others in front, then what was emitted, numbered.
LEMMA CommittedRelocs ==
  ASSUME NEW relocs, Len(relocs) \in Nat, NEW emitted, IsSeq(emitted),
         \A n \in 1 .. Len(emitted) : emitted[n].section = "text"
  PROVE  LET kept == OtherSections(relocs)
             all  == commit_relocations(relocs, emitted)
         IN /\ IsSeq(all) /\ OtherSections(all) = kept
            /\ \A k \in 1 .. Len(all) : all[k].section = "text" =>
                 \E j \in 1 .. Len(emitted) : /\ all[k].offset = emitted[j].offset
                                              /\ all[k].kind = emitted[j].kind
                                              /\ all[k].id = k - 1
<1> DEFINE t == OtherSections(relocs)
           u == [i \in DOMAIN emitted |-> WithId(emitted[i], Len(t) + i - 1)]
           all == commit_relocations(relocs, emitted)
           n == Len(emitted)
<1>1. IsSeq(t) /\ NoText(t) /\ Len(t) \in Nat
  BY OthersAreOther DEF IsSeq
<1>2. n \in Nat /\ DOMAIN emitted = 1 .. n
  BY DEF IsSeq
<1>3. all = t \o u
  BY DEF commit_relocations
<1> HIDE DEF t, all
<1>4. u = [i \in 1 .. n |-> u[i]] /\ \A i \in 1 .. n : u[i] = WithId(emitted[i], Len(t) + i - 1)
  BY <1>2
<1>5. ASSUME NEW i \in 1 .. n
      PROVE  /\ u[i].section = "text" /\ u[i].offset = emitted[i].offset
             /\ u[i].kind = emitted[i].kind /\ u[i].id = Len(t) + i - 1
  BY <1>4 DEF WithId
<1> HIDE DEF u, n
<1>6. IsSeq(u) /\ Len(u) = n
  BY <1>2, <1>4, LenOfFunction
<1>7. /\ IsSeq(all) /\ Len(all) = Len(t) + n
      /\ \A k \in 1 .. Len(t) : all[k] = t[k]
      /\ \A k \in 1 .. n : all[Len(t) + k] = u[k]
      /\ \A k \in 1 .. Len(all) : k \in 1 .. Len(t) \/ \E j \in 1 .. n : k = Len(t) + j
  <2>1. IsSeq(t) /\ IsSeq(u)
    BY <1>1, <1>6
  <2>2. /\ IsSeq(t \o u) /\ Len(t \o u) = Len(t) + Len(u)
        /\ \A k \in 1 .. Len(t) : (t \o u)[k] = t[k]
        /\ \A k \in 1 .. Len(u) : (t \o u)[Len(t) + k] = u[k]
        /\ \A k \in 1 .. Len(t \o u) :
             k \in 1 .. Len(t) \/ \E j \in 1 .. Len(u) : k = Len(t) + j
    BY <2>1, ConcatSeq
  <2> QED
    BY <2>2, <1>3, <1>6
<1>8. OtherSections(all) = t
  <2>1. Len(all) \in Nat /\ Len(t) <= Len(all)
    BY <1>1, <1>2, <1>7
  <2>2. ASSUME NEW k \in 1 .. Len(all), k \notin 1 .. Len(t) PROVE all[k].section = "text"
    <3>1. PICK j \in 1 .. n : k = Len(t) + j
      BY <2>2, <1>7
    <3>2. all[k] = u[j]
      BY <3>1, <1>7
    <3> QED
      BY <3>2, <1>5
  <2> QED
    BY <2>1, <2>2, <1>1, <1>7, OthersKept
<1>9. ASSUME NEW k \in 1 .. Len(all), all[k].section = "text"
      PROVE  \E j \in 1 .. n : /\ all[k].offset = emitted[j].offset
                               /\ all[k].kind = emitted[j].kind /\ all[k].id = k - 1
  <2>1. k \notin 1 .. Len(t)
    BY <1>1, <1>7, <1>9 DEF NoText
  <2>2. PICK j \in 1 .. n : k = Len(t) + j
    BY <2>1, <1>7
  <2>3. all[k] = u[j] /\ Len(t) + j - 1 = k - 1
    BY <2>2, <1>1, <1>7
  <2> QED
    BY <2>3, <1>5
<1> QED
  BY <1>7, <1>8, <1>9 DEF t, all, n

-----------------------------------------------------------------------------
(* The steps.                                                              *)

LEMMA CommitInvNext ==
  ASSUME GInv, EditInv, CommitInv, [CommitNext]_planVars
  PROVE  CommitInv'
<1>1. SliceInv /\ IsSeq(log) /\ TileInv /\ OverlayInv /\ FreshInv
  BY DEF GInv, CommitInv
<1>2. ASSUME UNCHANGED <<log, overlays, input, instructions>>, TileInv', FreshInv'
      PROVE  CommitInv'
  <2>1. IsSeq(log)'
    BY <1>1, <1>2 DEF IsSeq
  <2>2. \A v : OverlayOK(v)' <=> OverlayOK(v)
    BY <1>2 DEF OverlayOK, N
  <2>3. OverlayInv'
    BY <1>1, <1>2, <2>2 DEF OverlayInv
  <2> QED
    BY <1>2, <2>1, <2>3 DEF CommitInv
<1>3. PlanTiled(plan', blocks') => PlanTiled(plan, blocks)'
  BY DEF PlanTiled, Tiled, Placing, Width, SitsAt
<1>4. CASE CfgStep /\ UNCHANGED <<input, plan, log, overlays, container, out>>
  <2>1. pc \in {"leaders", "blocks", "successors"} /\ pc' \in {"leaders", "blocks", "successors", "done"}
        /\ UNCHANGED instructions
    BY <1>4 DEF CfgStep, CollectLeader, LeadersCollected, FormBlock, BlocksFormed,
                AttachSuccessors, SuccessorsAttached
  <2>2. TileInv'
    BY <2>1 DEF TileInv
  <2>3. FreshInv'
    BY <1>1, <1>4, <2>1 DEF FreshInv
  <2> QED
    BY <1>2, <1>4, <2>1, <2>2, <2>3
<1>5. CASE Lift
  <2>1. /\ pc = "done" /\ pc' = "edit"
        /\ UNCHANGED <<instructions, blocks, input, log, overlays, container, out>>
    BY <1>5 DEF Lift
  <2>2. TileInv'
    <3>1. input.container => PlanTiled(plan', blocks)
      BY <1>5, LiftTiles
    <3> QED
      BY <1>3, <2>1, <3>1 DEF TileInv
  <2>3. FreshInv'
    BY <1>1, <2>1 DEF FreshInv
  <2> QED
    BY <1>2, <2>1, <2>2, <2>3
<1>6. CASE Edit
  BY <1>1, <1>6, EditTiles
<1>7. CASE Commit \/ EmitCopy \/ EmitGrownText \/ EmitGrownGap
  <2>1. pc' = "committed" /\ UNCHANGED <<instructions, input, log, overlays>>
    BY <1>7 DEF Commit, EmitCopy, EmitGrownText, EmitGrownGap, EmitGrown
  <2>2. TileInv' /\ FreshInv'
    BY <2>1 DEF TileInv, FreshInv
  <2> QED
    BY <1>2, <2>1, <2>2
<1>8. CASE UNCHANGED planVars
  <2>1. UNCHANGED <<pc, instructions, blocks, input, plan, log, overlays, container, out>>
    BY <1>8 DEF planVars, cfgVars
  <2>2. TileInv'
    <3>1. Resized' <=> Resized
      BY <2>1 DEF Resized, Succeeded
    <3>2. PlanTiled(plan, blocks) => PlanTiled(plan', blocks')
      BY <2>1
    <3> QED
      BY <1>1, <1>3, <2>1, <3>1, <3>2 DEF TileInv
  <2>3. FreshInv'
    BY <1>1, <2>1 DEF FreshInv
  <2> QED
    BY <1>2, <2>1, <2>2, <2>3
<1> QED
  BY <1>4, <1>5, <1>6, <1>7, <1>8 DEF CommitNext, PlanStep, Committed

LEMMA RecordFacts ==
  ASSUME NEW v, NEW mode, NEW p, NEW e, NEW words, Record(v, mode, p, e, words),
         NEW o \in Outs'
  PROVE  /\ o.mode = mode /\ e.result = "Ok" /\ o.words = words /\ o.relocs = e.relocs
<1> DEFINE r == [mode |-> mode, view |-> v, plan |-> p, result |-> e.result,
                 words |-> words, relocs |-> e.relocs]
<1>1. out' = <<r>>
  BY DEF Record
<1>2. r.mode = mode /\ r.result = e.result /\ r.words = words /\ r.relocs = e.relocs
  OBVIOUS
<1> HIDE DEF r
<1>3. DOMAIN out' = {1} /\ out'[1] = r
  BY <1>1
<1>4. o = r /\ o.result = "Ok"
  BY <1>3 DEF Outs
<1> QED
  BY <1>2, <1>4

\* The words of a plan nobody resized stand for the section, one by one.
LEMMA SectionStands ==
  ASSUME GInv, pc = "edit", input.container, NEW p, PlanOK(p), PlanTiled(p, blocks),
         NEW v, v.base \in Int, emit(p, v).result = "Ok"
  PROVE  /\ Stands(emit(p, v).words, input.base) /\ Len(emit(p, v).words) = N
         /\ IsSeq(emit(p, v).words) /\ input.base \in Nat /\ N \in Nat
<1>1. SliceInv /\ BlocksOK /\ CoveredTo(N)
  BY DEF GInv, AttachInv
<1>2. N \in Nat
  BY <1>1, SliceFacts
<1>3. /\ input.base \in Nat
      /\ Len(blocks) = 0 => N = 0
      /\ Len(blocks) > 0 => /\ blocks[1].start = input.base
                            /\ blocks[Len(blocks)].end = input.base + N
      /\ \A b \in 1 .. (Len(blocks) - 1) : blocks[b].end = blocks[b + 1].start
  BY <1>1, BlocksJoin
<1>4. Len(p) = Len(blocks) /\ Len(p) \in Nat /\ IsSeq(p)
  BY DEF PlanTiled, PlanOK, IsSeq
<1>5. Tiled(FlattenSeq(p), input.base, input.base + N)
  <2>1. CASE Len(p) = 0
    <3>1. FlattenSeq(p) = p
      BY <2>1, <1>4, FlattenSteps
    <3>2. p = <<>>
      <4>1. IsSeq(<<>>) /\ Len(<<>>) = 0
        BY PairSeq
      <4>2. <<>> = [k \in 1 .. 0 |-> <<>>[k]] /\ p = [k \in 1 .. 0 |-> p[k]]
        BY <2>1, <4>1, <1>4 DEF IsSeq
      <4>3. \A k \in 1 .. 0 : FALSE
        OBVIOUS
      <4> QED
        BY <4>2, <4>3
    <3>3. input.base + N = input.base
      BY <2>1, <1>3, <1>4
    <3> QED
      BY <3>1, <3>2, <3>3, <1>3, TileNone
  <2>2. CASE Len(p) > 0
    <3>1. /\ Len(p) > 0
          /\ \A b \in 1 .. (Len(p) - 1) : blocks[b].end = blocks[b + 1].start
      BY <2>2, <1>3, <1>4
    <3>2. Tiled(FlattenSeq(p), blocks[1].start, blocks[Len(p)].end)
      BY <3>1, FlattenTiles
    <3> QED
      BY <2>2, <3>2, <1>3, <1>4
  <2> QED
    BY <2>1, <2>2, <1>4
<1>6. /\ EmittedOK(emit(p, v), 0)
      /\ Stands(emit(p, v).words, input.base)
      /\ Len(emit(p, v).words) = (input.base + N) - input.base
  BY <1>5, EmitFits
<1> QED
  BY <1>2, <1>3, <1>6 DEF EmittedOK

\* What the overlays of a section replace, when its words stand for it.
LEMMA NothingUnderOverlays ==
  ASSUME GInv, EditInv, CommitInv, pc = "edit", input.container,
         NEW p, PlanOK(p), ~Resized => PlanTiled(p, blocks), NEW v, v.base \in Int,
         NEW mode, Record(v, mode, p, emit(p, v), ApplyOverlays(emit(p, v).words)),
         UNCHANGED <<input, instructions, log, overlays>>
  PROVE  OverlaysLand'
<1> DEFINE e == emit(p, v)
           words == ApplyOverlays(e.words)
<1>1. SUFFICES ASSUME NEW o \in Outs', ~Resized', NEW w \in overlays',
                      w.va + w.len <= input'.base + N', NEW a \in w.va .. w.va + w.len - 1,
                      NEW k \in DOMAIN o.words
               PROVE  o.words[k].src # a
  BY DEF OverlaysLand, WordsFor
<1>2. ~Resized /\ w \in overlays /\ input'.base = input.base /\ N' = N
  BY <1>1 DEF Resized, Succeeded, N
<1> HIDE DEF e, words
<1>3. o.words = words /\ e.result = "Ok"
  BY RecordFacts DEF e, words
<1>4. /\ Stands(e.words, input.base) /\ Len(e.words) = N /\ IsSeq(e.words)
      /\ input.base \in Nat /\ N \in Nat
  BY <1>2, <1>3, SectionStands DEF e
<1>5. OverlayOK(w)
  BY <1>2 DEF CommitInv, OverlayInv
<1>6. DOMAIN words = 1 .. N
  BY <1>4, OverlayFacts DEF words, IsSeq
<1>7. k \in 1 .. N
  BY <1>3, <1>6
<1>8. ApplyOverlays(e.words)[k].src # a
  BY <1>1, <1>2, <1>4, <1>5, <1>7, OverlaidWords
<1> QED
  BY <1>3, <1>8 DEF words

LEMMA OutModes ==
  ASSUME NEW o \in Outs'
  PROVE  /\ EmitCopy => o.mode = "copy"
         /\ EmitGrownText => o.mode = "grown_text"
         /\ EmitGrownGap => o.mode = "grown_gap"
<1> DEFINE q == shift_plan_absolute_targets(plan)
           c == WithoutRelocations(emit(plan, Copied))
           g == WithoutRelocations(emit(q, GrownGap))
<1>1. EmitCopy => Record(Copied, "copy", plan, c, c.words)
  BY DEF EmitCopy
<1>2. EmitGrownText => Record(GrownText, "grown_text", q, emit(q, GrownText),
                              ApplyOverlays(emit(q, GrownText).words))
  BY DEF EmitGrownText, EmitGrown
<1>3. EmitGrownGap => Record(GrownGap, "grown_gap", q, g, g.words)
  BY DEF EmitGrownGap, EmitGrown
<1> HIDE DEF q, c, g
<1> QED
  BY <1>1, <1>2, <1>3, RecordFacts

LEMMA OverlaysLandNext ==
  ASSUME GInv, EditInv, CommitInv, OverlaysLand, [CommitNext]_planVars
  PROVE  OverlaysLand'
<1>1. CASE pc' # "committed"
  <2>1. out' = <<>>
    BY <1>1, CommitInvNext DEF CommitInv, FreshInv
  <2>2. Outs' = {}
    BY <2>1 DEF Outs
  <2> QED
    BY <2>2 DEF OverlaysLand
<1>2. CASE Commit
  <2>1. /\ pc = "edit" /\ input.container
        /\ Record(InPlace, "commit", plan, emit(plan, InPlace),
                  ApplyOverlays(emit(plan, InPlace).words))
        /\ UNCHANGED <<input, instructions, log, overlays>>
    BY <1>2 DEF Commit
  <2>2. PlanOK(plan) /\ (~Resized => PlanTiled(plan, blocks))
    BY <2>1 DEF EditInv, CommitInv, TileInv
  <2>3. InPlace.base \in Int
    <3>1. InputOK(input)
      BY PlanAssumption DEF GInv, SliceInv
    <3> QED
      BY <3>1 DEF InPlace, View, InputOK
  <2> QED
    BY <2>1, <2>2, <2>3, NothingUnderOverlays
<1>3. CASE EmitGrownText
  <2> DEFINE q == shift_plan_absolute_targets(plan)
  <2>1. /\ pc = "edit" /\ input.container
        /\ Record(GrownText, "grown_text", q, emit(q, GrownText),
                  ApplyOverlays(emit(q, GrownText).words))
        /\ UNCHANGED <<input, instructions, log, overlays>>
    BY <1>3 DEF EmitGrownText, EmitGrown
  <2>2. PlanOK(q) /\ (~Resized => PlanTiled(q, blocks))
    <3>1. PlanOK(plan) /\ (~Resized => PlanTiled(plan, blocks))
      BY <2>1 DEF EditInv, CommitInv, TileInv
    <3> QED
      BY <3>1, ShiftKeeps
  <2>3. GrownText.base \in Int
    <3>1. InputOK(input)
      BY PlanAssumption DEF GInv, SliceInv
    <3> QED
      BY <3>1, CommitAssumption DEF GrownText, View, InputOK
  <2> HIDE DEF q
  <2> QED
    BY <2>1, <2>2, <2>3, NothingUnderOverlays
<1>4. CASE EmitCopy \/ EmitGrownGap
  <2>2. \A o \in Outs' : o.mode \notin {"commit", "grown_text"}
    BY <1>4, OutModes
  <2> QED
    BY <2>2 DEF OverlaysLand
<1>5. CASE UNCHANGED planVars
  BY <1>5 DEF planVars, cfgVars, OverlaysLand, Outs, Resized, Succeeded, WordsFor, N
<1>6. CASE PlanStep
  <2>1. pc' # "committed"
    BY <1>6 DEF PlanStep, CfgStep, CollectLeader, LeadersCollected, FormBlock, BlocksFormed,
                AttachSuccessors, SuccessorsAttached, Lift, Edit, RedirectBranch,
                RedirectMacro, Replace, ReplaceTerminator, InsertAfter, RemoveOp,
                OverlayBytes, Apply, cfgVars
  <2> QED
    BY <2>1, <1>1
<1> QED
  BY <1>2, <1>3, <1>4, <1>5, <1>6 DEF CommitNext, Committed

LEMMA RelocationsFitNext ==
  ASSUME GInv, EditInv, CommitInv, RelocationsFitTheBytes, [CommitNext]_planVars
  PROVE  RelocationsFitTheBytes'
<1>1. CASE pc' # "committed"
  <2>1. out' = <<>>
    BY <1>1, CommitInvNext DEF CommitInv, FreshInv
  <2>2. Outs' = {}
    BY <2>1 DEF Outs
  <2> QED
    BY <2>2 DEF RelocationsFitTheBytes
<1>2. CASE Commit
  <2> DEFINE e == emit(plan, InPlace)
             words == ApplyOverlays(e.words)
             relocs == container'.relocs
  <2> SUFFICES ASSUME NEW o \in Outs'
               PROVE  /\ \A n \in DOMAIN relocs :
                           relocs[n].section = "text" =>
                             /\ relocs[n].id = n - 1
                             /\ relocs[n].offset + 1 \in DOMAIN o.words
                             /\ o.words[relocs[n].offset + 1].mn \in
                                  Patchable(relocs[n].kind) \cup {"overlay"}
                      /\ OtherSections(relocs) = OtherSections(input'.relocs)
    BY DEF RelocationsFitTheBytes
  <2>1. /\ pc = "edit" /\ input.container /\ input' = input
        /\ Record(InPlace, "commit", plan, e, words)
        /\ container' = IF e.result # "Ok" THEN container
                        ELSE [container EXCEPT !.relocs = commit_relocations(@, e.relocs)]
    BY <1>2 DEF Commit
  <2> HIDE DEF e, words
  <2>2. o.words = words /\ e.result = "Ok"
    BY <2>1, RecordFacts
  <2>3. container = [symbols |-> input.symbols, relocs |-> input.relocs]
    BY <2>1 DEF CommitInv, FreshInv
  <2>4. relocs = commit_relocations(input.relocs, e.relocs)
    BY <2>1, <2>2, <2>3
  <2> HIDE DEF relocs
  <2>5. InputOK(input)
    BY PlanAssumption DEF GInv, SliceInv
  <2>6. InPlace.base \in Int /\ Len(input.relocs) \in Nat
    BY <2>5 DEF InPlace, View, InputOK
  <2>7. EmittedOK(e, 0)
    <3>1. PlanOK(plan)
      BY <2>1 DEF EditInv
    <3> QED
      BY <2>1, <2>2, <2>6, <3>1, EmitFits DEF e
  <2>8. /\ IsSeq(e.words) /\ IsSeq(e.relocs)
        /\ \A j \in 1 .. Len(e.relocs) : FitsIn(e.relocs[j], e.words, 0)
    BY <2>7 DEF EmittedOK
  <2>9. ASSUME NEW j \in 1 .. Len(e.relocs)
        PROVE  /\ e.relocs[j].section = "text"
               /\ e.relocs[j].offset \in 0 .. (Len(e.words) - 1)
               /\ e.words[e.relocs[j].offset + 1].mn \in Patchable(e.relocs[j].kind)
    <3>5. PICK d \in 0 .. (Len(e.words) - 1), kind \in RelocKinds :
            /\ e.words[d + 1].mn \in Patchable(kind)
            /\ \E s : e.relocs[j] = Reloc(0 + d, kind, s)
      BY <2>8 DEF FitsIn
    <3>1. PICK s : e.relocs[j] = Reloc(0 + d, kind, s)
      BY <3>5
    <3>2. 0 + d = d
      OBVIOUS
    <3>3. e.relocs[j] = [section |-> "text", offset |-> d, kind |-> kind, symbol |-> s,
                         addend |-> 0]
      BY <3>1, <3>2 DEF Reloc
    <3>4. e.relocs[j].section = "text" /\ e.relocs[j].offset = d /\ e.relocs[j].kind = kind
      BY <3>3
    <3> QED
      BY <3>4, <3>5
  <2>10. /\ IsSeq(relocs) /\ OtherSections(relocs) = OtherSections(input.relocs)
         /\ \A k \in 1 .. Len(relocs) : relocs[k].section = "text" =>
              \E j \in 1 .. Len(e.relocs) : /\ relocs[k].offset = e.relocs[j].offset
                                            /\ relocs[k].kind = e.relocs[j].kind
                                            /\ relocs[k].id = k - 1
    <3> DEFINE all == commit_relocations(input.relocs, e.relocs)
    <3>1. Len(input.relocs) \in Nat /\ IsSeq(e.relocs)
          /\ \A j \in 1 .. Len(e.relocs) : e.relocs[j].section = "text"
      BY <2>6, <2>8, <2>9
    <3>2. /\ IsSeq(all) /\ OtherSections(all) = OtherSections(input.relocs)
          /\ \A k \in 1 .. Len(all) : all[k].section = "text" =>
               \E j \in 1 .. Len(e.relocs) : /\ all[k].offset = e.relocs[j].offset
                                             /\ all[k].kind = e.relocs[j].kind
                                             /\ all[k].id = k - 1
      BY <3>1, CommittedRelocs
    <3> QED
      BY <2>4, <3>2
  <2>11. /\ DOMAIN words = 1 .. Len(e.words)
         /\ \A i \in 1 .. Len(e.words) : words[i].mn \in {e.words[i].mn, "overlay"}
    BY <2>8, OverlayFacts DEF words, IsSeq
  <2>12. ASSUME NEW n \in DOMAIN relocs, relocs[n].section = "text"
         PROVE  /\ relocs[n].id = n - 1
                /\ relocs[n].offset + 1 \in DOMAIN words
                /\ words[relocs[n].offset + 1].mn \in Patchable(relocs[n].kind) \cup {"overlay"}
    <3>1. n \in 1 .. Len(relocs)
      BY <2>10 DEF IsSeq
    <3>2. PICK j \in 1 .. Len(e.relocs) : /\ relocs[n].offset = e.relocs[j].offset
                                          /\ relocs[n].kind = e.relocs[j].kind
                                          /\ relocs[n].id = n - 1
      BY <2>10, <2>12, <3>1
    <3>3. relocs[n].offset + 1 \in 1 .. Len(e.words)
      <4>1. Len(e.words) \in Nat /\ e.relocs[j].offset \in 0 .. (Len(e.words) - 1)
        BY <2>8, <2>9 DEF IsSeq
      <4> QED
        BY <3>2, <4>1
    <3> QED
      BY <2>9, <2>11, <3>2, <3>3
  <2> QED
    BY <2>1, <2>2, <2>10, <2>12
<1>3. CASE EmitCopy \/ EmitGrownText \/ EmitGrownGap
  <2>2. \A o \in Outs' : o.mode # "commit"
    BY <1>3, OutModes
  <2> QED
    BY <2>2 DEF RelocationsFitTheBytes
<1>4. CASE UNCHANGED planVars
  BY <1>4 DEF planVars, cfgVars, RelocationsFitTheBytes, Outs
<1>5. CASE PlanStep
  <2>1. pc' # "committed"
    BY <1>5 DEF PlanStep, CfgStep, CollectLeader, LeadersCollected, FormBlock, BlocksFormed,
                AttachSuccessors, SuccessorsAttached, Lift, Edit, RedirectBranch,
                RedirectMacro, Replace, ReplaceTerminator, InsertAfter, RemoveOp,
                OverlayBytes, Apply, cfgVars
  <2> QED
    BY <2>1, <1>1
<1> QED
  BY <1>2, <1>3, <1>4, <1>5 DEF CommitNext, Committed

LEMMA CommitInvInit ==
  ASSUME PlanInit
  PROVE  CommitInv /\ OverlaysLand /\ RelocationsFitTheBytes
<1>1. pc \in {"leaders", "done"} /\ log = <<>> /\ overlays = {} /\ out = <<>>
      /\ container = [symbols |-> input.symbols, relocs |-> input.relocs]
  BY DEF PlanInit, CfgInit
<1>2. Outs = {}
  BY <1>1 DEF Outs
<1>3. OverlaysLand /\ RelocationsFitTheBytes
  BY <1>2 DEF OverlaysLand, RelocationsFitTheBytes
<1>4. IsSeq(log)
  BY <1>1, PairSeq
<1>5. TileInv /\ OverlayInv /\ FreshInv
  BY <1>1 DEF TileInv, OverlayInv, FreshInv
<1> QED
  BY <1>3, <1>4, <1>5 DEF CommitInv

-----------------------------------------------------------------------------
(* The theorems.                                                           *)

\* The inductive invariant of the emission: until an edit changes the length, the
\* ops of each block fill what the block filled in the source.
THEOREM SectionInv ==
  CommitSpec => [](CommitInv /\ OverlaysLand /\ RelocationsFitTheBytes)
<1> DEFINE Inv == GInv /\ EditInv
           Own == CommitInv /\ OverlaysLand /\ RelocationsFitTheBytes
<1>1. PlanInit => Own
  BY CommitInvInit
<1>2. Inv /\ Own /\ [CommitNext]_planVars => Own'
  BY CommitInvNext, OverlaysLandNext, RelocationsFitNext
<1>3. CommitSpec => []Inv
  BY PlanInv
<1> HIDE DEF Inv, Own
<1>4. CommitSpec => []Own
  BY <1>1, <1>2, <1>3, PTL DEF CommitSpec
<1> QED
  BY <1>4 DEF Own

\* For every section and every sequence of edits that kept its length, in place
\* or under a grow, an overlay that fits has replaced exactly the code that was
\* at its address: nothing of that code is emitted anywhere else (editor.rs,
\* commit_lifted_section and emit_lifted_section_shifted).
THEOREM OverlaysHit == CommitSpec => []OverlaysLand
<1>1. CommitInv /\ OverlaysLand /\ RelocationsFitTheBytes => OverlaysLand
  OBVIOUS
<1> QED
  BY SectionInv, <1>1, PTL

\* For every section, container and sequence of edits, after a commit each
\* relocation of the section sits on an instruction it can patch and is found by
\* its own id, and the relocations of the other sections are what they were
\* (commit.rs, commit_to_container).
THEOREM RelocationsFit == CommitSpec => []RelocationsFitTheBytes
<1>1. CommitInv /\ OverlaysLand /\ RelocationsFitTheBytes => RelocationsFitTheBytes
  OBVIOUS
<1> QED
  BY SectionInv, <1>1, PTL
=============================================================================
