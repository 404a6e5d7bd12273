---------------------------- MODULE DescentProofs ----------------------------
(***************************************************************************)
(* Recursive-descent disassembly, for every buffer and every list of entry *)
(* points: the walk classifies exactly the addresses that control flow     *)
(* reaches, and the listing accounts for every byte once.                  *)
(***************************************************************************)
EXTENDS Descent, TLAPS, WellFoundedInduction, SequenceTheorems, FiniteSetTheorems

Elems(s) == {s[i] : i \in DOMAIN s}

\* Addresses the walk has yet to look at.
Pending == Elems(worklist) \cup (IF pc = "walk" THEN {address} ELSE {})

\* The inputs are those the assumption describes and never change.
InputInv ==
  /\ decode \in Programs /\ entries \in EntryLists /\ tail \in Tails

\* What is classified or pending is reachable, and what follows from an entry
\* or a classified address is classified or pending.
WalkInv ==
  /\ pc \in {"pop", "walk", "build", "done"}
  /\ worklist \in Seq(DOMAIN decode) /\ Elems(worklist) \subseteq Reachable
  /\ address \in Int
  /\ pc = "walk" /\ in_range(address) => address \in Reachable
  /\ DOMAIN status \subseteq Reachable
  /\ \A a \in DOMAIN status : status[a] \in {"Decoded", "DecodeError"}
  /\ InRangeEntries \subseteq DOMAIN status \cup Pending
  /\ \A a \in DOMAIN status : Successors(a) \subseteq DOMAIN status \cup Pending
  /\ pc \in {"build", "done"} => worklist = <<>>

-----------------------------------------------------------------------------
(* Numbers and sequences.                                                  *)

LEMMA NatInduct ==
  ASSUME NEW S \in SUBSET Nat, 0 \in S, \A n \in S : n + 1 \in S
  PROVE  S = Nat
<1> SUFFICES ASSUME Nat \ S # {} PROVE FALSE
  OBVIOUS
<1> DEFINE T == Nat \ S
<1>1. \E x \in T : \A y \in T : ~ (<<y, x>> \in OpToRel(<, Nat))
  BY NatLessThanWellFounded, WFMin
<1>2. PICK x \in T : \A y \in T : ~ (<<y, x>> \in OpToRel(<, Nat))
  BY <1>1
<1>3. \A y \in T : ~ (y < x)
  BY <1>2 DEF OpToRel
<1>4. x \in Nat /\ x # 0 /\ x \notin S
  OBVIOUS
<1>5. x - 1 \in Nat /\ x - 1 < x /\ (x - 1) + 1 = x
  BY <1>4
<1>6. x - 1 \notin T
  BY <1>3, <1>5
<1> QED
  BY <1>4, <1>5, <1>6

LEMMA ElemsAppend ==
  ASSUME NEW D, NEW s \in Seq(D), NEW e \in D
  PROVE  /\ Append(s, e) \in Seq(D)
         /\ Elems(Append(s, e)) = Elems(s) \cup {e}
<1> DEFINE t == Append(s, e)
<1>1. /\ t \in Seq(D) /\ Len(t) = Len(s) + 1 /\ Len(s) \in Nat
      /\ \A i \in 1 .. Len(s) : t[i] = s[i]
      /\ t[Len(s) + 1] = e
      /\ DOMAIN t = 1 .. (Len(s) + 1) /\ DOMAIN s = 1 .. Len(s)
  OBVIOUS
<1> HIDE DEF t
<1>2. DOMAIN t = DOMAIN s \cup {Len(s) + 1}
  BY <1>1
<1>3. Elems(t) = Elems(s) \cup {e}
  BY <1>1, <1>2 DEF Elems
<1> QED
  BY <1>1, <1>3 DEF t

LEMMA ElemsPop ==
  ASSUME NEW D, NEW s \in Seq(D), s # <<>>
  PROVE  /\ s[Len(s)] \in D /\ s[Len(s)] \in Elems(s)
         /\ SubSeq(s, 1, Len(s) - 1) \in Seq(D)
         /\ Elems(s) = Elems(SubSeq(s, 1, Len(s) - 1)) \cup {s[Len(s)]}
<1> DEFINE t == SubSeq(s, 1, Len(s) - 1)
<1>1. Len(s) \in Nat \ {0} /\ DOMAIN s = 1 .. Len(s) /\ \A i \in 1 .. Len(s) : s[i] \in D
  BY EmptySeq
<1>2. /\ t \in Seq(D) /\ Len(t) = Len(s) - 1
      /\ \A i \in 1 .. (Len(s) - 1) : t[i] = s[i]
      /\ DOMAIN t = 1 .. (Len(s) - 1)
  BY <1>1
<1> HIDE DEF t
<1>3. DOMAIN s = DOMAIN t \cup {Len(s)} /\ Len(s) \in DOMAIN s
  BY <1>1, <1>2
<1>4. Elems(s) = Elems(t) \cup {s[Len(s)]}
  BY <1>2, <1>3 DEF Elems
<1> QED
  BY <1>1, <1>2, <1>3, <1>4 DEF t, Elems

-----------------------------------------------------------------------------
(* Control flow.                                                           *)

LEMMA DecodeFacts ==
  ASSUME InputInv
  PROVE  /\ End \in Nat /\ DOMAIN decode = 0 .. End - 1
         /\ \A a \in DOMAIN decode :
              /\ decode[a] \in Instruction
              /\ decode[a].size \in Nat \ {0} /\ decode[a].target \in Int
              /\ a + decode[a].size <= End
<1>1. /\ decode \in [DOMAIN decode -> Instruction]
      /\ IsFiniteSet(DOMAIN decode) /\ DOMAIN decode = 0 .. End - 1
      /\ \A a \in DOMAIN decode : a + decode[a].size <= End
  BY DescentAssumption DEF InputInv, End
<1>2. End \in Nat
  BY <1>1, FS_CardinalityType DEF End
<1>3. \A a \in DOMAIN decode : decode[a] \in Instruction
  BY <1>1
<1>4. \A a \in DOMAIN decode : decode[a].size \in Nat \ {0} /\ decode[a].target \in Int
  BY <1>3 DEF Instruction
<1> QED
  BY <1>1, <1>2, <1>3, <1>4

LEMMA ReachableClosed ==
  /\ Reachable \subseteq DOMAIN decode
  /\ InRangeEntries \subseteq Reachable
  /\ \A a \in Reachable : Successors(a) \subseteq Reachable
<1>1. Reachable \subseteq DOMAIN decode
  BY DEF Reachable
<1>2. InRangeEntries \subseteq DOMAIN decode
  BY DEF InRangeEntries, in_range
<1>3. InRangeEntries \subseteq Reachable
  BY <1>2 DEF Reachable
<1>4. ASSUME NEW a \in Reachable, NEW t \in Successors(a)
      PROVE  t \in Reachable
  <2>1. t \in DOMAIN decode
    BY DEF Successors, in_range
  <2>2. ASSUME NEW S \in SUBSET DOMAIN decode, InRangeEntries \subseteq S, Closed(S)
        PROVE  t \in S
    <3>1. a \in S
      BY <2>2 DEF Reachable
    <3> QED
      BY <3>1, <2>2 DEF Closed
  <2> QED
    BY <2>1, <2>2 DEF Reachable
<1> QED
  BY <1>1, <1>3, <1>4

LEMMA ReachableLeast ==
  ASSUME NEW S \in SUBSET DOMAIN decode, InRangeEntries \subseteq S, Closed(S)
  PROVE  Reachable \subseteq S
BY DEF Reachable

\* The filter of the entry points keeps those in the buffer, and only those.
LEMMA InitialWorklist ==
  ASSUME InputInv
  PROVE  initial_worklist \in Seq(DOMAIN decode) /\ Elems(initial_worklist) = InRangeEntries
<1>1. entries \in Seq(Int) /\ Len(entries) \in Nat /\ DOMAIN entries = 1 .. Len(entries)
  BY DescentAssumption DEF InputInv
<1> DEFINE L == Len(entries)
           D == DOMAIN decode
           step(q, n) == IF in_range(entries[n]) THEN Append(q, entries[n]) ELSE q
           Rec(f, m) == \A n \in 0 .. m :
                          f[n] = IF n = 0 THEN <<>> ELSE step(f[n - 1], n)
           Ok == {m \in Nat : m <= L => \E f : f = [n \in 0 .. m |-> f[n]] /\ Rec(f, m)}
<1>2. Ok = Nat
  <2>1. 0 \in Ok
    <3> DEFINE g == [n \in 0 .. 0 |-> <<>>]
    <3>1. g = [n \in 0 .. 0 |-> g[n]]
      BY Zenon
    <3>2. 0 \in 0 .. 0 /\ \A n \in 0 .. 0 : n = 0
      OBVIOUS
    <3>3. Rec(g, 0)
      BY <3>2
    <3> QED
      BY <3>1, <3>3
  <2>2. ASSUME NEW m \in Ok PROVE m + 1 \in Ok
    <3> SUFFICES ASSUME m + 1 <= L
                 PROVE  \E g : g = [n \in 0 .. (m + 1) |-> g[n]] /\ Rec(g, m + 1)
      OBVIOUS
    <3>1. m \in Nat /\ m <= L
      BY <1>1
    <3>2. PICK f : f = [n \in 0 .. m |-> f[n]] /\ Rec(f, m)
      BY <3>1
    <3> DEFINE g == [n \in 0 .. (m + 1) |-> IF n = m + 1 THEN step(f[m], m + 1) ELSE f[n]]
    <3> HIDE DEF step
    <3>3. Rec(g, m + 1)
      <4> SUFFICES ASSUME NEW n \in 0 .. (m + 1)
                   PROVE  g[n] = IF n = 0 THEN <<>> ELSE step(g[n - 1], n)
        OBVIOUS
      <4>1. CASE n = m + 1
        <5>1. n # 0 /\ n - 1 = m /\ m \in 0 .. (m + 1) /\ m # m + 1
          BY <4>1, <3>1
        <5> QED
          BY <4>1, <5>1
      <4>2. CASE n # m + 1
        <5>1. n \in 0 .. m /\ (n # 0 => n - 1 \in 0 .. (m + 1) /\ n - 1 # m + 1)
          BY <4>2, <3>1
        <5>2. g[n] = f[n] /\ (n # 0 => g[n - 1] = f[n - 1])
          BY <4>2, <5>1
        <5> QED
          BY <5>1, <5>2, <3>2
      <4> QED
        BY <4>1, <4>2
    <3>4. g = [n \in 0 .. (m + 1) |-> g[n]]
      BY Zenon
    <3> QED
      BY <3>3, <3>4
  <2> QED
    BY <2>1, <2>2, NatInduct
<1> DEFINE IsKept(f) == f = [n \in 0 .. L |-> IF n = 0 THEN <<>> ELSE step(f[n - 1], n)]
           kept == CHOOSE f : IsKept(f)
<1>3. IsKept(kept)
  <2>1. L \in Nat /\ L <= L
    BY <1>1
  <2>2. \E f : f = [n \in 0 .. L |-> f[n]] /\ Rec(f, L)
    <3> HIDE DEF L, Rec
    <3> QED
      BY <1>2, <2>1
  <2>3. PICK f : f = [n \in 0 .. L |-> f[n]] /\ Rec(f, L)
    BY <2>2
  <2> HIDE DEF step
  <2>4. IsKept(f)
    BY <2>3, Zenon
  <2> HIDE DEF IsKept
  <2> QED
    BY <2>4
<1>4. \A n \in 0 .. L : kept[n] = IF n = 0 THEN <<>> ELSE step(kept[n - 1], n)
  <2> HIDE DEF step, kept
  <2> QED
    BY <1>3
<1>5. initial_worklist = kept[L]
  BY Zenon DEF initial_worklist
<1> HIDE DEF kept, IsKept
<1> DEFINE Upto(m) == {entries[i] : i \in {i \in 1 .. m : in_range(entries[i])}}
           Good == {m \in Nat : m <= L => kept[m] \in Seq(D) /\ Elems(kept[m]) = Upto(m)}
<1>6. Good = Nat
  <2>1. 0 \in Good
    <3>1. kept[0] = <<>>
      BY <1>1, <1>4
    <3>2. Elems(<<>>) = {} /\ Upto(0) = {} /\ <<>> \in Seq(D)
      BY DEF Elems
    <3> QED
      BY <3>1, <3>2
  <2>2. ASSUME NEW m \in Good PROVE m + 1 \in Good
    <3> SUFFICES ASSUME m + 1 <= L
                 PROVE  kept[m + 1] \in Seq(D) /\ Elems(kept[m + 1]) = Upto(m + 1)
      OBVIOUS
    <3>1. m \in Nat /\ m <= L /\ m + 1 \in 0 .. L /\ m + 1 # 0 /\ (m + 1) - 1 = m
      BY <1>1
    <3>2. kept[m] \in Seq(D) /\ Elems(kept[m]) = Upto(m)
      BY <3>1
    <3>3. kept[m + 1] = step(kept[m], m + 1)
      BY <1>4, <3>1
    <3>4. 1 .. (m + 1) = (1 .. m) \cup {m + 1}
      BY <3>1
    <3>5. CASE in_range(entries[m + 1])
      <4>1. entries[m + 1] \in D
        BY <3>5 DEF in_range
      <4>2. kept[m + 1] = Append(kept[m], entries[m + 1])
        BY <3>3, <3>5
      <4>3. Upto(m + 1) = Upto(m) \cup {entries[m + 1]}
        BY <3>4, <3>5
      <4> HIDE DEF Upto, Good, D
      <4>4. /\ Append(kept[m], entries[m + 1]) \in Seq(D)
            /\ Elems(Append(kept[m], entries[m + 1])) = Elems(kept[m]) \cup {entries[m + 1]}
        BY <4>1, <3>2, ElemsAppend
      <4> QED
        BY <4>2, <4>3, <4>4, <3>2
    <3>6. CASE ~in_range(entries[m + 1])
      <4>1. kept[m + 1] = kept[m]
        BY <3>3, <3>6
      <4>2. Upto(m + 1) = Upto(m)
        BY <3>4, <3>6
      <4> QED
        BY <4>1, <4>2, <3>2
    <3> QED
      BY <3>5, <3>6
  <2> QED
    BY <2>1, <2>2, NatInduct
<1>7. kept[L] \in Seq(D) /\ Elems(kept[L]) = Upto(L)
  <2>1. L \in Nat /\ L <= L
    BY <1>1
  <2> HIDE DEF L, Upto, D
  <2> QED
    BY <1>6, <2>1
<1>8. Upto(L) = InRangeEntries
  BY <1>1 DEF InRangeEntries
<1> QED
  BY <1>5, <1>7, <1>8

-----------------------------------------------------------------------------
(* The walk.                                                               *)

LEMMA InitWalk ==
  ASSUME Init
  PROVE  InputInv /\ WalkInv
<1>1. InputInv
  BY DEF Init, InputInv
<1>2. worklist \in Seq(DOMAIN decode) /\ Elems(worklist) = InRangeEntries
  BY <1>1, InitialWorklist DEF Init
<1>3. DOMAIN status = {}
  BY DEF Init
<1>4. pc = "pop" /\ address = 0
  BY DEF Init
<1>5. Elems(worklist) \subseteq Reachable
  BY <1>2, ReachableClosed
<1> QED
  BY <1>1, <1>2, <1>3, <1>4, <1>5 DEF WalkInv, Pending

\* The inputs stay, and with them everything that is said about control flow.
LEMMA InputFrame ==
  ASSUME InputInv, [Next]_vars
  PROVE  /\ decode' = decode /\ entries' = entries /\ tail' = tail
         /\ InputInv' /\ Reachable' = Reachable /\ InRangeEntries' = InRangeEntries
         /\ \A a : Successors(a)' = Successors(a) /\ in_range(a)' = in_range(a)
<1>1. decode' = decode /\ entries' = entries /\ tail' = tail
  BY DEF Next, Walk, Build, Pop, StopWalk, DecodeInstruction, DecodeFails, StartBuild,
         ListInstruction, accumulate, FinishBuild, Returned, vars
<1>2. \A a : Successors(a)' = Successors(a) /\ in_range(a)' = in_range(a)
  BY <1>1 DEF Successors, in_range
<1>3. InRangeEntries' = InRangeEntries
  BY <1>1 DEF InRangeEntries, in_range
<1>4. Reachable' = Reachable
  BY <1>1, <1>3 DEF Reachable, Closed, Successors, in_range
<1> QED
  BY <1>1, <1>2, <1>3, <1>4 DEF InputInv

\* A walk that pops or that stops moves what is pending and classifies nothing.
LEMMA WalkMoves ==
  ASSUME InputInv, WalkInv, [Next]_vars, status' = status,
         pc' \in {"pop", "walk"}, address' \in Int,
         pc' = "walk" /\ in_range(address') => address' \in Reachable,
         worklist' \in Seq(DOMAIN decode), Elems(worklist') \subseteq Reachable,
         \A t \in Pending : in_range(t) /\ t \notin DOMAIN status => t \in Pending'
  PROVE  WalkInv'
<1>1. /\ decode' = decode /\ Reachable' = Reachable /\ InRangeEntries' = InRangeEntries
      /\ \A a : Successors(a)' = Successors(a) /\ in_range(a)' = in_range(a)
  BY InputFrame
<1>2. InRangeEntries \subseteq DOMAIN status \cup Pending'
  <2>1. \A t \in InRangeEntries : in_range(t)
    BY DEF InRangeEntries
  <2> QED
    BY <2>1 DEF WalkInv
<1>3. \A a \in DOMAIN status : Successors(a) \subseteq DOMAIN status \cup Pending'
  <2>1. \A a : \A t \in Successors(a) : in_range(t)
    BY DEF Successors
  <2> QED
    BY <2>1 DEF WalkInv
<1>4. in_range(address)' = in_range(address')
  BY <1>1 DEF in_range
<1> QED
  BY <1>1, <1>2, <1>3, <1>4 DEF WalkInv

LEMMA PopWalk ==
  ASSUME InputInv, WalkInv, Pop
  PROVE  WalkInv'
<1>1. worklist \in Seq(DOMAIN decode) /\ worklist # <<>> /\ Elems(worklist) \subseteq Reachable
  BY DEF Pop, WalkInv
<1>2. /\ address' \in DOMAIN decode /\ address' \in Elems(worklist)
      /\ worklist' \in Seq(DOMAIN decode)
      /\ Elems(worklist) = Elems(worklist') \cup {address'}
  BY <1>1, ElemsPop DEF Pop
<1>3. pc = "pop" /\ pc' = "walk" /\ status' = status
  BY DEF Pop
<1>4. address' \in Int
  BY <1>2, DecodeFacts
<1>5. \A t \in Pending : t \in Pending'
  BY <1>2, <1>3 DEF Pending, Elems
<1> QED
  BY <1>1, <1>2, <1>3, <1>4, <1>5, WalkMoves DEF Next, Walk

LEMMA StopWalkWalk ==
  ASSUME InputInv, WalkInv, StopWalk
  PROVE  WalkInv'
<1>1. /\ pc = "walk" /\ pc' = "pop" /\ status' = status
      /\ worklist' = worklist /\ address' = address
      /\ ~in_range(address) \/ address \in DOMAIN status
  BY DEF StopWalk, WalkEnds, walkVars
<1>2. \A t \in Pending : in_range(t) /\ t \notin DOMAIN status => t \in Pending'
  BY <1>1 DEF Pending, Elems
<1>3. [Next]_vars
  BY DEF Next, Walk
<1> QED
  BY <1>1, <1>2, <1>3, WalkMoves DEF WalkInv

\* An address is classified and what follows it becomes pending.
LEMMA ClassifyWalk ==
  ASSUME InputInv, WalkInv, [Next]_vars, pc = "walk", ~WalkEnds(address),
         NEW class \in {"Decoded", "DecodeError"}, Classify(class),
         pc' \in {"pop", "walk"}, address' \in Int,
         pc' = "walk" /\ in_range(address') => address' \in Successors(address),
         worklist' \in Seq(DOMAIN decode), Elems(worklist) \subseteq Elems(worklist'),
         Elems(worklist') \subseteq Elems(worklist) \cup Successors(address),
         Successors(address) \subseteq Pending'
  PROVE  WalkInv'
<1>1. /\ decode' = decode /\ Reachable' = Reachable /\ InRangeEntries' = InRangeEntries
      /\ \A a : Successors(a)' = Successors(a) /\ in_range(a)' = in_range(a)
  BY InputFrame
<1>2. /\ DOMAIN status' = DOMAIN status \cup {address}
      /\ \A a \in DOMAIN status' : status'[a] \in {"Decoded", "DecodeError"}
  BY DEF Classify, WalkInv
<1>3. in_range(address) /\ address \in Reachable
  BY DEF WalkEnds, WalkInv
<1>4. Successors(address) \subseteq Reachable
  BY <1>3, ReachableClosed
<1>5. Pending \subseteq DOMAIN status' \cup Pending'
  BY <1>2 DEF Pending
<1>6. InRangeEntries \subseteq DOMAIN status' \cup Pending'
  BY <1>2, <1>5 DEF WalkInv
<1>7. \A a \in DOMAIN status' : Successors(a) \subseteq DOMAIN status' \cup Pending'
  BY <1>2, <1>5 DEF WalkInv
<1>8. Elems(worklist') \subseteq Reachable /\ DOMAIN status' \subseteq Reachable
  BY <1>2, <1>3, <1>4 DEF WalkInv
<1>9. in_range(address)' = in_range(address')
  BY <1>1 DEF in_range
<1> QED
  BY <1>1, <1>2, <1>4, <1>6, <1>7, <1>8, <1>9 DEF WalkInv

LEMMA DecodeInstructionWalk ==
  ASSUME InputInv, WalkInv, DecodeInstruction
  PROVE  WalkInv'
<1> DEFINE insn == decode[address]
<1>1. address \in DOMAIN decode /\ pc = "walk" /\ ~WalkEnds(address) /\ address \in Int
  BY DEF DecodeInstruction, WalkEnds, in_range, WalkInv
<1>2. insn.size \in Nat /\ insn.target \in Int
  BY <1>1, DecodeFacts
<1>3. Successors(address) =
        enqueued(insn)
        \cup (IF continues(insn) /\ in_range(address + insn.size)
              THEN {address + insn.size} ELSE {})
  BY DEF DecodeInstruction, Successors, enqueued, continues
<1>4. \A t \in enqueued(insn) : t = insn.target /\ t \in DOMAIN decode
  BY DEF enqueued, direct_target, in_range
<1>5. /\ worklist' \in Seq(DOMAIN decode)
      /\ Elems(worklist') = Elems(worklist) \cup enqueued(insn)
  <2>1. CASE enqueued(insn) = {}
    BY <2>1 DEF DecodeInstruction, WalkInv
  <2>2. CASE enqueued(insn) # {}
    <3>1. enqueued(insn) = {insn.target} /\ insn.target \in DOMAIN decode
      BY <2>2, <1>4
    <3>2. worklist' = Append(worklist, insn.target)
      BY <2>2 DEF DecodeInstruction
    <3>3. worklist \in Seq(DOMAIN decode)
      BY DEF WalkInv
    <3> HIDE DEF insn
    <3> QED
      BY <3>1, <3>2, <3>3, ElemsAppend
  <2> QED
    BY <2>1, <2>2
<1>6. CASE continues(insn)
  <2>1. address' = address + insn.size /\ pc' = "walk"
    BY <1>6, <1>1 DEF DecodeInstruction
  <2>2. Successors(address) \subseteq Pending'
    BY <1>3, <1>5, <2>1 DEF Pending, Elems
  <2>3. in_range(address') => address' \in Successors(address)
    BY <1>3, <1>6, <2>1
  <2>4. address' \in Int
    BY <1>1, <1>2, <2>1
  <2> QED
    BY <1>1, <1>3, <1>5, <2>1, <2>2, <2>3, <2>4, ClassifyWalk
       DEF DecodeInstruction, Next, Walk
<1>7. CASE ~continues(insn)
  <2>1. address' = address /\ pc' = "pop"
    BY <1>7 DEF DecodeInstruction
  <2>2. Successors(address) \subseteq Pending'
    BY <1>3, <1>5, <1>7, <2>1 DEF Pending, Elems
  <2> QED
    BY <1>1, <1>3, <1>5, <2>1, <2>2, ClassifyWalk DEF DecodeInstruction, Next, Walk
<1> QED
  BY <1>6, <1>7

LEMMA DecodeFailsWalk ==
  ASSUME InputInv, WalkInv, DecodeFails
  PROVE  WalkInv'
<1>1. /\ pc = "walk" /\ ~WalkEnds(address) /\ Classify("DecodeError")
      /\ pc' = "pop" /\ worklist' = worklist /\ address' = address
  BY DEF DecodeFails
<1>2. Successors(address) = {}
  BY DEF DecodeFails, Successors
<1>3. worklist' \in Seq(DOMAIN decode) /\ address' \in Int
  BY <1>1 DEF WalkInv
<1>4. [Next]_vars
  BY DEF Next, Walk
<1> QED
  BY <1>1, <1>2, <1>3, <1>4, ClassifyWalk

\* build_disassembly leaves the walk's results alone.
LEMMA BuildWalk ==
  ASSUME InputInv, WalkInv, StartBuild \/ Build \/ UNCHANGED vars
  PROVE  WalkInv'
<1>1. /\ worklist' = worklist /\ address' = address /\ status' = status
      /\ \/ pc' = pc
         \/ pc = "pop" /\ worklist = <<>> /\ pc' = "build"
         \/ pc = "build" /\ pc' = "done"
  BY DEF StartBuild, Build, ListInstruction, accumulate, FinishBuild, vars, walkVars
<1>2. [Next]_vars
  BY DEF Next, Walk
<1>3. /\ decode' = decode /\ Reachable' = Reachable /\ InRangeEntries' = InRangeEntries
      /\ \A a : Successors(a)' = Successors(a) /\ in_range(a)' = in_range(a)
  BY <1>2, InputFrame
<1>4. Pending' = Pending
  BY <1>1 DEF Pending, Elems
<1>5. in_range(address)' = in_range(address)
  BY <1>1, <1>3 DEF in_range
<1> QED
  BY <1>1, <1>3, <1>4, <1>5 DEF WalkInv

LEMMA NextWalk ==
  ASSUME InputInv, WalkInv, [Next]_vars
  PROVE  InputInv' /\ WalkInv'
<1>1. InputInv'
  BY InputFrame
<1>2. WalkInv'
  BY PopWalk, StopWalkWalk, DecodeInstructionWalk, DecodeFailsWalk, BuildWalk
     DEF Next, Walk, Returned
<1> QED
  BY <1>1, <1>2

LEMMA WalkComplete ==
  ASSUME InputInv, WalkInv
  PROVE  FindsExactlyReachable
<1> SUFFICES ASSUME pc \in {"build", "done"} PROVE DOMAIN status = Reachable
  BY DEF FindsExactlyReachable
<1>1. Pending = {}
  BY DEF Pending, WalkInv, Elems
<1>2. InRangeEntries \subseteq DOMAIN status /\ Closed(DOMAIN status)
  BY <1>1 DEF WalkInv, Closed
<1>3. DOMAIN status \subseteq Reachable /\ DOMAIN status \subseteq DOMAIN decode
  BY ReachableClosed DEF WalkInv
<1> QED
  BY <1>2, <1>3, ReachableLeast

-----------------------------------------------------------------------------
(* Tilings.                                                                *)

Span == [from : Int, to : Int]

Covers(s, x) == s.from <= x /\ x < s.to

\* The spans S cover each of 0 .. n - 1 once and nothing else.
Tiles(S, n) ==
  /\ S \subseteq Span
  /\ \A s \in S : s.from < s.to /\ s.to <= n
  /\ \A x \in 0 .. n - 1 :
       \E s \in S : Covers(s, x) /\ \A t \in S : Covers(t, x) => t = s

LEMMA TilesGrow ==
  ASSUME NEW S, NEW n \in Nat, NEW m \in Nat, Tiles(S, n), n < m
  PROVE  Tiles(S \cup {[from |-> n, to |-> m]}, m)
<1> DEFINE e == [from |-> n, to |-> m]
<1>1. e \in Span /\ e.from = n /\ e.to = m
  BY DEF Span
<1> HIDE DEF e
<1>2. \A s \in S : s.from \in Int /\ s.to \in Int /\ s.from < s.to /\ s.to <= n
  BY DEF Tiles, Span
<1>3. S \cup {e} \subseteq Span
  BY <1>1 DEF Tiles
<1>4. \A s \in S \cup {e} : s.from < s.to /\ s.to <= m
  BY <1>1, <1>2
<1>5. ASSUME NEW x \in 0 .. m - 1
      PROVE  \E s \in S \cup {e} : Covers(s, x) /\ \A t \in S \cup {e} : Covers(t, x) => t = s
  <2>1. CASE x < n
    <3>1. x \in 0 .. n - 1 /\ ~Covers(e, x)
      BY <2>1, <1>1 DEF Covers
    <3> QED
      BY <3>1 DEF Tiles
  <2>2. CASE x >= n
    <3>1. Covers(e, x) /\ \A t \in S : ~Covers(t, x)
      BY <2>2, <1>1, <1>2 DEF Covers
    <3> QED
      BY <3>1
  <2> QED
    BY <2>1, <2>2
<1> QED
  BY <1>3, <1>4, <1>5 DEF Tiles, e

\* What is tiled is covered once.
LEMMA TilesOnce ==
  ASSUME NEW S, NEW n \in Nat, Tiles(S, n), NEW x \in 0 .. n - 1
  PROVE  Cardinality({s \in S : s.from <= x /\ x < s.to}) = 1
<1>1. PICK s \in S : Covers(s, x) /\ \A t \in S : Covers(t, x) => t = s
  BY DEF Tiles
<1>2. {t \in S : t.from <= x /\ x < t.to} = {s}
  BY <1>1 DEF Covers
<1> QED
  BY <1>2, FS_Singleton

-----------------------------------------------------------------------------
(* Data ranges.                                                            *)

DataRange == [address : Nat, len : Nat, reason : {"DecodeError", "Unreachable", "Padding"}]

\* What unit x of program d is, when the walk ended with classification st.
Class(d, st, x) ==
  IF x >= Cardinality(DOMAIN d) THEN "Padding"
  ELSE IF x \in DOMAIN st THEN st[x] ELSE "Unreachable"

\* Units a .. b - 1 are all of this class.
Uniform(d, st, a, b, class) == \A x \in a .. b - 1 : Class(d, st, x) = class

\* Range r may be followed by a range at a with this reason.
Precedes(r, a, reason) ==
  r.address + r.len <= a /\ (r.address + r.len = a => r.reason # reason)

\* Ranges q are in order, maximal, and each one true of its units.
RangesOK(d, st, q) ==
  /\ q \in Seq(DataRange)
  /\ \A i \in 1 .. Len(q) :
       Uniform(d, st, q[i].address, q[i].address + q[i].len, q[i].reason)
  /\ \A i \in 1 .. Len(q) - 1 : Precedes(q[i], q[i + 1].address, q[i + 1].reason)

SpansOf(d, is, q) ==
  {[from |-> a, to |-> a + d[a].size] : a \in Elems(is)}
  \cup {[from |-> q[i].address, to |-> q[i].address + q[i].len] : i \in DOMAIN q}

LEMMA RangesAppend ==
  ASSUME NEW d, NEW st, NEW q, RangesOK(d, st, q), NEW r \in DataRange,
         Uniform(d, st, r.address, r.address + r.len, r.reason),
         \A i \in 1 .. Len(q) : Precedes(q[i], r.address, r.reason)
  PROVE  RangesOK(d, st, Append(q, r))
<1> DEFINE t == Append(q, r)
<1>1. q \in Seq(DataRange) /\ Len(q) \in Nat
  BY DEF RangesOK
<1>2. /\ t \in Seq(DataRange) /\ Len(t) = Len(q) + 1
      /\ \A i \in 1 .. Len(q) : t[i] = q[i]
      /\ t[Len(q) + 1] = r
  BY <1>1
<1> HIDE DEF t
<1>3. ASSUME NEW i \in 1 .. Len(t)
      PROVE  Uniform(d, st, t[i].address, t[i].address + t[i].len, t[i].reason)
  <2>1. i \in 1 .. Len(q) \/ i = Len(q) + 1
    BY <1>1, <1>2
  <2> QED
    BY <2>1, <1>2 DEF RangesOK
<1>4. ASSUME NEW i \in 1 .. Len(t) - 1
      PROVE  Precedes(t[i], t[i + 1].address, t[i + 1].reason)
  <2>1. i \in 1 .. Len(q) /\ (i \in 1 .. Len(q) - 1 \/ i = Len(q))
    BY <1>1, <1>2
  <2>2. CASE i = Len(q)
    BY <2>1, <2>2, <1>2
  <2>3. CASE i \in 1 .. Len(q) - 1
    <3>1. i + 1 \in 1 .. Len(q)
      BY <2>3, <1>1
    <3>2. t[i] = q[i] /\ t[i + 1] = q[i + 1]
      BY <2>1, <3>1, <1>2
    <3> QED
      BY <2>3, <3>2 DEF RangesOK
  <2> QED
    BY <2>1, <2>2, <2>3
<1> QED
  BY <1>2, <1>3, <1>4 DEF RangesOK, t

LEMMA SpansAppendRange ==
  ASSUME NEW d, NEW is, NEW q \in Seq(DataRange), NEW r \in DataRange
  PROVE  SpansOf(d, is, Append(q, r)) =
           SpansOf(d, is, q) \cup {[from |-> r.address, to |-> r.address + r.len]}
<1> DEFINE t == Append(q, r)
           sp(e) == [from |-> e.address, to |-> e.address + e.len]
<1>1. /\ DOMAIN q = 1 .. Len(q) /\ Len(q) \in Nat
      /\ DOMAIN t = 1 .. (Len(q) + 1)
      /\ \A i \in 1 .. Len(q) : t[i] = q[i]
      /\ t[Len(q) + 1] = r
  OBVIOUS
<1>2. DOMAIN t = DOMAIN q \cup {Len(q) + 1}
  BY <1>1
<1>3. {sp(t[i]) : i \in DOMAIN t} = {sp(q[i]) : i \in DOMAIN q} \cup {sp(r)}
  <2> HIDE DEF t, sp
  <2> QED
    BY <1>1, <1>2
<1> QED
  BY <1>3 DEF SpansOf

LEMMA SpansAppendInstruction ==
  ASSUME NEW d, NEW D, NEW is \in Seq(D), NEW a \in D, NEW q
  PROVE  SpansOf(d, Append(is, a), q) =
           SpansOf(d, is, q) \cup {[from |-> a, to |-> a + d[a].size]}
<1>1. Elems(Append(is, a)) = Elems(is) \cup {a}
  BY ElemsAppend
<1> QED
  BY <1>1 DEF SpansOf

-----------------------------------------------------------------------------
(* build_disassembly.                                                      *)

\* Where the listing is complete up to.
Listed == IF data_start = -1 THEN offset ELSE data_start

\* The listing so far tiles the buffer up to the open range, whose units are
\* all of its reason and which a closed range of that reason never touches.
BuildInv ==
  /\ pc \in {"pop", "walk"} =>
       offset = 0 /\ data_start = -1 /\ instructions = <<>> /\ data_ranges = <<>>
  /\ offset \in 0 .. End
  /\ data_start = -1 \/ data_start \in 0 .. offset - 1
  /\ instructions \in Seq(DOMAIN decode)
  /\ \A i \in 1 .. Len(instructions) : instructions[i] < offset
  /\ \A i \in 1 .. Len(instructions) - 1 : instructions[i] < instructions[i + 1]
  /\ RangesOK(decode, status, data_ranges)
  /\ pc # "done" =>
       /\ Tiles(SpansOf(decode, instructions, data_ranges), Listed)
       /\ data_start = -1 => \A i \in 1 .. Len(data_ranges) :
            data_ranges[i].address + data_ranges[i].len < offset
       /\ data_start # -1 =>
            /\ data_reason \in {"DecodeError", "Unreachable"}
            /\ Uniform(decode, status, data_start, offset, data_reason)
            /\ \A i \in 1 .. Len(data_ranges) :
                 Precedes(data_ranges[i], data_start, data_reason)
  /\ pc = "done" => Tiles(SpansOf(decode, instructions, data_ranges), End + tail)

DInv == InputInv /\ WalkInv /\ BuildInv

LEMMA InitBuild ==
  ASSUME Init, InputInv
  PROVE  BuildInv
<1>1. End \in Nat
  BY DecodeFacts
<1>2. /\ pc = "pop" /\ offset = 0 /\ data_start = -1
      /\ instructions = <<>> /\ data_ranges = <<>>
  BY DEF Init
<1>3. <<>> \in Seq(DOMAIN decode) /\ <<>> \in Seq(DataRange) /\ Len(<<>>) = 0
  OBVIOUS
<1>4. SpansOf(decode, instructions, data_ranges) = {}
  BY <1>2 DEF SpansOf, Elems
<1>5. Tiles({}, 0)
  BY DEF Tiles
<1>6. RangesOK(decode, status, data_ranges)
  BY <1>2, <1>3 DEF RangesOK
<1> QED
  BY SMTT(30), <1>1, <1>2, <1>3, <1>4, <1>5, <1>6 DEF BuildInv, Listed

\* The walk and the end of it build nothing.
LEMMA WalkBuild ==
  ASSUME DInv, Walk \/ UNCHANGED vars
  PROVE  BuildInv'
<1>1. /\ decode' = decode /\ UNCHANGED buildVars /\ tail' = tail
      /\ \/ status' = status /\ pc' = pc
         \/ status' = status /\ pc \in {"pop", "walk"} /\ pc' \in {"pop", "walk", "build"}
         \/ pc = "walk" /\ pc' \in {"pop", "walk"}
  BY DEF Walk, Pop, StopWalk, DecodeInstruction, DecodeFails, StartBuild, vars, walkVars
<1>2. RangesOK(decode, status, data_ranges)'
  <2>1. CASE status' = status
    BY <1>1, <2>1 DEF DInv, BuildInv, buildVars
  <2>2. CASE pc \in {"pop", "walk"}
    <3>1. data_ranges' = <<>>
      BY <1>1, <2>2 DEF DInv, BuildInv, buildVars
    <3>2. <<>> \in Seq(DataRange) /\ Len(<<>>) = 0
      OBVIOUS
    <3> QED
      BY <3>1, <3>2 DEF RangesOK
  <2> QED
    BY <1>1, <2>1, <2>2
<1>3. /\ offset' = offset /\ data_start' = data_start /\ data_reason' = data_reason
      /\ instructions' = instructions /\ data_ranges' = data_ranges
  BY <1>1 DEF buildVars
<1>4. End' = End /\ Listed' = Listed
  BY <1>1, <1>3 DEF End, Listed
<1>5. CASE status' = status /\ pc' = pc
  BY <1>1, <1>2, <1>3, <1>4, <1>5 DEF DInv, BuildInv
<1>6. CASE pc \in {"pop", "walk"} /\ pc' \in {"pop", "walk", "build"}
  BY <1>1, <1>2, <1>3, <1>4, <1>6 DEF DInv, BuildInv
<1> QED
  BY <1>1, <1>5, <1>6

\* flush_data closes the open range: the listing is complete up to the offset.
LEMMA Flush ==
  ASSUME DInv, pc = "build"
  PROVE  /\ RangesOK(decode, status, flush_data(offset))
         /\ Tiles(SpansOf(decode, instructions, flush_data(offset)), offset)
         /\ \A i \in 1 .. Len(flush_data(offset)) :
              LET r == flush_data(offset)[i]
              IN  r.address \in Nat /\ r.len \in Nat /\ r.address + r.len <= offset
         /\ \A i \in 1 .. Len(flush_data(offset)) :
              LET r == flush_data(offset)[i]
              IN  r.address + r.len = offset => data_start # -1 /\ r.reason = data_reason
<1>1. /\ offset \in Nat /\ offset <= End /\ End \in Nat
      /\ RangesOK(decode, status, data_ranges) /\ data_ranges \in Seq(DataRange)
      /\ Tiles(SpansOf(decode, instructions, data_ranges), Listed)
  BY DecodeFacts DEF DInv, BuildInv, RangesOK
<1>2. /\ Len(data_ranges) \in Nat
      /\ \A i \in 1 .. Len(data_ranges) : data_ranges[i] \in DataRange
  BY <1>1
<1>3. \A i \in 1 .. Len(data_ranges) :
        data_ranges[i].address \in Nat /\ data_ranges[i].len \in Nat
  BY <1>2 DEF DataRange
<1>4. CASE data_start = -1
  <2>1. flush_data(offset) = data_ranges /\ Listed = offset
    BY <1>4 DEF flush_data, Listed
  <2>2. \A i \in 1 .. Len(data_ranges) : data_ranges[i].address + data_ranges[i].len < offset
    BY <1>4 DEF DInv, BuildInv
  <2> QED
    BY <1>1, <1>3, <1>4, <2>1, <2>2
<1>5. CASE data_start # -1
  <2> DEFINE r == [address |-> data_start, len |-> offset - data_start,
                   reason |-> data_reason]
             t == Append(data_ranges, r)
  <2>1. /\ flush_data(offset) = t /\ Listed = data_start
        /\ data_start \in Nat /\ data_start < offset
        /\ data_reason \in {"DecodeError", "Unreachable"}
    BY <1>1, <1>5 DEF flush_data, Listed, DInv, BuildInv
  <2>2. /\ r \in DataRange /\ r.address = data_start /\ r.len = offset - data_start
        /\ r.address + r.len = offset /\ r.reason = data_reason
    <3>1. offset - data_start \in Nat /\ data_start + (offset - data_start) = offset
      BY <1>1, <2>1
    <3> QED
      BY <2>1, <3>1 DEF DataRange
  <2> HIDE DEF r
  <2>3. /\ Uniform(decode, status, r.address, r.address + r.len, r.reason)
        /\ \A i \in 1 .. Len(data_ranges) : Precedes(data_ranges[i], r.address, r.reason)
    BY <1>5, <2>2 DEF DInv, BuildInv
  <2>4. RangesOK(decode, status, t)
    BY <1>1, <2>2, <2>3, RangesAppend
  <2>5. SpansOf(decode, instructions, t) =
          SpansOf(decode, instructions, data_ranges)
          \cup {[from |-> data_start, to |-> offset]}
    BY <1>1, <2>2, SpansAppendRange
  <2>6. Tiles(SpansOf(decode, instructions, t), offset)
    BY <1>1, <2>1, <2>5, TilesGrow
  <2>7. /\ Len(t) = Len(data_ranges) + 1 /\ t[Len(data_ranges) + 1] = r
        /\ \A i \in 1 .. Len(data_ranges) : t[i] = data_ranges[i]
    BY <1>1, <2>2
  <2> HIDE DEF t
  <2>8. ASSUME NEW i \in 1 .. Len(t)
        PROVE  /\ t[i].address \in Nat /\ t[i].len \in Nat
               /\ t[i].address + t[i].len <= offset
               /\ t[i].address + t[i].len = offset => t[i].reason = data_reason
    <3>1. i \in 1 .. Len(data_ranges) \/ i = Len(data_ranges) + 1
      BY <1>2, <2>7
    <3>2. CASE i = Len(data_ranges) + 1
      BY <3>2, <2>1, <2>2, <2>7, <1>1
    <3>3. CASE i \in 1 .. Len(data_ranges)
      <4>1. t[i] = data_ranges[i] /\ t[i].address + t[i].len <= data_start
        BY <3>3, <2>2, <2>3, <2>7 DEF Precedes
      <4> QED
        BY <4>1, <3>3, <1>1, <1>3, <2>1
    <3> QED
      BY <3>1, <3>2, <3>3
  <2> QED
    BY <1>5, <2>1, <2>4, <2>6, <2>8
<1> QED
  BY <1>4, <1>5

LEMMA ListInstructionBuild ==
  ASSUME DInv, ListInstruction
  PROVE  BuildInv'
<1> DEFINE is == instructions
           n == offset + decode[offset].size
           q == flush_data(offset)
<1>1. pc = "build" /\ offset < End /\ offset \in Nat /\ End \in Nat
  BY DecodeFacts DEF ListInstruction, DInv, BuildInv
<1>2. offset \in DOMAIN decode /\ n \in Nat /\ offset < n /\ n <= End
  <2>1. offset \in DOMAIN decode
    BY <1>1, DecodeFacts DEF DInv
  <2>2. decode[offset].size \in Nat \ {0} /\ offset + decode[offset].size <= End
    BY <2>1, DecodeFacts DEF DInv
  <2> QED
    BY <1>1, <2>1, <2>2
<1>3. /\ offset' = n /\ data_start' = -1 /\ data_ranges' = q
      /\ instructions' = Append(is, offset)
      /\ decode' = decode /\ status' = status /\ tail' = tail /\ pc' = "build"
      /\ End' = End
  BY <1>1 DEF ListInstruction, walkVars, End
<1>4. /\ is \in Seq(DOMAIN decode) /\ Len(is) \in Nat
      /\ \A i \in 1 .. Len(is) : is[i] < offset /\ is[i] \in Int
      /\ \A i \in 1 .. Len(is) - 1 : is[i] < is[i + 1]
  <2>1. is \in Seq(DOMAIN decode)
    BY DEF DInv, BuildInv
  <2>2. \A i \in 1 .. Len(is) : is[i] \in DOMAIN decode
    BY <2>1
  <2>3. \A i \in 1 .. Len(is) : is[i] \in Int
    BY <2>2, DecodeFacts DEF DInv
  <2> QED
    BY <2>1, <2>3 DEF DInv, BuildInv
<1>5. /\ instructions' \in Seq(DOMAIN decode) /\ Len(instructions') = Len(is) + 1
      /\ \A i \in 1 .. Len(is) : instructions'[i] = is[i]
      /\ instructions'[Len(is) + 1] = offset
  BY <1>2, <1>3, <1>4
<1>6. \A i \in 1 .. Len(instructions') : instructions'[i] < offset'
  <2> TAKE i \in 1 .. Len(instructions')
  <2>1. i \in 1 .. Len(is) \/ i = Len(is) + 1
    BY <1>4, <1>5
  <2>2. instructions'[i] \in Int /\ instructions'[i] <= offset
    BY <2>1, <1>1, <1>4, <1>5
  <2> HIDE DEF n
  <2> QED
    BY <2>2, <1>1, <1>2, <1>3
<1>7. \A i \in 1 .. Len(instructions') - 1 : instructions'[i] < instructions'[i + 1]
  <2> TAKE i \in 1 .. Len(instructions') - 1
  <2>1. Len(instructions') - 1 = Len(is)
    BY <1>4, <1>5
  <2>2. i \in 1 .. Len(is)
    BY <2>1
  <2>3. CASE i = Len(is)
    BY <2>2, <2>3, <1>4, <1>5
  <2>4. CASE i # Len(is)
    <3>1. i \in 1 .. Len(is) - 1 /\ i + 1 \in 1 .. Len(is)
      BY <2>2, <2>4, <1>4
    <3> QED
      BY <2>2, <3>1, <1>4, <1>5
  <2> QED
    BY <2>3, <2>4
<1>8. /\ RangesOK(decode, status, q)
      /\ Tiles(SpansOf(decode, is, q), offset)
      /\ \A i \in 1 .. Len(q) :
           q[i].address \in Nat /\ q[i].len \in Nat /\ q[i].address + q[i].len <= offset
  BY <1>1, Flush
<1>9. \A i \in 1 .. Len(q) : q[i].address + q[i].len < n
  <2> HIDE DEF n, q
  <2> QED
    BY <1>1, <1>2, <1>8
<1>10. Tiles(SpansOf(decode, instructions', q), n)
  <2>1. SpansOf(decode, instructions', q) =
          SpansOf(decode, is, q) \cup {[from |-> offset, to |-> n]}
    BY <1>2, <1>3, <1>4, SpansAppendInstruction
  <2> HIDE DEF n, q
  <2> QED
    BY <2>1, <1>1, <1>2, <1>8, TilesGrow
<1>11. Listed' = n
  BY <1>3 DEF Listed
<1> HIDE DEF n, q
<1>12. offset' \in 0 .. End'
  BY <1>1, <1>2, <1>3
<1> QED
  BY <1>3, <1>5, <1>6, <1>7, <1>8, <1>9, <1>10, <1>11, <1>12 DEF BuildInv

LEMMA AccumulateBuild ==
  ASSUME DInv, accumulate
  PROVE  BuildInv'
<1> DEFINE reason == IF offset \in DOMAIN status THEN "DecodeError" ELSE "Unreachable"
           n == offset + 1
           q == flush_data(offset)
<1>1. pc = "build" /\ offset < End /\ offset \in Nat /\ End \in Nat /\ offset \notin Decoded
  BY DecodeFacts DEF accumulate, DInv, BuildInv
<1>2. /\ offset' = n /\ instructions' = instructions
      /\ decode' = decode /\ status' = status /\ tail' = tail /\ pc' = "build"
      /\ End' = End
  BY <1>1 DEF accumulate, walkVars, End
<1>3. Class(decode, status, offset) = reason
  BY <1>1 DEF Class, Decoded, DInv, WalkInv, End
<1>4. /\ instructions' \in Seq(DOMAIN decode)
      /\ \A i \in 1 .. Len(instructions') : instructions'[i] < offset'
      /\ \A i \in 1 .. Len(instructions') - 1 : instructions'[i] < instructions'[i + 1]
  <2>1. \A i \in 1 .. Len(instructions) : instructions[i] \in DOMAIN decode
    BY DEF DInv, BuildInv
  <2>2. \A i \in 1 .. Len(instructions) : instructions[i] \in Int
    BY <2>1, DecodeFacts DEF DInv
  <2> QED
    BY <2>2, <1>1, <1>2 DEF DInv, BuildInv
<1>5. offset' \in 0 .. End' /\ n \in Int
  BY <1>1, <1>2
<1>6. reason \in {"DecodeError", "Unreachable"}
  OBVIOUS
<1>7. CASE data_start = -1 \/ Interrupts(reason)
  <2>1. data_start' = offset /\ data_reason' = reason /\ data_start' # -1 /\ Listed' = offset
    BY <1>1, <1>7 DEF accumulate, Listed
  <2>2. data_ranges' = q
    BY <1>7 DEF accumulate, Interrupts, flush_data
  <2>3. /\ RangesOK(decode, status, q)
        /\ Tiles(SpansOf(decode, instructions, q), offset)
    BY <1>1, Flush
  <2>4. \A i \in 1 .. Len(q) : Precedes(q[i], offset, reason)
    BY <1>1, <1>7, Flush DEF Precedes, Interrupts
  <2>5. Uniform(decode, status, offset, n, reason)
    <3>1. \A x \in offset .. n - 1 : x = offset
      BY <1>1
    <3> HIDE DEF reason
    <3> QED
      BY <3>1, <1>3 DEF Uniform
  <2>6. data_start' \in 0 .. offset' - 1
    BY <1>1, <1>2, <2>1
  <2> HIDE DEF n, q, reason
  <2> QED
    BY <1>2, <1>4, <1>5, <1>6, <2>1, <2>2, <2>3, <2>4, <2>5, <2>6 DEF BuildInv
<1>8. CASE data_start # -1 /\ ~Interrupts(reason)
  <2>1. /\ data_start' = data_start /\ data_reason' = data_reason /\ data_reason = reason
        /\ data_ranges' = data_ranges /\ Listed' = Listed
    BY <1>8 DEF accumulate, Listed, Interrupts
  <2>2. data_start \in 0 .. offset - 1
    BY <1>8 DEF DInv, BuildInv
  <2>3. data_start' \in 0 .. offset' - 1
    BY <1>1, <1>2, <2>1, <2>2
  <2>4. Uniform(decode, status, data_start, n, reason)
    <3>1. Uniform(decode, status, data_start, offset, reason)
      BY <1>1, <1>8, <2>1 DEF DInv, BuildInv
    <3>2. \A x \in data_start .. n - 1 : x = offset \/ x \in data_start .. offset - 1
      BY <1>1, <2>2
    <3> HIDE DEF reason
    <3> QED
      BY <3>1, <3>2, <1>3 DEF Uniform
  <2>5. /\ RangesOK(decode, status, data_ranges)
        /\ Tiles(SpansOf(decode, instructions, data_ranges), Listed)
        /\ \A i \in 1 .. Len(data_ranges) : Precedes(data_ranges[i], data_start, data_reason)
    BY <1>1, <1>8 DEF DInv, BuildInv
  <2> HIDE DEF n, q, reason
  <2> QED
    BY <1>2, <1>4, <1>5, <1>6, <1>8, <2>1, <2>3, <2>4, <2>5 DEF BuildInv
<1> QED
  BY <1>7, <1>8

LEMMA FinishBuildBuild ==
  ASSUME DInv, FinishBuild
  PROVE  BuildInv'
<1> DEFINE q == flush_data(offset)
<1>1. pc = "build" /\ offset = End /\ End \in Nat /\ tail \in Nat
  BY DecodeFacts, DescentAssumption DEF FinishBuild, DInv, BuildInv, InputInv
<1>2. /\ offset' = offset /\ instructions' = instructions /\ data_start' = -1
      /\ decode' = decode /\ status' = status /\ tail' = tail /\ pc' = "done"
      /\ End' = End
  BY DEF FinishBuild, walkVars, End
<1>3. flush_last = q
  BY <1>1 DEF flush_last
<1>4. /\ RangesOK(decode, status, q) /\ q \in Seq(DataRange)
      /\ Tiles(SpansOf(decode, instructions, q), End)
  BY <1>1, Flush DEF RangesOK
<1>5. RangesOK(decode, status, data_ranges') /\ Tiles(SpansOf(decode, instructions, data_ranges'), End + tail)
  <2>1. CASE tail = 0
    <3>1. data_ranges' = q /\ End + tail = End
      BY <1>1, <1>3, <2>1 DEF FinishBuild
    <3> QED
      BY <3>1, <1>4
  <2>2. CASE tail # 0
    <3> DEFINE r == [address |-> End, len |-> tail, reason |-> "Padding"]
    <3>1. data_ranges' = Append(q, r)
      BY <1>3, <2>2 DEF FinishBuild
    <3>2. r \in DataRange /\ r.address = End /\ r.len = tail /\ r.reason = "Padding"
      BY <1>1 DEF DataRange
    <3> HIDE DEF r
    <3>3. Uniform(decode, status, r.address, r.address + r.len, r.reason)
      <4>1. \A x \in End .. End + tail - 1 : x >= End
        BY <1>1
      <4> QED
        BY <3>2, <4>1 DEF Uniform, Class, End
    <3>4. \A i \in 1 .. Len(q) : Precedes(q[i], r.address, r.reason)
      <4>1. data_start # -1 => data_reason # "Padding"
        BY <1>1 DEF DInv, BuildInv
      <4> QED
        BY <4>1, <1>1, <3>2, Flush DEF Precedes
    <3> HIDE DEF q
    <3>5. RangesOK(decode, status, Append(q, r))
      BY <1>4, <3>2, <3>3, <3>4, RangesAppend
    <3>6. SpansOf(decode, instructions, Append(q, r)) =
            SpansOf(decode, instructions, q) \cup {[from |-> End, to |-> End + tail]}
      BY <1>4, <3>2, SpansAppendRange
    <3>7. End < End + tail /\ End + tail \in Nat
      BY <1>1, <2>2
    <3>8. Tiles(SpansOf(decode, instructions, Append(q, r)), End + tail)
      BY <1>1, <1>4, <3>6, <3>7, TilesGrow
    <3> QED
      BY <3>1, <3>5, <3>8
  <2> QED
    BY <2>1, <2>2
<1>6. /\ offset \in 0 .. End /\ instructions \in Seq(DOMAIN decode)
      /\ \A i \in 1 .. Len(instructions) : instructions[i] < offset
      /\ \A i \in 1 .. Len(instructions) - 1 : instructions[i] < instructions[i + 1]
  BY DEF DInv, BuildInv
<1> QED
  BY <1>2, <1>5, <1>6 DEF BuildInv

LEMMA InitInv ==
  Init => DInv
BY InitWalk, InitBuild DEF DInv

LEMMA NextInv ==
  DInv /\ [Next]_vars => DInv'
<1> SUFFICES ASSUME DInv, [Next]_vars PROVE DInv'
  OBVIOUS
<1>1. InputInv' /\ WalkInv'
  BY NextWalk DEF DInv
<1>2. BuildInv'
  BY WalkBuild, ListInstructionBuild, AccumulateBuild, FinishBuildBuild
     DEF Next, Build, Returned
<1> QED
  BY <1>1, <1>2 DEF DInv

-----------------------------------------------------------------------------
(* The results.                                                            *)

\* Classified and pending addresses, and the listing so far, are related as
\* DInv says throughout disassemble_recursive (isa/aarch64/recursive.rs).
THEOREM SpecDInv == Spec => []DInv
BY InitInv, NextInv, PTL DEF Spec

\* When the walk ends it has classified exactly the addresses control flow
\* reaches from the entry points: the worklist of disassemble_recursive loses
\* no target, whatever order it is taken in and however often one is pushed.
THEOREM ExactlyReachable == Spec => []FindsExactlyReachable
<1>1. DInv => FindsExactlyReachable
  BY WalkComplete DEF DInv
<1> QED
  BY <1>1, SpecDInv, PTL

LEMMA ListingComplete ==
  ASSUME DInv
  PROVE  ListingTilesBuffer
<1> SUFFICES ASSUME pc = "done" PROVE ListingTilesBuffer
  BY DEF ListingTilesBuffer
<1>1. End \in Nat /\ tail \in Nat /\ End + tail \in Nat
  BY DecodeFacts, DescentAssumption DEF DInv, InputInv
<1>2. Tiles(Spans, End + tail)
  BY DEF DInv, BuildInv, Spans, SpansOf, Elems
<1>3. \A x \in 0 .. End + tail - 1 :
        Cardinality({s \in Spans : s.from <= x /\ x < s.to}) = 1
  BY <1>1, <1>2, TilesOnce
<1>4. \A s \in Spans : s.to <= End + tail
  BY <1>2 DEF Tiles
<1>5. /\ data_ranges \in Seq(DataRange) /\ DOMAIN data_ranges = 1 .. Len(data_ranges)
      /\ RangesOK(decode, status, data_ranges)
  BY DEF DInv, BuildInv, RangesOK
<1>6. \A i \in 1 .. Len(data_ranges) - 1 :
        LET r == data_ranges[i]
            q == data_ranges[i + 1]
        IN /\ r.address + r.len <= q.address
           /\ r.address + r.len = q.address => r.reason # q.reason
  BY <1>5 DEF RangesOK, Precedes
<1>7. \A i \in DOMAIN data_ranges :
        LET r == data_ranges[i]
        IN \A x \in r.address .. r.address + r.len - 1 :
             r.reason = (IF x >= End THEN "Padding"
                         ELSE IF x \in DOMAIN status THEN status[x]
                         ELSE "Unreachable")
  <2> TAKE i \in DOMAIN data_ranges
  <2> DEFINE r == data_ranges[i]
  <2>1. Uniform(decode, status, r.address, r.address + r.len, r.reason)
    BY <1>5 DEF RangesOK
  <2>2. \A x \in r.address .. r.address + r.len - 1 : Class(decode, status, x) = r.reason
    <3>1. r.address \in Nat /\ r.len \in Nat
      <4>1. r \in DataRange
        BY <1>5
      <4> QED
        BY <4>1 DEF DataRange
    <3> HIDE DEF r
    <3>2. r.address + r.len - 1 = (r.address + r.len) - 1
      BY <3>1
    <3> QED
      BY <2>1, <3>2 DEF Uniform
  <2> HIDE DEF r
  <2>3. \A x \in r.address .. r.address + r.len - 1 :
          r.reason = (IF x >= End THEN "Padding"
                      ELSE IF x \in DOMAIN status THEN status[x]
                      ELSE "Unreachable")
    BY <2>2 DEF Class, End
  <2> QED
    BY <2>3 DEF r
<1>8. \A i \in 1 .. Len(instructions) - 1 : instructions[i] < instructions[i + 1]
  BY DEF DInv, BuildInv
<1> QED
  BY <1>3, <1>4, <1>6, <1>7, <1>8 DEF ListingTilesBuffer

\* The finished listing of build_disassembly accounts for every byte once, in
\* address order, with maximal data ranges whose reason is true of every unit.
THEOREM ListingTiles == Spec => []ListingTilesBuffer
BY ListingComplete, SpecDInv, PTL
=============================================================================
