---------------------------- MODULE ReferenceProofs --------------------------
(***************************************************************************)
(* What the emitted code refers to, for every slice, container, sequence   *)
(* of edits and kind of emission: what was redirected, to the new target   *)
(* (rewrite/plan.rs redirect_branch and redirect_macro_target); what       *)
(* nobody edited, to what the source did (lift_instruction, fusion.rs,     *)
(* macro_emit.rs, editor.rs shift_plan_absolute_targets).                  *)
(*                                                                         *)
(* What the words and their relocations name is proved first.              *)
(*                                                                         *)
(* The argument for redirects: the last redirect of an address stays the   *)
(* target of whatever op stands for that address, since later edits only   *)
(* take ops away, add ops without a source, or split a macro (RedirInv); a *)
(* grow shifts that target and the wanted one alike; and every emitted     *)
(* word comes from one op of the plan, with that op's relocations (Lands). *)
(*                                                                         *)
(* The argument for the rest: every op of an edited plan stands for no     *)
(* source, is an op of the lift, or differs from one in a target that a    *)
(* redirect gave it (SourceInv).  So the words of an untouched address     *)
(* come from the lift of that address, whose target is what the source     *)
(* refers to (LiftedTarget, FusedTarget) and is resolved to where that has *)
(* moved (SymbolWanted, ResolvedWanted).                                   *)
(*                                                                         *)
(* A name is then where the code goes: a relocation is applied in an       *)
(* object, and is an exception anywhere else; and a stub is where its      *)
(* symbol is unless a grow moved it, which happens to linked Mach-O images *)
(* only, whose code has no relocations left (ViewInv, SourceSymbols).      *)
(***************************************************************************)
EXTENDS CommitProofs

-----------------------------------------------------------------------------
(* What the emitted words name, with their relocations, whoever applies    *)
(* these.  An emission is first compared by names: what a redirect asked   *)
(* for and what the source referred to.  From there to where the code      *)
(* really goes it is one step, at the end.                                 *)

NamedRefers(o, i, j) ==
  {Refers(o.words[k].val, o.words[l].imm, RelocsOn(o, k), RelocsOn(o, l)) :
     k \in WordsFor(o, instructions[i].address), l \in WordsFor(o, instructions[j].address)}

NamedBranch(o, k) ==
  IF RelocsOn(o, k) = {} THEN <<"address", o.words[k].val, 0>>
  ELSE LET r == CHOOSE r \in RelocsOn(o, k) : TRUE IN <<"symbol", r.symbol, r.addend>>

\* A reference of the source: a symbol, by its name or by its address.
NamedWanted(o, ref, symbolic) ==
  IF ref[1] = "symbol"
  THEN {ref, <<"address", callable_address_of_symbol(o.view, ref[2]) + ref[3], 0>>}
  ELSE LET a == ref[2]
           b == IF symbolic THEN BlocksAt(a) ELSE {}
           s == IF symbolic /\ input.container THEN symbol_at_address(a) ELSE {}
       IN IF b # {} THEN {<<"address", BlockAddress(o.plan, o.view, LowestOf(b)), 0>>}
          ELSE IF s # {} THEN {<<"address", callable_address_of_symbol(o.view, t), 0>> : t \in s}
                              \cup {<<"symbol", t, 0>> : t \in s}
          ELSE {<<"address", Moved(o.view, a), 0>>}

\* The target of a redirect.
NamedReference(o, t) ==
  {<<"address", resolve_target(o.plan, o.view, IF o.view.shift > 0 THEN Bump(t) ELSE t), 0>>}
  \cup (IF t.kind = "symbol" THEN {<<"symbol", t.v, 0>>} ELSE {})

RedirectedNames(o, e) ==
  IF e.edit = "redirect_branch"
  THEN {NamedBranch(o, k) : k \in WordsFor(o, e.at)}
  ELSE UNION {NamedRefers(o, ij[1], ij[2]) : ij \in RedirectedPairs(o, e)}

NamedEffective(o, e) == RedirectedNames(o, e) \subseteq NamedReference(o, e.target)

\* The cases in which a name is lost.
LosesName(o, i, j) ==
  \/ Misattributed(i) \/ Misattributed(j)
  \/ AddendDropped(i) \/ LoneCompanion(o, i, j) \/ FoldedAccess(o, i)
  \/ AcrossInsert(o, i, j) \/ CopiedStale(o, i, j)

-----------------------------------------------------------------------------
(* The ops of a plan, wherever they are.                                   *)

OpsIn(p) == UNION {{p[b][n] : n \in DOMAIN p[b]} : b \in DOMAIN p}

LEMMA MemberFacts ==
  ASSUME NEW p, PlanOK(p)
  PROVE  /\ \A op : op \in OpsIn(p) <=> \E b \in 1 .. Len(p) : \E n \in 1 .. Len(p[b]) : op = p[b][n]
         /\ \A op \in OpsIn(p) : OpOK(op)
         /\ \A x \in Places(p) : OpAt(p, x) \in OpsIn(p)
<1>1. DOMAIN p = 1 .. Len(p)
  BY DEF PlanOK, IsSeq
<1>2. \A b \in 1 .. Len(p) : DOMAIN p[b] = 1 .. Len(p[b]) /\ \A n \in 1 .. Len(p[b]) : OpOK(p[b][n])
  BY DEF PlanOK, OpsOK, IsSeq
<1>3. \A op : op \in OpsIn(p) <=> \E b \in 1 .. Len(p) : \E n \in 1 .. Len(p[b]) : op = p[b][n]
  BY <1>1, <1>2 DEF OpsIn
<1>4. \A x \in Places(p) : OpAt(p, x) \in OpsIn(p)
  <2> TAKE x \in Places(p)
  <2>1. x[1] \in 1 .. Len(p) /\ x[2] \in 1 .. Len(p[x[1]])
    BY PlaceFacts
  <2> QED
    BY <2>1, <1>3 DEF OpAt
<1> QED
  BY <1>2, <1>3, <1>4

\* An address is the source of one op.
LEMMA OneIndex ==
  ASSUME NEW p, PlanOK(p), NEW b \in 1 .. Len(p), NEW n \in 1 .. Len(p[b]),
         NEW c \in 1 .. Len(p), NEW m \in 1 .. Len(p[c]),
         NEW a \in Source(p[b][n]), a \in Source(p[c][m])
  PROVE  b = c /\ n = m
<1>1. OpsOK(p[b]) /\ OpsOK(p[c]) /\ Ascending(p[b]) /\ Len(p) \in Nat
  BY DEF PlanOK, IsSeq
<1>2. OpOK(p[b][n]) /\ Len(p[b]) \in Nat /\ Len(p[c]) \in Nat
  BY <1>1 DEF OpsOK, IsSeq
<1>3. a \in Nat
  BY <1>2, SourceFacts
<1>4. a \in Sources(p[b]) /\ a \in Sources(p[c])
  BY DEF Sources
<1>5. ~(b < c) /\ ~(c < b)
  <2>1. \A i, j \in 1 .. Len(p) : i < j => \A x \in Sources(p[i]), y \in Sources(p[j]) : x < y
    BY DEF PlanOK
  <2>2. (b < c => a < a) /\ (c < b => a < a)
    BY <2>1, <1>4
  <2>3. ~(a < a)
    BY <1>3
  <2> QED
    BY <2>2, <2>3
<1>6. b = c
  BY <1>5, <1>1
<1>7. ~(n < m) /\ ~(m < n)
  BY <1>1, <1>3, <1>6 DEF Ascending
<1> QED
  BY <1>2, <1>6, <1>7

LEMMA OneOp ==
  ASSUME NEW p, PlanOK(p), NEW u \in OpsIn(p), NEW w \in OpsIn(p),
         NEW a \in Source(u), a \in Source(w)
  PROVE  u = w
<1>1. PICK b \in 1 .. Len(p) : \E n \in 1 .. Len(p[b]) : u = p[b][n]
  BY MemberFacts
<1>2. PICK c \in 1 .. Len(p) : \E m \in 1 .. Len(p[c]) : w = p[c][m]
  BY MemberFacts
<1>3. PICK n \in 1 .. Len(p[b]) : u = p[b][n]
  BY <1>1
<1>4. PICK m \in 1 .. Len(p[c]) : w = p[c][m]
  BY <1>2
<1>5. b = c /\ n = m
  BY <1>3, <1>4, OneIndex
<1> QED
  BY <1>3, <1>4, <1>5

\* What replacing one block leaves in the plan.
LEMMA UpdateMembers ==
  ASSUME NEW p, PlanOK(p), NEW b \in 1 .. Len(p), NEW s, IsSeq(s),
         NEW op \in OpsIn([p EXCEPT ![b] = s])
  PROVE  \/ \E n \in 1 .. Len(s) : op = s[n]
         \/ \E c \in 1 .. Len(p) : c # b /\ \E n \in 1 .. Len(p[c]) : op = p[c][n]
<1> DEFINE q == [p EXCEPT ![b] = s]
<1>1. p = [k \in 1 .. Len(p) |-> p[k]]
  BY DEF PlanOK, IsSeq
<1>2. DOMAIN q = 1 .. Len(p) /\ \A c \in 1 .. Len(p) : q[c] = IF c = b THEN s ELSE p[c]
  BY <1>1
<1> HIDE DEF q
<1>6. PICK c \in 1 .. Len(p) : \E n \in DOMAIN q[c] : op = q[c][n]
  BY <1>2 DEF OpsIn, q
<1>3. PICK n \in DOMAIN q[c] : op = q[c][n]
  BY <1>6
<1>4. CASE c = b
  <2>1. q[c] = s /\ DOMAIN s = 1 .. Len(s)
    BY <1>2, <1>4 DEF IsSeq
  <2> QED
    BY <2>1, <1>3
<1>5. CASE c # b
  <2>1. q[c] = p[c] /\ DOMAIN p[c] = 1 .. Len(p[c])
    BY <1>2, <1>5 DEF PlanOK, OpsOK, IsSeq
  <2> QED
    BY <2>1, <1>3, <1>5
<1> QED
  BY <1>4, <1>5

LEMMA SpliceMembers ==
  ASSUME NEW p, PlanOK(p), NEW x \in Places(p), NEW ops, OpsOK(ops)
  PROVE  \A op \in OpsIn(Splice(p, x, ops)) : op \in OpsIn(p) \/ \E k \in 1 .. Len(ops) : op = ops[k]
<1> DEFINE i == x[2]
           s == p[x[1]]
           t == Spliced(s, i, ops)
           L == Len(ops)
<1>1. x[1] \in 1 .. Len(p) /\ i \in 1 .. Len(s) /\ OpsOK(s)
  BY PlaceFacts
<1>2. p = [k \in 1 .. Len(p) |-> p[k]]
  BY DEF PlanOK, IsSeq
<1>3. Splice(p, x, ops) = [p EXCEPT ![x[1]] = t]
  BY <1>1, <1>2 DEF Splice, Spliced
<1>4. IsSeq(s) /\ Len(s) \in Nat /\ L \in Nat /\ IsSeq(ops)
  BY <1>1 DEF OpsOK, IsSeq
<1>5. /\ IsSeq(t) /\ Len(t) = (Len(s) - 1) + L
      /\ \A k \in 1 .. ((Len(s) - 1) + L) :
           t[k] = IF k < i THEN s[k] ELSE IF k < i + L THEN ops[(k - i) + 1] ELSE s[(k - L) + 1]
  <2> HIDE DEF s, i
  <2> QED
    BY <1>1, <1>4, SplicedSeq
<1> HIDE DEF t, s, i, L
<1>6. ASSUME NEW k \in 1 .. Len(t)
      PROVE  (\E n \in 1 .. Len(s) : t[k] = s[n]) \/ \E n \in 1 .. L : t[k] = ops[n]
  <2>1. CASE k < i
    <3>1. k \in 1 .. Len(s) /\ t[k] = s[k]
      BY <2>1, <1>1, <1>4, <1>5
    <3> QED
      BY <3>1
  <2>2. CASE ~(k < i) /\ k < i + L
    <3>1. (k - i) + 1 \in 1 .. L /\ t[k] = ops[(k - i) + 1]
      BY <2>2, <1>1, <1>4, <1>5
    <3> QED
      BY <3>1
  <2>3. CASE ~(k < i) /\ ~(k < i + L)
    <3>1. (k - L) + 1 \in 1 .. Len(s) /\ t[k] = s[(k - L) + 1]
      BY <2>3, <1>1, <1>4, <1>5
    <3> QED
      BY <3>1
  <2> QED
    BY <2>1, <2>2, <2>3
<1>7. ASSUME NEW op \in OpsIn([p EXCEPT ![x[1]] = t])
      PROVE  op \in OpsIn(p) \/ \E k \in 1 .. L : op = ops[k]
  <2>1. \/ \E n \in 1 .. Len(t) : op = t[n]
        \/ \E c \in 1 .. Len(p) : c # x[1] /\ \E n \in 1 .. Len(p[c]) : op = p[c][n]
    <3>1. x[1] \in 1 .. Len(p) /\ IsSeq(t)
      BY <1>1, <1>5
    <3> QED
      BY <3>1, <1>7, UpdateMembers
  <2>2. \A n \in 1 .. Len(s) : s[n] \in OpsIn(p)
    BY <1>1, MemberFacts DEF s
  <2> QED
    BY <2>1, <2>2, <1>6, MemberFacts
<1> QED
  BY <1>3, <1>7 DEF L

LEMMA RetargetMembers ==
  ASSUME NEW p, PlanOK(p), NEW x \in Places(p), NEW t,
         NEW op \in OpsIn(Retarget(p, x, t))
  PROVE  \/ op = [OpAt(p, x) EXCEPT !.target = t]
         \/ op \in OpsIn(p) /\ \A a \in Source(op) : a \notin Source(OpAt(p, x))
<1> DEFINE s == p[x[1]]
           i == x[2]
           r == [s EXCEPT ![i].target = t]
           o == [s[i] EXCEPT !.target = t]
<1>1. /\ x[1] \in 1 .. Len(p) /\ i \in 1 .. Len(s) /\ OpsOK(s)
  BY PlaceFacts
<1>2. p = [k \in 1 .. Len(p) |-> p[k]]
  BY DEF PlanOK, IsSeq
<1>3. Retarget(p, x, t) = [p EXCEPT ![x[1]] = r]
  BY <1>1, <1>2 DEF Retarget
<1>4. OpAt(p, x) = s[i]
  BY DEF OpAt
<1> HIDE DEF s, i
<1>5. Len(s) \in Nat /\ s = [k \in 1 .. Len(s) |-> s[k]]
  BY <1>1 DEF OpsOK, IsSeq
<1>6. /\ r = [k \in 1 .. Len(s) |-> r[k]]
      /\ \A k \in 1 .. Len(s) : r[k] = IF k = i THEN o ELSE s[k]
  BY <1>1, <1>5
<1> HIDE DEF r, o
<1>7. IsSeq(r) /\ Len(r) = Len(s)
  BY <1>5, <1>6, LenOfFunction
<1>8. \/ \E n \in 1 .. Len(r) : op = r[n]
      \/ \E c \in 1 .. Len(p) : c # x[1] /\ \E n \in 1 .. Len(p[c]) : op = p[c][n]
  <2>1. op \in OpsIn([p EXCEPT ![x[1]] = r])
    BY <1>3
  <2> QED
    BY <2>1, <1>1, <1>7, UpdateMembers
<1>9. op = o \/ \E c \in 1 .. Len(p) : \E n \in 1 .. Len(p[c]) : op = p[c][n] /\ ~(c = x[1] /\ n = i)
  BY <1>1, <1>6, <1>7, <1>8 DEF s
<1>10. CASE op = o
  BY <1>10, <1>4 DEF o
<1>11. ASSUME NEW c \in 1 .. Len(p), NEW n \in 1 .. Len(p[c]), op = p[c][n], ~(c = x[1] /\ n = i)
       PROVE  op \in OpsIn(p) /\ \A a \in Source(op) : a \notin Source(OpAt(p, x))
  <2>1. op \in OpsIn(p)
    BY <1>11, MemberFacts
  <2>2. ASSUME NEW a \in Source(op), a \in Source(OpAt(p, x)) PROVE FALSE
    <3>1. a \in Source(p[c][n]) /\ a \in Source(p[x[1]][i]) /\ i \in 1 .. Len(p[x[1]])
      BY <2>2, <1>1, <1>4, <1>11 DEF s
    <3>2. c = x[1] /\ n = i
      BY <3>1, <1>1, OneIndex
    <3> QED
      BY <3>2, <1>11
  <2> QED
    BY <2>1, <2>2
<1> QED
  BY <1>9, <1>10, <1>11

-----------------------------------------------------------------------------
(* What an address refers to in a plan, and what edits keep of it.         *)

\* Whatever stands for a is a reference, to t.
BranchAt(p, a, t) ==
  \A op \in OpsIn(p) : a \in Source(op) => op.op = "insn" /\ op.ref # "none" /\ op.target = t

\* A macro that stands for a refers to t.
MacroAt(p, a, t) ==
  \A op \in OpsIn(p) : op.op = "macro" /\ a \in Source(op) => op.target = t

TargetAt(p, edit, a, t) ==
  IF edit = "redirect_branch" THEN BranchAt(p, a, t) ELSE MacroAt(p, a, t)

\* A macro stands for two instructions in a row.
Adjacent(m) ==
  \E i \in 1 .. N - 1 : /\ m.originals[1].orig = instructions[i].address
                         /\ m.originals[2].orig = instructions[i + 1].address

Paired(p) == \A op \in OpsIn(p) : op.op = "macro" => Adjacent(op)

\* An instruction that a macro was made of.
HalfOf(op, m) ==
  /\ op.op = "insn" /\ m.op = "macro" /\ op \in {m.originals[1], m.originals[2]}
  /\ Source(op) \subseteq Source(m)

\* The ops of q are ops of p, halves of its macros, or new.
Descends(q, p) ==
  \A op \in OpsIn(q) :
    \/ op \in OpsIn(p)
    \/ op.op = "insn" /\ Source(op) = {}
    \/ \E m \in OpsIn(p) : HalfOf(op, m)

LEMMA DescendsKeeps ==
  ASSUME NEW p, NEW q, Descends(q, p)
  PROVE  /\ \A edit, a, t : TargetAt(p, edit, a, t) => TargetAt(q, edit, a, t)
         /\ Paired(p) => Paired(q)
<1>1. ASSUME NEW a, NEW t, BranchAt(p, a, t) PROVE BranchAt(q, a, t)
  <2> SUFFICES ASSUME NEW op \in OpsIn(q), a \in Source(op)
               PROVE  op.op = "insn" /\ op.ref # "none" /\ op.target = t
    BY DEF BranchAt
  <2>1. \A m \in OpsIn(p) : m.op = "macro" => a \notin Source(m)
    BY <1>1 DEF BranchAt
  <2>2. op \in OpsIn(p)
    BY <2>1 DEF Descends, HalfOf
  <2> QED
    BY <2>2, <1>1 DEF BranchAt
<1>2. \A op \in OpsIn(q) : op.op = "macro" => op \in OpsIn(p)
  BY DEF Descends, HalfOf
<1>3. \A a, t : MacroAt(p, a, t) => MacroAt(q, a, t)
  BY <1>2 DEF MacroAt
<1>4. Paired(p) => Paired(q)
  BY <1>2 DEF Paired
<1> QED
  BY <1>1, <1>3, <1>4 DEF TargetAt

LEMMA DescendsChain ==
  ASSUME NEW p, NEW q, NEW r, Descends(q, p), Descends(r, q)
  PROVE  Descends(r, p)
<1>1. \A m \in OpsIn(q) : m.op = "macro" => m \in OpsIn(p)
  BY DEF Descends, HalfOf
<1> SUFFICES ASSUME NEW op \in OpsIn(r)
             PROVE  \/ op \in OpsIn(p)
                    \/ op.op = "insn" /\ Source(op) = {}
                    \/ \E m \in OpsIn(p) : HalfOf(op, m)
  BY DEF Descends
<1>2. CASE op \in OpsIn(q)
  BY <1>2 DEF Descends
<1>3. CASE \E m \in OpsIn(q) : HalfOf(op, m)
  BY <1>1, <1>3 DEF HalfOf
<1> QED
  BY <1>2, <1>3 DEF Descends

LEMMA DescendsSelf ==
  ASSUME NEW p
  PROVE  Descends(p, p)
BY DEF Descends

\* A splice of ops that come from the op they replace, or are new.
LEMMA SpliceDescends ==
  ASSUME NEW p, PlanOK(p), NEW x \in Places(p), NEW ops, OpsOK(ops),
         \A k \in 1 .. Len(ops) :
           \/ ops[k] = OpAt(p, x)
           \/ ops[k].op = "insn" /\ Source(ops[k]) = {}
           \/ HalfOf(ops[k], OpAt(p, x))
  PROVE  Descends(Splice(p, x, ops), p)
<1>1. OpAt(p, x) \in OpsIn(p)
  BY MemberFacts
<1>2. \A op \in OpsIn(Splice(p, x, ops)) :
        op \in OpsIn(p) \/ \E k \in 1 .. Len(ops) : op = ops[k]
  BY SpliceMembers
<1> QED
  BY <1>1, <1>2 DEF Descends

LEMMA UnfuseDescends ==
  ASSUME NEW p, PlanOK(p), NEW a
  PROVE  Descends(unfuse_macro_at(p, a), p)
<1> DEFINE begins == {x \in locate(p, a) :
                        OpAt(p, x).op = "macro" /\ OpAt(p, x).originals[1].orig = a}
           x == CHOOSE x \in begins : TRUE
           m == OpAt(p, x)
<1>1. unfuse_macro_at(p, a) = IF begins = {} THEN p ELSE Splice(p, x, m.originals)
  BY DEF unfuse_macro_at
<1>2. CASE begins # {}
  <2>1. x \in begins
    BY <1>2
  <2>2. x \in Places(p) /\ m.op = "macro"
    BY <2>1, LocateFacts
  <2> HIDE DEF x, begins
  <2>3. OpOK(m)
    BY <2>2, PlaceFacts
  <2> DEFINE u == m.originals[1]
             v == m.originals[2]
  <2> HIDE DEF m
  <2>4. MacroOK(m) /\ Source(m) = {u.orig, v.orig}
    BY <2>2, <2>3, SourceFacts
  <2>5. OpOK(u) /\ OpOK(v) /\ m.originals = <<u, v>> /\ InsnOK(u) /\ InsnOK(v)
    BY <2>4 DEF MacroOK, OpOK
  <2> HIDE DEF u, v
  <2>6. u.op = "insn" /\ v.op = "insn"
    BY <2>5 DEF InsnOK
  <2>7. Source(u) \subseteq Source(m) /\ Source(v) \subseteq Source(m)
    BY <2>4, <2>6 DEF Source, OriginalAddresses
  <2>8. OpsOK(<<u, v>>) /\ Len(<<u, v>>) = 2 /\ <<u, v>>[1] = u /\ <<u, v>>[2] = v
    BY <2>5, ShortOps, PairSeq
  <2>9. \A k \in 1 .. 2 : k = 1 \/ k = 2
    OBVIOUS
  <2>12. HalfOf(u, m) /\ HalfOf(v, m)
    BY <2>2, <2>6, <2>7 DEF HalfOf, u, v
  <2>10. \A k \in 1 .. Len(<<u, v>>) : HalfOf(<<u, v>>[k], m)
    BY <2>8, <2>9, <2>12
  <2>11. Descends(Splice(p, x, <<u, v>>), p)
    BY <2>2, <2>8, <2>10, SpliceDescends DEF m
  <2> QED
    BY <1>1, <1>2, <2>5, <2>11
<1> QED
  BY <1>1, <1>2, DescendsSelf

LEMMA ReplaceDescends ==
  ASSUME NEW p, PlanOK(p), NEW a, NEW ref \in {"none", "branch"}, NEW t
  PROVE  Descends(replace_instruction_at(p, a, NewInsn(ref, t)).plan, p)
<1> DEFINE q == unfuse_macro_at(p, a)
           x == {y \in locate(q, a) : OpAt(q, y).op = "insn"}
           z == CHOOSE y \in x : TRUE
           insn == NewInsn(ref, t)
<1>1. PlanOK(q) /\ Descends(q, p)
  BY UnfuseKeeps, UnfuseDescends
<1> HIDE DEF q
<1>2. replace_instruction_at(p, a, insn).plan = IF x = {} THEN q ELSE Splice(q, z, <<insn>>)
  BY DEF replace_instruction_at, Ok, Err, q
<1>3. CASE x # {}
  <2>1. z \in Places(q)
    BY <1>3, LocateFacts
  <2> HIDE DEF z, x
  <2>2. OpOK(insn) /\ Source(insn) = {} /\ insn.op = "insn"
    BY NewInsnFacts DEF NewInsn
  <2> HIDE DEF insn
  <2>3. OpsOK(<<insn>>) /\ Len(<<insn>>) = 1 /\ <<insn>>[1] = insn
    BY <2>2, ShortOps, PairSeq
  <2>4. \A k \in 1 .. 1 : k = 1
    OBVIOUS
  <2>5. \A k \in 1 .. Len(<<insn>>) : <<insn>>[k].op = "insn" /\ Source(<<insn>>[k]) = {}
    BY <2>2, <2>3, <2>4
  <2>6. Descends(Splice(q, z, <<insn>>), q)
    BY <1>1, <2>1, <2>3, <2>5, SpliceDescends
  <2> QED
    BY <1>1, <1>2, <1>3, <2>6, DescendsChain DEF insn
<1> QED
  BY <1>1, <1>2, <1>3

LEMMA RemoveDescends ==
  ASSUME NEW p, PlanOK(p), NEW a
  PROVE  Descends(remove_at_address(p, a).plan, p)
<1> DEFINE x == locate(p, a)
           y == CHOOSE y \in x : TRUE
<1>1. remove_at_address(p, a).plan = IF x = {} THEN p ELSE Splice(p, y, <<>>)
  BY DEF remove_at_address, Ok, Err
<1>2. CASE x # {}
  <2>1. y \in Places(p)
    BY <1>2, LocateFacts
  <2> HIDE DEF x, y
  <2>2. OpOK(OpAt(p, y))
    BY <2>1, PlaceFacts
  <2>3. OpsOK(<<>>) /\ Len(<<>>) = 0
    BY <2>2, ShortOps, PairSeq
  <2>4. \A k \in 1 .. 0 : FALSE
    OBVIOUS
  <2>5. Descends(Splice(p, y, <<>>), p)
    BY <2>1, <2>3, <2>4, SpliceDescends
  <2> QED
    BY <1>1, <1>2, <2>5
<1> QED
  BY <1>1, <1>2, DescendsSelf

LEMMA InsertDescends ==
  ASSUME NEW p, PlanOK(p), NEW a, NEW ref \in {"none", "branch"}, NEW t
  PROVE  Descends(insert_after_address(p, a, <<NewInsn(ref, t)>>).plan, p)
<1> DEFINE insn == NewInsn(ref, t)
           x == locate(p, a)
           y == CHOOSE y \in x : TRUE
<1>1. OpOK(insn) /\ Source(insn) = {} /\ insn.op = "insn"
  BY NewInsnFacts DEF NewInsn
<1>2. insert_after_address(p, a, <<insn>>).plan =
        IF x = {} THEN p ELSE Splice(p, y, <<OpAt(p, y)>> \o <<insn>>)
  BY DEF insert_after_address, Ok, Err
<1> HIDE DEF insn
<1>3. CASE x # {}
  <2>1. y \in Places(p)
    BY <1>3, LocateFacts
  <2> HIDE DEF x, y
  <2> DEFINE u == OpAt(p, y)
  <2>2. OpOK(u)
    BY <2>1, PlaceFacts
  <2> HIDE DEF u
  <2>3. <<u>> \o <<insn>> = <<u, insn>>
    BY ConcatSingletons
  <2>4. OpsOK(<<u, insn>>) /\ Len(<<u, insn>>) = 2 /\ <<u, insn>>[1] = u /\ <<u, insn>>[2] = insn
    BY <1>1, <2>2, ShortOps, PairSeq
  <2>5. \A k \in 1 .. 2 : k = 1 \/ k = 2
    OBVIOUS
  <2>6. \A k \in 1 .. Len(<<u, insn>>) : \/ <<u, insn>>[k] = u
                                         \/ <<u, insn>>[k].op = "insn" /\ Source(<<u, insn>>[k]) = {}
    BY <1>1, <2>4, <2>5
  <2>7. Descends(Splice(p, y, <<u, insn>>), p)
    BY <2>1, <2>4, <2>6, SpliceDescends DEF u
  <2> QED
    BY <1>2, <1>3, <2>3, <2>7 DEF u, insn
<1> QED
  BY <1>2, <1>3, DescendsSelf DEF insn

LEMMA TerminatorDescends ==
  ASSUME NEW p, PlanOK(p), NEW b, NEW ref \in {"none", "branch"}, NEW t
  PROVE  Descends(replace_terminator(p, b, NewInsn(ref, t)).plan, p)
<1> DEFINE insn == NewInsn(ref, t)
<1>1. OpOK(insn) /\ Source(insn) = {} /\ insn.op = "insn"
  BY NewInsnFacts DEF NewInsn
<1>2. replace_terminator(p, b, insn).plan =
        IF b \notin DOMAIN p THEN p
        ELSE IF p[b] = <<>> THEN [p EXCEPT ![b] = <<insn>>]
        ELSE Splice(p, <<b, Len(p[b])>>, <<insn>>)
  BY DEF replace_terminator, Ok, Err
<1> HIDE DEF insn
<1>3. OpsOK(<<insn>>) /\ Len(<<insn>>) = 1 /\ <<insn>>[1] = insn /\ IsSeq(<<insn>>)
  BY <1>1, ShortOps, PairSeq
<1>4. \A k \in 1 .. 1 : k = 1
  OBVIOUS
<1>5. \A k \in 1 .. Len(<<insn>>) :
        <<insn>>[k] = insn /\ <<insn>>[k].op = "insn" /\ Source(<<insn>>[k]) = {}
  BY <1>1, <1>3, <1>4
<1>6. CASE b \in DOMAIN p
  <2>1. b \in 1 .. Len(p)
    BY <1>6 DEF PlanOK, IsSeq
  <2>2. Descends([p EXCEPT ![b] = <<insn>>], p)
    <3> SUFFICES ASSUME NEW op \in OpsIn([p EXCEPT ![b] = <<insn>>])
                 PROVE  op \in OpsIn(p) \/ (op.op = "insn" /\ Source(op) = {})
      BY DEF Descends
    <3>1. \/ \E n \in 1 .. Len(<<insn>>) : op = <<insn>>[n]
          \/ \E c \in 1 .. Len(p) : c # b /\ \E n \in 1 .. Len(p[c]) : op = p[c][n]
      BY <2>1, <1>3, UpdateMembers
    <3> QED
      BY <3>1, <1>5, MemberFacts
  <2>3. CASE p[b] # <<>>
    <3> DEFINE x == <<b, Len(p[b])>>
    <3>1. Len(p[b]) \in Nat /\ p[b] = [k \in 1 .. Len(p[b]) |-> p[b][k]]
      BY <2>1 DEF PlanOK, OpsOK, IsSeq
    <3>2. Len(p[b]) # 0
      <4>1. SUFFICES ASSUME Len(p[b]) = 0 PROVE FALSE
        OBVIOUS
      <4>2. p[b] = [k \in 1 .. 0 |-> p[b][k]] /\ 1 .. 0 = {}
        BY <3>1, <4>1
      <4>3. p[b] = <<>>
        BY <4>2
      <4> QED
        BY <2>3, <4>3
    <3>3. Len(p[b]) \in DOMAIN p[b]
      <4>1. Len(p[b]) \in 1 .. Len(p[b])
        BY <3>1, <3>2
      <4> QED
        BY <3>1, <4>1
    <3>4. x \in Places(p)
      BY <1>6, <3>3 DEF Places
    <3> HIDE DEF x
    <3>5. Descends(Splice(p, x, <<insn>>), p)
      BY <3>4, <1>3, <1>5, SpliceDescends
    <3> QED
      BY <1>2, <1>6, <2>3, <3>5 DEF x, insn
  <2> QED
    BY <1>2, <1>6, <2>2, <2>3 DEF insn
<1> QED
  BY <1>2, <1>6, DescendsSelf DEF insn

-----------------------------------------------------------------------------
(* Redirects.                                                              *)

LEMMA RetargetedFields ==
  ASSUME NEW e, OpOK(e), NEW t
  PROVE  LET o == [e EXCEPT !.target = t] IN
         /\ o.op = e.op /\ o.target = t /\ Source(o) = Source(e)
         /\ e.op = "insn" => o.ref = e.ref
         /\ e.op = "macro" => o.originals = e.originals
<1> DEFINE o == [e EXCEPT !.target = t]
<1>1. Source(o) = Source(e)
  BY RetargetedOpOK
<1>2. CASE InsnOK(e)
  <2>1. e = [op |-> "insn", mn |-> e.mn, rd |-> e.rd, rn |-> e.rn, imm |-> e.imm,
             ref |-> e.ref, target |-> e.target, orig |-> e.orig, size |-> e.size]
    BY <1>2 DEF InsnOK
  <2>2. o.op = e.op /\ o.target = t /\ o.ref = e.ref /\ e.op = "insn"
    BY <2>1
  <2> HIDE DEF o
  <2> QED
    BY <1>1, <2>2 DEF o
<1>3. CASE MacroOK(e)
  <2>1. e = [op |-> "macro", kind |-> e.kind, rd |-> e.rd, target |-> e.target,
             originals |-> e.originals]
    BY <1>3 DEF MacroOK
  <2>2. o.op = e.op /\ o.target = t /\ o.originals = e.originals /\ e.op = "macro"
    BY <2>1
  <2> HIDE DEF o
  <2> QED
    BY <1>1, <2>2 DEF o
<1> QED
  BY <1>2, <1>3 DEF OpOK

LEMMA RetargetRefers ==
  ASSUME NEW p, PlanOK(p), NEW x \in Places(p), NEW t
  PROVE  LET u == OpAt(p, x) q == Retarget(p, x, t) IN
         /\ Paired(p) => Paired(q)
         /\ u.op = "insn" => /\ \A a, w : MacroAt(p, a, w) => MacroAt(q, a, w)
                             /\ u.ref # "none" => \A a \in Source(u) : BranchAt(q, a, t)
         /\ u.op = "macro" => /\ \A a, w : BranchAt(p, a, w) => BranchAt(q, a, w)
                              /\ \A a \in Source(u) : MacroAt(q, a, t)
<1> DEFINE u == OpAt(p, x)
           q == Retarget(p, x, t)
           o == [u EXCEPT !.target = t]
<1>1. OpOK(u) /\ u \in OpsIn(p)
  BY PlaceFacts, MemberFacts
<1>2. \A op \in OpsIn(q) : op = o \/ (op \in OpsIn(p) /\ \A a \in Source(op) : a \notin Source(u))
  BY RetargetMembers
<1> HIDE DEF u, q
<1>3. /\ o.op = u.op /\ o.target = t /\ Source(o) = Source(u)
      /\ u.op = "insn" => o.ref = u.ref
      /\ u.op = "macro" => o.originals = u.originals
  BY <1>1, RetargetedFields
<1> HIDE DEF o
<1>4. Paired(p) => Paired(q)
  BY <1>1, <1>2, <1>3 DEF Paired, Adjacent
<1>5. ASSUME u.op = "insn", NEW a, NEW w, MacroAt(p, a, w) PROVE MacroAt(q, a, w)
  BY <1>2, <1>3, <1>5 DEF MacroAt
<1>6. ASSUME u.op = "insn", u.ref # "none", NEW a \in Source(u) PROVE BranchAt(q, a, t)
  BY <1>2, <1>3, <1>6 DEF BranchAt
<1>7. ASSUME u.op = "macro", NEW a, NEW w, BranchAt(p, a, w) PROVE BranchAt(q, a, w)
  BY <1>1, <1>2, <1>3, <1>7 DEF BranchAt
<1>8. ASSUME u.op = "macro", NEW a \in Source(u) PROVE MacroAt(q, a, t)
  BY <1>2, <1>3, <1>8 DEF MacroAt
<1> QED
  BY <1>4, <1>5, <1>6, <1>7, <1>8 DEF u, q

LEMMA RedirectRefers ==
  ASSUME NEW p, PlanOK(p), NEW a \in Nat, NEW t
  PROVE  /\ LET r == redirect_branch(p, a, t) IN
            /\ Paired(p) => Paired(r.plan)
            /\ r.result = "Ok" => BranchAt(r.plan, a, t)
            /\ r.result # "Ok" => r.plan = p
            /\ \A b, w : MacroAt(p, b, w) => MacroAt(r.plan, b, w)
         /\ LET r == redirect_macro_target(p, a, t) IN
            /\ Paired(p) => Paired(r.plan)
            /\ r.result = "Ok" => MacroAt(r.plan, a, t)
            /\ r.result # "Ok" => r.plan = p
            /\ \A b, w : BranchAt(p, b, w) => BranchAt(r.plan, b, w)
<1> DEFINE x == locate(p, a)
           y == CHOOSE y \in x : TRUE
           u == OpAt(p, y)
           q == Retarget(p, y, t)
           br == redirect_branch(p, a, t)
           mr == redirect_macro_target(p, a, t)
<1>1. \A r, e : /\ Ok(r).plan = r /\ Ok(r).result = "Ok"
                /\ Err(r, e).plan = r /\ Err(r, e).result = e
  BY DEF Ok, Err
<1>2. /\ \/ br.plan = p /\ br.result # "Ok"
         \/ x # {} /\ u.op = "insn" /\ u.ref # "none" /\ br.plan = q /\ br.result = "Ok"
      /\ \/ mr.plan = p /\ mr.result # "Ok"
         \/ x # {} /\ u.op = "macro" /\ mr.plan = q /\ mr.result = "Ok"
  BY <1>1 DEF redirect_branch, redirect_macro_target
<1>3. ASSUME x # {} PROVE y \in Places(p) /\ a \in Source(u)
  <2>1. y \in x
    BY <1>3
  <2>2. y \in Places(p) /\ a \in OriginalAddresses(u)
    BY <2>1 DEF locate, OpAt
  <2> QED
    BY <2>2 DEF Source
<1> HIDE DEF br, mr, u, y, x, q
<1>4. ASSUME x # {}
      PROVE  /\ Paired(p) => Paired(q)
             /\ u.op = "insn" => /\ \A b, w : MacroAt(p, b, w) => MacroAt(q, b, w)
                                 /\ u.ref # "none" => BranchAt(q, a, t)
             /\ u.op = "macro" => /\ \A b, w : BranchAt(p, b, w) => BranchAt(q, b, w)
                                  /\ MacroAt(q, a, t)
  BY <1>3, <1>4, RetargetRefers DEF u, q
<1>5. /\ Paired(p) => Paired(br.plan)
      /\ br.result = "Ok" => BranchAt(br.plan, a, t)
      /\ br.result # "Ok" => br.plan = p
      /\ \A b, w : MacroAt(p, b, w) => MacroAt(br.plan, b, w)
  BY <1>2, <1>4
<1>6. /\ Paired(p) => Paired(mr.plan)
      /\ mr.result = "Ok" => MacroAt(mr.plan, a, t)
      /\ mr.result # "Ok" => mr.plan = p
      /\ \A b, w : BranchAt(p, b, w) => BranchAt(mr.plan, b, w)
  BY <1>2, <1>4
<1> QED
  BY <1>5, <1>6 DEF br, mr

-----------------------------------------------------------------------------
(* The log: the last redirect of a kind still holds.                       *)

Redirects == {"redirect_branch", "redirect_macro"}

Latest(l, n) ==
  \A m \in n + 1 .. Len(l) : ~(l[m].edit = l[n].edit /\ l[m].result = "Ok")

Redirected(p, l) ==
  \A n \in 1 .. Len(l) :
    (l[n].edit \in Redirects /\ l[n].result = "Ok" /\ Latest(l, n)) =>
      /\ l[n].at \in Nat /\ l[n].target \in NewTargets
      /\ TargetAt(p, l[n].edit, l[n].at, l[n].target)

\* Before the lift nothing is logged; while the plan is edited, its macros are
\* pairs of the source and the last redirect of each kind holds.
RedirInv ==
  /\ pc \notin {"edit", "committed"} => log = <<>>
  /\ pc = "edit" => Paired(plan) /\ Redirected(plan, log)

LEMMA LogKeeps ==
  ASSUME NEW l, IsSeq(l), NEW p, Redirected(p, l), NEW q, NEW e,
         \A edit \in Redirects : \A a, t :
           (TargetAt(p, edit, a, t) /\ ~(e.edit = edit /\ e.result = "Ok")) =>
             TargetAt(q, edit, a, t),
         (e.edit \in Redirects /\ e.result = "Ok") =>
           e.at \in Nat /\ e.target \in NewTargets /\ TargetAt(q, e.edit, e.at, e.target)
  PROVE  Redirected(q, Append(l, e))
<1> DEFINE r == Append(l, e)
           L == Len(l)
<1>1. L \in Nat /\ l = [k \in 1 .. L |-> l[k]]
  BY DEF IsSeq
<1>2. Len(r) = L + 1 /\ (\A k \in 1 .. L : r[k] = l[k]) /\ r[L + 1] = e
  BY <1>1, SeqFacts
<1> HIDE DEF r
<1> SUFFICES ASSUME NEW n \in 1 .. Len(r), r[n].edit \in Redirects, r[n].result = "Ok", Latest(r, n)
             PROVE  /\ r[n].at \in Nat /\ r[n].target \in NewTargets
                    /\ TargetAt(q, r[n].edit, r[n].at, r[n].target)
  BY DEF Redirected, r
<1>3. CASE n = L + 1
  BY <1>2, <1>3
<1>4. CASE n # L + 1
  <2>1. n \in 1 .. L /\ L + 1 \in n + 1 .. Len(r)
    BY <1>1, <1>2, <1>4
  <2>2. r[n] = l[n]
    BY <2>1, <1>2
  <2>3. ~(e.edit = l[n].edit /\ e.result = "Ok")
    BY <2>1, <2>2, <1>2 DEF Latest
  <2>4. Latest(l, n)
    <3> SUFFICES ASSUME NEW m \in n + 1 .. L PROVE ~(l[m].edit = l[n].edit /\ l[m].result = "Ok")
      BY DEF Latest
    <3>1. m \in n + 1 .. Len(r) /\ m \in 1 .. L
      BY <1>1, <1>2, <2>1
    <3> QED
      BY <3>1, <2>2, <1>2 DEF Latest
  <2>5. /\ l[n].at \in Nat /\ l[n].target \in NewTargets
        /\ TargetAt(p, l[n].edit, l[n].at, l[n].target)
    BY <2>1, <2>2, <2>4 DEF Redirected
  <2> QED
    BY <2>2, <2>3, <2>5
<1> QED
  BY <1>3, <1>4

\* An edit that is no redirect.
LEMMA OtherKeeps ==
  ASSUME IsSeq(log), Paired(plan), Redirected(plan, log),
         NEW edit, edit \notin Redirects, NEW a, NEW t, NEW r, Descends(r.plan, plan),
         Apply(edit, a, t, r)
  PROVE  Paired(plan') /\ Redirected(plan', log')
<1> DEFINE e == [edit |-> edit, at |-> a, target |-> t, result |-> r.result]
<1>1. plan' = r.plan /\ log' = Append(log, e) /\ e.edit = edit
  BY DEF Apply
<1> HIDE DEF e
<1>2. /\ \A f, b, w : TargetAt(plan, f, b, w) => TargetAt(plan', f, b, w)
      /\ Paired(plan')
  BY <1>1, DescendsKeeps
<1>3. Redirected(plan', Append(log, e))
  BY <1>1, <1>2, LogKeeps
<1> QED
  BY <1>1, <1>2, <1>3

LEMMA EditRedirects ==
  ASSUME SliceInv, PlanOK(plan), IsSeq(log), Paired(plan), Redirected(plan, log), Edit
  PROVE  Paired(plan') /\ Redirected(plan', log')
<1>1. Addresses \subseteq Nat
  <2>1. InputOK(input)
    BY PlanAssumption DEF SliceInv
  <2>2. N \in Nat /\ \A i \in 1 .. N : instructions[i].address \in Nat
    BY SliceFacts
  <2> QED
    BY <2>1, <2>2 DEF Addresses, InputOK
<1>2. CASE RedirectBranch
  <2>1. PICK a \in Addresses, t \in NewTargets :
          Apply("redirect_branch", a, t, redirect_branch(plan, a, t))
    BY <1>2 DEF RedirectBranch
  <2> DEFINE r == redirect_branch(plan, a, t)
             e == [edit |-> "redirect_branch", at |-> a, target |-> t, result |-> r.result]
  <2>2. /\ plan' = r.plan /\ log' = Append(log, e) /\ e.edit = "redirect_branch"
        /\ e.at = a /\ e.target = t /\ e.result = r.result
    BY <2>1 DEF Apply
  <2>3. /\ Paired(plan) => Paired(r.plan)
        /\ r.result = "Ok" => BranchAt(r.plan, a, t)
        /\ r.result # "Ok" => r.plan = plan
        /\ \A b, w : MacroAt(plan, b, w) => MacroAt(r.plan, b, w)
    BY <1>1, RedirectRefers
  <2> HIDE DEF e, r
  <2>4. Redirected(r.plan, Append(log, e))
    <3>1. ASSUME NEW edit \in Redirects, NEW b, NEW w, TargetAt(plan, edit, b, w),
                 ~(e.edit = edit /\ e.result = "Ok")
          PROVE  TargetAt(r.plan, edit, b, w)
      BY <2>2, <2>3, <3>1 DEF TargetAt
    <3>2. e.result = "Ok" =>
            e.at \in Nat /\ e.target \in NewTargets /\ TargetAt(r.plan, e.edit, e.at, e.target)
      BY <1>1, <2>2, <2>3 DEF TargetAt
    <3> QED
      BY <3>1, <3>2, LogKeeps
  <2> QED
    BY <2>2, <2>3, <2>4
<1>3. CASE RedirectMacro
  <2>1. PICK a \in Addresses, t \in NewTargets :
          Apply("redirect_macro", a, t, redirect_macro_target(plan, a, t))
    BY <1>3 DEF RedirectMacro
  <2> DEFINE r == redirect_macro_target(plan, a, t)
             e == [edit |-> "redirect_macro", at |-> a, target |-> t, result |-> r.result]
  <2>2. /\ plan' = r.plan /\ log' = Append(log, e) /\ e.edit = "redirect_macro"
        /\ e.at = a /\ e.target = t /\ e.result = r.result
    BY <2>1 DEF Apply
  <2>3. /\ Paired(plan) => Paired(r.plan)
        /\ r.result = "Ok" => MacroAt(r.plan, a, t)
        /\ r.result # "Ok" => r.plan = plan
        /\ \A b, w : BranchAt(plan, b, w) => BranchAt(r.plan, b, w)
    BY <1>1, RedirectRefers
  <2> HIDE DEF e, r
  <2>4. Redirected(r.plan, Append(log, e))
    <3>1. ASSUME NEW edit \in Redirects, NEW b, NEW w, TargetAt(plan, edit, b, w),
                 ~(e.edit = edit /\ e.result = "Ok")
          PROVE  TargetAt(r.plan, edit, b, w)
      BY <2>2, <2>3, <3>1 DEF TargetAt, Redirects
    <3>2. e.result = "Ok" =>
            e.at \in Nat /\ e.target \in NewTargets /\ TargetAt(r.plan, e.edit, e.at, e.target)
      BY <1>1, <2>2, <2>3 DEF TargetAt
    <3> QED
      BY <3>1, <3>2, LogKeeps
  <2> QED
    BY <2>2, <2>3, <2>4
<1>4. CASE Replace
  <2>1. PICK a \in Addresses, t \in NewTargets :
          Apply("replace", a, t, replace_instruction_at(plan, a, NewInsn("branch", t)))
    BY <1>4 DEF Replace
  <2>2. Descends(replace_instruction_at(plan, a, NewInsn("branch", t)).plan, plan)
    BY ReplaceDescends
  <2>3. "replace" \notin Redirects
    BY DEF Redirects
  <2> QED
    BY <2>1, <2>2, <2>3, OtherKeeps
<1>5. CASE ReplaceTerminator
  <2>1. PICK b \in 1 .. Len(plan) + 1, t \in NewTargets :
          Apply("terminator", b, t, replace_terminator(plan, b, NewInsn("branch", t)))
    BY <1>5 DEF ReplaceTerminator
  <2>2. Descends(replace_terminator(plan, b, NewInsn("branch", t)).plan, plan)
    BY TerminatorDescends
  <2>3. "terminator" \notin Redirects
    BY DEF Redirects
  <2> QED
    BY <2>1, <2>2, <2>3, OtherKeeps
<1>6. CASE InsertAfter
  <2>1. PICK a \in Addresses :
          Apply("insert", a, NoTarget,
                insert_after_address(plan, a, <<NewInsn("none", NoTarget)>>))
    BY <1>6 DEF InsertAfter
  <2>2. Descends(insert_after_address(plan, a, <<NewInsn("none", NoTarget)>>).plan, plan)
    BY InsertDescends
  <2>3. "insert" \notin Redirects
    BY DEF Redirects
  <2> QED
    BY <2>1, <2>2, <2>3, OtherKeeps
<1>7. CASE RemoveOp
  <2>1. PICK a \in Addresses : Apply("remove", a, NoTarget, remove_at_address(plan, a))
    BY <1>7 DEF RemoveOp
  <2>2. Descends(remove_at_address(plan, a).plan, plan)
    BY RemoveDescends
  <2>3. "remove" \notin Redirects
    BY DEF Redirects
  <2> QED
    BY <2>1, <2>2, <2>3, OtherKeeps
<1>8. CASE OverlayBytes
  <2>1. PICK a : log' = Append(log, [edit |-> "overlay", at |-> a, target |-> NoTarget,
                                     result |-> "Ok"])
    BY <1>8 DEF OverlayBytes
  <2>2. plan' = plan
    BY <1>8 DEF OverlayBytes
  <2> DEFINE e == [edit |-> "overlay", at |-> a, target |-> NoTarget, result |-> "Ok"]
  <2>3. e.edit \notin Redirects
    BY DEF Redirects
  <2> HIDE DEF e
  <2>4. Redirected(plan, Append(log, e))
    BY <2>3, LogKeeps
  <2> QED
    BY <2>1, <2>2, <2>4 DEF e
<1> QED
  BY <1>2, <1>3, <1>4, <1>5, <1>6, <1>7, <1>8 DEF Edit

-----------------------------------------------------------------------------
(* Lifting and growing.                                                    *)

LEMMA FuseMembers ==
  ASSUME NEW insns, Lifted(insns), NEW k \in 1 .. Len(fuse_macros(insns))
  PROVE  \/ \E i \in 1 .. Len(insns) : fuse_macros(insns)[k] = insns[i]
         \/ \E i \in 1 .. Len(insns) - 1 : fuse_macros(insns)[k] \in MacroOps(insns[i], insns[i + 1])
<1> DEFINE L == Len(insns)
           From(op) == \/ \E i \in 1 .. L : op = insns[i]
                       \/ \E i \in 1 .. L - 1 : op \in MacroOps(insns[i], insns[i + 1])
<1>1. L \in Nat /\ \A i \in 1 .. L : insns[i].op = "insn"
  BY DEF Lifted, IsSeq, InsnOK
<1>2. PICK ops : /\ ops[0] = <<>> /\ fuse_macros(insns) = ops[L]
                 /\ \A n \in 1 .. L : ops[n] = FuseStep(insns, ops[n - 1], n)
  BY <1>1, FuseSteps
<1>3. ASSUME NEW n \in 1 .. L PROVE From(Chosen(insns, n))
  <2>1. CASE Fusable(insns, n) = {}
    <3>1. Chosen(insns, n) = insns[n]
      BY <2>1 DEF Chosen
    <3> QED
      BY <3>1
  <2>2. CASE Fusable(insns, n) # {}
    <3>1. n \in 1 .. L - 1 /\ Fusable(insns, n) = MacroOps(insns[n], insns[n + 1])
      BY <2>2 DEF Fusable
    <3>2. Chosen(insns, n) \in MacroOps(insns[n], insns[n + 1])
      BY <2>2, <3>1 DEF Chosen
    <3> QED
      BY <3>1, <3>2
  <2> QED
    BY <2>1, <2>2
<1> HIDE DEF From, L
<1> DEFINE Good == {m \in Nat : m <= L => IsSeq(ops[m]) /\ \A j \in 1 .. Len(ops[m]) : From(ops[m][j])}
<1>4. 0 \in Good
  <2>1. IsSeq(<<>>) /\ Len(<<>>) = 0
    BY PairSeq
  <2>2. \A j \in 1 .. 0 : FALSE
    OBVIOUS
  <2> QED
    BY <1>2, <2>1, <2>2
<1>5. ASSUME NEW m \in Good PROVE m + 1 \in Good
  <2> SUFFICES ASSUME m + 1 <= L
               PROVE  IsSeq(ops[m + 1]) /\ \A j \in 1 .. Len(ops[m + 1]) : From(ops[m + 1][j])
    OBVIOUS
  <2>1. m \in Nat /\ m <= L /\ m + 1 \in 1 .. L /\ (m + 1) - 1 = m
    BY <1>1
  <2>2. IsSeq(ops[m]) /\ \A j \in 1 .. Len(ops[m]) : From(ops[m][j])
    BY <2>1
  <2>3. ops[m + 1] = ops[m] \/ ops[m + 1] = Append(ops[m], Chosen(insns, m + 1))
    BY <1>2, <2>1 DEF FuseStep
  <2> HIDE DEF Good
  <2>4. CASE ops[m + 1] = Append(ops[m], Chosen(insns, m + 1))
    <3> DEFINE q == ops[m]
               e == Chosen(insns, m + 1)
               r == Append(q, e)
    <3>1. Len(q) \in Nat /\ q = [j \in 1 .. Len(q) |-> q[j]] /\ \A j \in 1 .. Len(q) : From(q[j])
      BY <2>2 DEF IsSeq
    <3>2. From(e)
      BY <1>3, <2>1
    <3> HIDE DEF q, e
    <3>3. /\ Len(r) = Len(q) + 1 /\ r = [j \in 1 .. Len(r) |-> r[j]]
          /\ \A j \in 1 .. Len(q) : r[j] = q[j]
          /\ r[Len(q) + 1] = e
      BY <3>1, SeqFacts
    <3> HIDE DEF r
    <3>4. \A j \in 1 .. Len(r) : j \in 1 .. Len(q) \/ j = Len(q) + 1
      BY <3>1, <3>3
    <3>5. IsSeq(r) /\ \A j \in 1 .. Len(r) : From(r[j])
      BY <3>1, <3>2, <3>3, <3>4 DEF IsSeq
    <3> QED
      BY <2>4, <3>5 DEF r, q, e
  <2> QED
    BY <2>2, <2>3, <2>4
<1> HIDE DEF Good
<1>6. Good = Nat
  <2>1. Good \in SUBSET Nat
    BY DEF Good
  <2> QED
    BY <1>4, <1>5, <2>1, NatInduct
<1>7. \A j \in 1 .. Len(ops[L]) : From(ops[L][j])
  <2>1. L \in Good /\ L <= L
    BY <1>1, <1>6
  <2> QED
    BY <2>1 DEF Good
<1> QED
  BY <1>2, <1>7 DEF From, L

\* The ops of an unedited plan: the lifted instructions and their macros.
LiftedAt(i) == lift_instruction(instructions[i])

SourceOps ==
  {LiftedAt(i) : i \in 1 .. N}
  \cup UNION {MacroOps(LiftedAt(i), LiftedAt(i + 1)) : i \in 1 .. N - 1}

LEMMA SourceOpFacts ==
  ASSUME SliceInv, NEW u \in SourceOps
  PROVE  /\ OpOK(u) /\ Source(u) # {}
         /\ u.op = "insn" => \E i \in 1 .. N : u = LiftedAt(i) /\ Source(u) = {instructions[i].address}
         /\ u.op = "macro" =>
              \E i \in 1 .. N - 1 :
                /\ u \in MacroOps(LiftedAt(i), LiftedAt(i + 1))
                /\ u.originals = <<LiftedAt(i), LiftedAt(i + 1)>>
                /\ LiftedAt(i).orig = instructions[i].address
                /\ LiftedAt(i + 1).orig = instructions[i + 1].address
                /\ Source(u) = {instructions[i].address, instructions[i + 1].address}
<1>1. N \in Nat
  BY SliceFacts
<1>2. ASSUME NEW i \in 1 .. N
      PROVE  /\ InsnOK(LiftedAt(i)) /\ LiftedAt(i).op = "insn"
             /\ LiftedAt(i).orig \in Nat /\ LiftedAt(i).orig = instructions[i].address
             /\ OpOK(LiftedAt(i)) /\ Source(LiftedAt(i)) = {instructions[i].address}
  <2> DEFINE w == LiftedAt(i)
  <2>1. InsnOK(w) /\ w.orig \in Nat /\ w.orig = instructions[i].address
    BY LiftedInsn DEF LiftedAt
  <2> HIDE DEF w
  <2>2. w.op = "insn" /\ OpOK(w)
    BY <2>1 DEF InsnOK, OpOK
  <2>3. Source(w) = {w.orig}
    BY <2>1, <2>2 DEF Source, OriginalAddresses
  <2> QED
    BY <2>1, <2>2, <2>3 DEF w
<1>3. CASE \E i \in 1 .. N : u = LiftedAt(i)
  BY <1>2, <1>3
<1>4. ASSUME NEW i \in 1 .. N - 1, u \in MacroOps(LiftedAt(i), LiftedAt(i + 1))
      PROVE  /\ OpOK(u) /\ u.op = "macro"
             /\ u.originals = <<LiftedAt(i), LiftedAt(i + 1)>>
             /\ Source(u) = {instructions[i].address, instructions[i + 1].address}
             /\ i \in 1 .. N /\ i + 1 \in 1 .. N
  <2>1. i \in 1 .. N /\ i + 1 \in 1 .. N /\ i < i + 1
    BY <1>1
  <2>2. instructions[i].address < instructions[i + 1].address
    <3>1. /\ instructions[i].address + instructions[i].size <= instructions[i + 1].address
          /\ instructions[i].address \in Nat /\ instructions[i + 1].address \in Nat
          /\ instructions[i].size \in Nat \ {0}
      BY <2>1, AddressesIncrease, SliceFacts
    <3> QED
      BY <3>1
  <2> DEFINE a == LiftedAt(i)
             b == LiftedAt(i + 1)
  <2>3. InsnOK(a) /\ InsnOK(b) /\ a.orig \in Nat /\ b.orig \in Nat /\ a.orig < b.orig
        /\ a.orig = instructions[i].address /\ b.orig = instructions[i + 1].address
    BY <1>2, <2>1, <2>2
  <2> HIDE DEF a, b
  <2>4. u \in MacroOps(a, b)
    BY <1>4 DEF a, b
  <2>5. OpOK(u) /\ Source(u) = {a.orig, b.orig}
    BY <2>3, <2>4, MacroFacts
  <2>6. u.op = "macro" /\ u.originals = <<a, b>>
    BY <2>4 DEF MacroOps
  <2> QED
    BY <2>1, <2>3, <2>5, <2>6 DEF a, b
<1> QED
  BY <1>2, <1>3, <1>4 DEF SourceOps

\* The lift makes nothing else.
LEMMA LiftMembers ==
  ASSUME GInv, Lift
  PROVE  OpsIn(plan') \subseteq SourceOps /\ DOMAIN plan' = DOMAIN blocks
<1>1. SliceInv /\ BlocksOK /\ PlanOK(plan')
  BY LiftOrders DEF GInv, AttachInv, Lift
<1>2. DOMAIN blocks = 1 .. Len(blocks)
  BY <1>1 DEF BlocksOK
<1>3. /\ \A b \in 1 .. Len(blocks) : plan'[b] = fuse_macros(LiftedBlock(b))
      /\ DOMAIN plan' = 1 .. Len(blocks)
  BY <1>2 DEF Lift, LiftedBlock
<1>4. DOMAIN plan' = 1 .. Len(plan')
  BY <1>1 DEF PlanOK, IsSeq
<1>5. ASSUME NEW op \in OpsIn(plan') PROVE op \in SourceOps
  <2>1. PICK b \in 1 .. Len(plan') : \E n \in 1 .. Len(plan'[b]) : op = plan'[b][n]
    BY <1>1, MemberFacts
  <2>2. PICK n \in 1 .. Len(plan'[b]) : op = plan'[b][n]
    BY <2>1
  <2> DEFINE s == LiftedBlock(b)
             f == blocks[b].first
             l == blocks[b].last
  <2>3. b \in 1 .. Len(blocks) /\ plan'[b] = fuse_macros(s)
    BY <1>3, <1>4
  <2>4. Lifted(s) /\ Len(s) = (l - f) + 1
    BY <1>1, <2>3, BlockLifts
  <2>5. f \in 1 .. N /\ l \in 1 .. N /\ N \in Nat
    <3>1. l \in 1 .. N /\ N \in Nat
      BY <1>1, <2>3, BlockFacts, SliceFacts
    <3>2. f \in 1 .. N
      BY <1>1, <2>3 DEF BlocksOK, BlockOK
    <3> QED
      BY <3>1, <3>2
  <2>6. \A i \in 1 .. Len(s) : s[i] = LiftedAt((f + i) - 1)
    <3>1. \A i \in 1 .. ((l - f) + 1) : (f + i) - 1 = f + i - 1
      BY <2>5
    <3> QED
      BY <2>4, <2>5, <3>1 DEF LiftedBlock, LiftedAt
  <2> HIDE DEF s, f, l
  <2>7. \/ \E i \in 1 .. Len(s) : op = s[i]
        \/ \E i \in 1 .. Len(s) - 1 : op \in MacroOps(s[i], s[i + 1])
    BY <2>2, <2>3, <2>4, FuseMembers
  <2>8. ASSUME NEW i \in 1 .. Len(s), op = s[i] PROVE op \in SourceOps
    <3>1. (f + i) - 1 \in 1 .. N
      BY <2>4, <2>5
    <3> QED
      BY <2>6, <2>8, <3>1 DEF SourceOps
  <2>9. ASSUME NEW i \in 1 .. Len(s) - 1, op \in MacroOps(s[i], s[i + 1]) PROVE op \in SourceOps
    <3>1. /\ i \in 1 .. Len(s) /\ i + 1 \in 1 .. Len(s) /\ (f + i) - 1 \in 1 .. N - 1
          /\ (f + (i + 1)) - 1 = ((f + i) - 1) + 1
      BY <2>4, <2>5
    <3>2. s[i] = LiftedAt((f + i) - 1) /\ s[i + 1] = LiftedAt(((f + i) - 1) + 1)
      BY <2>6, <3>1
    <3> QED
      BY <2>9, <3>1, <3>2 DEF SourceOps
  <2> QED
    BY <2>7, <2>8, <2>9
<1> QED
  BY <1>2, <1>3, <1>5

LEMMA LiftPairs ==
  ASSUME GInv, Lift
  PROVE  Paired(plan')
<1> SUFFICES ASSUME NEW op \in OpsIn(plan'), op.op = "macro" PROVE Adjacent(op)
  BY DEF Paired
<1>1. SliceInv /\ op \in SourceOps
  BY LiftMembers DEF GInv
<1>2. PICK i \in 1 .. N - 1 : /\ op.originals = <<LiftedAt(i), LiftedAt(i + 1)>>
                              /\ LiftedAt(i).orig = instructions[i].address
                              /\ LiftedAt(i + 1).orig = instructions[i + 1].address
  BY <1>1, SourceOpFacts
<1>3. op.originals[1] = LiftedAt(i) /\ op.originals[2] = LiftedAt(i + 1)
  BY <1>2
<1> QED
  BY <1>2, <1>3 DEF Adjacent

LEMMA ShiftMembers ==
  ASSUME NEW p, PlanOK(p), NEW op \in OpsIn(shift_plan_absolute_targets(p))
  PROVE  \E u \in OpsIn(p) : op = ShiftedOp(u)
<1> DEFINE q == shift_plan_absolute_targets(p)
<1>1. /\ DOMAIN p = 1 .. Len(p)
      /\ \A b \in 1 .. Len(p) : DOMAIN p[b] = 1 .. Len(p[b])
  BY DEF PlanOK, OpsOK, IsSeq
<1>2. q = [b \in DOMAIN p |-> [i \in DOMAIN p[b] |-> ShiftedOp(p[b][i])]]
  BY DEF shift_plan_absolute_targets, ShiftedOp
<1>3. /\ DOMAIN q = 1 .. Len(p)
      /\ \A b \in 1 .. Len(p) : /\ DOMAIN q[b] = 1 .. Len(p[b])
                                /\ \A i \in 1 .. Len(p[b]) : q[b][i] = ShiftedOp(p[b][i])
  BY <1>1, <1>2
<1> HIDE DEF q
<1>4. PICK b \in 1 .. Len(p) : \E i \in 1 .. Len(p[b]) : op = q[b][i]
  BY <1>3 DEF OpsIn, q
<1>5. PICK i \in 1 .. Len(p[b]) : op = q[b][i]
  BY <1>4
<1>6. p[b][i] \in OpsIn(p) /\ op = ShiftedOp(p[b][i])
  BY <1>3, <1>5, MemberFacts
<1> QED
  BY <1>6

LEMMA ShiftRefers ==
  ASSUME NEW p, PlanOK(p)
  PROVE  LET q == shift_plan_absolute_targets(p) IN
         /\ Paired(p) => Paired(q)
         /\ \A edit, a, t : TargetAt(p, edit, a, t) => TargetAt(q, edit, a, Bump(t))
<1> DEFINE q == shift_plan_absolute_targets(p)
<1>1. ASSUME NEW op \in OpsIn(q)
      PROVE  \E u \in OpsIn(p) :
               /\ op.op = u.op /\ Source(op) = Source(u)
               /\ u.op = "macro" => op.originals = u.originals /\ op.target = Bump(u.target)
               /\ (u.op = "insn" /\ u.ref # "none") => op.ref = u.ref /\ op.target = Bump(u.target)
  <2>1. PICK u \in OpsIn(p) : op = ShiftedOp(u)
    BY ShiftMembers
  <2>2. OpOK(u)
    BY MemberFacts
  <2> DEFINE t == Bump(u.target)
             o == [u EXCEPT !.target = t]
  <2>3. op = IF u.op = "insn" /\ u.ref = "none" THEN u ELSE o
    BY <2>1 DEF ShiftedOp
  <2> HIDE DEF t
  <2>4. /\ o.op = u.op /\ o.target = t /\ Source(o) = Source(u)
        /\ u.op = "insn" => o.ref = u.ref
        /\ u.op = "macro" => o.originals = u.originals
    BY <2>2, RetargetedFields
  <2> HIDE DEF o
  <2>5. op = u \/ op = o
    BY <2>3
  <2>6. (u.op = "macro" => op = o) /\ ((u.op = "insn" /\ u.ref # "none") => op = o)
    BY <2>3
  <2> QED
    BY <2>4, <2>5, <2>6 DEF t
<1> HIDE DEF q
<1>2. Paired(p) => Paired(q)
  BY <1>1 DEF Paired, Adjacent
<1>3. ASSUME NEW a, NEW t, BranchAt(p, a, t) PROVE BranchAt(q, a, Bump(t))
  BY <1>1, <1>3 DEF BranchAt
<1>4. ASSUME NEW a, NEW t, MacroAt(p, a, t) PROVE MacroAt(q, a, Bump(t))
  BY <1>1, <1>4 DEF MacroAt
<1> QED
  BY <1>2, <1>3, <1>4 DEF TargetAt, q

-----------------------------------------------------------------------------
(* The steps of the plan.                                                  *)

LEMMA RedirInvNext ==
  ASSUME GInv, EditInv, IsSeq(log), RedirInv, [CommitNext]_planVars
  PROVE  RedirInv'
<1>1. SliceInv
  BY DEF GInv
<1>2. ASSUME UNCHANGED instructions, Paired(plan') PROVE Paired(plan)'
  BY <1>2 DEF Paired, Adjacent, OpsIn, N
<1>3. ASSUME Redirected(plan', log') PROVE Redirected(plan, log)'
  BY <1>3 DEF Redirected, TargetAt, BranchAt, MacroAt, OpsIn, Latest, Source, OriginalAddresses
<1>4. CASE CfgStep /\ UNCHANGED <<input, plan, log, overlays, container, out>>
  <2>1. pc \in {"leaders", "blocks", "successors"} /\ pc' \in {"leaders", "blocks", "successors", "done"}
    BY <1>4 DEF CfgStep, CollectLeader, LeadersCollected, FormBlock, BlocksFormed,
                AttachSuccessors, SuccessorsAttached
  <2> QED
    BY <1>4, <2>1 DEF RedirInv
<1>5. CASE Lift
  <2>1. pc = "done" /\ pc' = "edit" /\ log' = log /\ instructions' = instructions
    BY <1>5 DEF Lift
  <2>2. log' = <<>>
    BY <2>1 DEF RedirInv
  <2>3. Redirected(plan', <<>>)
    <3>1. IsSeq(<<>>) /\ Len(<<>>) = 0
      BY PairSeq
    <3>2. \A n \in 1 .. 0 : FALSE
      OBVIOUS
    <3> QED
      BY <3>1, <3>2 DEF Redirected
  <2>4. Paired(plan')
    BY <1>5, LiftPairs
  <2> QED
    BY <1>2, <1>3, <2>1, <2>2, <2>3, <2>4 DEF RedirInv
<1>6. CASE Edit
  <2>1. pc = "edit" /\ pc' = "edit" /\ instructions' = instructions
    BY <1>6 DEF Edit, RedirectBranch, RedirectMacro, Replace, ReplaceTerminator, InsertAfter,
                RemoveOp, OverlayBytes, Apply, cfgVars
  <2>2. PlanOK(plan) /\ Paired(plan) /\ Redirected(plan, log)
    BY <2>1 DEF EditInv, RedirInv
  <2>3. Paired(plan') /\ Redirected(plan', log')
    BY <1>1, <1>6, <2>2, EditRedirects
  <2> QED
    BY <1>2, <1>3, <2>1, <2>3 DEF RedirInv
<1>7. CASE Commit \/ EmitCopy \/ EmitGrownText \/ EmitGrownGap
  <2>1. pc' = "committed"
    BY <1>7 DEF Commit, EmitCopy, EmitGrownText, EmitGrownGap, EmitGrown
  <2> QED
    BY <2>1 DEF RedirInv
<1>8. CASE UNCHANGED planVars
  <2>1. UNCHANGED <<pc, instructions, plan, log>>
    BY <1>8 DEF planVars, cfgVars
  <2>2. pc = "edit" => Paired(plan') /\ Redirected(plan', log')
    BY <2>1 DEF RedirInv
  <2> QED
    BY <1>2, <1>3, <2>1, <2>2 DEF RedirInv
<1> QED
  BY <1>4, <1>5, <1>6, <1>7, <1>8 DEF CommitNext, PlanStep, Committed

Claim(o, e) == NamedEffective(o, e) \/ CopiedAtHome(o, e) \/ FoldedAccessRedirect(o, e)

LEMMA ClaimSame ==
  ASSUME UNCHANGED <<input, instructions>>, NEW o, NEW e
  PROVE  Claim(o, e)' <=> Claim(o, e)
<1>1. N' = N /\ Pairs' = Pairs
  BY DEF N, Pairs
<1>2. ASSUME NEW i PROVE FusedInto(o.plan, i)' = FusedInto(o.plan, i)
  BY DEF FusedInto
<1>3. ASSUME NEW i, NEW j PROVE NamedRefers(o, i, j)' = NamedRefers(o, i, j)
  BY DEF NamedRefers, Refers, WordsFor, RelocsOn
<1>4. ASSUME NEW s PROVE Symbol(s)' = Symbol(s)
  BY DEF Symbol
<1>5. ASSUME NEW v, NEW a PROVE Moved(v, a)' = Moved(v, a)
  BY DEF Moved
<1>6. ASSUME NEW v, NEW s
      PROVE callable_address_of_symbol(v, s)' = callable_address_of_symbol(v, s)
  BY <1>4, <1>5 DEF callable_address_of_symbol
<1>7. ASSUME NEW p, NEW v, NEW t PROVE resolve_target(p, v, t)' = resolve_target(p, v, t)
  BY <1>6 DEF resolve_target, BlockAddress, SizeOf, OpSize
<1>8. ASSUME NEW v, NEW m PROVE MacroRelocs(v, m)' = MacroRelocs(v, m)
  BY <1>4 DEF MacroRelocs, macro_symbol_needs_relocation, OtherSection
<1>9. ASSUME NEW a PROVE SourceWord(a)' = SourceWord(a)
  BY <1>1 DEF SourceWord
<1>10. ASSUME NEW t PROVE Bump(t)' = Bump(t)
  BY DEF Bump
<1>11. NamedReference(o, e.target)' = NamedReference(o, e.target)
  BY <1>7, <1>10 DEF NamedReference
<1>12. RedirectedNames(o, e)' = RedirectedNames(o, e)
  <2> DEFINE S == {ij \in Pairs : /\ FusedInto(o.plan, ij[1]) # {}
                                  /\ e.at \in {instructions[ij[1]].address, instructions[ij[2]].address}
                                  /\ ij[2] = ij[1] + 1}
             B == {NamedBranch(o, k) : k \in WordsFor(o, e.at)}
             U(X) == UNION {NamedRefers(o, ij[1], ij[2]) : ij \in X}
  <2>1. S' = S
    BY <1>1, <1>2
  <2>2. B' = B
    BY DEF NamedBranch, WordsFor, RelocsOn
  <2>3. \A X : U(X)' = U(X)
    BY <1>3
  <2>4. RedirectedNames(o, e) = IF e.edit = "redirect_branch" THEN B ELSE U(S)
    BY DEF RedirectedNames, RedirectedPairs
  <2>5. RedirectedNames(o, e)' = IF e.edit = "redirect_branch" THEN B' ELSE U(S)'
    BY DEF RedirectedNames, RedirectedPairs
  <2>6. U(S)' = UNION {NamedRefers(o, ij[1], ij[2])' : ij \in S'}
    OBVIOUS
  <2>7. U(S)' = U(S)
    <3> HIDE DEF S
    <3> QED BY <2>1, <2>6, <1>3
  <2> HIDE DEF S, B, U
  <2> QED
    BY <2>2, <2>4, <2>5, <2>7
<1>13. CopiedAtHome(o, e)' <=> CopiedAtHome(o, e)
  <2> DEFINE M == UNION {FusedInto(o.plan, i) : i \in 1 .. N}
             K(m) == \E k \in WordsFor(o, m.originals[1].orig) :
                       o.view.base + k - 1 = m.originals[1].orig /\ o.words[k] = SourceWord(m.originals[1].orig)
  <2>1. M' = M
    BY <1>1, <1>2
  <2>2. ASSUME NEW m PROVE K(m)' <=> K(m)
    BY <1>9 DEF WordsFor
  <2>3. CopiedAtHome(o, e) <=>
          e.edit = "redirect_macro" /\ \E m \in M : e.at \in OriginalAddresses(m) /\ K(m)
    BY DEF CopiedAtHome
  <2>4. CopiedAtHome(o, e)' <=>
          e.edit = "redirect_macro" /\ \E m \in M' : e.at \in OriginalAddresses(m) /\ K(m)'
    BY DEF CopiedAtHome, OriginalAddresses
  <2> HIDE DEF M, K
  <2> QED
    BY <2>1, <2>2, <2>3, <2>4
<1>14. FoldedAccessRedirect(o, e)' <=> FoldedAccessRedirect(o, e)
  BY <1>1, <1>2, <1>8 DEF FoldedAccessRedirect, FoldedAccess
<1> QED
  BY <1>11, <1>12, <1>13, <1>14 DEF Claim, NamedEffective
-----------------------------------------------------------------------------
(* Where the words of an emission come from.                               *)

LEMMA FlattenMembers ==
  ASSUME NEW p, PlanOK(p)
  PROVE  \A n \in 1 .. Len(FlattenSeq(p)) : FlattenSeq(p)[n] \in OpsIn(p)
<1> DEFINE L == Len(p)
           From(s) == IsSeq(s) /\ \A n \in 1 .. Len(s) : s[n] \in OpsIn(p)
<1>1. L \in Nat /\ \A b \in 1 .. L : From(p[b])
  <2>1. L \in Nat /\ \A b \in 1 .. L : IsSeq(p[b])
    BY DEF PlanOK, OpsOK, IsSeq
  <2>2. \A b \in 1 .. L : \A n \in 1 .. Len(p[b]) : p[b][n] \in OpsIn(p)
    BY MemberFacts
  <2> QED
    BY <2>1, <2>2
<1>2. CASE L = 0
  <2>1. FlattenSeq(p) = p
    BY <1>1, <1>2, FlattenSteps
  <2>2. \A n \in 1 .. 0 : FALSE
    OBVIOUS
  <2> QED
    BY <1>2, <2>1, <2>2
<1>3. ASSUME NEW l, From(l), NEW r, From(r) PROVE From(l \o r)
  <2>1. /\ IsSeq(l \o r)
        /\ \A k \in 1 .. Len(l) : (l \o r)[k] = l[k]
        /\ \A k \in 1 .. Len(r) : (l \o r)[Len(l) + k] = r[k]
        /\ \A k \in 1 .. Len(l \o r) :
             k \in 1 .. Len(l) \/ \E j \in 1 .. Len(r) : k = Len(l) + j
    BY <1>3, ConcatSeq
  <2> DEFINE t == l \o r
  <2> HIDE DEF t
  <2>2. \A k \in 1 .. Len(t) : t[k] \in OpsIn(p)
    BY <2>1, <1>3 DEF t
  <2> QED
    BY <2>1, <2>2 DEF t
<1>4. CASE L > 0
  <2>1. PICK flat : /\ flat[1] = p[1] /\ FlattenSeq(p) = flat[L]
                    /\ \A i \in 2 .. L : flat[i] = flat[i - 1] \o p[i]
    BY <1>1, <1>4, FlattenSteps
  <2> HIDE DEF L, From
  <2> DEFINE Good == {m \in Nat : m + 1 <= L => From(flat[m + 1])}
  <2>2. 0 \in Good
    <3>1. 1 \in 1 .. L /\ 0 + 1 = 1
      BY <1>1, <1>4
    <3> QED
      BY <3>1, <2>1, <1>1
  <2>3. ASSUME NEW m \in Good PROVE m + 1 \in Good
    <3> SUFFICES ASSUME (m + 1) + 1 <= L PROVE From(flat[(m + 1) + 1])
      OBVIOUS
    <3>1. m + 1 <= L /\ (m + 1) + 1 \in 2 .. L /\ (m + 1) + 1 \in 1 .. L /\ ((m + 1) + 1) - 1 = m + 1
      BY <1>1
    <3>2. From(flat[m + 1]) /\ From(p[(m + 1) + 1])
      BY <3>1, <1>1
    <3>3. flat[(m + 1) + 1] = flat[m + 1] \o p[(m + 1) + 1]
      BY <3>1, <2>1
    <3> QED
      BY <3>2, <3>3, <1>3
  <2> HIDE DEF Good
  <2>4. Good = Nat
    <3>1. Good \in SUBSET Nat
      BY DEF Good
    <3> QED
      BY <2>2, <2>3, <3>1, NatInduct
  <2>5. L - 1 \in Good /\ (L - 1) + 1 = L /\ L <= L
    BY <2>4, <1>1, <1>4
  <2>6. From(flat[L])
    BY <2>5 DEF Good
  <2> QED
    BY <2>1, <2>6 DEF From
<1> QED
  BY <1>1, <1>2, <1>4

\* Without a container nothing is relocated.
LEMMA OpEmitsBare ==
  ASSUME ~input.container, NEW op, OpOK(op), NEW p, NEW v, NEW here, NEW k,
         EmitOp(p, v, op, here).result = "Ok"
  PROVE  EmittedOK(EmitOp(p, v, op, here), k)
<1> DEFINE e == EmitOp(p, v, op, here)
<1>1. \A x : Failed(x).result = x
  BY DEF Failed
<1>2. CASE InsnOK(op)
  <2>1. op.op = "insn"
    BY <1>2 DEF InsnOK
  <2>2. e = emit_instruction(p, v, op, here) /\ InsnRelocs(v, op) = {}
    BY <2>1 DEF EmitOp, InsnRelocs
  <2>3. \/ \E val : e = Bytes(<<Word(op, val)>>, <<>>)
        \/ e = Failed("Layout") \/ e = Failed("Encode")
    BY <2>2 DEF emit_instruction
  <2>4. PICK val : e = Bytes(<<Word(op, val)>>, <<>>)
    BY <2>3, <1>1
  <2> DEFINE w == Word(op, val)
  <2> HIDE DEF w
  <2>5. IsSeq(<<w>>)
    BY PairSeq
  <2>6. EmittedOK(Bytes(<<w>>, <<>>), k)
    BY <2>5, NoRelocs
  <2> QED
    BY <2>4, <2>6 DEF w
<1>3. CASE MacroOK(op)
  <2>1. op.op = "macro" /\ op.kind = "LoadAddress"
    BY <1>3 DEF MacroOK
  <2>2. e = emit_macro(p, v, op, here) /\ MacroRelocs(v, op) = {}
    BY <2>1 DEF EmitOp, MacroRelocs
  <2>3. ~verbatim_macro(p, v, op, here)
    BY DEF verbatim_macro
  <2>4. \/ \E to : e = Bytes(load_address_words(op, to), <<>>)
        \/ e = Failed("MalformedMacro")
    BY <2>1, <2>2, <2>3 DEF emit_macro, emit_load_address
  <2>5. PICK to : e = Bytes(load_address_words(op, to), <<>>)
    BY <2>4, <1>1
  <2>6. PICK w, x : load_address_words(op, to) = <<w, x>>
    BY DEF load_address_words
  <2>7. IsSeq(<<w, x>>)
    BY PairSeq
  <2>8. EmittedOK(Bytes(<<w, x>>, <<>>), k)
    BY <2>7, NoRelocs
  <2> QED
    BY <2>5, <2>6, <2>8
<1> QED
  BY <1>2, <1>3 DEF OpOK

LEMMA OpLands ==
  ASSUME NEW op, OpOK(op), NEW p, NEW v, v.base \in Int, NEW here \in Int, NEW pos \in Nat,
         input.container => here = v.base + pos, EmitOp(p, v, op, here).result = "Ok"
  PROVE  /\ EmittedOK(EmitOp(p, v, op, here), pos)
         /\ OpSize(op) \in Nat
         /\ input.container => OpSize(op) = Len(EmitOp(p, v, op, here).words)
<1>1. OpSize(op) \in Nat
  BY DEF OpOK, InsnOK, MacroOK, OpSize
<1>2. CASE input.container
  <2>1. here - v.base = pos
    BY <1>2
  <2>2. /\ EmittedOK(EmitOp(p, v, op, here), here - v.base)
        /\ WordsOf(op, EmitOp(p, v, op, here).words) /\ OpSize(op) = Width(op)
    BY <1>2, OpEmits
  <2> QED
    BY <1>1, <2>1, <2>2 DEF WordsOf
<1>3. CASE ~input.container
  BY <1>1, <1>3, OpEmitsBare
<1> QED
  BY <1>2, <1>3

LEMMA ConcatMembers ==
  ASSUME NEW l, IsSeq(l), NEW r, IsSeq(r)
  PROVE  {(l \o r)[m] : m \in DOMAIN (l \o r)} =
           {l[m] : m \in DOMAIN l} \cup {r[m] : m \in DOMAIN r}
<1> DEFINE t == l \o r
           R(s) == {s[m] : m \in DOMAIN s}
<1>1. /\ IsSeq(t) /\ Len(t) = Len(l) + Len(r)
      /\ \A k \in 1 .. Len(l) : t[k] = l[k]
      /\ \A k \in 1 .. Len(r) : t[Len(l) + k] = r[k]
      /\ \A k \in 1 .. Len(t) :
           k \in 1 .. Len(l) \/ \E j \in 1 .. Len(r) : k = Len(l) + j
  BY ConcatSeq
<1>2. /\ DOMAIN l = 1 .. Len(l) /\ DOMAIN r = 1 .. Len(r) /\ DOMAIN t = 1 .. Len(t)
      /\ Len(l) \in Nat /\ Len(r) \in Nat
  BY <1>1 DEF IsSeq
<1> HIDE DEF t
<1>3. \A m \in 1 .. Len(l) : m \in 1 .. Len(t)
  BY <1>1, <1>2
<1>4. \A m \in 1 .. Len(r) : Len(l) + m \in 1 .. Len(t)
  BY <1>1, <1>2
<1>5. \A m \in DOMAIN l : l[m] \in R(t)
  BY <1>1, <1>2, <1>3
<1>6. \A m \in DOMAIN r : r[m] \in R(t)
  BY <1>1, <1>2, <1>4
<1>7. \A m \in DOMAIN t : t[m] \in R(l) \cup R(r)
  BY <1>1, <1>2
<1>8. R(t) = R(l) \cup R(r)
  BY <1>5, <1>6, <1>7
<1> QED
  BY <1>8 DEF t

LEMMA RelocBounds ==
  ASSUME NEW k \in Int, NEW e, EmittedOK(e, k), NEW n \in 1 .. Len(e.relocs)
  PROVE  Len(e.words) \in Nat /\ e.relocs[n].offset \in k .. (k + Len(e.words) - 1)
<1>1. Len(e.words) \in Nat /\ FitsIn(e.relocs[n], e.words, k)
  BY DEF EmittedOK, IsSeq
<1>2. PICK d \in 0 .. (Len(e.words) - 1), kind \in RelocKinds :
        \E s : e.relocs[n] = Reloc(k + d, kind, s)
  BY <1>1 DEF FitsIn
<1>3. PICK s : e.relocs[n] = Reloc(k + d, kind, s)
  BY <1>2
<1>4. e.relocs[n].offset = k + d
  BY <1>3 DEF Reloc
<1> QED
  BY <1>1, <1>4

LEMMA ConcatRelocs ==
  ASSUME NEW d, EmittedOK(d, 0), NEW e, EmittedOK(e, Len(d.words))
  PROVE  LET b == Bytes(d.words \o e.words, d.relocs \o e.relocs) IN
         /\ \A k \in 1 .. Len(d.words) : b.words[k] = d.words[k] /\ RelocsOn(b, k) = RelocsOn(d, k)
         /\ \A j \in 1 .. Len(e.words) :
              /\ b.words[Len(d.words) + j] = e.words[j]
              /\ RelocsOn(b, Len(d.words) + j) = RelocsOn(e, Len(d.words) + j)
         /\ \A k \in 1 .. Len(b.words) :
              k \in 1 .. Len(d.words) \/ \E j \in 1 .. Len(e.words) : k = Len(d.words) + j
<1> DEFINE words == d.words \o e.words
           relocs == d.relocs \o e.relocs
           b == Bytes(words, relocs)
           n == Len(d.words)
           w == Len(e.words)
<1>1. /\ IsSeq(d.words) /\ IsSeq(e.words) /\ IsSeq(d.relocs) /\ IsSeq(e.relocs)
      /\ n \in Nat /\ w \in Nat
  BY DEF EmittedOK, IsSeq
<1>2. /\ \A k \in 1 .. n : words[k] = d.words[k]
      /\ \A j \in 1 .. w : words[n + j] = e.words[j]
      /\ \A k \in 1 .. Len(words) : k \in 1 .. n \/ \E j \in 1 .. w : k = n + j
  <2> DEFINE x == d.words
             y == e.words
  <2>1. IsSeq(x) /\ IsSeq(y)
    BY <1>1
  <2> HIDE DEF x, y
  <2>2. /\ \A k \in 1 .. Len(x) : (x \o y)[k] = x[k]
        /\ \A k \in 1 .. Len(y) : (x \o y)[Len(x) + k] = y[k]
        /\ \A k \in 1 .. Len(x \o y) :
             k \in 1 .. Len(x) \/ \E j \in 1 .. Len(y) : k = Len(x) + j
    BY <2>1, ConcatSeq
  <2> QED
    BY <2>2 DEF x, y
<1>4. b.words = words /\ b.relocs = relocs
  BY DEF Bytes
<1> DEFINE R(x) == {x[m] : m \in DOMAIN x}
<1>5. /\ \A r \in R(d.relocs) : r.offset \in 0 .. (n - 1)
      /\ \A r \in R(e.relocs) : r.offset \in n .. (n + w - 1)
  <2>1. ASSUME NEW m \in 1 .. Len(d.relocs) PROVE d.relocs[m].offset \in 0 .. (n - 1)
    <3>1. d.relocs[m].offset \in 0 .. (0 + n - 1)
      BY RelocBounds
    <3> QED
      BY <3>1, <1>1
  <2>2. ASSUME NEW m \in 1 .. Len(e.relocs) PROVE e.relocs[m].offset \in n .. (n + w - 1)
    <3>1. n \in Int /\ EmittedOK(e, n)
      BY <1>1
    <3> HIDE DEF n
    <3> QED
      BY <3>1, RelocBounds
  <2>3. DOMAIN d.relocs = 1 .. Len(d.relocs) /\ DOMAIN e.relocs = 1 .. Len(e.relocs)
    BY <1>1 DEF IsSeq
  <2> HIDE DEF n, w
  <2> QED
    BY <2>1, <2>2, <2>3
<1>6. R(relocs) = R(d.relocs) \cup R(e.relocs)
  <2> DEFINE x == d.relocs
             y == e.relocs
  <2>1. IsSeq(x) /\ IsSeq(y)
    BY <1>1
  <2> HIDE DEF x, y
  <2>2. R(x \o y) = R(x) \cup R(y)
    BY <2>1, ConcatMembers
  <2> QED
    BY <2>2 DEF x, y
<1>7. \A x, k : RelocsOn(x, k) = {r \in R(x.relocs) : r.offset = k - 1}
  BY DEF RelocsOn
<1> HIDE DEF R, b, words, relocs, n, w
<1>8. ASSUME NEW k \in 1 .. n PROVE RelocsOn(b, k) = RelocsOn(d, k)
  <2>1. \A r \in R(e.relocs) : r.offset # k - 1
    BY <1>1, <1>5
  <2> QED
    BY <2>1, <1>4, <1>6, <1>7
<1>9. ASSUME NEW j \in 1 .. w PROVE RelocsOn(b, n + j) = RelocsOn(e, n + j)
  <2>1. \A r \in R(d.relocs) : r.offset # (n + j) - 1
    BY <1>1, <1>5
  <2> QED
    BY <2>1, <1>4, <1>6, <1>7
<1>10. \A k \in 1 .. n : b.words[k] = d.words[k] /\ RelocsOn(b, k) = RelocsOn(d, k)
  BY <1>2, <1>4, <1>8
<1>11. \A j \in 1 .. w : b.words[n + j] = e.words[j] /\ RelocsOn(b, n + j) = RelocsOn(e, n + j)
  BY <1>2, <1>4, <1>9
<1> QED
  BY <1>2, <1>4, <1>10, <1>11 DEF b, words, relocs, n, w

\* The words of op, emitted at here, stand in e behind the first pos words.
Lands(e, p, v, op, here, pos) ==
  /\ op \in OpsIn(p) /\ here \in Int /\ pos \in Nat
  /\ input.container => here = v.base + pos
  /\ EmitOp(p, v, op, here).result = "Ok"
  /\ EmittedOK(EmitOp(p, v, op, here), pos)
  /\ \A j \in 1 .. Len(EmitOp(p, v, op, here).words) :
       /\ pos + j \in 1 .. Len(e.words)
       /\ e.words[pos + j] = EmitOp(p, v, op, here).words[j]
       /\ RelocsOn(e, pos + j) = RelocsOn(EmitOp(p, v, op, here), pos + j)

\* The k-th word of e is one of op's.
WordOf(e, p, v, op, here, pos, k) ==
  /\ Lands(e, p, v, op, here, pos)
  /\ \E j \in 1 .. Len(EmitOp(p, v, op, here).words) : k = pos + j

Covered(e, p, v) ==
  \A k \in 1 .. Len(e.words) : \E op, here, pos : WordOf(e, p, v, op, here, pos, k)

LEMMA CoverStep ==
  ASSUME NEW p, PlanOK(p), NEW v, v.base \in Int, NEW d, EmittedOK(d, 0), Covered(d, p, v),
         NEW here \in Int, input.container => here = v.base + Len(d.words),
         NEW op \in OpsIn(p), EmitOp(p, v, op, here).result = "Ok"
  PROVE  LET e == EmitOp(p, v, op, here)
             b == Bytes(d.words \o e.words, d.relocs \o e.relocs)
         IN /\ EmittedOK(b, 0) /\ Covered(b, p, v)
            /\ here + OpSize(op) \in Int
            /\ input.container => here + OpSize(op) = v.base + Len(b.words)
<1> DEFINE e == EmitOp(p, v, op, here)
           b == Bytes(d.words \o e.words, d.relocs \o e.relocs)
           n == Len(d.words)
<1>1. n \in Nat /\ OpOK(op)
  BY MemberFacts DEF EmittedOK, IsSeq
<1>2. EmittedOK(e, n) /\ OpSize(op) \in Nat /\ (input.container => OpSize(op) = Len(e.words))
  <2> HIDE DEF n
  <2> QED
    BY <1>1, OpLands DEF n
<1> HIDE DEF e
<1>3. /\ EmittedOK(b, 0) /\ Len(b.words) = n + Len(e.words)
      /\ \A k \in 1 .. n : b.words[k] = d.words[k] /\ RelocsOn(b, k) = RelocsOn(d, k)
      /\ \A j \in 1 .. Len(e.words) :
              /\ b.words[n + j] = e.words[j]
              /\ RelocsOn(b, n + j) = RelocsOn(e, n + j)
      /\ \A k \in 1 .. Len(b.words) : k \in 1 .. n \/ \E j \in 1 .. Len(e.words) : k = n + j
  <2>1. EmittedOK(e, Len(d.words))
    BY <1>2
  <2>2. EmittedOK(b, 0) /\ Len(b.words) = Len(d.words) + Len(e.words)
    BY <2>1, ConcatEmitted
  <2>3. /\ \A k \in 1 .. Len(d.words) : b.words[k] = d.words[k] /\ RelocsOn(b, k) = RelocsOn(d, k)
        /\ \A j \in 1 .. Len(e.words) :
              /\ b.words[Len(d.words) + j] = e.words[j]
              /\ RelocsOn(b, Len(d.words) + j) = RelocsOn(e, Len(d.words) + j)
        /\ \A k \in 1 .. Len(b.words) :
              k \in 1 .. Len(d.words) \/ \E j \in 1 .. Len(e.words) : k = Len(d.words) + j
    BY <2>1, ConcatRelocs
  <2> QED
    BY <2>2, <2>3
<1> HIDE DEF b
<1>4. Len(e.words) \in Nat
  BY <1>2 DEF EmittedOK, IsSeq
<1> DEFINE L == Len(e.words)
           M == Len(b.words)
<1>9. M = n + L /\ L \in Nat /\ n \in Nat
  BY <1>1, <1>3, <1>4
<1>5. ASSUME NEW o, NEW h, NEW pos, Lands(d, p, v, o, h, pos) PROVE Lands(b, p, v, o, h, pos)
  <2> DEFINE x == EmitOp(p, v, o, h)
  <2>1. /\ o \in OpsIn(p) /\ h \in Int /\ pos \in Nat /\ (input.container => h = v.base + pos)
        /\ x.result = "Ok" /\ EmittedOK(x, pos)
        /\ \A j \in 1 .. Len(x.words) : /\ pos + j \in 1 .. n
                                        /\ d.words[pos + j] = x.words[j]
                                        /\ RelocsOn(d, pos + j) = RelocsOn(x, pos + j)
    BY <1>5 DEF Lands
  <2> HIDE DEF x, n
  <2>4. \A k \in 1 .. n : k \in 1 .. M
    <3> HIDE DEF L, M
    <3> QED
      BY <1>9
  <2>2. \A k \in 1 .. n : k \in 1 .. Len(b.words)
    BY <2>4
  <2>3. \A j \in 1 .. Len(x.words) : /\ pos + j \in 1 .. Len(b.words)
                                     /\ b.words[pos + j] = x.words[j]
                                     /\ RelocsOn(b, pos + j) = RelocsOn(x, pos + j)
    BY <2>1, <2>2, <1>3
  <2> QED
    BY <2>1, <2>3 DEF Lands, x
<1>6. Lands(b, p, v, op, here, n)
  <2> HIDE DEF n, L, M
  <2>3. \A j \in 1 .. L : n + j \in 1 .. M
    BY <1>9
  <2>1. \A j \in 1 .. Len(e.words) : n + j \in 1 .. Len(b.words)
    BY <2>3 DEF L, M
  <2>2. /\ n \in Nat /\ (input.container => here = v.base + n) /\ e.result = "Ok"
        /\ EmittedOK(e, n)
        /\ \A j \in 1 .. Len(e.words) : /\ n + j \in 1 .. Len(b.words)
                                        /\ b.words[n + j] = e.words[j]
                                        /\ RelocsOn(b, n + j) = RelocsOn(e, n + j)
    BY <1>1, <1>2, <1>3, <2>1 DEF n, e
  <2> QED
    BY <2>2 DEF Lands, e
<1>7. Covered(b, p, v)
  <2> SUFFICES ASSUME NEW k \in 1 .. Len(b.words)
               PROVE  \E o, h, pos : WordOf(b, p, v, o, h, pos, k)
    BY DEF Covered
  <2>1. CASE k \in 1 .. n
    <3>1. PICK o, h, pos : WordOf(d, p, v, o, h, pos, k)
      BY <2>1 DEF Covered
    <3>2. WordOf(b, p, v, o, h, pos, k)
      BY <3>1, <1>5 DEF WordOf
    <3> QED
      BY <3>2
  <2>2. ASSUME NEW j \in 1 .. Len(e.words), k = n + j
        PROVE  \E o, h, pos : WordOf(b, p, v, o, h, pos, k)
    <3>1. WordOf(b, p, v, op, here, n, k)
      BY <2>2, <1>6 DEF WordOf, e
    <3> QED
      BY <3>1
  <2> QED
    BY <2>1, <2>2, <1>3
<1>8. /\ here + OpSize(op) \in Int
      /\ input.container => here + OpSize(op) = v.base + Len(b.words)
  <2>1. OpSize(op) \in Nat /\ (input.container => OpSize(op) = L /\ here = v.base + n)
    BY <1>2
  <2> HIDE DEF n, L, M
  <2>2. /\ here + OpSize(op) \in Int
        /\ input.container => here + OpSize(op) = v.base + M
    BY <1>9, <2>1
  <2> QED
    BY <2>2 DEF M
<1> QED
  BY <1>3, <1>7, <1>8 DEF b, e

LEMMA EmitCovered ==
  ASSUME NEW p, PlanOK(p), NEW v, v.base \in Int, emit(p, v).result = "Ok"
  PROVE  EmittedOK(emit(p, v), 0) /\ Covered(emit(p, v), p, v)
<1> DEFINE ops == FlattenSeq(p)
           L == Len(ops)
<1>1. L \in Nat /\ \A n \in 1 .. L : ops[n] \in OpsIn(p)
  BY FlattenOps, FlattenMembers DEF OpsOK, IsSeq
<1>2. PICK done : /\ done[0] = [at |-> v.base, bytes |-> Bytes(<<>>, <<>>)]
                  /\ emit(p, v) = done[L].bytes
                  /\ \A n \in 1 .. L : done[n] = EmitStep(p, v, ops, done[n - 1], n)
  BY <1>1, EmitSteps
<1> HIDE DEF ops, L
<1> DEFINE B(m) == done[m].bytes
           Fine(m) == /\ EmittedOK(B(m), 0) /\ Covered(B(m), p, v)
                      /\ done[m].at \in Int
                      /\ input.container => done[m].at = v.base + Len(B(m).words)
           Good == {m \in Nat : (m <= L /\ B(m).result = "Ok") => Fine(m)}
<1>3. 0 \in Good
  <2>1. B(0) = Bytes(<<>>, <<>>) /\ done[0].at = v.base
    BY <1>2
  <2>2. IsSeq(<<>>) /\ Len(<<>>) = 0
    BY PairSeq
  <2>3. EmittedOK(B(0), 0) /\ B(0).words = <<>>
    BY <2>1, <2>2, NoRelocs
  <2>4. v.base = v.base + 0 /\ \A k \in 1 .. 0 : FALSE
    OBVIOUS
  <2>5. Covered(B(0), p, v)
    BY <2>2, <2>3, <2>4 DEF Covered
  <2> HIDE DEF B
  <2> QED
    BY <2>2, <2>3, <2>1, <2>4, <2>5
<1>4. ASSUME NEW m \in Good PROVE m + 1 \in Good
  <2> DEFINE n == m + 1
             d == B(m)
             op == ops[n]
             e == EmitOp(p, v, op, done[m].at)
  <2>1. m \in Nat /\ n \in Nat /\ n - 1 = m /\ n # 0
    OBVIOUS
  <2> SUFFICES ASSUME n <= L, B(n).result = "Ok" PROVE Fine(n)
    BY <2>1
  <2>2. m <= L /\ n \in 1 .. L
    BY <1>1, <2>1
  <2>3. done[n] = EmitStep(p, v, ops, done[m], n)
    BY <1>2, <2>1, <2>2
  <2>4. /\ done[n].at = done[m].at + OpSize(op)
        /\ B(n) = IF d.result # "Ok" THEN d ELSE IF e.result # "Ok" THEN e
                  ELSE Bytes(d.words \o e.words, d.relocs \o e.relocs)
    BY <2>3 DEF EmitStep
  <2> HIDE DEF e, op, n
  <2>5. d.result = "Ok" /\ e.result = "Ok"
    BY <2>4
  <2>6. /\ EmittedOK(d, 0) /\ Covered(d, p, v) /\ done[m].at \in Int
        /\ input.container => done[m].at = v.base + Len(d.words)
    BY <2>2, <2>5
  <2> HIDE DEF B
  <2>7. B(n) = Bytes(d.words \o e.words, d.relocs \o e.relocs)
    BY <2>4, <2>5
  <2>8. op \in OpsIn(p)
    BY <1>1, <2>2 DEF op
  <2> DEFINE b == Bytes(d.words \o e.words, d.relocs \o e.relocs)
  <2> HIDE DEF d
  <2>9. /\ EmittedOK(b, 0) /\ Covered(b, p, v)
        /\ done[m].at + OpSize(op) \in Int
        /\ input.container => done[m].at + OpSize(op) = v.base + Len(b.words)
    BY <2>5, <2>6, <2>8, CoverStep DEF e
  <2> HIDE DEF b
  <2>10. B(n) = b
    BY <2>7 DEF b
  <2> QED
    BY <2>4, <2>9, <2>10
<1> HIDE DEF Good
<1>5. Good = Nat
  <2>1. Good \in SUBSET Nat
    BY DEF Good
  <2> QED
    BY <1>3, <1>4, <2>1, NatInduct
<1>6. Fine(L)
  <2>1. L \in Good /\ L <= L /\ B(L).result = "Ok"
    BY <1>1, <1>2, <1>5
  <2> HIDE DEF Fine, B
  <2> QED
    BY <2>1 DEF Good
<1> QED
  BY <1>2, <1>6
-----------------------------------------------------------------------------
(* Where a target is.                                                      *)

SizeStep(ops, q, n) == q + OpSize(ops[n])

LEMMA SizeSteps ==
  ASSUME NEW ops, Len(ops) \in Nat
  PROVE  \E size : /\ size[0] = 0 /\ SizeOf(ops) = size[Len(ops)]
                   /\ \A n \in 1 .. Len(ops) : size[n] = SizeStep(ops, size[n - 1], n)
<1> DEFINE L == Len(ops)
           step(q, n) == SizeStep(ops, q, n)
           Rec(f, m) == \A n \in 0 .. m :
                          f[n] = IF n = 0 THEN 0 ELSE step(f[n - 1], n)
           Ok1 == {m \in Nat : m <= L => \E f : f = [n \in 0 .. m |-> f[n]] /\ Rec(f, m)}
<1>1. L \in Nat
  OBVIOUS
<1>2. Ok1 = Nat
  <2>1. 0 \in Ok1
    <3> DEFINE g == [n \in 0 .. 0 |-> 0]
    <3> HIDE DEF step, L
    <3>1. g = [n \in 0 .. 0 |-> g[n]]
      BY Zenon
    <3>2. 0 \in 0 .. 0 /\ \A n \in 0 .. 0 : n = 0
      OBVIOUS
    <3>3. Rec(g, 0)
      BY <3>2
    <3> QED
      BY <3>1, <3>3
  <2>2. ASSUME NEW m \in Ok1 PROVE m + 1 \in Ok1
    <3> HIDE DEF step, L
    <3> SUFFICES ASSUME m + 1 <= L
                 PROVE  \E g : g = [n \in 0 .. (m + 1) |-> g[n]] /\ Rec(g, m + 1)
      OBVIOUS
    <3>1. m \in Nat /\ m <= L
      BY <1>1
    <3>2. PICK f : f = [n \in 0 .. m |-> f[n]] /\ Rec(f, m)
      BY <3>1
    <3> DEFINE g == [n \in 0 .. (m + 1) |-> IF n = m + 1 THEN step(f[m], m + 1) ELSE f[n]]
    <3>3. Rec(g, m + 1)
      <4> SUFFICES ASSUME NEW n \in 0 .. (m + 1)
                   PROVE  g[n] = IF n = 0 THEN 0 ELSE step(g[n - 1], n)
        OBVIOUS
      <4>1. CASE n = m + 1
        <5>1. n # 0 /\ n - 1 = m /\ m \in 0 .. (m + 1) /\ m # m + 1
          BY <4>1, <3>1
        <5> QED
          BY <4>1, <5>1
      <4>2. CASE n # m + 1
        <5>1. n \in 0 .. m /\ (n # 0 => n - 1 \in 0 .. (m + 1) /\ n - 1 # m + 1)
          BY <4>2, <3>1
        <5>2. g[n] = f[n] /\ (n # 0 => g[n - 1] = f[n - 1])
          BY <4>2, <5>1
        <5> QED
          BY <5>1, <5>2, <3>2
      <4> QED
        BY <4>1, <4>2
    <3>4. g = [n \in 0 .. (m + 1) |-> g[n]]
      BY Zenon
    <3> QED
      BY <3>3, <3>4
  <2> HIDE DEF Ok1
  <2>3. Ok1 \in SUBSET Nat
    BY DEF Ok1
  <2> QED
    BY <2>1, <2>2, <2>3, NatInduct
<1> DEFINE IsSize(f) == f = [n \in 0 .. L |-> IF n = 0 THEN 0 ELSE step(f[n - 1], n)]
           size == CHOOSE f : IsSize(f)
<1>3. IsSize(size)
  <2>1. L \in Nat /\ L <= L
    BY <1>1
  <2>2. \E f : f = [n \in 0 .. L |-> f[n]] /\ Rec(f, L)
    <3> HIDE DEF L, Rec
    <3> QED
      BY <1>2, <2>1
  <2>3. PICK f : f = [n \in 0 .. L |-> f[n]] /\ Rec(f, L)
    BY <2>2
  <2> HIDE DEF step
  <2>4. IsSize(f)
    BY <2>3, Zenon
  <2> HIDE DEF IsSize
  <2> QED
    BY <2>4
<1>4. \A n \in 0 .. L : size[n] = IF n = 0 THEN 0 ELSE step(size[n - 1], n)
  <2> HIDE DEF step, size
  <2> QED
    BY <1>3
<1>5. SizeOf(ops) = size[L]
  BY Zenon DEF SizeOf, SizeStep
<1> HIDE DEF size, IsSize
<1>6. size[0] = 0 /\ \A n \in 1 .. L : size[n] = step(size[n - 1], n)
  <2>1. 0 \in 0 .. L /\ \A n \in 1 .. L : n \in 0 .. L /\ n # 0
    BY <1>1
  <2> HIDE DEF step, L
  <2> QED
    BY <1>4, <2>1
<1> HIDE DEF L
<1> QED
  BY <1>5, <1>6 DEF L

LEMMA SizeInNat ==
  ASSUME NEW ops, OpsOK(ops)
  PROVE  SizeOf(ops) \in Nat
<1> DEFINE L == Len(ops)
<1>1. L \in Nat /\ \A n \in 1 .. L : OpSize(ops[n]) \in Nat
  <2>1. L \in Nat /\ \A n \in 1 .. L : OpOK(ops[n])
    BY DEF OpsOK, IsSeq
  <2>2. \A op : OpOK(op) => OpSize(op) \in Nat
    BY DEF OpOK, InsnOK, MacroOK, OpSize
  <2> QED
    BY <2>1, <2>2
<1>2. PICK size : /\ size[0] = 0 /\ SizeOf(ops) = size[L]
                  /\ \A n \in 1 .. L : size[n] = SizeStep(ops, size[n - 1], n)
  BY <1>1, SizeSteps
<1> HIDE DEF L
<1> DEFINE Good == {m \in Nat : m <= L => size[m] \in Nat}
<1>3. 0 \in Good
  BY <1>2
<1>4. ASSUME NEW m \in Good PROVE m + 1 \in Good
  <2> SUFFICES ASSUME m + 1 <= L PROVE size[m + 1] \in Nat
    OBVIOUS
  <2>1. m \in Nat /\ m <= L /\ m + 1 \in 1 .. L /\ (m + 1) - 1 = m
    BY <1>1
  <2>2. size[m + 1] = size[m] + OpSize(ops[m + 1])
    BY <2>1, <1>2 DEF SizeStep
  <2> QED
    BY <2>1, <2>2, <1>1
<1> HIDE DEF Good
<1>5. Good = Nat
  <2>1. Good \in SUBSET Nat
    BY DEF Good
  <2> QED
    BY <1>3, <1>4, <2>1, NatInduct
<1>6. L \in Good /\ L <= L
  BY <1>1, <1>5
<1> QED
  BY <1>2, <1>6 DEF Good

LEMMA BlockInInt ==
  ASSUME NEW p, PlanOK(p), NEW v, v.base \in Int, NEW b \in DOMAIN p
  PROVE  BlockAddress(p, v, b) \in Int
<1> DEFINE q == SubSeq(p, 1, b - 1)
<1>1. Len(p) \in Nat /\ DOMAIN p = 1 .. Len(p) /\ b \in 1 .. Len(p)
  BY DEF PlanOK, IsSeq
<1>4. IsSeq(q) /\ Len(q) = b - 1 /\ \A k \in 1 .. (b - 1) : q[k] = p[k]
  <2>1. IsSeq(p)
    BY DEF PlanOK
  <2> QED
    BY <1>1, <2>1, SplitSeq
<1> HIDE DEF q
<1>5. \A k \in 1 .. (b - 1) : k \in 1 .. Len(p)
  BY <1>1
<1>6. PlanOK(q)
  BY <1>4, <1>5 DEF PlanOK
<1>7. SizeOf(FlattenSeq(q)) \in Nat
  BY <1>6, FlattenOps, SizeInNat
<1> QED
  BY <1>7 DEF BlockAddress, q

\* A target of the container or of the plan.
TargetOK(t) ==
  /\ t = [kind |-> t.kind, v |-> t.v] /\ t.kind \in {"block", "symbol", "absolute"}
  /\ t.v \in Int /\ (t.kind = "symbol" => t.v \in SymbolIds)

LEMMA TargetInInt ==
  ASSUME SliceInv, NEW p, PlanOK(p), NEW v, v.base \in Int, v.shift \in Int,
         NEW t, TargetOK(t)
  PROVE  resolve_target(p, v, t) \in Int
<1>1. t.kind \in {"block", "symbol", "absolute"} /\ t.v \in Int
  BY DEF TargetOK
<1>2. CASE t.kind = "block"
  <2>1. resolve_target(p, v, t) = IF t.v \in DOMAIN p THEN BlockAddress(p, v, t.v) ELSE -1
    BY <1>2 DEF resolve_target
  <2> QED
    BY <2>1, BlockInInt
<1>3. CASE t.kind = "absolute"
  BY <1>1, <1>3 DEF resolve_target
<1>4. CASE t.kind = "symbol"
  <2>1. InputOK(input) /\ t.v \in SymbolIds
    BY <1>4, PlanAssumption DEF SliceInv, TargetOK
  <2>2. Symbol(t.v).address \in Nat /\ Symbol(t.v).stub \in Nat \cup {-1}
    BY <2>1 DEF InputOK, Symbol
  <2>3. callable_address_of_symbol(v, t.v) \in Int
    BY <2>2 DEF callable_address_of_symbol, Moved
  <2>4. resolve_target(p, v, t) =
          IF input.container THEN callable_address_of_symbol(v, t.v) ELSE -1
    BY <1>4 DEF resolve_target
  <2> QED
    BY <2>3, <2>4
<1> QED
  BY <1>1, <1>2, <1>3, <1>4

LEMMA BumpOK ==
  ASSUME SliceInv, NEW t, TargetOK(t)
  PROVE  /\ TargetOK(Bump(t)) /\ Bump(t).kind = t.kind /\ (t.kind = "symbol" => Bump(t).v = t.v)
         /\ Delta = 0 => Bump(t) = t
<1>1. /\ t = [kind |-> t.kind, v |-> t.v] /\ t.v \in Int
      /\ t.kind \in {"block", "symbol", "absolute"}
  BY DEF TargetOK
<1>2. CASE t.kind = "absolute" /\ t.v >= input.base
  <2>1. Bump(t) = [kind |-> "absolute", v |-> t.v + Delta]
    BY <1>2 DEF Bump, At
  <2>2. t.v + Delta \in Int /\ (Delta = 0 => t.v + Delta = t.v)
    BY <1>1, CommitAssumption
  <2>3. /\ Bump(t) = [kind |-> Bump(t).kind, v |-> Bump(t).v]
        /\ Bump(t).kind = "absolute" /\ Bump(t).v \in Int
    BY <2>1, <2>2
  <2>4. Delta = 0 => Bump(t) = t
    BY <1>1, <1>2, <2>1, <2>2
  <2> QED
    BY <1>2, <2>3, <2>4 DEF TargetOK
<1>3. CASE ~(t.kind = "absolute" /\ t.v >= input.base)
  BY <1>3 DEF Bump
<1> QED
  BY <1>2, <1>3
-----------------------------------------------------------------------------
(* What the words of an op refer to.                                       *)

\* The address of a target, or its symbol.
Refs(p, v, t) ==
  {<<"address", resolve_target(p, v, t), 0>>}
  \cup (IF t.kind = "symbol" THEN {<<"symbol", t.v, 0>>} ELSE {})

\* A word and the relocations on it.
RefersBy(R, w) ==
  IF R = {} THEN <<"address", w.val, 0>>
  ELSE LET r == CHOOSE r \in R : TRUE IN <<"symbol", r.symbol, r.addend>>

LEMMA OnBytes ==
  ASSUME NEW words, NEW relocs, NEW k
  PROVE  RelocsOn(Bytes(words, relocs), k) =
           {s \in {relocs[n] : n \in DOMAIN relocs} : s.offset = k - 1}
<1>1. Bytes(words, relocs).relocs = relocs
  BY DEF Bytes
<1> QED
  BY <1>1 DEF RelocsOn

LEMMA OnNone ==
  ASSUME NEW words, NEW k
  PROVE  RelocsOn(Bytes(words, <<>>), k) = {}
BY OnBytes

LEMMA OnOne ==
  ASSUME NEW words, NEW k, NEW q, q.offset = k - 1
  PROVE  RelocsOn(Bytes(words, <<q>>), k) = {q}
<1>1. {<<q>>[n] : n \in DOMAIN <<q>>} = {q}
  OBVIOUS
<1>2. RelocsOn(Bytes(words, <<q>>), k) = {s \in {<<q>>[n] : n \in DOMAIN <<q>>} : s.offset = k - 1}
  BY OnBytes
<1> QED
  BY <1>1, <1>2

LEMMA OnTwo ==
  ASSUME NEW words, NEW k, NEW q, NEW r
  PROVE  RelocsOn(Bytes(words, <<q, r>>), k) = {s \in {q, r} : s.offset = k - 1}
<1>1. {<<q, r>>[n] : n \in DOMAIN <<q, r>>} = {q, r}
  OBVIOUS
<1>2. RelocsOn(Bytes(words, <<q, r>>), k) =
        {s \in {<<q, r>>[n] : n \in DOMAIN <<q, r>>} : s.offset = k - 1}
  BY OnBytes
<1> QED
  BY <1>1, <1>2

\* The symbol of a relocated target.
LEMMA SymbolOf ==
  ASSUME NEW t, TargetOK(t), NEW S, \A s \in S : t = At("symbol", s), S # {}
  PROVE  t.kind = "symbol" /\ LowestOf(S) = t.v
<1>1. \A s \in S : t.kind = "symbol" /\ t.v = s
  BY DEF At
<1>2. S = {t.v} /\ t.kind = "symbol" /\ t.v \in Nat
  BY <1>1, PlanAssumption DEF TargetOK
<1>3. LowestOf({t.v}) = t.v
  BY <1>2, LowestFacts
<1> QED
  BY <1>2, <1>3

LEMMA InsnForm ==
  ASSUME NEW o, InsnOK(o), NEW p, NEW v, v.base \in Int,
         NEW here \in Int, NEW pos \in Nat, input.container => here = v.base + pos,
         emit_instruction(p, v, o, here).result = "Ok"
  PROVE  LET x == emit_instruction(p, v, o, here) IN
         /\ Len(x.words) = 1 /\ x.words[1].src = o.orig
         /\ (o.ref # "none" /\ TargetOK(o.target)) =>
              RefersBy(RelocsOn(x, pos + 1), x.words[1]) \in Refs(p, v, o.target)
<1> DEFINE x == emit_instruction(p, v, o, here)
           t == o.target
           to == resolve_target(p, v, t)
           syms == InsnRelocs(v, o)
           w == Word(o, IF o.ref = "page" THEN Page(here) ELSE here)
           kind == IF o.ref = "page" THEN "AdrpPage21" ELSE "Branch"
           r == Reloc(here - v.base, kind, LowestOf(syms))
           Good(y) == /\ Len(y.words) = 1 /\ y.words[1].src = o.orig
                      /\ (o.ref # "none" /\ TargetOK(t)) =>
                           RefersBy(RelocsOn(y, pos + 1), y.words[1]) \in Refs(p, v, t)
<1>1. \A y : Failed(y).result = y
  BY DEF Failed
<1>2. \A val : Word(o, val).src = o.orig /\ Word(o, val).val = val
  BY DEF Word
<1>3. \A a : SourceWord(a).src = a
  BY DEF SourceWord
<1>4. \/ \E u : /\ x = Bytes(<<u>>, <<>>) /\ u.src = o.orig
                /\ o.ref # "none" => u.val = to
      \/ syms # {} /\ x = Bytes(<<w>>, <<r>>)
  <2>1. \/ x = Bytes(<<SourceWord(o.orig)>>, <<>>) /\ StillDecodes(p, v, o)
        \/ syms # {} /\ x = Bytes(<<w>>, <<r>>)
        \/ x = Bytes(<<Word(o, 0)>>, <<>>) /\ o.ref = "none"
        \/ x = Bytes(<<Word(o, to)>>, <<>>)
        \/ x = Failed("Layout") \/ x = Failed("Encode")
    BY DEF emit_instruction
  <2>2. StillDecodes(p, v, o) => (o.ref # "none" => SourceWord(o.orig).val = to)
    BY DEF StillDecodes
  <2> HIDE DEF x, to, syms, w, r
  <2>3. CASE x = Bytes(<<SourceWord(o.orig)>>, <<>>) /\ StillDecodes(p, v, o)
    BY <2>2, <2>3, <1>3
  <2>4. CASE x = Bytes(<<Word(o, 0)>>, <<>>) /\ o.ref = "none"
    BY <2>4, <1>2
  <2>5. CASE x = Bytes(<<Word(o, to)>>, <<>>)
    BY <2>5, <1>2
  <2> QED
    BY <2>1, <2>3, <2>4, <2>5, <1>1 DEF x
<1>5. ASSUME NEW u, u.src = o.orig, o.ref # "none" => u.val = to PROVE Good(Bytes(<<u>>, <<>>))
  <2> DEFINE y == Bytes(<<u>>, <<>>)
  <2>1. y.words = <<u>> /\ Len(<<u>>) = 1 /\ <<u>>[1] = u
    BY PairSeq DEF Bytes
  <2>2. RelocsOn(y, pos + 1) = {}
    BY OnNone
  <2> HIDE DEF y
  <2>3. o.ref # "none" => RefersBy({}, u) = <<"address", to, 0>>
    BY <1>5 DEF RefersBy
  <2>4. <<"address", to, 0>> \in Refs(p, v, t)
    BY DEF Refs
  <2> HIDE DEF to, t
  <2> QED
    BY <2>1, <2>2, <2>3, <2>4, <1>5 DEF y
<1>6. ASSUME syms # {} PROVE Good(Bytes(<<w>>, <<r>>))
  <2> DEFINE y == Bytes(<<w>>, <<r>>)
  <2>1. input.container /\ \A s \in syms : t = At("symbol", s)
    BY <1>6 DEF InsnRelocs
  <2>2. TargetOK(t) => t.kind = "symbol" /\ LowestOf(syms) = t.v
    <3> HIDE DEF syms
    <3> QED
      BY <1>6, <2>1, SymbolOf
  <2>3. r.offset = here - v.base /\ (TargetOK(t) => r.symbol = t.v) /\ r.addend = 0
    BY <2>2 DEF Reloc
  <2>4. r.offset = (pos + 1) - 1
    BY <2>1, <2>3
  <2>5. w.src = o.orig
    BY <1>2
  <2> HIDE DEF w, r
  <2>6. y.words = <<w>> /\ Len(<<w>>) = 1 /\ <<w>>[1] = w
    BY PairSeq DEF Bytes
  <2>7. RelocsOn(y, pos + 1) = {r}
    <3> DEFINE k == pos + 1
    <3>1. r.offset = k - 1
      BY <2>4
    <3> HIDE DEF k, y
    <3>2. RelocsOn(Bytes(<<w>>, <<r>>), k) = {r}
      BY <3>1, OnOne
    <3> QED
      BY <3>2 DEF k, y
  <2> HIDE DEF y
  <2>8. TargetOK(t) => RefersBy({r}, w) = <<"symbol", t.v, 0>>
    BY <2>3 DEF RefersBy
  <2>9. TargetOK(t) => <<"symbol", t.v, 0>> \in Refs(p, v, t)
    BY <2>2 DEF Refs
  <2> HIDE DEF t
  <2> QED
    BY <2>5, <2>6, <2>7, <2>8, <2>9 DEF y
<1> HIDE DEF Good, w, r, syms, to, x
<1>7. Good(x)
  BY <1>2, <1>3, <1>4, <1>5, <1>6
<1> QED
  BY <1>7 DEF Good, x

Folded(v, m) == m.kind = "AccessValue" /\ MacroRelocs(v, m) = {}

\* Both words are relocated against the symbol of the target.
Symbolic(v, m, x, pos) ==
  /\ MacroRelocs(v, m) # {} /\ m.target.kind = "symbol"
  /\ \A j \in 1 .. 2 : \E r : /\ RelocsOn(x, pos + j) = {r}
                              /\ r.symbol = m.target.v /\ r.addend = 0

Plain(p, v, m, x, pos) ==
  /\ MacroRelocs(v, m) = {}
  /\ RelocsOn(x, pos + 1) = {} /\ RelocsOn(x, pos + 2) = {}
  /\ x.words[1].val = Page(resolve_target(p, v, m.target))
  /\ x.words[2].imm = resolve_target(p, v, m.target) % PageSize

LEMMA PairForm ==
  ASSUME input.container, NEW m, MacroOK(m), TargetOK(m.target), NEW v, v.base \in Int,
         NEW pos \in Nat, NEW here \in Int, here = v.base + pos, MacroRelocs(v, m) # {}, NEW words, NEW kind
  PROVE  Symbolic(v, m, Bytes(words, PairRelocs(m, here - v.base, kind,
                                                LowestOf(MacroRelocs(v, m)))), pos)
<1> DEFINE s == LowestOf(MacroRelocs(v, m))
           k == here - v.base
           q == Reloc(k, "AdrpPage21", s)
           r == Reloc(k + m.originals[1].size, kind, s)
           x == Bytes(words, <<q, r>>)
<1>1. m.originals[1].size = 1 /\ k = pos
  BY DEF MacroOK, InsnOK
<1>2. m.target.kind = "symbol" /\ s = m.target.v
  <2> DEFINE S == MacroRelocs(v, m)
  <2>1. S # {} /\ \A y \in S : m.target = At("symbol", y)
    BY DEF MacroRelocs
  <2> HIDE DEF S
  <2>2. m.target.kind = "symbol" /\ LowestOf(S) = m.target.v
    BY <2>1, SymbolOf
  <2> QED
    BY <2>2 DEF S
<1>3. /\ q.offset = pos /\ q.symbol = s /\ q.addend = 0
      /\ r.offset = pos + 1 /\ r.symbol = s /\ r.addend = 0
  BY <1>1 DEF Reloc
<1>4. PairRelocs(m, k, kind, s) = <<q, r>>
  BY DEF PairRelocs
<1> HIDE DEF q, r, s, k
<1>5. ASSUME NEW j \in 1 .. 2
      PROVE  \E u : RelocsOn(x, pos + j) = {u} /\ u.symbol = m.target.v /\ u.addend = 0
  <2> DEFINE K == pos + j
  <2>1. \/ q.offset = K - 1 /\ r.offset # K - 1
        \/ q.offset # K - 1 /\ r.offset = K - 1
    BY <1>3
  <2> HIDE DEF K
  <2>2. RelocsOn(x, K) = {u \in {q, r} : u.offset = K - 1}
    BY OnTwo
  <2> HIDE DEF x
  <2>3. RelocsOn(x, K) = {q} \/ RelocsOn(x, K) = {r}
    BY <2>1, <2>2
  <2> QED
    BY <2>3, <1>2, <1>3 DEF K
<1>6. Symbolic(v, m, x, pos)
  BY <1>2, <1>5 DEF Symbolic
<1> QED
  BY <1>4, <1>6 DEF s, k

\* The words of a macro that is copied from its source.
LEMMA VerbatimForm ==
  ASSUME NEW p, NEW v, NEW m, NEW here, verbatim_macro(p, v, m, here)
  PROVE  LET x == emit_macro(p, v, m, here) IN
         /\ \A j \in 1 .. 2 : x.words[j] = SourceWord(m.originals[j].orig)
         /\ \A k : RelocsOn(x, k) = {}
<1> DEFINE f == [j \in 1 .. 2 |-> SourceWord(m.originals[j].orig)]
           x == emit_macro(p, v, m, here)
<1>1. x = Bytes(f, <<>>)
  BY DEF emit_macro
<1>2. \A j \in 1 .. 2 : f[j] = SourceWord(m.originals[j].orig)
  OBVIOUS
<1> HIDE DEF f, x
<1>3. x.words = f
  BY <1>1 DEF Bytes
<1>4. \A k : RelocsOn(x, k) = {}
  BY <1>1, OnNone
<1> QED
  BY <1>2, <1>3, <1>4 DEF x

LEMMA MacroForm ==
  ASSUME NEW m, MacroOK(m), NEW p, NEW v, v.base \in Int,
         NEW here \in Int, NEW pos \in Nat, input.container => here = v.base + pos,
         emit_macro(p, v, m, here).result = "Ok"
  PROVE  LET x == emit_macro(p, v, m, here) IN
         /\ Len(x.words) = 2
         /\ x.words[1].src = m.originals[1].orig /\ x.words[2].src = m.originals[2].orig
         /\ TargetOK(m.target) =>
              verbatim_macro(p, v, m, here) \/ Folded(v, m) \/ Symbolic(v, m, x, pos) \/ Plain(p, v, m, x, pos)
<1> DEFINE e == emit_macro(p, v, m, here)
           syms == MacroRelocs(v, m)
           to == resolve_target(p, v, m.target)
           rel(kind) == PairRelocs(m, here - v.base, kind, LowestOf(syms))
           Sits(x) == /\ Len(x.words) = 2
                      /\ x.words[1].src = m.originals[1].orig /\ x.words[2].src = m.originals[2].orig
<1>1. \A x : Failed(x).result = x
  BY DEF Failed
<1>2. \A o, val : Word(o, val).src = o.orig /\ Word(o, val).val = val
  BY DEF Word
<1>3. \A a : SourceWord(a).src = a
  BY DEF SourceWord
<1>4. ASSUME NEW w, NEW u, w.src = m.originals[1].orig, u.src = m.originals[2].orig, NEW relocs
      PROVE  LET x == Bytes(<<w, u>>, relocs) IN Sits(x) /\ x.words[1] = w /\ x.words[2] = u
  <2>1. Bytes(<<w, u>>, relocs).words = <<w, u>>
    BY DEF Bytes
  <2>2. Len(<<w, u>>) = 2 /\ <<w, u>>[1] = w /\ <<w, u>>[2] = u
    BY PairSeq
  <2> QED
    BY <2>1, <2>2, <1>4
<1>5. ASSUME syms # {}, NEW words, NEW kind, TargetOK(m.target)
      PROVE  Symbolic(v, m, Bytes(words, rel(kind)), pos)
  <2>1. input.container
    BY <1>5 DEF MacroRelocs
  <2> QED
    BY <1>5, <2>1, PairForm
<1> HIDE DEF Sits
<1>6. CASE verbatim_macro(p, v, m, here)
  <2> DEFINE f == [i \in 1 .. 2 |-> SourceWord(m.originals[i].orig)]
  <2>1. e = Bytes(f, <<>>)
    BY <1>6 DEF emit_macro
  <2>2. e.words = f
    BY <2>1 DEF Bytes
  <2>3. f = [i \in 1 .. 2 |-> f[i]] /\ 1 \in 1 .. 2 /\ 2 \in 1 .. 2
    OBVIOUS
  <2>4. f[1] = SourceWord(m.originals[1].orig) /\ f[2] = SourceWord(m.originals[2].orig)
    BY <2>3
  <2> HIDE DEF f, e
  <2>5. Len(f) = 2
    BY <2>3, LenOfFunction
  <2>6. Sits(e)
    BY <2>2, <2>4, <2>5, <1>3 DEF Sits
  <2> QED
    BY <1>6, <2>6 DEF Sits, e
<1>7. CASE ~verbatim_macro(p, v, m, here) /\ m.kind = "LoadAddress"
  <2> DEFINE W(a) == Word(m.originals[1], Page(a))
             X(a) == [Word(m.originals[2], 0) EXCEPT !.mn = "add", !.imm = a % PageSize]
             X0(a) == [X(a) EXCEPT !.imm = 0]
  <2>1. e = emit_load_address(p, v, m, here)
    BY <1>7 DEF emit_macro
  <2>2. \A a : load_address_words(m, a) = <<W(a), X(a)>>
    BY DEF load_address_words
  <2>3. \A a : /\ W(a).src = m.originals[1].orig /\ W(a).val = Page(a)
               /\ X(a).src = m.originals[2].orig /\ X(a).imm = a % PageSize
               /\ X0(a).src = m.originals[2].orig
    <3> DEFINE u == Word(m.originals[2], 0)
    <3>1. u = [mn |-> m.originals[2].mn, rd |-> m.originals[2].rd, rn |-> m.originals[2].rn,
               imm |-> m.originals[2].imm, val |-> 0, src |-> m.originals[2].orig]
      BY DEF Word
    <3> HIDE DEF u
    <3>2. ASSUME NEW d
          PROVE  LET x == [u EXCEPT !.mn = "add", !.imm = d] IN
                 /\ x.imm = d /\ x.src = m.originals[2].orig
                 /\ [x EXCEPT !.imm = 0].src = m.originals[2].orig
      BY <3>1
    <3> QED
      BY <3>2, <1>2 DEF u
  <2>4. \A a : [load_address_words(m, a) EXCEPT ![2].imm = 0] = <<W(a), X0(a)>>
    <3> HIDE DEF W, X
    <3> QED
      BY <2>2
  <2> HIDE DEF W, X, X0
  <2>5. \/ syms # {} /\ e = Bytes(<<W(here), X0(here)>>, rel("AddPageOffset12"))
        \/ syms = {} /\ e = Bytes(<<W(to), X(to)>>, <<>>)
    <3>1. \/ syms # {} /\ e = Bytes(<<W(here), X0(here)>>, rel("AddPageOffset12"))
          \/ syms = {} /\ e = Bytes(<<W(to), X(to)>>, <<>>)
          \/ e = Failed("MalformedMacro")
      BY <2>1, <2>2, <2>4 DEF emit_load_address
    <3> QED
      BY <3>1, <1>1
  <2> HIDE DEF e
  <2>6. CASE syms # {} /\ e = Bytes(<<W(here), X0(here)>>, rel("AddPageOffset12"))
    <3>1. Sits(e)
      BY <2>3, <2>6, <1>4
    <3>2. TargetOK(m.target) => Symbolic(v, m, e, pos)
      <4> HIDE DEF syms, rel
      <4> QED
        BY <2>6, <1>5
    <3> QED
      BY <3>1, <3>2 DEF Sits, e
  <2>7. CASE syms = {} /\ e = Bytes(<<W(to), X(to)>>, <<>>)
    <3>1. Sits(e) /\ e.words[1] = W(to) /\ e.words[2] = X(to)
      BY <2>3, <2>7, <1>4
    <3>2. RelocsOn(e, pos + 1) = {} /\ RelocsOn(e, pos + 2) = {}
      BY <2>7, OnNone
    <3>3. Plain(p, v, m, e, pos)
      BY <2>3, <2>7, <3>1, <3>2 DEF Plain
    <3> QED
      BY <3>1, <3>3 DEF Sits, e
  <2> QED
    BY <2>5, <2>6, <2>7
<1>8. CASE ~verbatim_macro(p, v, m, here) /\ m.kind # "LoadAddress"
  <2> DEFINE W(page) == Word(m.originals[1], page)
             u == Word(m.originals[2], 0)
  <2>1. e = emit_access_value(p, v, m, here) /\ m.kind = "AccessValue"
    BY <1>8 DEF emit_macro, MacroOK
  <2>2. u.src = m.originals[2].orig /\ \A page : W(page).src = m.originals[1].orig
    BY <1>2
  <2>3. \/ syms # {} /\ e = Bytes(<<W(Page(here)), u>>, rel("LoadStorePageOffset12"))
        \/ syms = {} /\ e = Bytes(<<W(0), u>>, <<>>)
    <3>1. \/ syms # {} /\ e = Bytes(<<W(Page(here)), u>>, rel("LoadStorePageOffset12"))
          \/ syms = {} /\ e = Bytes(<<W(0), u>>, <<>>)
          \/ e = Failed("NoRelocationForMnemonic")
      BY <2>1 DEF emit_access_value
    <3> QED
      BY <3>1, <1>1
  <2> HIDE DEF W, u, e
  <2>4. CASE syms # {} /\ e = Bytes(<<W(Page(here)), u>>, rel("LoadStorePageOffset12"))
    <3>1. Sits(e)
      BY <2>2, <2>4, <1>4
    <3>2. TargetOK(m.target) => Symbolic(v, m, e, pos)
      <4> HIDE DEF syms, rel
      <4> QED
        BY <2>4, <1>5
    <3> QED
      BY <3>1, <3>2 DEF Sits, e
  <2>5. CASE syms = {} /\ e = Bytes(<<W(0), u>>, <<>>)
    <3>1. Sits(e)
      BY <2>2, <2>5, <1>4
    <3>2. Folded(v, m)
      BY <2>1, <2>5 DEF Folded
    <3> QED
      BY <3>1, <3>2 DEF Sits, e
  <2> QED
    BY <2>3, <2>4, <2>5
<1> QED
  BY <1>6, <1>7, <1>8

\* x is what the macro m emits at the address here, its first word the one after pos.
PairEmits(p, v, m, here, pos, x) ==
  /\ MacroOK(m) /\ v.base \in Int /\ here \in Int /\ pos \in Nat
  /\ input.container => here = v.base + pos
  /\ x = emit_macro(p, v, m, here) /\ x.result = "Ok"

LEMMA MacroFormOf ==
  ASSUME NEW p, NEW v, NEW m, NEW here, NEW pos, NEW x, PairEmits(p, v, m, here, pos, x)
  PROVE  /\ Len(x.words) = 2
         /\ x.words[1].src = m.originals[1].orig /\ x.words[2].src = m.originals[2].orig
         /\ TargetOK(m.target) =>
              verbatim_macro(p, v, m, here) \/ Folded(v, m) \/ Symbolic(v, m, x, pos) \/ Plain(p, v, m, x, pos)
<1> DEFINE z == emit_macro(p, v, m, here)
           C(y) == /\ Len(y.words) = 2
                   /\ y.words[1].src = m.originals[1].orig /\ y.words[2].src = m.originals[2].orig
                   /\ TargetOK(m.target) =>
                        verbatim_macro(p, v, m, here) \/ Folded(v, m) \/ Symbolic(v, m, y, pos) \/ Plain(p, v, m, y, pos)
<1>1. x = z
  BY DEF PairEmits
<1>2. /\ MacroOK(m) /\ v.base \in Int /\ here \in Int /\ pos \in Nat
      /\ input.container => here = v.base + pos
      /\ emit_macro(p, v, m, here).result = "Ok"
  BY DEF PairEmits
<1>3. C(z)
  BY <1>2, MacroForm, Zenon
<1> HIDE DEF C, z
<1>4. C(x)
  BY <1>1, <1>3
<1> QED
  BY <1>4 DEF C

LEMMA WordSource ==
  ASSUME NEW p, PlanOK(p), NEW v, v.base \in Int, NEW e, NEW op, NEW here, NEW pos, NEW k,
         WordOf(e, p, v, op, here, pos, k)
  PROVE  e.words[k].src \in OriginalAddresses(op) /\ OpOK(op)
<1> DEFINE x == EmitOp(p, v, op, here)
<1>1. /\ op \in OpsIn(p) /\ here \in Int /\ pos \in Nat /\ (input.container => here = v.base + pos)
      /\ x.result = "Ok"
  BY DEF WordOf, Lands
<1>2. PICK j \in 1 .. Len(x.words) : e.words[k] = x.words[j]
  BY DEF WordOf, Lands
<1>3. OpOK(op)
  BY <1>1, MemberFacts
<1>4. CASE InsnOK(op)
  <2>1. op.op = "insn"
    BY <1>4 DEF InsnOK
  <2>2. x = emit_instruction(p, v, op, here)
    BY <2>1 DEF EmitOp
  <2> HIDE DEF x
  <2>3. Len(x.words) = 1 /\ x.words[1].src = op.orig
    BY <1>1, <1>4, <2>2, InsnForm
  <2>4. j = 1
    BY <2>3
  <2> QED
    BY <1>2, <1>3, <2>1, <2>3, <2>4 DEF OriginalAddresses
<1>5. CASE MacroOK(op)
  <2>1. op.op = "macro"
    BY <1>5 DEF MacroOK
  <2>2. x = emit_macro(p, v, op, here)
    BY <2>1 DEF EmitOp
  <2> HIDE DEF x
  <2>5. PairEmits(p, v, op, here, pos, x)
    BY <1>1, <1>5, <2>2 DEF PairEmits
  <2>3. /\ Len(x.words) = 2
        /\ x.words[1].src = op.originals[1].orig /\ x.words[2].src = op.originals[2].orig
    BY <2>5, MacroFormOf
  <2>4. j = 1 \/ j = 2
    BY <2>3
  <2> QED
    BY <1>2, <1>3, <2>1, <2>3, <2>4 DEF OriginalAddresses
<1> QED
  BY <1>3, <1>4, <1>5 DEF OpOK

LEMMA BranchWord ==
  ASSUME NEW p, PlanOK(p), NEW v, v.base \in Int, NEW e, Covered(e, p, v),
         NEW t, TargetOK(t), NEW a \in Nat, BranchAt(p, a, t),
         NEW k \in 1 .. Len(e.words), e.words[k].src = a
  PROVE  NamedBranch(e, k) \in Refs(p, v, t)
<1>1. PICK op, here, pos : WordOf(e, p, v, op, here, pos, k)
  BY DEF Covered
<1> DEFINE x == EmitOp(p, v, op, here)
<1>2. a \in Source(op) /\ OpOK(op)
  BY <1>1, WordSource DEF Source
<1>3. /\ op \in OpsIn(p) /\ here \in Int /\ pos \in Nat /\ (input.container => here = v.base + pos)
      /\ x.result = "Ok"
  BY <1>1 DEF WordOf, Lands
<1>4. PICK j \in 1 .. Len(x.words) :
        k = pos + j /\ e.words[k] = x.words[j] /\ RelocsOn(e, k) = RelocsOn(x, pos + j)
  BY <1>1 DEF WordOf, Lands
<1>5. op.op = "insn" /\ op.ref # "none" /\ op.target = t
  BY <1>2, <1>3 DEF BranchAt
<1>6. InsnOK(op) /\ x = emit_instruction(p, v, op, here)
  BY <1>2, <1>5, SourceFacts DEF EmitOp
<1>7. Len(x.words) = 1 /\ RefersBy(RelocsOn(x, pos + 1), x.words[1]) \in Refs(p, v, t)
  BY <1>3, <1>5, <1>6, InsnForm
<1>8. j = 1
  BY <1>7
<1>9. NamedBranch(e, k) = RefersBy(RelocsOn(e, k), e.words[k])
  BY DEF NamedBranch, RefersBy
<1> QED
  BY <1>4, <1>7, <1>8, <1>9

\* A word of a macro, the first or the second.
LEMMA MacroWord ==
  ASSUME NEW p, PlanOK(p), NEW v, v.base \in Int, NEW e, Covered(e, p, v),
         NEW m \in OpsIn(p), m.op = "macro", NEW k \in 1 .. Len(e.words), NEW i \in 1 .. 2,
         e.words[k].src = m.originals[i].orig
  PROVE  \E here, pos : Lands(e, p, v, m, here, pos) /\ k = pos + i
<1>1. PICK op, here, pos : WordOf(e, p, v, op, here, pos, k)
  BY DEF Covered
<1> DEFINE x == EmitOp(p, v, m, here)
           a == m.originals[i].orig
<1>2. OpOK(m) /\ MacroOK(m)
  BY MemberFacts, SourceFacts
<1>3. i = 1 \/ i = 2
  OBVIOUS
<1>4. a \in Nat /\ m.originals[1].orig # m.originals[2].orig /\ a \in Source(m)
  BY <1>2, <1>3 DEF MacroOK, Source, OriginalAddresses
<1>5. e.words[k].src = a
  OBVIOUS
<1> HIDE DEF a
<1>6. a \in Source(op) /\ op \in OpsIn(p)
  BY <1>1, <1>4, <1>5, WordSource DEF Source, WordOf, Lands
<1>7. op = m
  BY <1>4, <1>6, OneOp
<1>8. Lands(e, p, v, m, here, pos) /\ here \in Int /\ pos \in Nat
      /\ (input.container => here = v.base + pos) /\ x.result = "Ok"
  BY <1>1, <1>7 DEF WordOf, Lands
<1>9. PICK j \in 1 .. Len(x.words) : k = pos + j /\ e.words[k] = x.words[j]
  BY <1>1, <1>7 DEF WordOf, Lands
<1>10. x = emit_macro(p, v, m, here)
  BY DEF EmitOp
<1> HIDE DEF x
<1>14. PairEmits(p, v, m, here, pos, x)
  BY <1>2, <1>8, <1>10 DEF PairEmits
<1>11. /\ Len(x.words) = 2
       /\ x.words[1].src = m.originals[1].orig /\ x.words[2].src = m.originals[2].orig
  BY <1>14, MacroFormOf
<1>12. j = 1 \/ j = 2
  BY <1>11
<1>13. j = i
  BY <1>3, <1>4, <1>5, <1>9, <1>11, <1>12 DEF a
<1> QED
  BY <1>8, <1>9, <1>13

\* The first word of m lies at its source address and is the source's.
HomeWord(e, v, m) ==
  \E k \in 1 .. Len(e.words) : /\ v.base + k - 1 = m.originals[1].orig
                               /\ e.words[k] = SourceWord(m.originals[1].orig)

\* What its two words and their relocations are where it lands.
Landed(e, p, v, m, here, pos, x) ==
  /\ e.words[pos + 1] = x.words[1] /\ RelocsOn(e, pos + 1) = RelocsOn(x, pos + 1)
  /\ e.words[pos + 2] = x.words[2] /\ RelocsOn(e, pos + 2) = RelocsOn(x, pos + 2)
  /\ verbatim_macro(p, v, m, here) \/ Folded(v, m) \/ Symbolic(v, m, x, pos) \/ Plain(p, v, m, x, pos)

LEMMA MacroLands ==
  ASSUME NEW p, PlanOK(p), NEW v, v.base \in Int, NEW e, NEW m \in OpsIn(p), m.op = "macro",
         TargetOK(m.target), NEW here, NEW pos, Lands(e, p, v, m, here, pos)
  PROVE  Landed(e, p, v, m, here, pos, emit_macro(p, v, m, here))
<1> DEFINE x == emit_macro(p, v, m, here)
<1>1. MacroOK(m)
  BY MemberFacts, SourceFacts
<1>2. EmitOp(p, v, m, here) = x
  BY DEF EmitOp
<1>3. here \in Int /\ pos \in Nat /\ (input.container => here = v.base + pos) /\ x.result = "Ok"
  BY <1>2 DEF Lands
<1>9. \A j \in 1 .. Len(x.words) : /\ pos + j \in 1 .. Len(e.words)
                                      /\ e.words[pos + j] = x.words[j]
                                      /\ RelocsOn(e, pos + j) = RelocsOn(x, pos + j)
  BY <1>2 DEF Lands
<1>4. /\ Len(x.words) = 2
      /\ verbatim_macro(p, v, m, here) \/ Folded(v, m) \/ Symbolic(v, m, x, pos) \/ Plain(p, v, m, x, pos)
  <2>1. PairEmits(p, v, m, here, pos, x)
    BY <1>1, <1>3 DEF PairEmits
  <2> HIDE DEF x
  <2> QED
    BY <2>1, MacroFormOf
<1> HIDE DEF x
<1>5. 1 \in 1 .. Len(x.words) /\ 2 \in 1 .. Len(x.words)
  BY <1>4
<1> QED
  BY <1>4, <1>5, <1>9 DEF x, Landed

\* A macro whose words are copied from its source lies at its own address.
CopiedTo(e, p, v, m, here, pos) == Lands(e, p, v, m, here, pos) /\ verbatim_macro(p, v, m, here)

LEMMA CopiedFacts ==
  ASSUME NEW p, PlanOK(p), NEW v, v.base \in Int, NEW e, NEW m \in OpsIn(p), m.op = "macro",
         NEW here, NEW pos, CopiedTo(e, p, v, m, here, pos)
  PROVE  /\ input.container /\ m.originals[1].orig = v.base + pos /\ pos \in Nat
         /\ pos + 1 \in 1 .. Len(e.words) /\ e.words[pos + 1] = SourceWord(m.originals[1].orig)
         /\ pos + 2 \in 1 .. Len(e.words) /\ e.words[pos + 2] = SourceWord(m.originals[2].orig)
         /\ RelocsOn(e, pos + 1) = {} /\ RelocsOn(e, pos + 2) = {}
         /\ StillDecodes(p, v, m.originals[1])
<1> DEFINE x == emit_macro(p, v, m, here)
<1>1. MacroOK(m)
  BY MemberFacts, SourceFacts
<1>2. EmitOp(p, v, m, here) = x /\ verbatim_macro(p, v, m, here)
  BY DEF EmitOp, CopiedTo
<1>3. /\ here \in Int /\ pos \in Nat /\ (input.container => here = v.base + pos) /\ x.result = "Ok"
      /\ \A j \in 1 .. Len(x.words) : /\ pos + j \in 1 .. Len(e.words)
                                      /\ e.words[pos + j] = x.words[j]
                                      /\ RelocsOn(e, pos + j) = RelocsOn(x, pos + j)
  BY <1>2 DEF CopiedTo, Lands
<1>4. input.container /\ here = m.originals[1].orig
  BY <1>2 DEF verbatim_macro
<1>5. /\ \A j \in 1 .. 2 : x.words[j] = SourceWord(m.originals[j].orig)
      /\ \A k : RelocsOn(x, k) = {}
  BY <1>2, VerbatimForm
<1> HIDE DEF x
<1>6. Len(x.words) = 2
  <2>1. PairEmits(p, v, m, here, pos, x)
    BY <1>1, <1>3 DEF PairEmits, x
  <2> QED
    BY <2>1, MacroFormOf
<1>7. 1 \in 1 .. 2 /\ 2 \in 1 .. 2
  OBVIOUS
<1>8. StillDecodes(p, v, m.originals[1])
  BY <1>2, <1>7 DEF verbatim_macro
<1> QED
  BY <1>3, <1>4, <1>5, <1>6, <1>7, <1>8

LEMMA CopiedHome ==
  ASSUME NEW p, PlanOK(p), NEW v, v.base \in Int, NEW e, NEW m \in OpsIn(p), m.op = "macro",
         NEW here, NEW pos, CopiedTo(e, p, v, m, here, pos)
  PROVE  HomeWord(e, v, m)
<1>1. /\ m.originals[1].orig = v.base + pos /\ pos \in Nat
      /\ pos + 1 \in 1 .. Len(e.words) /\ e.words[pos + 1] = SourceWord(m.originals[1].orig)
  BY CopiedFacts
<1>2. v.base + (pos + 1) - 1 = m.originals[1].orig
  BY <1>1
<1> QED
  BY <1>1, <1>2 DEF HomeWord

LEMMA PairRefers ==
  ASSUME SliceInv, NEW p, PlanOK(p), NEW v, v.base \in Int, v.shift \in Int,
         NEW e, Covered(e, p, v),
         NEW m \in OpsIn(p), m.op = "macro", TargetOK(m.target),
         NEW k \in 1 .. Len(e.words), e.words[k].src = m.originals[1].orig,
         NEW l \in 1 .. Len(e.words), e.words[l].src = m.originals[2].orig
  PROVE  \/ \E h, a : CopiedTo(e, p, v, m, h, a) /\ (k = a + 1 \/ l = a + 2)
         \/ Folded(v, m)
         \/ Refers(e.words[k].val, e.words[l].imm, RelocsOn(e, k), RelocsOn(e, l))
              \in Refs(p, v, m.target)
<1> DEFINE t == m.target
           to == resolve_target(p, v, t)
           ref == Refers(e.words[k].val, e.words[l].imm, RelocsOn(e, k), RelocsOn(e, l))
<1>1. PICK h, a : Lands(e, p, v, m, h, a) /\ k = a + 1
  <2>1. 1 \in 1 .. 2
    OBVIOUS
  <2> QED
    BY <2>1, MacroWord
<1>2. PICK i, b : Lands(e, p, v, m, i, b) /\ l = b + 2
  <2>1. 2 \in 1 .. 2
    OBVIOUS
  <2> QED
    BY <2>1, MacroWord
<1> DEFINE x == emit_macro(p, v, m, h)
           y == emit_macro(p, v, m, i)
<1>3. /\ e.words[k] = x.words[1] /\ RelocsOn(e, k) = RelocsOn(x, a + 1)
      /\ verbatim_macro(p, v, m, h) \/ Folded(v, m) \/ Symbolic(v, m, x, a) \/ Plain(p, v, m, x, a)
  <2>1. Landed(e, p, v, m, h, a, x)
    BY <1>1, MacroLands
  <2> HIDE DEF x
  <2> QED
    BY <1>1, <2>1 DEF Landed
<1>4. /\ e.words[l] = y.words[2] /\ RelocsOn(e, l) = RelocsOn(y, b + 2)
      /\ verbatim_macro(p, v, m, i) \/ Folded(v, m) \/ Symbolic(v, m, y, b) \/ Plain(p, v, m, y, b)
  <2>1. Landed(e, p, v, m, i, b, y)
    BY <1>2, MacroLands
  <2> HIDE DEF y
  <2> QED
    BY <1>2, <2>1 DEF Landed
<1> HIDE DEF x, y, t, to
<1>8. verbatim_macro(p, v, m, h) => CopiedTo(e, p, v, m, h, a)
  BY <1>1 DEF CopiedTo
<1>9. verbatim_macro(p, v, m, i) => CopiedTo(e, p, v, m, i, b)
  BY <1>2 DEF CopiedTo
<1>5. ASSUME Symbolic(v, m, x, a), Symbolic(v, m, y, b) PROVE ref \in Refs(p, v, t)
  <2>1. 1 \in 1 .. 2 /\ 2 \in 1 .. 2
    OBVIOUS
  <2>2. PICK r : RelocsOn(e, k) = {r} /\ r.symbol = t.v /\ r.addend = 0
    BY <1>3, <1>5, <2>1 DEF Symbolic, t
  <2>3. PICK q : RelocsOn(e, l) = {q} /\ q.symbol = t.v /\ q.addend = 0
    BY <1>4, <1>5, <2>1 DEF Symbolic, t
  <2>4. t.kind = "symbol"
    BY <1>5 DEF Symbolic, t
  <2>5. ref = <<"symbol", t.v, 0>>
    BY <2>2, <2>3 DEF Refers
  <2> QED
    BY <2>4, <2>5 DEF Refs
<1>6. ASSUME Plain(p, v, m, x, a), Plain(p, v, m, y, b) PROVE ref \in Refs(p, v, t)
  <2>1. RelocsOn(e, k) = {} /\ RelocsOn(e, l) = {}
    BY <1>3, <1>4, <1>6 DEF Plain
  <2>2. e.words[k].val = Page(to) /\ e.words[l].imm = to % PageSize
    BY <1>3, <1>4, <1>6 DEF Plain, to, t
  <2>3. to \in Int
    BY TargetInInt DEF to, t
  <2>4. Page(to) + (to % PageSize) = to
    BY <2>3, PlanAssumption DEF Page
  <2>5. ref = <<"address", to, 0>>
    <3> HIDE DEF ref
    <3>1. ref = <<"address", Page(to) + (to % PageSize), 0>>
      BY <2>1, <2>2 DEF ref, Refers
    <3> QED
      BY <2>4, <3>1
  <2> QED
    BY <2>5 DEF Refs, to
<1>7. ~(Symbolic(v, m, x, a) /\ Plain(p, v, m, y, b)) /\ ~(Plain(p, v, m, x, a) /\ Symbolic(v, m, y, b))
  BY DEF Symbolic, Plain
<1> HIDE DEF ref
<1> QED
  BY <1>1, <1>2, <1>3, <1>4, <1>5, <1>6, <1>7, <1>8, <1>9 DEF ref, t

-----------------------------------------------------------------------------
(* What was redirected refers to the new target.                           *)

\* Words and relocations are all the references depend on.
LEMMA SameWords ==
  ASSUME NEW o, NEW x, o.words = x.words, o.relocs = x.relocs
  PROVE  /\ \A k : RelocsOn(o, k) = RelocsOn(x, k) /\ NamedBranch(o, k) = NamedBranch(x, k)
         /\ \A i, j : NamedRefers(o, i, j) = NamedRefers(x, i, j)
         /\ \A a : WordsFor(o, a) = WordsFor(x, a)
<1>1. \A k : RelocsOn(o, k) = RelocsOn(x, k)
  BY DEF RelocsOn
<1>2. \A a : WordsFor(o, a) = WordsFor(x, a)
  BY DEF WordsFor
<1>3. ASSUME NEW k PROVE NamedBranch(o, k) = NamedBranch(x, k)
  <2>1. RelocsOn(o, k) = RelocsOn(x, k)
    BY <1>1
  <2> QED
    BY <2>1 DEF NamedBranch
<1>4. ASSUME NEW i, NEW j PROVE NamedRefers(o, i, j) = NamedRefers(x, i, j)
  BY <1>1, <1>2 DEF NamedRefers
<1> QED
  BY <1>1, <1>2, <1>3, <1>4

LEMMA RedirectedBranch ==
  ASSUME NEW o, NEW p, PlanOK(p), NEW v, v.base \in Int,
         IsSeq(o.words), Covered(o, p, v), NEW t, TargetOK(t),
         NEW e, e.at \in Nat, e.edit = "redirect_branch", BranchAt(p, e.at, t),
         Refs(p, v, t) \subseteq NamedReference(o, e.target)
  PROVE  NamedEffective(o, e)
<1> SUFFICES ASSUME NEW k \in WordsFor(o, e.at)
             PROVE  NamedBranch(o, k) \in NamedReference(o, e.target)
  BY DEF NamedEffective, RedirectedNames
<1>1. k \in 1 .. Len(o.words) /\ o.words[k].src = e.at
  BY DEF WordsFor, IsSeq
<1>2. NamedBranch(o, k) \in Refs(p, v, t)
  BY <1>1, BranchWord
<1> QED
  BY <1>2

\* The macro a fused pair of the source became, and its two addresses.
LEMMA FusedPair ==
  ASSUME SliceInv, NEW p, PlanOK(p), Paired(p), NEW i \in 1 .. N, i + 1 \in 1 .. N,
         NEW m \in FusedInto(p, i)
  PROVE  /\ m \in OpsIn(p) /\ m.op = "macro" /\ MacroOK(m)
         /\ m.originals[1].orig = instructions[i].address
         /\ m.originals[2].orig = instructions[i + 1].address
         /\ Source(m) = {m.originals[1].orig, m.originals[2].orig}
         /\ OriginalAddresses(m) = {m.originals[1].orig, m.originals[2].orig}
<1>1. /\ m \in OpsIn(p) /\ m.op = "macro"
      /\ m.originals[1].orig = instructions[i].address
  BY DEF FusedInto, OpsIn
<1>2. MacroOK(m) /\ Source(m) = {m.originals[1].orig, m.originals[2].orig}
  BY <1>1, MemberFacts, SourceFacts
<1>3. PICK j \in 1 .. N - 1 : /\ m.originals[1].orig = instructions[j].address
                              /\ m.originals[2].orig = instructions[j + 1].address
  BY <1>1 DEF Paired, Adjacent
<1>4. N \in Nat
  BY SliceFacts
<1>5. j \in 1 .. N
  BY <1>4
<1>6. i = j
  BY <1>1, <1>3, <1>5, AddressesDiffer
<1>7. OriginalAddresses(m) = {m.originals[1].orig, m.originals[2].orig}
  BY <1>1 DEF OriginalAddresses
<1> QED
  BY <1>1, <1>2, <1>3, <1>6, <1>7

LEMMA RedirectedPair ==
  ASSUME SliceInv, NEW o, NEW p, PlanOK(p), Paired(p), NEW v, v.base \in Int, v.shift \in Int,
         o.plan = p, o.view = v, IsSeq(o.words), Covered(o, p, v), NEW t, TargetOK(t),
         NEW e, e.at \in Nat, e.edit = "redirect_macro", MacroAt(p, e.at, t),
         Refs(p, v, t) \subseteq NamedReference(o, e.target)
  PROVE  Claim(o, e)
<1> SUFFICES ASSUME ~CopiedAtHome(o, e), ~FoldedAccessRedirect(o, e)
             PROVE  NamedEffective(o, e)
  BY DEF Claim
<1> SUFFICES ASSUME NEW ij \in Pairs, FusedInto(p, ij[1]) # {}, ij[2] = ij[1] + 1,
                    e.at \in {instructions[ij[1]].address, instructions[ij[2]].address}
             PROVE  NamedRefers(o, ij[1], ij[2]) \subseteq NamedReference(o, e.target)
  BY DEF NamedEffective, RedirectedNames, RedirectedPairs
<1> DEFINE i == ij[1]
           a == instructions[i].address
           b == instructions[i + 1].address
<1>1. i \in 1 .. N /\ i + 1 \in 1 .. N /\ ij[2] = i + 1
  BY DEF Pairs
<1>2. e.at \in {a, b} /\ FusedInto(p, i) # {}
  BY <1>1
<1> HIDE DEF i
<1>3. PICK m : m \in FusedInto(p, i)
  BY <1>2
<1>4. /\ m \in OpsIn(p) /\ m.op = "macro" /\ MacroOK(m)
      /\ m.originals[1].orig = a /\ m.originals[2].orig = b
      /\ Source(m) = {a, b} /\ OriginalAddresses(m) = {a, b}
  BY <1>1, <1>3, FusedPair
<1> HIDE DEF a, b
<1>5. m.target = t
  BY <1>2, <1>4 DEF MacroAt
<1>6. ~HomeWord(o, v, m)
  <2> SUFFICES ASSUME HomeWord(o, v, m) PROVE CopiedAtHome(o, e)
    OBVIOUS
  <2>1. PICK k \in 1 .. Len(o.words) : /\ v.base + k - 1 = m.originals[1].orig
                                       /\ o.words[k] = SourceWord(m.originals[1].orig)
    BY DEF HomeWord
  <2>2. SourceWord(m.originals[1].orig).src = m.originals[1].orig
    BY DEF SourceWord
  <2>3. k \in WordsFor(o, m.originals[1].orig)
    BY <2>1, <2>2 DEF WordsFor, IsSeq
  <2>4. m \in UNION {FusedInto(o.plan, j) : j \in 1 .. N}
    BY <1>1, <1>3
  <2> QED
    BY <1>2, <1>4, <2>1, <2>3, <2>4 DEF CopiedAtHome
<1>7. ~Folded(v, m)
  <2> SUFFICES ASSUME Folded(v, m) PROVE FoldedAccessRedirect(o, e)
    OBVIOUS
  <2>1. FoldedAccess(o, i)
    BY <1>3 DEF Folded, FoldedAccess
  <2>2. b = a + 1
    <3>1. input.container
      <4>1. "AccessValue" # "LoadAddress"
        OBVIOUS
      <4> QED
        BY <1>4, <4>1 DEF Folded, MacroOK
    <3>2. InputOK(input) /\ instructions = input.slice
      BY PlanAssumption DEF SliceInv
    <3>3. DOMAIN instructions = 1 .. N
      BY SliceFacts
    <3>4. /\ instructions[i].address = input.base + (i - 1)
          /\ instructions[i + 1].address = input.base + ((i + 1) - 1)
          /\ input.base \in Nat
      BY <1>1, <3>1, <3>2, <3>3 DEF InputOK
    <3> QED
      BY <1>1, <3>4 DEF a, b
  <2>3. e.at \in {instructions[i].address, instructions[i].address + 1}
    BY <1>2, <2>2 DEF a
  <2> QED
    BY <1>1, <2>1, <2>3 DEF FoldedAccessRedirect
<1>8. ASSUME NEW k \in WordsFor(o, a), NEW l \in WordsFor(o, b)
      PROVE  Refers(o.words[k].val, o.words[l].imm, RelocsOn(o, k), RelocsOn(o, l))
               \in NamedReference(o, e.target)
  <2>1. /\ k \in 1 .. Len(o.words) /\ o.words[k].src = m.originals[1].orig
        /\ l \in 1 .. Len(o.words) /\ o.words[l].src = m.originals[2].orig
    BY <1>4, <1>8 DEF WordsFor, IsSeq
  <2>2. Refers(o.words[k].val, o.words[l].imm, RelocsOn(o, k), RelocsOn(o, l))
          \in Refs(p, v, m.target)
    BY <1>4, <1>5, <1>6, <1>7, <2>1, PairRefers, CopiedHome
  <2> QED
    BY <1>5, <2>2
<1>9. NamedRefers(o, i, i + 1) =
        {Refers(o.words[k].val, o.words[l].imm, RelocsOn(o, k), RelocsOn(o, l)) :
           k \in WordsFor(o, a), l \in WordsFor(o, b)}
  BY DEF NamedRefers, a, b
<1>10. NamedRefers(o, i, i + 1) \subseteq NamedReference(o, e.target)
  BY <1>8, <1>9
<1> QED
  BY <1>1, <1>10 DEF i

\* What an emission puts out, whole.
LEMMA RecordWhole ==
  ASSUME NEW v, NEW mode, NEW p, NEW e, NEW words, Record(v, mode, p, e, words),
         NEW o \in Outs'
  PROVE  /\ o.view = v /\ o.plan = p /\ e.result = "Ok"
         /\ o.words = words /\ o.relocs = e.relocs
<1> DEFINE r == [mode |-> mode, view |-> v, plan |-> p, result |-> e.result,
                 words |-> words, relocs |-> e.relocs]
<1>1. out' = <<r>>
  BY DEF Record
<1>2. r.view = v /\ r.plan = p
  OBVIOUS
<1> HIDE DEF r
<1>3. DOMAIN out' = {1} /\ out'[1] = r
  BY <1>1
<1>4. o = r
  BY <1>3 DEF Outs
<1> QED
  BY <1>2, <1>4, RecordFacts

LEMMA NoOverlays ==
  ASSUME overlays = {}, NEW words, IsSeq(words)
  PROVE  ApplyOverlays(words) = words
<1> DEFINE n == Len(words)
           t == ApplyOverlays(words)
<1>1. IsSeq(t) /\ Len(t) = n /\ \A i \in 1 .. n : t[i] = Overlaid(words, i)
  BY OverlayFacts
<1>2. \A i : Overlaid(words, i) = words[i]
  BY DEF Overlaid
<1> HIDE DEF t
<1>3. \A i \in 1 .. n : t[i] = words[i]
  BY <1>1, <1>2
<1>4. t = [i \in 1 .. n |-> t[i]] /\ words = [i \in 1 .. n |-> words[i]]
  BY <1>1 DEF IsSeq
<1> HIDE DEF n
<1> QED
  BY <1>3, <1>4 DEF t

\* The reference of t is the one wanted of a redirect to w.
LEMMA ShiftedReference ==
  ASSUME SliceInv, NEW o, NEW w, TargetOK(w),
         NEW t, t = IF o.view.shift > 0 THEN Bump(w) ELSE w
  PROVE  TargetOK(t) /\ Refs(o.plan, o.view, t) \subseteq NamedReference(o, w)
<1>1. TargetOK(t) /\ t.kind = w.kind /\ (w.kind = "symbol" => t.v = w.v)
  BY BumpOK
<1>2. NamedReference(o, w) =
        {<<"address", resolve_target(o.plan, o.view, t), 0>>}
        \cup (IF w.kind = "symbol" THEN {<<"symbol", w.v, 0>>} ELSE {})
  BY DEF NamedReference
<1> QED
  BY <1>1, <1>2 DEF Refs

\* A copy with relocations is refused, and nothing is put out.
LEMMA Unrelocated ==
  ASSUME NEW v, NEW mode, NEW p, NEW e,
         Record(v, mode, p, WithoutRelocations(e), WithoutRelocations(e).words)
  PROVE  Outs' = {} \/ Record(v, mode, p, e, e.words)
<1> DEFINE f == Failed("AppendNeedsUnsupportedRelocation")
           r == [mode |-> mode, view |-> v, plan |-> p, result |-> f.result,
                 words |-> f.words, relocs |-> f.relocs]
<1>1. CASE e.relocs = <<>>
  BY <1>1 DEF WithoutRelocations
<1>2. CASE e.relocs # <<>>
  <2>1. Record(v, mode, p, f, f.words)
    BY <1>2 DEF WithoutRelocations
  <2>2. out' = <<r>>
    BY <2>1 DEF Record
  <2>3. r.result # "Ok"
    BY DEF Failed
  <2> HIDE DEF r
  <2>4. DOMAIN out' = {1} /\ out'[1] = r
    BY <2>2
  <2> QED
    BY <2>3, <2>4 DEF Outs
<1> QED
  BY <1>1, <1>2

\* The plan p, the edited one or that shifted, is emitted for the view v.
LEMMA EmittedClaim ==
  ASSUME SliceInv, overlays = {}, NEW p, PlanOK(p), Paired(p),
         NEW v, v.base \in Int, v.shift \in Int,
         NEW mode, NEW words, words \in {emit(p, v).words, ApplyOverlays(emit(p, v).words)},
         Record(v, mode, p, emit(p, v), words), NEW o \in Outs',
         NEW e, e.edit \in Redirects, e.at \in Nat, TargetOK(e.target),
         NEW t, t = (IF v.shift > 0 THEN Bump(e.target) ELSE e.target),
         TargetAt(p, e.edit, e.at, t)
  PROVE  Claim(o, e)
<1> DEFINE x == emit(p, v)
<1> HIDE DEF x
<1>1. /\ o.view = v /\ o.plan = p /\ x.result = "Ok"
      /\ o.words = words /\ o.relocs = x.relocs
  BY RecordWhole DEF x
<1>2. EmittedOK(x, 0) /\ Covered(x, p, v)
  BY <1>1, EmitCovered DEF x
<1>3. IsSeq(x.words)
  BY <1>2 DEF EmittedOK
<1>4. o.words = x.words
  BY <1>1, <1>3, NoOverlays DEF x
<1>5. Covered(o, p, v)
  <2>1. \A k : RelocsOn(o, k) = RelocsOn(x, k)
    BY <1>1, <1>4, SameWords
  <2>2. ASSUME NEW op, NEW here, NEW pos, Lands(x, p, v, op, here, pos)
        PROVE  Lands(o, p, v, op, here, pos)
    BY <1>4, <2>1, <2>2 DEF Lands
  <2>3. ASSUME NEW op, NEW here, NEW pos, NEW k, WordOf(x, p, v, op, here, pos, k)
        PROVE  WordOf(o, p, v, op, here, pos, k)
    BY <2>2, <2>3 DEF WordOf
  <2>4. Len(o.words) = Len(x.words)
    BY <1>4
  <2> QED
    BY <1>2, <2>3, <2>4 DEF Covered
<1>6. TargetOK(t) /\ Refs(p, v, t) \subseteq NamedReference(o, e.target)
  BY <1>1, ShiftedReference
<1>7. CASE e.edit = "redirect_branch"
  <2>1. BranchAt(p, e.at, t)
    BY <1>7 DEF TargetAt
  <2>2. NamedEffective(o, e)
    BY <1>3, <1>4, <1>5, <1>6, <1>7, <2>1, RedirectedBranch
  <2> QED
    BY <2>2 DEF Claim
<1>8. CASE e.edit = "redirect_macro"
  <2>1. MacroAt(p, e.at, t)
    BY <1>8 DEF TargetAt
  <2> QED
    BY <1>1, <1>3, <1>4, <1>5, <1>6, <1>8, <2>1, RedirectedPair
<1> QED
  BY <1>7, <1>8 DEF Redirects

\* The last redirect of an address, in the plan that is emitted.
LEMMA LatestClaim ==
  ASSUME GInv, EditInv, IsSeq(log), RedirInv, pc = "edit", overlays = {},
         NEW v, v.base \in Int,
         NEW p, \/ p = plan /\ v.shift = 0
                \/ p = shift_plan_absolute_targets(plan) /\ v.shift = Delta,
         NEW mode, NEW words, words \in {emit(p, v).words, ApplyOverlays(emit(p, v).words)},
         Record(v, mode, p, emit(p, v), words), NEW o \in Outs',
         NEW e \in Succeeded(Redirects), LastRedirectAt(e)
  PROVE  TargetOK(e.target) /\ Claim(o, e)
<1> DEFINE q == shift_plan_absolute_targets(plan)
           w == e.target
           t == IF v.shift > 0 THEN Bump(w) ELSE w
<1>1. SliceInv /\ PlanOK(plan) /\ Paired(plan) /\ Redirected(plan, log)
  BY DEF GInv, EditInv, RedirInv
<1>2. PICK n \in 1 .. Len(log) : log[n] = e
  BY DEF Succeeded, IsSeq
<1>3. e.edit \in Redirects /\ e.result = "Ok"
  BY DEF Succeeded
<1>4. Latest(log, n)
  BY <1>2 DEF LastRedirectAt, Latest, IsSeq
<1>5. e.at \in Nat /\ w \in NewTargets /\ TargetAt(plan, e.edit, e.at, w)
  BY <1>1, <1>2, <1>3, <1>4 DEF Redirected
<1>6. TargetOK(w)
  BY <1>5, PlanAssumption DEF TargetOK, Target
<1>7. Delta \in Nat
  BY CommitAssumption
<1>8. PlanOK(p) /\ Paired(p) /\ v.shift \in Int /\ TargetAt(p, e.edit, e.at, t)
  <2>1. CASE p = plan /\ v.shift = 0
    BY <1>1, <1>5, <2>1
  <2>2. CASE p = q /\ v.shift = Delta
    <3>1. PlanOK(q) /\ Paired(q) /\ TargetAt(q, e.edit, e.at, Bump(w))
      BY <1>1, <1>5, ShiftKeeps, ShiftRefers
    <3>2. Delta = 0 => Bump(w) = w
      BY <1>1, <1>6, BumpOK
    <3>3. t = Bump(w)
      BY <1>7, <2>2, <3>2
    <3> QED
      BY <1>7, <2>2, <3>1, <3>3
  <2> QED
    BY <2>1, <2>2
<1> HIDE DEF w
<1>9. t = IF v.shift > 0 THEN Bump(e.target) ELSE e.target
  BY DEF w
<1> HIDE DEF t
<1> QED
  BY <1>1, <1>3, <1>5, <1>6, <1>8, <1>9, EmittedClaim DEF w

\* The redirected words name the new target.
RedirectsNamed ==
  \A o \in Outs : \A e \in Succeeded(Redirects) :
    (LastRedirectAt(e) /\ overlays = {}) => TargetOK(e.target) /\ Claim(o, e)

LEMMA RedirectsNext ==
  ASSUME GInv, EditInv, CommitInv, RedirInv, RedirectsNamed, [CommitNext]_planVars
  PROVE  RedirectsNamed'
<1>1. CASE pc' # "committed"
  <2>1. out' = <<>>
    BY <1>1, CommitInvNext DEF CommitInv, FreshInv
  <2>2. Outs' = {}
    BY <2>1 DEF Outs
  <2> QED
    BY <2>2 DEF RedirectsNamed
<1>2. InputOK(input) /\ IsSeq(log)
  BY PlanAssumption DEF GInv, SliceInv, CommitInv
<1>3. /\ InPlace.base \in Int /\ InPlace.shift = 0
      /\ Copied.base \in Int /\ Copied.shift = 0
      /\ GrownText.base \in Int /\ GrownText.shift = Delta
      /\ GrownGap.base \in Int /\ GrownGap.shift = Delta
  BY <1>2, CommitAssumption DEF InPlace, Copied, GrownText, GrownGap, View, InputOK
\* From what an emission step puts out to the property.
<1>4. ASSUME UNCHANGED <<input, instructions, log, overlays>>,
             \A o \in Outs' : \A e \in Succeeded(Redirects) :
               (LastRedirectAt(e) /\ overlays = {}) => TargetOK(e.target) /\ Claim(o, e)
      PROVE  RedirectsNamed'
  <2>1. \A e : LastRedirectAt(e)' <=> LastRedirectAt(e)
    BY <1>4 DEF LastRedirectAt
  <2>2. Succeeded(Redirects)' = Succeeded(Redirects)
    BY <1>4 DEF Succeeded, Redirects
  <2>3. ASSUME NEW o, NEW e PROVE Claim(o, e)' <=> Claim(o, e)
    BY <1>4, ClaimSame
  <2>4. \A o \in Outs' : \A e \in Succeeded(Redirects)' :
          (LastRedirectAt(e)' /\ overlays' = {}) => TargetOK(e.target) /\ Claim(o, e)'
    BY <1>4, <2>1, <2>2, <2>3
  <2> QED
    BY <2>4 DEF RedirectsNamed, TargetOK
<1>5. ASSUME UNCHANGED <<input, instructions, log, overlays>>, pc = "edit",
             NEW v, v.base \in Int,
             NEW p, \/ p = plan /\ v.shift = 0
                    \/ p = shift_plan_absolute_targets(plan) /\ v.shift = Delta,
             NEW mode, NEW words,
             words \in {emit(p, v).words, ApplyOverlays(emit(p, v).words)},
             Record(v, mode, p, emit(p, v), words)
      PROVE  RedirectsNamed'
  <2>1. ASSUME NEW o \in Outs', NEW e \in Succeeded(Redirects), LastRedirectAt(e), overlays = {}
        PROVE  TargetOK(e.target) /\ Claim(o, e)
    BY <1>2, <1>5, <2>1, LatestClaim
  <2> QED
    BY <1>4, <1>5, <2>1
<1>6. CASE Commit
  <2>1. /\ pc = "edit" /\ UNCHANGED <<input, instructions, log, overlays>>
        /\ Record(InPlace, "commit", plan, emit(plan, InPlace),
                  ApplyOverlays(emit(plan, InPlace).words))
    BY <1>6 DEF Commit
  <2> QED
    BY <1>3, <1>5, <2>1
<1>7. CASE EmitCopy
  <2> DEFINE e == emit(plan, Copied)
  <2>1. /\ pc = "edit" /\ UNCHANGED <<input, instructions, log, overlays>>
        /\ Record(Copied, "copy", plan, WithoutRelocations(e), WithoutRelocations(e).words)
    BY <1>7 DEF EmitCopy
  <2>2. Outs' = {} \/ Record(Copied, "copy", plan, e, e.words)
    BY <2>1, Unrelocated
  <2> HIDE DEF e
  <2>3. CASE Outs' = {}
    BY <1>4, <2>1, <2>3
  <2>4. CASE Record(Copied, "copy", plan, e, e.words)
    BY <1>3, <1>5, <2>1, <2>4 DEF e
  <2> QED
    BY <2>2, <2>3, <2>4
<1>8. CASE EmitGrownText
  <2> DEFINE q == shift_plan_absolute_targets(plan)
  <2>1. /\ pc = "edit" /\ UNCHANGED <<input, instructions, log, overlays>>
        /\ Record(GrownText, "grown_text", q, emit(q, GrownText),
                  ApplyOverlays(emit(q, GrownText).words))
    BY <1>8 DEF EmitGrownText, EmitGrown
  <2> QED
    BY <1>3, <1>5, <2>1
<1>9. CASE EmitGrownGap
  <2> DEFINE q == shift_plan_absolute_targets(plan)
             e == emit(q, GrownGap)
  <2>1. /\ pc = "edit" /\ UNCHANGED <<input, instructions, log, overlays>>
        /\ Record(GrownGap, "grown_gap", q, WithoutRelocations(e), WithoutRelocations(e).words)
    BY <1>9 DEF EmitGrownGap, EmitGrown
  <2>2. Outs' = {} \/ Record(GrownGap, "grown_gap", q, e, e.words)
    BY <2>1, Unrelocated
  <2> HIDE DEF e
  <2>3. CASE Outs' = {}
    BY <1>4, <2>1, <2>3
  <2>4. CASE Record(GrownGap, "grown_gap", q, e, e.words)
    BY <1>3, <1>5, <2>1, <2>4 DEF e
  <2> QED
    BY <2>2, <2>3, <2>4
<1>10. CASE UNCHANGED planVars
  <2>1. UNCHANGED <<input, instructions, log, overlays, out>>
    BY <1>10 DEF planVars, cfgVars
  <2>2. Outs' = Outs
    BY <2>1 DEF Outs
  <2>3. \A o \in Outs : \A e \in Succeeded(Redirects) :
          (LastRedirectAt(e) /\ overlays = {}) => TargetOK(e.target) /\ Claim(o, e)
    BY DEF RedirectsNamed
  <2> QED
    BY <1>4, <2>1, <2>2, <2>3
<1>11. CASE PlanStep
  <2>1. pc' # "committed"
    BY <1>11 DEF PlanStep, CfgStep, CollectLeader, LeadersCollected, FormBlock, BlocksFormed,
                AttachSuccessors, SuccessorsAttached, Lift, Edit, RedirectBranch,
                RedirectMacro, Replace, ReplaceTerminator, InsertAfter, RemoveOp,
                OverlayBytes, Apply, cfgVars
  <2> QED
    BY <2>1, <1>1
<1> QED
  BY <1>6, <1>7, <1>8, <1>9, <1>10, <1>11 DEF CommitNext, Committed

LEMMA RedirInit ==
  ASSUME PlanInit
  PROVE  RedirInv /\ RedirectsNamed
<1>1. pc \in {"leaders", "done"} /\ log = <<>> /\ out = <<>>
  BY DEF PlanInit, CfgInit
<1>2. Outs = {}
  BY <1>1 DEF Outs
<1> QED
  BY <1>1, <1>2 DEF RedirInv, RedirectsNamed

-----------------------------------------------------------------------------
(* Where the ops of a plan come from.                                      *)

\* The addresses of the redirects that returned Ok.
TouchedAt(l) ==
  {l[n].at : n \in {n \in 1 .. Len(l) : l[n].edit \in Redirects /\ l[n].result = "Ok"}}

\* An op without a source, one of the source's, or one of those redirected.
Stems(op, T) ==
  \/ Source(op) = {}
  \/ op \in SourceOps
  \/ \E u \in SourceOps : \E t : op = [u EXCEPT !.target = t] /\ Source(u) \cap T # {}

AllStem(p, T) == \A op \in OpsIn(p) : Stems(op, T)

SourceInv ==
  pc = "edit" => DOMAIN plan = DOMAIN blocks /\ AllStem(plan, TouchedAt(log))

LEMMA HalvesAreSource ==
  ASSUME SliceInv, NEW u \in SourceOps, u.op = "macro"
  PROVE  u.originals[1] \in SourceOps /\ u.originals[2] \in SourceOps
<1>1. PICK i \in 1 .. N - 1 : u.originals = <<LiftedAt(i), LiftedAt(i + 1)>>
  BY SourceOpFacts
<1>2. i \in 1 .. N /\ i + 1 \in 1 .. N
  BY <1>1, SliceFacts
<1> QED
  BY <1>1, <1>2 DEF SourceOps

LEMMA DescendsStems ==
  ASSUME SliceInv, NEW p, NEW q, Descends(q, p), NEW T, AllStem(p, T), NEW V, T \subseteq V
  PROVE  AllStem(q, V)
<1> SUFFICES ASSUME NEW op \in OpsIn(q), Source(op) # {} PROVE Stems(op, V)
  BY DEF AllStem, Stems
<1>1. CASE op \in OpsIn(p)
  BY <1>1 DEF AllStem, Stems
<1>2. ASSUME NEW m \in OpsIn(p), HalfOf(op, m) PROVE op \in SourceOps
  <2>1. Source(m) # {} /\ m.op = "macro" /\ op \in {m.originals[1], m.originals[2]}
    BY <1>2 DEF HalfOf
  <2>2. CASE m \in SourceOps
    BY <2>1, <2>2, HalvesAreSource
  <2>3. ASSUME NEW u \in SourceOps, NEW t, m = [u EXCEPT !.target = t] PROVE op \in SourceOps
    <3>1. OpOK(u)
      BY SourceOpFacts
    <3>2. m.op = u.op /\ (u.op = "macro" => m.originals = u.originals)
      BY <2>3, <3>1, RetargetedFields
    <3> QED
      BY <2>1, <3>2, HalvesAreSource
  <2> QED
    BY <2>1, <2>2, <2>3 DEF AllStem, Stems
<1> QED
  BY <1>1, <1>2 DEF Descends, Stems

\* Redirecting again what was redirected.
LEMMA RetargetedTwice ==
  ASSUME NEW u, OpOK(u), NEW w, NEW t
  PROVE  [[u EXCEPT !.target = w] EXCEPT !.target = t] = [u EXCEPT !.target = t]
<1>1. CASE InsnOK(u)
  <2>1. u = [op |-> "insn", mn |-> u.mn, rd |-> u.rd, rn |-> u.rn, imm |-> u.imm,
             ref |-> u.ref, target |-> u.target, orig |-> u.orig, size |-> u.size]
    BY <1>1 DEF InsnOK
  <2> QED
    BY <2>1
<1>2. CASE MacroOK(u)
  <2>1. u = [op |-> "macro", kind |-> u.kind, rd |-> u.rd, target |-> u.target,
             originals |-> u.originals]
    BY <1>2 DEF MacroOK
  <2> QED
    BY <2>1
<1> QED
  BY <1>1, <1>2 DEF OpOK

LEMMA RetargetStems ==
  ASSUME SliceInv, NEW p, PlanOK(p), NEW T, AllStem(p, T), NEW V, T \subseteq V,
         NEW x \in Places(p), NEW a \in V, a \in Source(OpAt(p, x)), NEW t
  PROVE  AllStem(Retarget(p, x, t), V)
<1> DEFINE u == OpAt(p, x)
           r == [u EXCEPT !.target = t]
<1>1. OpOK(u) /\ u \in OpsIn(p)
  BY PlaceFacts, MemberFacts
<1>2. Stems(u, T) /\ a \in Source(u)
  BY <1>1 DEF AllStem
<1> HIDE DEF u
<1>3. Stems(r, V)
  <2>1. CASE u \in SourceOps
    BY <1>2, <2>1 DEF Stems
  <2>2. ASSUME NEW w \in SourceOps, NEW s, u = [w EXCEPT !.target = s] PROVE Stems(r, V)
    <3>1. OpOK(w)
      BY SourceOpFacts
    <3>2. r = [w EXCEPT !.target = t]
      BY <2>2, <3>1, RetargetedTwice
    <3>3. Source(w) = Source(u)
      BY <2>2, <3>1, RetargetedOpOK
    <3> QED
      BY <1>2, <3>2, <3>3 DEF Stems
  <2> QED
    BY <1>2, <2>1, <2>2 DEF Stems
<1>4. ASSUME NEW op \in OpsIn(Retarget(p, x, t)) PROVE op = r \/ op \in OpsIn(p)
  BY RetargetMembers DEF u
<1>5. \A op \in OpsIn(p) : Stems(op, V)
  BY DEF AllStem, Stems
<1> QED
  BY <1>3, <1>4, <1>5 DEF AllStem

LEMMA TouchedGrows ==
  ASSUME NEW l, IsSeq(l), NEW e
  PROVE  /\ TouchedAt(l) \subseteq TouchedAt(Append(l, e))
         /\ (e.edit \in Redirects /\ e.result = "Ok") => e.at \in TouchedAt(Append(l, e))
<1> DEFINE r == Append(l, e)
           L == Len(l)
<1>1. L \in Nat /\ l = [k \in 1 .. L |-> l[k]]
  BY DEF IsSeq
<1>2. Len(r) = L + 1 /\ (\A k \in 1 .. L : r[k] = l[k]) /\ r[L + 1] = e
  BY <1>1, SeqFacts
<1> HIDE DEF r
<1>3. L + 1 \in 1 .. Len(r) /\ \A k \in 1 .. L : k \in 1 .. Len(r)
  BY <1>1, <1>2
<1> QED
  BY <1>2, <1>3 DEF TouchedAt, r

\* Edits keep the blocks of a plan.
LEMMA EditDomain ==
  ASSUME NEW p, NEW a, NEW t, NEW insn, NEW insns
  PROVE  /\ DOMAIN redirect_branch(p, a, t).plan = DOMAIN p
         /\ DOMAIN redirect_macro_target(p, a, t).plan = DOMAIN p
         /\ DOMAIN replace_instruction_at(p, a, insn).plan = DOMAIN p
         /\ DOMAIN replace_terminator(p, a, insn).plan = DOMAIN p
         /\ DOMAIN insert_after_address(p, a, insns).plan = DOMAIN p
         /\ DOMAIN remove_at_address(p, a).plan = DOMAIN p
<1>1. \A q, x, ops : DOMAIN Splice(q, x, ops) = DOMAIN q
  BY DEF Splice
<1>2. \A x : DOMAIN Retarget(p, x, t) = DOMAIN p
  BY DEF Retarget
<1>3. \A q, e : Ok(q).plan = q /\ Err(q, e).plan = q
  BY DEF Ok, Err
<1>4. DOMAIN unfuse_macro_at(p, a) = DOMAIN p
  BY <1>1 DEF unfuse_macro_at
<1>5. DOMAIN redirect_branch(p, a, t).plan = DOMAIN p
  BY <1>2, <1>3 DEF redirect_branch
<1>6. DOMAIN redirect_macro_target(p, a, t).plan = DOMAIN p
  BY <1>2, <1>3 DEF redirect_macro_target
<1>7. DOMAIN replace_instruction_at(p, a, insn).plan = DOMAIN p
  BY <1>1, <1>3, <1>4 DEF replace_instruction_at
<1>8. DOMAIN replace_terminator(p, a, insn).plan = DOMAIN p
  BY <1>1, <1>3 DEF replace_terminator
<1>9. DOMAIN insert_after_address(p, a, insns).plan = DOMAIN p
  BY <1>1, <1>3 DEF insert_after_address
<1>10. DOMAIN remove_at_address(p, a).plan = DOMAIN p
  BY <1>1, <1>3 DEF remove_at_address
<1> QED
  BY <1>5, <1>6, <1>7, <1>8, <1>9, <1>10

LEMMA RedirectStems ==
  ASSUME SliceInv, NEW p, PlanOK(p), NEW T, AllStem(p, T), NEW V, T \subseteq V, NEW a \in Nat, NEW t
  PROVE  /\ LET r == redirect_branch(p, a, t) IN (r.result = "Ok" => a \in V) => AllStem(r.plan, V)
         /\ LET r == redirect_macro_target(p, a, t) IN (r.result = "Ok" => a \in V) => AllStem(r.plan, V)
<1> DEFINE x == locate(p, a)
           y == CHOOSE y \in x : TRUE
           q == Retarget(p, y, t)
           br == redirect_branch(p, a, t)
           mr == redirect_macro_target(p, a, t)
<1>1. \A r, e : /\ Ok(r).plan = r /\ Ok(r).result = "Ok"
                /\ Err(r, e).plan = r /\ Err(r, e).result = e
  BY DEF Ok, Err
<1>2. /\ br.plan = p \/ (x # {} /\ br.plan = q /\ br.result = "Ok")
      /\ mr.plan = p \/ (x # {} /\ mr.plan = q /\ mr.result = "Ok")
  BY <1>1 DEF redirect_branch, redirect_macro_target
<1>3. ASSUME x # {} PROVE y \in Places(p) /\ a \in Source(OpAt(p, y))
  <2>1. y \in x
    BY <1>3
  <2>2. y \in Places(p) /\ a \in OriginalAddresses(OpAt(p, y))
    BY <2>1 DEF locate, OpAt
  <2> QED
    BY <2>2 DEF Source
<1> HIDE DEF br, mr, y, x, q
<1>4. ASSUME x # {}, a \in V PROVE AllStem(q, V)
  BY <1>3, <1>4, RetargetStems DEF q
<1>5. AllStem(p, V)
  BY DEF AllStem, Stems
<1> QED
  BY <1>2, <1>4, <1>5 DEF br, mr

\* An edit that is no redirect.
LEMMA OtherStems ==
  ASSUME SliceInv, IsSeq(log), AllStem(plan, TouchedAt(log)),
         NEW edit, NEW a, NEW t, NEW r, Descends(r.plan, plan), Apply(edit, a, t, r)
  PROVE  AllStem(plan', TouchedAt(log'))
<1> DEFINE e == [edit |-> edit, at |-> a, target |-> t, result |-> r.result]
<1>1. plan' = r.plan /\ log' = Append(log, e)
  BY DEF Apply
<1> HIDE DEF e
<1>2. TouchedAt(log) \subseteq TouchedAt(Append(log, e))
  BY TouchedGrows
<1>3. AllStem(r.plan, TouchedAt(Append(log, e)))
  BY <1>2, DescendsStems
<1> QED
  BY <1>1, <1>3

LEMMA EditStems ==
  ASSUME SliceInv, PlanOK(plan), IsSeq(log), AllStem(plan, TouchedAt(log)), Edit
  PROVE  AllStem(plan', TouchedAt(log')) /\ DOMAIN plan' = DOMAIN plan
<1>1. Addresses \subseteq Nat
  <2>1. InputOK(input)
    BY PlanAssumption DEF SliceInv
  <2>2. N \in Nat /\ \A i \in 1 .. N : instructions[i].address \in Nat
    BY SliceFacts
  <2> QED
    BY <2>1, <2>2 DEF Addresses, InputOK
<1>2. CASE RedirectBranch
  <2>1. PICK a \in Addresses, t \in NewTargets :
          Apply("redirect_branch", a, t, redirect_branch(plan, a, t))
    BY <1>2 DEF RedirectBranch
  <2> DEFINE r == redirect_branch(plan, a, t)
             e == [edit |-> "redirect_branch", at |-> a, target |-> t, result |-> r.result]
             V == TouchedAt(Append(log, e))
  <2>2. /\ plan' = r.plan /\ log' = Append(log, e) /\ e.edit \in Redirects
        /\ e.at = a /\ e.result = r.result
    BY <2>1 DEF Apply, Redirects
  <2>3. DOMAIN r.plan = DOMAIN plan
    BY EditDomain
  <2> HIDE DEF e
  <2>4. TouchedAt(log) \subseteq V /\ (r.result = "Ok" => a \in V)
    BY <2>2, TouchedGrows
  <2> HIDE DEF V
  <2>5. AllStem(r.plan, V)
    BY <1>1, <2>4, RedirectStems
  <2> QED
    BY <2>2, <2>3, <2>5 DEF V
<1>3. CASE RedirectMacro
  <2>1. PICK a \in Addresses, t \in NewTargets :
          Apply("redirect_macro", a, t, redirect_macro_target(plan, a, t))
    BY <1>3 DEF RedirectMacro
  <2> DEFINE r == redirect_macro_target(plan, a, t)
             e == [edit |-> "redirect_macro", at |-> a, target |-> t, result |-> r.result]
             V == TouchedAt(Append(log, e))
  <2>2. /\ plan' = r.plan /\ log' = Append(log, e) /\ e.edit \in Redirects
        /\ e.at = a /\ e.result = r.result
    BY <2>1 DEF Apply, Redirects
  <2>3. DOMAIN r.plan = DOMAIN plan
    BY EditDomain
  <2> HIDE DEF e
  <2>4. TouchedAt(log) \subseteq V /\ (r.result = "Ok" => a \in V)
    BY <2>2, TouchedGrows
  <2> HIDE DEF V
  <2>5. AllStem(r.plan, V)
    BY <1>1, <2>4, RedirectStems
  <2> QED
    BY <2>2, <2>3, <2>5 DEF V
<1>4. CASE Replace
  <2>1. PICK a \in Addresses, t \in NewTargets :
          Apply("replace", a, t, replace_instruction_at(plan, a, NewInsn("branch", t)))
    BY <1>4 DEF Replace
  <2>2. Descends(replace_instruction_at(plan, a, NewInsn("branch", t)).plan, plan)
    BY ReplaceDescends
  <2>3. plan' = replace_instruction_at(plan, a, NewInsn("branch", t)).plan
    BY <2>1 DEF Apply
  <2> QED
    BY <2>1, <2>2, <2>3, OtherStems, EditDomain
<1>5. CASE ReplaceTerminator
  <2>1. PICK b \in 1 .. Len(plan) + 1, t \in NewTargets :
          Apply("terminator", b, t, replace_terminator(plan, b, NewInsn("branch", t)))
    BY <1>5 DEF ReplaceTerminator
  <2>2. Descends(replace_terminator(plan, b, NewInsn("branch", t)).plan, plan)
    BY TerminatorDescends
  <2>3. plan' = replace_terminator(plan, b, NewInsn("branch", t)).plan
    BY <2>1 DEF Apply
  <2> QED
    BY <2>1, <2>2, <2>3, OtherStems, EditDomain
<1>6. CASE InsertAfter
  <2> DEFINE new == <<NewInsn("none", NoTarget)>>
  <2>1. PICK a \in Addresses : Apply("insert", a, NoTarget, insert_after_address(plan, a, new))
    BY <1>6 DEF InsertAfter
  <2>2. Descends(insert_after_address(plan, a, new).plan, plan)
    BY InsertDescends
  <2>3. plan' = insert_after_address(plan, a, new).plan
    BY <2>1 DEF Apply
  <2> HIDE DEF new
  <2> QED
    BY <2>1, <2>2, <2>3, OtherStems, EditDomain
<1>7. CASE RemoveOp
  <2>1. PICK a \in Addresses : Apply("remove", a, NoTarget, remove_at_address(plan, a))
    BY <1>7 DEF RemoveOp
  <2>2. Descends(remove_at_address(plan, a).plan, plan)
    BY RemoveDescends
  <2>3. plan' = remove_at_address(plan, a).plan
    BY <2>1 DEF Apply
  <2> QED
    BY <2>1, <2>2, <2>3, OtherStems, EditDomain
<1>8. CASE OverlayBytes
  <2>1. PICK a : log' = Append(log, [edit |-> "overlay", at |-> a, target |-> NoTarget,
                                     result |-> "Ok"])
    BY <1>8 DEF OverlayBytes
  <2>2. plan' = plan
    BY <1>8 DEF OverlayBytes
  <2>3. TouchedAt(log) \subseteq TouchedAt(log')
    BY <2>1, TouchedGrows
  <2>4. AllStem(plan, TouchedAt(log'))
    BY <2>3, DescendsSelf, DescendsStems
  <2> QED
    BY <2>2, <2>4
<1> QED
  BY <1>2, <1>3, <1>4, <1>5, <1>6, <1>7, <1>8 DEF Edit

\* The lookups and the graph a lift reads stay as they are.
LEMMA SourceOpsSame ==
  ASSUME UNCHANGED <<input, instructions, blocks>>
  PROVE  SourceOps' = SourceOps
<1>1. N' = N
  BY DEF N
<1>2. ASSUME NEW s PROVE Symbol(s)' = Symbol(s)
  BY DEF Symbol
<1>3. ASSUME NEW a PROVE RelocAt(a)' = RelocAt(a)
  BY DEF RelocAt, FirstReloc, SectionAddress
<1>4. ASSUME NEW a PROVE resolve_address(a)' = resolve_address(a)
  BY <1>2 DEF resolve_address, symbol_at_address
<1>5. ASSUME NEW i PROVE LiftedAt(i)' = LiftedAt(i)
  BY <1>3, <1>4 DEF LiftedAt, lift_instruction, PageTarget
<1>6. ASSUME NEW a, NEW b PROVE MacroOps(a, b)' = MacroOps(a, b)
  <2>1. ASSUME NEW kind
        PROVE  macro_target_from_relocations(a, b, kind)' = macro_target_from_relocations(a, b, kind)
    BY <1>3 DEF macro_target_from_relocations
  <2>2. ASSUME NEW c PROVE Combined(a, c)' = Combined(a, c)
    BY <1>4 DEF Combined
  <2>3. try_fuse_adrp_add(a, b)' = try_fuse_adrp_add(a, b)
    BY <2>1, <2>2 DEF try_fuse_adrp_add
  <2>4. try_fuse_adrp_ldst(a, b)' = try_fuse_adrp_ldst(a, b)
    BY <2>1 DEF try_fuse_adrp_ldst
  <2> QED
    BY <2>3, <2>4 DEF MacroOps
<1> QED
  BY <1>1, <1>5, <1>6 DEF SourceOps

LEMMA SourceInvNext ==
  ASSUME GInv, EditInv, IsSeq(log), SourceInv, [CommitNext]_planVars
  PROVE  SourceInv'
<1>1. SliceInv
  BY DEF GInv
<1>2. ASSUME UNCHANGED <<input, instructions, blocks>>, DOMAIN plan' = DOMAIN blocks,
             AllStem(plan', TouchedAt(log'))
      PROVE  SourceInv'
  <2>1. SourceOps' = SourceOps
    BY <1>2, SourceOpsSame
  <2>2. AllStem(plan, TouchedAt(log))'
    BY <1>2, <2>1 DEF AllStem, Stems, OpsIn, Source, OriginalAddresses, TouchedAt
  <2> QED
    BY <1>2, <2>2 DEF SourceInv
<1>3. CASE CfgStep /\ UNCHANGED <<input, plan, log, overlays, container, out>>
  <2>1. pc' \in {"leaders", "blocks", "successors", "done"}
    BY <1>3 DEF CfgStep, CollectLeader, LeadersCollected, FormBlock, BlocksFormed,
                AttachSuccessors, SuccessorsAttached
  <2> QED
    BY <2>1 DEF SourceInv
<1>4. CASE Lift
  <2>1. UNCHANGED <<input, instructions, blocks>>
    BY <1>4 DEF Lift
  <2>2. OpsIn(plan') \subseteq SourceOps /\ DOMAIN plan' = DOMAIN blocks
    BY <1>4, LiftMembers
  <2>3. AllStem(plan', TouchedAt(log'))
    BY <2>2 DEF AllStem, Stems
  <2> QED
    BY <1>2, <2>1, <2>2, <2>3
<1>5. CASE Edit
  <2>1. pc = "edit" /\ UNCHANGED <<input, instructions, blocks>>
    BY <1>5 DEF Edit, RedirectBranch, RedirectMacro, Replace, ReplaceTerminator, InsertAfter,
                RemoveOp, OverlayBytes, Apply, cfgVars
  <2>2. PlanOK(plan) /\ AllStem(plan, TouchedAt(log)) /\ DOMAIN plan = DOMAIN blocks
    BY <2>1 DEF EditInv, SourceInv
  <2>3. AllStem(plan', TouchedAt(log')) /\ DOMAIN plan' = DOMAIN plan
    BY <1>1, <1>5, <2>2, EditStems
  <2> QED
    BY <1>2, <2>1, <2>2, <2>3
<1>6. CASE Commit \/ EmitCopy \/ EmitGrownText \/ EmitGrownGap
  <2>1. pc' = "committed"
    BY <1>6 DEF Commit, EmitCopy, EmitGrownText, EmitGrownGap, EmitGrown
  <2> QED
    BY <2>1 DEF SourceInv
<1>7. CASE UNCHANGED planVars
  <2>1. UNCHANGED <<pc, input, instructions, blocks, plan, log>>
    BY <1>7 DEF planVars, cfgVars
  <2>2. pc = "edit" => DOMAIN plan' = DOMAIN blocks /\ AllStem(plan', TouchedAt(log'))
    BY <2>1 DEF SourceInv
  <2>3. CASE pc = "edit"
    BY <1>2, <2>1, <2>2, <2>3
  <2>4. CASE pc # "edit"
    BY <2>1, <2>4 DEF SourceInv
  <2> QED
    BY <2>3, <2>4
<1> QED
  BY <1>3, <1>4, <1>5, <1>6, <1>7 DEF CommitNext, PlanStep, Committed

-----------------------------------------------------------------------------
(* What the lift makes of an instruction, and where its target goes.       *)

LEMMA FirstRelocFacts ==
  ASSUME SliceInv, NEW S, S \subseteq DOMAIN input.relocs
  PROVE  \/ S = {} /\ FirstReloc(S) = {}
         \/ \E n \in S : FirstReloc(S) = {input.relocs[n]} /\ input.relocs[n].symbol \in SymbolIds
<1>1. InputOK(input)
  BY PlanAssumption DEF SliceInv
<1>2. /\ DOMAIN input.relocs = 1 .. Len(input.relocs) /\ Len(input.relocs) \in Nat
      /\ \A n \in DOMAIN input.relocs : input.relocs[n].symbol \in SymbolIds
  BY <1>1 DEF InputOK
<1>3. CASE S # {}
  <2>1. S \in SUBSET Nat
    BY <1>2
  <2>2. LowestOf(S) \in S
    BY <1>3, <2>1, LowestFacts
  <2> QED
    BY <1>2, <1>3, <2>2 DEF FirstReloc
<1> QED
  BY <1>3 DEF FirstReloc

\* The relocation an instruction has fits it.
LEMMA OwnRelocFacts ==
  ASSUME SliceInv, NEW i \in 1 .. N
  PROVE  LET own == OwnRelocAt(instructions[i].address) IN
         \/ own = {}
         \/ /\ input.container
            /\ \E r : /\ own = {r} /\ r.kind \in LiftRelocs /\ r.symbol \in SymbolIds
                      /\ RelocFits(input, r, instructions[i])
<1> DEFINE a == instructions[i].address
           S == {n \in DOMAIN input.relocs :
                   LET r == input.relocs[n] IN
                   r.kind \in LiftRelocs /\ r.section = "text" /\ input.base + r.offset = a}
<1>1. InputOK(input) /\ instructions = input.slice
  BY PlanAssumption DEF SliceInv
<1>2. i \in DOMAIN input.slice
  BY <1>1, SliceFacts
<1>3. OwnRelocAt(a) = IF input.container THEN FirstReloc(S) ELSE {}
  BY DEF OwnRelocAt
<1>4. ASSUME NEW n \in S
      PROVE  input.relocs[n].kind \in LiftRelocs /\ RelocFits(input, input.relocs[n], instructions[i])
  BY <1>1, <1>2 DEF InputOK
<1>5. \/ FirstReloc(S) = {}
      \/ \E n \in S : FirstReloc(S) = {input.relocs[n]} /\ input.relocs[n].symbol \in SymbolIds
  <2>1. S \subseteq DOMAIN input.relocs
    OBVIOUS
  <2> HIDE DEF S
  <2> QED
    BY <2>1, FirstRelocFacts
<1> HIDE DEF S
<1>6. ASSUME NEW n \in S, FirstReloc(S) = {input.relocs[n]}, input.relocs[n].symbol \in SymbolIds
      PROVE  \E r : /\ FirstReloc(S) = {r} /\ r.kind \in LiftRelocs /\ r.symbol \in SymbolIds
                    /\ RelocFits(input, r, instructions[i])
  BY <1>4, <1>6
<1> QED
  BY <1>3, <1>5, <1>6

LEMMA LiftedFields ==
  ASSUME SliceInv, NEW i \in 1 .. N
  PROVE  LET insn == instructions[i] l == LiftedAt(i) IN
         /\ l.mn = insn.mn /\ l.rd = insn.rd /\ l.rn = insn.rn /\ l.imm = insn.imm
         /\ l.orig = insn.address /\ l.op = "insn" /\ insn.imm \in Int
         /\ insn.mn = "mov" => insn.imm = 0
         /\ insn.mn = "adrp" => l.ref = "page" /\ insn.target % PageSize = 0 /\ insn.target \in Int
         /\ insn.mn \in {"add", "mov", "ldst"} => l.ref = "none"
         /\ insn.kind \in Targeted => l.ref = "branch" /\ insn.mn = "other"
<1>1. InputOK(input) /\ instructions = input.slice /\ i \in DOMAIN input.slice
  BY PlanAssumption, SliceFacts DEF SliceInv
<1>2. LET insn == instructions[i] IN
      /\ insn.kind \in Targeted => insn.mn = "other"
      /\ insn.imm \in Int
      /\ insn.mn = "adrp" => insn.target % PageSize = 0
      /\ insn.mn = "mov" => insn.imm = 0
  BY <1>1 DEF InputOK
<1>3. instructions[i].target \in Int
  BY SliceFacts
<1> QED
  BY <1>2, <1>3 DEF LiftedAt, lift_instruction

LEMMA LiftedTarget ==
  ASSUME SliceInv, NEW i \in 1 .. N, ~Misattributed(i),
         instructions[i].mn = "adrp" \/ instructions[i].kind \in Targeted
  PROVE  LET own == OwnRelocAt(instructions[i].address) IN
         /\ own = {} => LiftedAt(i).target =
                          IF instructions[i].mn = "adrp" THEN At("absolute", instructions[i].target)
                          ELSE resolve_address(instructions[i].target)
         /\ \A r \in own : /\ LiftedAt(i).target = At("symbol", r.symbol)
                           /\ r.kind = IF instructions[i].mn = "adrp" THEN "AdrpPage21" ELSE "Branch"
<1> DEFINE insn == instructions[i]
           own == OwnRelocAt(insn.address)
           syms == {r.symbol : r \in {r \in own : r.kind \in PcRelativeRelocs}}
<1>1. RelocAt(insn.address) = own
  BY DEF Misattributed
<1>2. insn.kind \in Targeted => insn.mn # "adrp"
  <2>1. insn.kind \in Targeted => insn.mn = "other"
    BY LiftedFields
  <2>2. "other" # "adrp"
    OBVIOUS
  <2> QED
    BY <2>1, <2>2
<1>3. LiftedAt(i).target = IF syms # {} THEN At("symbol", LowestOf(syms))
                           ELSE IF insn.mn = "adrp" THEN At("absolute", insn.target)
                           ELSE resolve_address(insn.target)
  BY <1>1, <1>2 DEF LiftedAt, lift_instruction, PageTarget
<1>4. ASSUME NEW r \in own
      PROVE  /\ syms = {r.symbol} /\ LowestOf(syms) = r.symbol
             /\ r.kind = IF insn.mn = "adrp" THEN "AdrpPage21" ELSE "Branch"
  <2>1. own = {r} /\ r.kind \in LiftRelocs /\ r.symbol \in SymbolIds /\ RelocFits(input, r, insn)
    BY <1>4, OwnRelocFacts
  <2>2. insn.mn \in {"adrp", "other"}
    BY LiftedFields
  <2>3. insn.mn \in CASE r.kind = "AdrpPage21"            -> {"adrp"}
                      [] r.kind = "AddPageOffset12"       -> {"add", "mov"}
                      [] r.kind = "LoadStorePageOffset12" -> {"ldst"}
                      [] r.kind = "Branch"                -> {"other"}
    BY <2>1 DEF RelocFits
  <2>4. r.kind = IF insn.mn = "adrp" THEN "AdrpPage21" ELSE "Branch"
    BY <2>1, <2>2, <2>3 DEF LiftRelocs, PcRelativeRelocs
  <2>5. r.kind \in PcRelativeRelocs
    BY <2>4 DEF PcRelativeRelocs
  <2>6. syms = {r.symbol}
    BY <2>1, <2>5
  <2>7. r.symbol \in Nat
    BY <2>1, PlanAssumption
  <2> HIDE DEF syms, own, insn
  <2>8. LowestOf({r.symbol}) = r.symbol
    BY <2>7, LowestFacts
  <2> QED
    BY <2>4, <2>6, <2>8
<1>5. own = {} => syms = {}
  OBVIOUS
<1> HIDE DEF syms
<1> QED
  BY <1>3, <1>4, <1>5

\* What a relocation or the target of an instruction refers to.
Sh(v, t) == IF v.shift > 0 THEN Bump(t) ELSE t

LEMMA ShOK ==
  ASSUME SliceInv, NEW v, NEW t, TargetOK(t)
  PROVE  /\ TargetOK(Sh(v, t)) /\ Sh(v, t).kind = t.kind
         /\ t.kind = "symbol" => Sh(v, t).v = t.v
         /\ t.kind # "absolute" => Sh(v, t) = t
<1>1. t.kind # "absolute" => Bump(t) = t
  BY DEF Bump
<1> QED
  BY <1>1, BumpOK DEF Sh

LEMMA CallableInInt ==
  ASSUME SliceInv, NEW v, v.shift \in Int, NEW s \in SymbolIds
  PROVE  callable_address_of_symbol(v, s) \in Int
<1>1. InputOK(input)
  BY PlanAssumption DEF SliceInv
<1>2. Symbol(s).address \in Nat /\ Symbol(s).stub \in Nat \cup {-1}
  BY <1>1 DEF InputOK, Symbol
<1> QED
  BY <1>2 DEF callable_address_of_symbol, Moved

\* An emission of a lifted plan, as it is or shifted.
Emitting(o) ==
  /\ DOMAIN o.plan = DOMAIN blocks
  /\ o.view.base \in Int /\ o.view.shift \in {0, Delta}

LEMMA SymbolWanted ==
  ASSUME SliceInv, input.container, NEW o, Emitting(o), NEW s \in SymbolIds, NEW symbolic
  PROVE  /\ Refs(o.plan, o.view, Sh(o.view, At("symbol", s)))
              \subseteq NamedWanted(o, <<"symbol", s, 0>>, symbolic)
         /\ TargetOK(At("symbol", s))
<1> DEFINE t == At("symbol", s)
           c == callable_address_of_symbol(o.view, s)
<1>1. t = [kind |-> "symbol", v |-> s] /\ t.kind = "symbol" /\ t.v = s
  BY DEF At
<1>2. TargetOK(t) /\ o.view.shift \in Int
  BY <1>1, PlanAssumption, CommitAssumption DEF TargetOK, Emitting
<1>3. Sh(o.view, t) = t
  BY <1>1, <1>2, ShOK
<1>4. c \in Int
  BY <1>2, CallableInInt
<1> HIDE DEF t, c
<1>5. resolve_target(o.plan, o.view, t) = c
  BY <1>1 DEF resolve_target, c
<1>6. Refs(o.plan, o.view, t) = {<<"address", c, 0>>, <<"symbol", s, 0>>}
  BY <1>1, <1>5 DEF Refs
<1>7. NamedWanted(o, <<"symbol", s, 0>>, symbolic) = {<<"symbol", s, 0>>, <<"address", c + 0, 0>>}
  BY DEF NamedWanted, c
<1>8. c + 0 = c
  BY <1>4
<1> QED
  BY <1>2, <1>3, <1>6, <1>7, <1>8 DEF t

LEMMA MovedTarget ==
  ASSUME SliceInv, NEW o, Emitting(o), NEW a \in Int
  PROVE  /\ TargetOK(At("absolute", a))
         /\ Sh(o.view, At("absolute", a)) = At("absolute", Moved(o.view, a))
         /\ \A p : Refs(p, o.view, Sh(o.view, At("absolute", a))) = {<<"address", Moved(o.view, a), 0>>}
<1> DEFINE t == At("absolute", a)
           w == Sh(o.view, t)
<1>1. t = [kind |-> "absolute", v |-> a] /\ t.kind = "absolute" /\ t.v = a
  BY DEF At
<1>2. o.view.shift \in {0, Delta} /\ Delta \in Nat
  BY CommitAssumption DEF Emitting
<1>3. TargetOK(t)
  BY <1>1 DEF TargetOK
<1>4. Bump(t) = IF a >= input.base THEN At("absolute", a + Delta) ELSE t
  BY <1>1 DEF Bump
<1> HIDE DEF t
<1>5. w = At("absolute", Moved(o.view, a))
  <2>1. CASE o.view.shift > 0
    <3>1. w = Bump(t) /\ o.view.shift = Delta
      BY <1>2, <2>1 DEF Sh
    <3> QED
      BY <1>4, <3>1 DEF Moved, t
  <2>2. CASE ~(o.view.shift > 0)
    <3>1. w = t /\ o.view.shift = 0 /\ a + 0 = a
      BY <1>2, <2>2 DEF Sh
    <3> QED
      BY <3>1 DEF Moved, t
  <2> QED
    BY <2>1, <2>2
<1>6. w.kind = "absolute" /\ w.v = Moved(o.view, a)
  BY <1>5 DEF At
<1> HIDE DEF w
<1>7. ASSUME NEW p PROVE Refs(p, o.view, w) = {<<"address", Moved(o.view, a), 0>>}
  BY <1>6 DEF Refs, resolve_target
<1> QED
  BY <1>3, <1>5, <1>7 DEF t, w

LEMMA ResolvedWanted ==
  ASSUME SliceInv, BlocksOK, NEW o, Emitting(o), NEW a \in Int
  PROVE  /\ Refs(o.plan, o.view, Sh(o.view, resolve_address(a)))
              \subseteq NamedWanted(o, <<"address", a, 0>>, TRUE)
         /\ TargetOK(resolve_address(a))
<1> DEFINE b == BlocksAt(a)
           s == IF input.container THEN symbol_at_address(a) ELSE {}
           t == resolve_address(a)
           W == NamedWanted(o, <<"address", a, 0>>, TRUE)
<1>1. t = IF b # {} THEN At("block", LowestOf(b))
          ELSE IF s # {} THEN At("symbol", LowestOf(s)) ELSE At("absolute", a)
  BY DEF resolve_address, BlocksAt
<1>2. W = IF b # {} THEN {<<"address", BlockAddress(o.plan, o.view, LowestOf(b)), 0>>}
          ELSE IF s # {} THEN {<<"address", callable_address_of_symbol(o.view, u), 0>> : u \in s}
                              \cup {<<"symbol", u, 0>> : u \in s}
          ELSE {<<"address", Moved(o.view, a), 0>>}
  BY DEF NamedWanted
<1>3. CASE b # {}
  <2> DEFINE n == LowestOf(b)
  <2>1. b \in SUBSET Nat /\ b \subseteq DOMAIN blocks
    BY DEF BlocksAt, BlocksOK
  <2>2. n \in DOMAIN blocks /\ n \in Nat
    BY <1>3, <2>1, LowestFacts
  <2> HIDE DEF n
  <2>3. t = [kind |-> "block", v |-> n] /\ t.kind = "block" /\ t.v = n
    BY <1>1, <1>3 DEF At, n
  <2>4. TargetOK(t)
    BY <2>2, <2>3 DEF TargetOK
  <2>5. Sh(o.view, t) = t
    BY <2>3, <2>4, ShOK
  <2>6. resolve_target(o.plan, o.view, t) = BlockAddress(o.plan, o.view, n)
    BY <2>2, <2>3 DEF resolve_target, Emitting
  <2>7. Refs(o.plan, o.view, t) = {<<"address", BlockAddress(o.plan, o.view, n), 0>>}
    BY <2>3, <2>6 DEF Refs
  <2> QED
    BY <1>2, <1>3, <2>4, <2>5, <2>7 DEF n
<1>4. CASE b = {} /\ s # {}
  <2> DEFINE n == LowestOf(s)
  <2>1. input.container /\ s \subseteq SymbolIds
    BY <1>4 DEF symbol_at_address
  <2>2. n \in s
    BY <1>4, <2>1, PlanAssumption, LowestFacts
  <2> HIDE DEF n, s
  <2>3. t = At("symbol", n)
    BY <1>1, <1>4 DEF n
  <2>4. Refs(o.plan, o.view, Sh(o.view, At("symbol", n))) \subseteq NamedWanted(o, <<"symbol", n, 0>>, TRUE)
        /\ TargetOK(At("symbol", n)) /\ callable_address_of_symbol(o.view, n) \in Int
    <3>1. o.view.shift \in Int
      BY CommitAssumption DEF Emitting
    <3> QED
      BY <2>1, <2>2, <3>1, SymbolWanted, CallableInInt
  <2>5. NamedWanted(o, <<"symbol", n, 0>>, TRUE) =
          {<<"symbol", n, 0>>, <<"address", callable_address_of_symbol(o.view, n) + 0, 0>>}
    BY DEF NamedWanted
  <2>6. NamedWanted(o, <<"symbol", n, 0>>, TRUE) \subseteq W
    <3>1. callable_address_of_symbol(o.view, n) + 0 = callable_address_of_symbol(o.view, n)
      BY <2>4
    <3> QED
      BY <1>2, <1>4, <2>2, <2>5, <3>1
  <2> QED
    BY <2>3, <2>4, <2>6
<1>5. CASE b = {} /\ s = {}
  <2>1. t = At("absolute", a)
    BY <1>1, <1>5
  <2> QED
    BY <1>2, <1>5, <2>1, MovedTarget
<1> QED
  BY <1>3, <1>4, <1>5

-----------------------------------------------------------------------------
(* The ops of an emitted plan, by the source ops they come from.           *)

SameButTarget(op, u) ==
  /\ op.op = u.op /\ Source(op) = Source(u)
  /\ u.op = "insn" => /\ op.mn = u.mn /\ op.rd = u.rd /\ op.rn = u.rn /\ op.imm = u.imm
                      /\ op.ref = u.ref /\ op.orig = u.orig
  /\ u.op = "macro" => op.kind = u.kind /\ op.originals = u.originals

\* An op that stands for no source, or a source op; when no redirect touched it, its
\* target is that of the source op, as the view v moves it.
From(v, op, T) ==
  \/ Source(op) = {}
  \/ \E u \in SourceOps :
       /\ SameButTarget(op, u)
       /\ Source(u) \cap T = {} =>
            (u.op = "insn" /\ u.ref = "none") \/ op.target = Sh(v, u.target)

LEMMA SameFields ==
  ASSUME NEW u, OpOK(u), NEW t
  PROVE  SameButTarget([u EXCEPT !.target = t], u) /\ [u EXCEPT !.target = t].target = t
<1> DEFINE o == [u EXCEPT !.target = t]
<1>1. Source(o) = Source(u)
  BY RetargetedOpOK
<1>2. CASE InsnOK(u)
  <2>1. u = [op |-> "insn", mn |-> u.mn, rd |-> u.rd, rn |-> u.rn, imm |-> u.imm,
             ref |-> u.ref, target |-> u.target, orig |-> u.orig, size |-> u.size]
    BY <1>2 DEF InsnOK
  <2>2. /\ o.op = u.op /\ o.target = t /\ u.op = "insn"
        /\ o.mn = u.mn /\ o.rd = u.rd /\ o.rn = u.rn /\ o.imm = u.imm
        /\ o.ref = u.ref /\ o.orig = u.orig
    BY <2>1
  <2> HIDE DEF o
  <2> QED
    BY <1>1, <2>2 DEF o, SameButTarget
<1>3. CASE MacroOK(u)
  <2>1. u = [op |-> "macro", kind |-> u.kind, rd |-> u.rd, target |-> u.target,
             originals |-> u.originals]
    BY <1>3 DEF MacroOK
  <2>2. /\ o.op = u.op /\ o.target = t /\ u.op = "macro"
        /\ o.kind = u.kind /\ o.originals = u.originals
    BY <2>1
  <2> HIDE DEF o
  <2> QED
    BY <1>1, <2>2 DEF o, SameButTarget
<1> QED
  BY <1>2, <1>3 DEF OpOK

\* Ops of a plan that is emitted as it is.
LEMMA PlainFrom ==
  ASSUME SliceInv, NEW v, v.shift = 0, NEW T, NEW op, Stems(op, T)
  PROVE  From(v, op, T)
<1>1. \A t : Sh(v, t) = t
  BY DEF Sh
<1>2. CASE op \in SourceOps
  BY <1>1, <1>2 DEF From, SameButTarget
<1>3. ASSUME NEW u \in SourceOps, NEW t, op = [u EXCEPT !.target = t], Source(u) \cap T # {}
      PROVE  From(v, op, T)
  <2>1. SameButTarget(op, u)
    BY <1>3, SourceOpFacts, SameFields
  <2> QED
    BY <1>3, <2>1 DEF From
<1> QED
  BY <1>2, <1>3 DEF Stems, From

LEMMA RelocSymbols ==
  ASSUME SliceInv, NEW a, NEW r \in RelocAt(a)
  PROVE  r.symbol \in SymbolIds
<1> DEFINE S == {n \in DOMAIN input.relocs :
                   LET q == input.relocs[n] IN
                   q.kind \in LiftRelocs /\ SectionAddress(q.section) + q.offset = a}
<1>1. S \subseteq DOMAIN input.relocs
  OBVIOUS
<1>2. r \in FirstReloc(S)
  BY DEF RelocAt
<1> HIDE DEF S
<1>3. \/ S = {} /\ FirstReloc(S) = {}
      \/ \E n \in S : FirstReloc(S) = {input.relocs[n]} /\ input.relocs[n].symbol \in SymbolIds
  BY <1>1, FirstRelocFacts
<1> QED
  BY <1>2, <1>3

LEMMA SymbolTarget ==
  ASSUME NEW s \in SymbolIds
  PROVE  TargetOK(At("symbol", s))
BY PlanAssumption DEF At, TargetOK

LEMMA ResolvedTarget ==
  ASSUME SliceInv, BlocksOK, NEW a \in Int
  PROVE  TargetOK(resolve_address(a))
<1> DEFINE x == [plan |-> blocks, view |-> View(input.base, 0)]
<1>1. input.base \in Int
  BY PlanAssumption DEF SliceInv, InputOK
<1>2. Emitting(x)
  BY <1>1 DEF Emitting, View
<1> HIDE DEF x
<1> QED
  BY <1>2, ResolvedWanted

\* A target of a source op is one of the container or the plan.
LEMMA SourceTargets ==
  ASSUME SliceInv, BlocksOK, NEW i \in 1 .. N
  PROVE  TargetOK(LiftedAt(i).target)
<1> DEFINE insn == instructions[i]
           syms == {r.symbol : r \in {r \in RelocAt(insn.address) : r.kind \in PcRelativeRelocs}}
<1>1. InputOK(input) /\ insn.target \in Int
  BY PlanAssumption, SliceFacts DEF SliceInv
<1>3. \A r \in RelocAt(insn.address) : r.symbol \in SymbolIds
  BY RelocSymbols
<1>4. syms # {} => LowestOf(syms) \in SymbolIds
  <2>1. syms \subseteq SymbolIds
    BY <1>3
  <2> HIDE DEF syms
  <2> QED
    BY <2>1, PlanAssumption, LowestFacts
<1>5. LiftedAt(i).target \in {At("absolute", 0), At("symbol", LowestOf(syms)),
                              At("absolute", insn.target), resolve_address(insn.target)}
  BY DEF LiftedAt, lift_instruction, PageTarget
<1>6. LiftedAt(i).target = At("symbol", LowestOf(syms)) => syms # {} \/ LiftedAt(i).target = At("absolute", 0)
        \/ LiftedAt(i).target = At("absolute", insn.target) \/ LiftedAt(i).target = resolve_address(insn.target)
  BY DEF LiftedAt, lift_instruction, PageTarget
<1> HIDE DEF syms
<1>7. ASSUME NEW a \in Int PROVE TargetOK(At("absolute", a))
  BY DEF At, TargetOK
<1>8. ASSUME NEW s \in SymbolIds PROVE TargetOK(At("symbol", s))
  BY SymbolTarget
<1>9. TargetOK(resolve_address(insn.target))
  BY <1>1, ResolvedTarget
<1> HIDE DEF insn
<1> QED
  BY <1>1, <1>4, <1>5, <1>6, <1>7, <1>8, <1>9

LEMMA MacroTargets ==
  ASSUME SliceInv, BlocksOK, NEW i \in 1 .. N - 1, NEW u \in MacroOps(LiftedAt(i), LiftedAt(i + 1))
  PROVE  TargetOK(u.target)
<1> DEFINE a == LiftedAt(i)
           b == LiftedAt(i + 1)
           P(k) == macro_target_from_relocations(a, b, k)
<1>1. i \in 1 .. N /\ i + 1 \in 1 .. N
  BY SliceFacts
<1>2. InsnOK(a) /\ InsnOK(b) /\ TargetOK(a.target)
  BY <1>1, LiftedInsn, SourceTargets DEF LiftedAt
<1>3. b.imm \in Int /\ a.orig = instructions[i].address
  BY <1>1, LiftedFields
<1> HIDE DEF a, b
<1>4. ASSUME NEW k, NEW t \in P(k) PROVE TargetOK(t)
  <2>1. PICK r \in RelocAt(a.orig) : t = At("symbol", r.symbol)
    BY <1>4 DEF macro_target_from_relocations
  <2>2. r.symbol \in SymbolIds
    BY <2>1, RelocSymbols
  <2> QED
    BY <2>1, <2>2, SymbolTarget
<1>5. ASSUME NEW d, d.imm \in Int, NEW t \in Combined(a, d) PROVE TargetOK(t)
  <2>1. a.target.v + d.imm \in Int /\ t = resolve_address(a.target.v + d.imm)
    BY <1>2, <1>5 DEF Combined, TargetOK
  <2> QED
    BY <2>1, ResolvedTarget
<1>6. ASSUME NEW d \in Int PROVE [b EXCEPT !.imm = d].imm = d
  <2>1. b = [op |-> "insn", mn |-> b.mn, rd |-> b.rd, rn |-> b.rn, imm |-> b.imm,
             ref |-> b.ref, target |-> b.target, orig |-> b.orig, size |-> b.size]
    BY <1>2 DEF InsnOK
  <2> QED
    BY <2>1
<1>7. ASSUME NEW t \in try_fuse_adrp_add(a, b) PROVE TargetOK(t)
  <2> DEFINE imm == IF b.mn = "mov" THEN 0 ELSE b.imm
             c == [b EXCEPT !.imm = imm]
  <2>1. t = a.target \/ t \in P("AddPageOffset12") \/ t \in Combined(a, c)
    BY <1>7 DEF try_fuse_adrp_add
  <2>2. imm \in Int
    BY <1>3
  <2> HIDE DEF imm
  <2>3. c.imm \in Int
    BY <1>6, <2>2
  <2> HIDE DEF c, P
  <2> QED
    BY <1>2, <1>4, <1>5, <2>1, <2>3
<1>8. ASSUME NEW t \in try_fuse_adrp_ldst(a, b) PROVE TargetOK(t)
  <2>1. t \in P("LoadStorePageOffset12")
    BY <1>8 DEF try_fuse_adrp_ldst
  <2> HIDE DEF P
  <2> QED
    BY <1>4, <2>1
<1>9. u.target \in try_fuse_adrp_add(a, b) \cup try_fuse_adrp_ldst(a, b)
  <2>1. u \in MacroOps(a, b)
    BY DEF a, b
  <2>2. \E t \in try_fuse_adrp_add(a, b) \cup try_fuse_adrp_ldst(a, b) : \E k :
          u = [op |-> "macro", kind |-> k, rd |-> a.rd, target |-> t, originals |-> <<a, b>>]
    BY <2>1 DEF MacroOps
  <2> QED
    BY <2>2
<1> QED
  BY <1>7, <1>8, <1>9

LEMMA SourceOpTarget ==
  ASSUME SliceInv, BlocksOK, NEW u \in SourceOps
  PROVE  OpOK(u) /\ TargetOK(u.target)
<1>1. OpOK(u)
  BY SourceOpFacts
<1>2. TargetOK(u.target)
  BY SourceTargets, MacroTargets DEF SourceOps
<1> QED
  BY <1>1, <1>2

\* Ops of a plan that is shifted.
LEMMA ShiftedFrom ==
  ASSUME SliceInv, BlocksOK, NEW v, v.shift = Delta, NEW T, NEW w, OpOK(w), Stems(w, T)
  PROVE  From(v, ShiftedOp(w), T)
<1> DEFINE op == ShiftedOp(w)
           b == Bump(w.target)
           o == [w EXCEPT !.target = b]
<1>1. op = IF w.op = "insn" /\ w.ref = "none" THEN w ELSE o
  BY DEF ShiftedOp
<1> HIDE DEF b
<1>2. SameButTarget(o, w) /\ o.target = b
  BY SameFields
<1>3. SameButTarget(op, w)
  <2>1. SameButTarget(w, w)
    BY DEF SameButTarget
  <2> HIDE DEF o, op
  <2> QED
    BY <1>1, <1>2, <2>1
<1>4. CASE w \in SourceOps
  <2>1. TargetOK(w.target)
    BY <1>4, SourceOpTarget
  <2>2. Delta \in Nat /\ (Delta = 0 => Bump(w.target) = w.target)
    BY <2>1, BumpOK, CommitAssumption
  <2>3. b = Sh(v, w.target)
    BY <2>2 DEF Sh, b
  <2>4. (w.op = "insn" /\ w.ref = "none") \/ op.target = Sh(v, w.target)
    <3> HIDE DEF o, op
    <3> QED
      BY <1>1, <1>2, <2>3
  <2> HIDE DEF op
  <2> QED
    BY <1>3, <1>4, <2>4 DEF From, op
<1>5. ASSUME NEW u \in SourceOps, NEW t, w = [u EXCEPT !.target = t], Source(u) \cap T # {}
      PROVE  From(v, op, T)
  <2> HIDE DEF op
  <2>1. SameButTarget(w, u)
    BY <1>5, SourceOpFacts, SameFields
  <2>2. SameButTarget(op, u)
    BY <1>3, <2>1 DEF SameButTarget
  <2> QED
    BY <1>5, <2>2 DEF From
<1>6. Source(w) = {} => Source(op) = {}
  BY <1>3 DEF SameButTarget
<1> HIDE DEF op
<1> QED
  BY <1>4, <1>5, <1>6 DEF Stems, From, op

\* x is the emission of the plan as it is, or of its shift, before any overlay.
Emission(x, T) ==
  /\ PlanOK(x.plan) /\ Paired(x.plan) /\ Emitting(x)
  /\ IsSeq(x.words) /\ Covered(x, x.plan, x.view)
  /\ \A op \in OpsIn(x.plan) : From(x.view, op, T)

\* The source op u that op comes from, when it stands for instruction i.
Origin(v, op, T, i, u) ==
  /\ SameButTarget(op, u)
  /\ Source(u) \cap T = {} =>
       (u.op = "insn" /\ u.ref = "none") \/ op.target = Sh(v, u.target)
  /\ \/ u.op = "insn" /\ u = LiftedAt(i) /\ Source(u) = {instructions[i].address}
     \/ \E n \in 1 .. N - 1 :
          /\ u.op = "macro" /\ i \in {n, n + 1} /\ n \in 1 .. N /\ n + 1 \in 1 .. N
          /\ u \in MacroOps(LiftedAt(n), LiftedAt(n + 1))
          /\ u.originals = <<LiftedAt(n), LiftedAt(n + 1)>>
          /\ Source(u) = {instructions[n].address, instructions[n + 1].address}

LEMMA OpFor ==
  ASSUME SliceInv, NEW v, NEW T, NEW op, From(v, op, T), NEW i \in 1 .. N,
         instructions[i].address \in Source(op)
  PROVE  \E u \in SourceOps : Origin(v, op, T, i, u)
<1>1. PICK u \in SourceOps :
        /\ SameButTarget(op, u)
        /\ Source(u) \cap T = {} =>
             (u.op = "insn" /\ u.ref = "none") \/ op.target = Sh(v, u.target)
  BY DEF From
<1>2. instructions[i].address \in Source(u) /\ OpOK(u)
  BY <1>1, SourceOpFacts DEF SameButTarget
<1>3. CASE u.op = "insn"
  <2>1. PICK n \in 1 .. N : u = LiftedAt(n) /\ Source(u) = {instructions[n].address}
    BY <1>3, SourceOpFacts
  <2>2. n = i
    BY <1>2, <2>1, AddressesDiffer
  <2> QED
    BY <1>1, <1>3, <2>1, <2>2 DEF Origin
<1>4. CASE u.op = "macro"
  <2>1. PICK n \in 1 .. N - 1 :
          /\ u \in MacroOps(LiftedAt(n), LiftedAt(n + 1))
          /\ u.originals = <<LiftedAt(n), LiftedAt(n + 1)>>
          /\ Source(u) = {instructions[n].address, instructions[n + 1].address}
    BY <1>4, SourceOpFacts
  <2>2. n \in 1 .. N /\ n + 1 \in 1 .. N
    BY SliceFacts
  <2>3. i \in {n, n + 1}
    BY <1>2, <2>1, <2>2, AddressesDiffer
  <2> QED
    BY <1>1, <1>4, <2>1, <2>2, <2>3 DEF Origin
<1> QED
  BY <1>2, <1>3, <1>4, SourceFacts

\* The halves of a macro: an adrp, and a companion that uses its register.
LEMMA HalvesPair ==
  ASSUME SliceInv, NEW n \in 1 .. N, n + 1 \in 1 .. N,
         NEW u \in MacroOps(LiftedAt(n), LiftedAt(n + 1))
  PROVE  /\ instructions[n].mn = "adrp" /\ instructions[n + 1].mn \in {"add", "mov", "ldst"}
         /\ instructions[n + 1].rn = instructions[n].rd
         /\ \/ u.kind = "LoadAddress" /\ instructions[n + 1].rd = instructions[n].rd
                /\ instructions[n + 1].mn \in {"add", "mov"}
            \/ u.kind = "AccessValue" /\ RelocAt(instructions[n].address) # {}
<1> DEFINE a == LiftedAt(n)
           b == LiftedAt(n + 1)
<1>1. /\ a.mn = instructions[n].mn /\ a.rd = instructions[n].rd
      /\ a.orig = instructions[n].address
      /\ b.mn = instructions[n + 1].mn /\ b.rd = instructions[n + 1].rd
      /\ b.rn = instructions[n + 1].rn
  BY LiftedFields
<1> HIDE DEF a, b
<1>2. /\ a.mn = "adrp"
      /\ \/ u.kind = "LoadAddress" /\ try_fuse_adrp_add(a, b) # {}
         \/ u.kind = "AccessValue" /\ try_fuse_adrp_ldst(a, b) # {}
  <2>1. u \in MacroOps(a, b)
    BY DEF a, b
  <2> QED
    BY <2>1 DEF MacroOps
<1>3. try_fuse_adrp_add(a, b) # {} => b.mn \in {"add", "mov"} /\ a.rd = b.rd /\ a.rd = b.rn
  BY DEF try_fuse_adrp_add, same_register
<1>4. try_fuse_adrp_ldst(a, b) # {} => b.mn = "ldst" /\ a.rd = b.rn /\ RelocAt(a.orig) # {}
  BY DEF try_fuse_adrp_ldst, same_register, macro_target_from_relocations
<1> QED
  BY <1>1, <1>2, <1>3, <1>4

LEMMA NotTouched ==
  ASSUME IsSeq(log), NEW i, Untouched(i)
  PROVE  instructions[i].address \notin TouchedAt(log)
BY DEF Untouched, Succeeded, TouchedAt, Redirects, IsSeq

\* A branch nobody redirected.
LEMMA BranchKept ==
  ASSUME SliceInv, BlocksOK, IsSeq(log), NEW x, Emission(x, TouchedAt(log)),
         NEW i \in 1 .. N, instructions[i].kind \in Targeted, Untouched(i), ~Misattributed(i),
         ~AddendDropped(i),
         NEW k \in WordsFor(x, instructions[i].address)
  PROVE  NamedBranch(x, k) \in NamedWanted(x, BranchSource(i), TRUE)
<1> DEFINE a == instructions[i].address
           w == LiftedAt(i).target
           t == Sh(x.view, w)
           own == OwnRelocAt(a)
<1>1. /\ LiftedAt(i).ref = "branch" /\ instructions[i].mn = "other"
  BY LiftedFields
<1>2. a \in Nat /\ a \notin TouchedAt(log)
  BY SliceFacts, NotTouched
<1>3. ASSUME NEW op \in OpsIn(x.plan), a \in Source(op)
      PROVE  op.op = "insn" /\ op.ref # "none" /\ op.target = t
  <2>1. From(x.view, op, TouchedAt(log))
    BY DEF Emission
  <2>2. PICK u \in SourceOps : Origin(x.view, op, TouchedAt(log), i, u)
    BY <1>3, <2>1, OpFor
  <2>3. u.op = "insn" /\ u = LiftedAt(i) /\ Source(u) = {a}
    BY <1>1, <2>2, HalvesPair DEF Origin
  <2> HIDE DEF a
  <2>4. op.target = t
    BY <1>1, <1>2, <2>2, <2>3 DEF Origin
  <2>5. op.op = "insn" /\ op.ref = u.ref
    BY <2>2, <2>3 DEF SameButTarget, Origin
  <2> QED
    BY <1>1, <2>3, <2>4, <2>5
<1>4. TargetOK(w) /\ TargetOK(t)
  BY SourceTargets, ShOK
<1>5. NamedBranch(x, k) \in Refs(x.plan, x.view, t)
  <2>1. k \in 1 .. Len(x.words) /\ x.words[k].src = a
    BY DEF WordsFor, IsSeq, Emission
  <2>2. PlanOK(x.plan) /\ x.view.base \in Int /\ Covered(x, x.plan, x.view)
    BY DEF Emission, Emitting
  <2>3. BranchAt(x.plan, a, t)
    BY <1>3 DEF BranchAt
  <2> HIDE DEF t, a, w
  <2> QED
    BY <1>2, <1>4, <2>1, <2>2, <2>3, BranchWord
<1>6. Emitting(x)
  BY DEF Emission
<1>7. CASE own = {}
  <2>1. w = resolve_address(instructions[i].target)
    BY <1>1, <1>7, LiftedTarget
  <2>2. instructions[i].target \in Int
    BY SliceFacts
  <2>3. Refs(x.plan, x.view, t) \subseteq NamedWanted(x, <<"address", instructions[i].target, 0>>, TRUE)
    BY <1>6, <2>1, <2>2, ResolvedWanted
  <2>4. BranchSource(i) = <<"address", instructions[i].target, 0>>
    BY <1>7 DEF BranchSource
  <2> QED
    BY <1>5, <2>3, <2>4
<1>8. CASE own # {}
  <2>1. PICK r : own = {r} /\ r.symbol \in SymbolIds /\ input.container
    BY <1>8, OwnRelocFacts
  <2>2. w = At("symbol", r.symbol)
    BY <1>1, <2>1, LiftedTarget
  <2>3. Refs(x.plan, x.view, t) \subseteq NamedWanted(x, <<"symbol", r.symbol, 0>>, TRUE)
    BY <1>6, <2>1, <2>2, SymbolWanted
  <2>4. (CHOOSE q \in own : TRUE) = r
    BY <2>1
  <2>5. BranchSource(i) = <<"symbol", r.symbol, r.addend>>
    BY <1>8, <2>4 DEF BranchSource
  <2>6. r.addend = 0
    BY <2>1 DEF AddendDropped
  <2> HIDE DEF own
  <2> QED
    BY <1>5, <2>3, <2>5, <2>6
<1> QED
  BY <1>7, <1>8

\* An instruction that refers to nothing keeps its immediate.
LEMMA BareForm ==
  ASSUME NEW o, InsnOK(o), o.ref = "none", NEW p, NEW v, NEW here
  PROVE  LET x == emit_instruction(p, v, o, here) IN
         /\ Len(x.words) = 1 /\ x.words[1].imm = o.imm
         /\ \A k : RelocsOn(x, k) = {}
<1> DEFINE x == emit_instruction(p, v, o, here)
           s == SourceWord(o.orig)
           w == Word(o, 0)
<1>1. InsnRelocs(v, o) = {}
  BY DEF InsnRelocs
<1>2. \/ x = Bytes(<<s>>, <<>>) /\ StillDecodes(p, v, o)
      \/ x = Bytes(<<w>>, <<>>)
  BY <1>1 DEF emit_instruction
<1>3. StillDecodes(p, v, o) => s.imm = o.imm
  BY DEF StillDecodes
<1>4. w.imm = o.imm
  BY DEF Word
<1> HIDE DEF s, w, x
<1>5. ASSUME NEW u, u.imm = o.imm, x = Bytes(<<u>>, <<>>)
      PROVE  Len(x.words) = 1 /\ x.words[1].imm = o.imm /\ \A k : RelocsOn(x, k) = {}
  <2>1. x.words = <<u>> /\ Len(<<u>>) = 1 /\ <<u>>[1] = u
    BY <1>5, PairSeq DEF Bytes
  <2>2. \A k : RelocsOn(x, k) = {}
    BY <1>5, OnNone
  <2> QED
    BY <1>5, <2>1, <2>2
<1>6. Len(x.words) = 1 /\ x.words[1].imm = o.imm /\ \A k : RelocsOn(x, k) = {}
  BY <1>2, <1>3, <1>4, <1>5
<1> QED
  BY <1>6 DEF x

\* Whatever stands for a refers to nothing and has the immediate d.
BareAt(p, a, d) ==
  \A op \in OpsIn(p) : a \in Source(op) => op.op = "insn" /\ op.ref = "none" /\ op.imm = d

LEMMA BareWord ==
  ASSUME NEW p, PlanOK(p), NEW v, v.base \in Int, NEW e, Covered(e, p, v),
         NEW a \in Nat, NEW d, BareAt(p, a, d),
         NEW k \in 1 .. Len(e.words), e.words[k].src = a
  PROVE  e.words[k].imm = d /\ RelocsOn(e, k) = {}
<1>1. PICK op, here, pos : WordOf(e, p, v, op, here, pos, k)
  BY DEF Covered
<1> DEFINE x == EmitOp(p, v, op, here)
<1>2. a \in Source(op) /\ OpOK(op)
  BY <1>1, WordSource DEF Source
<1>3. op \in OpsIn(p)
  BY <1>1 DEF WordOf, Lands
<1>4. PICK j \in 1 .. Len(x.words) :
        k = pos + j /\ e.words[k] = x.words[j] /\ RelocsOn(e, k) = RelocsOn(x, pos + j)
  BY <1>1 DEF WordOf, Lands
<1>5. op.op = "insn" /\ op.ref = "none" /\ op.imm = d
  BY <1>2, <1>3 DEF BareAt
<1>6. InsnOK(op) /\ x = emit_instruction(p, v, op, here)
  BY <1>2, <1>5, SourceFacts DEF EmitOp
<1>7. Len(x.words) = 1 /\ x.words[1].imm = d /\ \A n : RelocsOn(x, n) = {}
  BY <1>5, <1>6, BareForm
<1>8. j = 1
  BY <1>7
<1> QED
  BY <1>4, <1>7, <1>8

\* A pair that is kept apart, its adrp and its companion.
Reads(i, j) ==
  /\ i \in 1 .. N /\ j \in 1 .. N /\ i < j
  /\ instructions[i].mn = "adrp" /\ instructions[j].mn \in {"add", "mov", "ldst"}
  /\ instructions[j].rn = instructions[i].rd
  /\ \A k \in i + 1 .. j - 1 : instructions[k].rd # instructions[i].rd

LEMMA MemberFused ==
  ASSUME NEW p, NEW i
  PROVE  FusedInto(p, i) =
           {m \in OpsIn(p) : m.op = "macro" /\ m.originals[1].orig = instructions[i].address}
BY DEF FusedInto, OpsIn

LEMMA ApartOps ==
  ASSUME SliceInv, NEW v, NEW T, NEW p, \A op \in OpsIn(p) : From(v, op, T),
         NEW i, NEW j, Reads(i, j), FusedInto(p, i) = {}, instructions[i].address \notin T,
         NEW op \in OpsIn(p)
  PROVE  /\ instructions[i].address \in Source(op) =>
              op.op = "insn" /\ op.ref # "none" /\ op.target = Sh(v, LiftedAt(i).target)
         /\ instructions[j].address \in Source(op) =>
              op.op = "insn" /\ op.ref = "none" /\ op.imm = instructions[j].imm
<1>1. i \in 1 .. N /\ j \in 1 .. N /\ i < j /\ N \in Nat
  BY SliceFacts DEF Reads
<1>2. From(v, op, T)
  OBVIOUS
<1>3. /\ LiftedAt(i).ref = "page" /\ LiftedAt(j).ref = "none"
      /\ LiftedAt(j).imm = instructions[j].imm
      /\ \A n \in 1 .. N : LiftedAt(n).orig = instructions[n].address
  BY <1>1, LiftedFields DEF Reads
\* No macro begins at the adrp.
<1>4. ASSUME NEW u, SameButTarget(op, u), u.op = "macro",
             u.originals = <<LiftedAt(i), LiftedAt(i + 1)>>
      PROVE  FALSE
  <2>1. op.op = "macro" /\ op.originals[1] = LiftedAt(i)
    BY <1>4 DEF SameButTarget
  <2>2. op.originals[1].orig = instructions[i].address
    BY <1>1, <1>3, <2>1
  <2>3. op \in FusedInto(p, i)
    BY <2>1, <2>2, MemberFused
  <2> QED
    BY <2>3
<1>5. ASSUME instructions[i].address \in Source(op)
      PROVE  op.op = "insn" /\ op.ref # "none" /\ op.target = Sh(v, LiftedAt(i).target)
  <2> DEFINE a == instructions[i].address
  <2>1. PICK u \in SourceOps : Origin(v, op, T, i, u)
    BY <1>1, <1>2, <1>5, OpFor
  <2>2. u.op = "insn" /\ u = LiftedAt(i) /\ Source(u) = {a}
    BY <1>4, <2>1, HalvesPair DEF Reads, Origin
  <2> HIDE DEF a
  <2>3. op.op = "insn" /\ op.ref = u.ref
    BY <2>1, <2>2 DEF SameButTarget, Origin
  <2>4. Source(u) \cap T = {}
    BY <2>2 DEF a
  <2> QED
    BY <1>3, <2>1, <2>2, <2>3, <2>4 DEF Origin
<1>6. ASSUME instructions[j].address \in Source(op)
      PROVE  op.op = "insn" /\ op.ref = "none" /\ op.imm = instructions[j].imm
  <2> DEFINE a == instructions[j].address
  <2>1. PICK u \in SourceOps : Origin(v, op, T, j, u)
    BY <1>1, <1>2, <1>6, OpFor
  <2>2. ASSUME NEW n \in 1 .. N - 1, u.op = "macro", j \in {n, n + 1}, n \in 1 .. N, n + 1 \in 1 .. N,
               u \in MacroOps(LiftedAt(n), LiftedAt(n + 1)),
               u.originals = <<LiftedAt(n), LiftedAt(n + 1)>>
        PROVE  FALSE
    <3>1. instructions[n].mn = "adrp" /\ instructions[n + 1].rn = instructions[n].rd
      BY <2>2, HalvesPair
    <3>2. j # n
      BY <3>1 DEF Reads
    <3>3. j = n + 1
      BY <2>2, <3>2
    <3>4. instructions[n].rd = instructions[i].rd
      BY <3>1, <3>3 DEF Reads
    <3>5. n = i
      <4>1. n \notin i + 1 .. j - 1
        BY <3>4 DEF Reads
      <4> QED
        BY <1>1, <3>3, <4>1
    <3> QED
      BY <1>4, <2>1, <2>2, <3>5 DEF Origin
  <2>3. u.op = "insn" /\ u = LiftedAt(j)
    BY <2>1, <2>2 DEF Origin
  <2> QED
    BY <1>3, <2>1, <2>3 DEF SameButTarget, Origin
<1> QED
  BY <1>5, <1>6

\* The adrp and its companion are emitted one by one.
LEMMA ApartKept ==
  ASSUME SliceInv, BlocksOK, IsSeq(log), NEW x, Emission(x, TouchedAt(log)),
         NEW i, NEW j, Reads(i, j), FusedInto(x.plan, i) = {}, Untouched(i),
         ~Misattributed(i), ~LoneCompanion(x, i, j), ~AcrossInsert(x, i, j),
         NEW k \in WordsFor(x, instructions[i].address),
         NEW l \in WordsFor(x, instructions[j].address)
  PROVE  Refers(x.words[k].val, x.words[l].imm, RelocsOn(x, k), RelocsOn(x, l))
           \in NamedWanted(x, SourceRefers(i, j), FALSE)
<1> DEFINE a == instructions[i].address
           b == instructions[j].address
           page == instructions[i].target
           low == instructions[j].imm
           v == x.view
           t == Sh(v, LiftedAt(i).target)
           R == OwnRelocAt(a)
           Q == OwnRelocAt(b)
<1>1. /\ i \in 1 .. N /\ j \in 1 .. N /\ instructions[i].mn = "adrp"
      /\ a \in Nat /\ b \in Nat /\ a \notin TouchedAt(log)
      /\ page \in Int /\ low \in Int
  <2>1. i \in 1 .. N /\ j \in 1 .. N /\ instructions[i].mn = "adrp"
    BY DEF Reads
  <2> QED
    BY <2>1, SliceFacts, NotTouched, LiftedFields
<1>2. R = {} /\ Q = {} /\ SourceRefers(i, j) = <<"address", page + low, 0>>
  <2>1. SourceRefers(i, j)[1] = "address"
    BY DEF LoneCompanion
  <2>2. SourceRefers(i, j) = Refers(page, low, R, Q)
    BY DEF SourceRefers
  <2> HIDE DEF R, Q, page, low
  <2>3. Refers(page, low, R, Q) = IF R = {} /\ Q = {} THEN <<"address", page + low, 0>>
                                  ELSE Refers(page, low, R, Q)
    BY DEF Refers
  <2>4. ~(R = {} /\ Q = {}) => Refers(page, low, R, Q)[1] # "address"
    BY DEF Refers
  <2> QED
    BY <2>1, <2>2, <2>3, <2>4
<1>3. LiftedAt(i).target = At("absolute", page)
  BY <1>1, <1>2, LiftedTarget
<1>4. Emitting(x) /\ PlanOK(x.plan) /\ v.base \in Int /\ IsSeq(x.words) /\ Covered(x, x.plan, v)
      /\ \A op \in OpsIn(x.plan) : From(v, op, TouchedAt(log))
  BY DEF Emission, Emitting
<1>5. /\ k \in 1 .. Len(x.words) /\ x.words[k].src = a
      /\ l \in 1 .. Len(x.words) /\ x.words[l].src = b
  BY <1>4 DEF WordsFor, IsSeq
<1>14. ASSUME NEW op \in OpsIn(x.plan)
       PROVE  /\ a \in Source(op) => op.op = "insn" /\ op.ref # "none" /\ op.target = t
              /\ b \in Source(op) => op.op = "insn" /\ op.ref = "none" /\ op.imm = low
  BY <1>1, <1>4, ApartOps
<1>6. BranchAt(x.plan, a, t) /\ BareAt(x.plan, b, low)
  BY <1>14 DEF BranchAt, BareAt
<1>7. TargetOK(t) /\ Refs(x.plan, v, t) = {<<"address", Moved(v, page), 0>>}
  <2>1. TargetOK(LiftedAt(i).target)
    BY <1>1, SourceTargets
  <2>2. TargetOK(t)
    BY <2>1, ShOK
  <2>3. \A p : Refs(p, v, Sh(v, At("absolute", page))) = {<<"address", Moved(v, page), 0>>}
    BY <1>1, <1>4, MovedTarget
  <2> QED
    BY <1>3, <2>2, <2>3
<1> HIDE DEF a, b, page, low, t, v, R, Q
<1>8. NamedBranch(x, k) \in Refs(x.plan, v, t)
  BY <1>1, <1>4, <1>5, <1>6, <1>7, BranchWord
<1>9. RelocsOn(x, k) = {} /\ x.words[k].val = Moved(v, page)
  <2>1. NamedBranch(x, k) = <<"address", Moved(v, page), 0>>
    BY <1>7, <1>8
  <2> QED
    BY <2>1 DEF NamedBranch
<1>10. x.words[l].imm = low /\ RelocsOn(x, l) = {}
  BY <1>1, <1>4, <1>5, <1>6, BareWord
<1>11. Refers(x.words[k].val, x.words[l].imm, RelocsOn(x, k), RelocsOn(x, l))
         = <<"address", Moved(v, page) + low, 0>>
  BY <1>9, <1>10 DEF Refers
<1>12. Moved(v, page) + low = Moved(v, page + low)
  <2>1. input.base \in Int /\ v.shift \in Int /\ v.shift >= 0
    BY <1>4, PlanAssumption, CommitAssumption DEF SliceInv, InputOK, Emitting, v
  <2>2. v.shift > 0 => ((page < input.base) <=> (page + low < input.base))
    BY DEF AcrossInsert, page, low, v
  <2> QED
    BY <1>1, <2>1, <2>2 DEF Moved
<1>13. NamedWanted(x, <<"address", page + low, 0>>, FALSE) = {<<"address", Moved(v, page + low), 0>>}
  BY DEF NamedWanted, v
<1> QED
  BY <1>2, <1>11, <1>12, <1>13 DEF a, b

-----------------------------------------------------------------------------
(* A pair that became a macro.                                             *)

\* The adrp i and its companion have no relocation and compute an address, and t is
\* that address; or they have the relocations r and q, and t is their symbol.
PairComputes(i, t) ==
  LET A == instructions[i].target + instructions[i + 1].imm
  IN /\ OwnRelocAt(instructions[i].address) = {}
     /\ A \in Int /\ t = resolve_address(A) /\ SourceRefers(i, i + 1) = <<"address", A, 0>>

PairNames(i, t, r, q) ==
  /\ OwnRelocAt(instructions[i].address) = {r} /\ OwnRelocAt(instructions[i + 1].address) = {q}
  /\ input.container /\ r.symbol \in SymbolIds /\ q.symbol = r.symbol
  /\ r.addend = 0 /\ q.addend = 0
  /\ t = At("symbol", r.symbol) /\ SourceRefers(i, i + 1) = <<"symbol", r.symbol, 0>>

\* The target of a macro: the address the pair computed, or the symbol it named.
LEMMA FusedTarget ==
  ASSUME SliceInv, NEW i \in 1 .. N, i + 1 \in 1 .. N,
         NEW u \in MacroOps(LiftedAt(i), LiftedAt(i + 1)),
         ~Misattributed(i), ~Misattributed(i + 1), ~AddendDropped(i),
         SourceRefers(i, i + 1)[1] # "broken"
  PROVE  PairComputes(i, u.target) \/ \E r, q : PairNames(i, u.target, r, q)
<1> DEFINE R == OwnRelocAt(instructions[i].address)
           Q == OwnRelocAt(instructions[i + 1].address)
           page == instructions[i].target
           low == instructions[i + 1].imm
           a == LiftedAt(i)
           b == LiftedAt(i + 1)
           P(k) == macro_target_from_relocations(a, b, k)
<1>1. /\ instructions[i].mn = "adrp" /\ page \in Int /\ low \in Int
      /\ b.imm = low /\ b.mn = instructions[i + 1].mn
      /\ instructions[i + 1].mn = "mov" => low = 0
      /\ a.orig = instructions[i].address
  BY HalvesPair, LiftedFields
<1>2. RelocAt(a.orig) = R
  BY <1>1 DEF Misattributed
<1>3. /\ R = {} => a.target = At("absolute", page)
      /\ \A r \in R : a.target = At("symbol", r.symbol)
  BY <1>1, LiftedTarget
<1>4. SourceRefers(i, i + 1) = Refers(page, low, R, Q)
  BY DEF SourceRefers
<1>5. InsnOK(a) /\ InsnOK(b)
  BY LiftedInsn DEF LiftedAt
<1>6. u.target \in try_fuse_adrp_add(a, b) \cup try_fuse_adrp_ldst(a, b)
  <2> HIDE DEF a, b
  <2>1. u \in MacroOps(a, b)
    BY DEF a, b
  <2>2. \E t \in try_fuse_adrp_add(a, b) \cup try_fuse_adrp_ldst(a, b) : \E k :
          u = [op |-> "macro", kind |-> k, rd |-> a.rd, target |-> t, originals |-> <<a, b>>]
    BY <2>1 DEF MacroOps
  <2> QED
    BY <2>2
<1>7. \/ a.target.kind = "symbol" /\ u.target = a.target
      \/ \E k : u.target \in P(k)
      \/ \E d : d.imm = low /\ u.target \in Combined(a, d)
  <2> DEFINE imm == IF b.mn = "mov" THEN 0 ELSE b.imm
             c == [b EXCEPT !.imm = imm]
  <2>1. imm = low
    BY <1>1
  <2>2. c.imm = imm
    <3> HIDE DEF imm, a, b
    <3>1. b = [op |-> "insn", mn |-> b.mn, rd |-> b.rd, rn |-> b.rn, imm |-> b.imm,
               ref |-> b.ref, target |-> b.target, orig |-> b.orig, size |-> b.size]
      BY <1>5 DEF InsnOK
    <3> QED
      BY <3>1
  <2>3. ASSUME NEW t \in try_fuse_adrp_add(a, b)
        PROVE  (a.target.kind = "symbol" /\ t = a.target) \/ t \in P("AddPageOffset12") \/ t \in Combined(a, c)
    <3> HIDE DEF a, b
    <3> QED
      BY <2>3 DEF try_fuse_adrp_add
  <2>4. ASSUME NEW t \in try_fuse_adrp_ldst(a, b) PROVE t \in P("LoadStorePageOffset12")
    <3> HIDE DEF a, b
    <3> QED
      BY <2>4 DEF try_fuse_adrp_ldst
  <2> HIDE DEF imm, c, P, a, b
  <2> QED
    BY <1>6, <2>1, <2>2, <2>3, <2>4
<1>8. ASSUME NEW k, NEW t \in P(k) PROVE \E r \in R : t = At("symbol", r.symbol)
  BY <1>2, <1>8 DEF macro_target_from_relocations
<1>9. \A s : At("symbol", s).kind = "symbol" /\ At("absolute", s).kind = "absolute" /\ At("absolute", s).v = s
  BY DEF At
<1>10. CASE R = {}
  <2>1. Q = {}
    <3> SUFFICES ASSUME Q # {} PROVE SourceRefers(i, i + 1) = <<"broken", 0, 0>>
      OBVIOUS
    <3> HIDE DEF R, Q, page, low
    <3> QED
      BY <1>4, <1>10 DEF Refers
  <2>2. SourceRefers(i, i + 1) = <<"address", page + low, 0>>
    <3> HIDE DEF R, Q, page, low
    <3> QED
      BY <1>4, <1>10, <2>1 DEF Refers
  <2> HIDE DEF R, a, b, P
  <2>3. PICK d : d.imm = low /\ u.target \in Combined(a, d)
    BY <1>3, <1>7, <1>8, <1>9, <1>10
  <2>4. u.target = resolve_address(page + low)
    BY <1>3, <1>9, <1>10, <2>3 DEF Combined
  <2> QED
    BY <1>1, <1>10, <2>1, <2>2, <2>4 DEF R, PairComputes
<1>11. CASE R # {}
  <2>1. PICK r : R = {r} /\ input.container /\ r.symbol \in SymbolIds
    BY <1>11, OwnRelocFacts
  <2>2. r.addend = 0
    BY <2>1 DEF AddendDropped
  <2>3. PICK q \in Q : q.symbol = r.symbol /\ q.addend = r.addend
    <3> SUFFICES ASSUME \A q \in Q : ~(q.symbol = r.symbol /\ q.addend = r.addend)
                 PROVE  SourceRefers(i, i + 1) = <<"broken", 0, 0>>
      BY <2>1
    <3> HIDE DEF R, Q, page, low
    <3> QED
      BY <1>4, <2>1 DEF Refers
  <2>4. Q = {q}
    BY <2>3, OwnRelocFacts
  <2>5. SourceRefers(i, i + 1) = <<"symbol", r.symbol, 0>>
    <3> HIDE DEF R, Q, page, low
    <3>1. (CHOOSE z \in R : TRUE) = r
      BY <2>1
    <3> QED
      BY <1>4, <2>1, <2>2, <2>3, <3>1 DEF Refers
  <2>6. u.target = At("symbol", r.symbol)
    <3> HIDE DEF R, a, b, P
    <3>1. a.target = At("symbol", r.symbol)
      BY <1>3, <2>1
    <3>2. \A d : Combined(a, d) = {}
      BY <1>9, <3>1 DEF Combined
    <3> QED
      BY <1>7, <1>8, <2>1, <3>1, <3>2
  <2> QED
    BY <2>1, <2>2, <2>3, <2>4, <2>5, <2>6 DEF PairNames
<1> QED
  BY <1>10, <1>11

\* What the source words are.
LEMMA SourceWordAt ==
  ASSUME SliceInv, NEW i \in 1 .. N
  PROVE  LET w == SourceWord(instructions[i].address) IN
         /\ w.val = instructions[i].target /\ w.imm = instructions[i].imm
<1> DEFINE c == CHOOSE j \in 1 .. N : instructions[j].address = instructions[i].address
<1>1. c \in 1 .. N /\ instructions[c].address = instructions[i].address
  OBVIOUS
<1>2. c = i
  BY <1>1, AddressesDiffer
<1> QED
  BY <1>2 DEF SourceWord

-----------------------------------------------------------------------------
(* Where the blocks of a plan nobody resized are.                          *)

LEMMA TiledSize ==
  ASSUME input.container, NEW s, OpsOK(s), NEW lo, NEW hi, Tiled(s, lo, hi)
  PROVE  SizeOf(s) = hi - lo
<1> DEFINE L == Len(s)
<1>1. L \in Nat /\ \A n \in 1 .. L : OpSize(s[n]) = Width(s[n])
  <2>1. L \in Nat /\ \A n \in 1 .. L : OpOK(s[n])
    BY DEF OpsOK, IsSeq
  <2>2. \A op : OpOK(op) => OpSize(op) = Width(op)
    BY DEF OpOK, InsnOK, MacroOK, OpSize, Width
  <2> QED
    BY <2>1, <2>2
<1>2. PICK pos : Placing(s, pos, lo, hi)
  BY DEF Tiled
<1>3. PICK size : /\ size[0] = 0 /\ SizeOf(s) = size[L]
                  /\ \A n \in 1 .. L : size[n] = SizeStep(s, size[n - 1], n)
  BY <1>1, SizeSteps
<1>4. /\ pos[1] = lo /\ pos[L + 1] = hi /\ \A k \in 1 .. L + 1 : pos[k] \in Nat
      /\ \A k \in 1 .. L : pos[k + 1] = pos[k] + Width(s[k])
  BY <1>2 DEF Placing
<1> HIDE DEF L
<1> DEFINE Good == {m \in Nat : m <= L => size[m] = pos[m + 1] - lo}
<1>5. 0 \in Good
  <2>1. 1 \in 1 .. L + 1 /\ 0 + 1 = 1
    BY <1>1
  <2>2. pos[0 + 1] = lo /\ lo \in Nat
    BY <2>1, <1>4
  <2> QED
    BY <2>2, <1>3
<1>6. ASSUME NEW m \in Good PROVE m + 1 \in Good
  <2> DEFINE n == m + 1
  <2> SUFFICES ASSUME n <= L PROVE size[n] = pos[n + 1] - lo
    OBVIOUS
  <2>1. m \in Nat /\ m <= L /\ n \in 1 .. L /\ n - 1 = m /\ n \in 1 .. L + 1 /\ 1 \in 1 .. L + 1
    BY <1>1
  <2>2. size[m] = pos[n] - lo
    BY <2>1
  <2> HIDE DEF n, Good
  <2>3. size[n] = size[m] + Width(s[n])
    BY <2>1, <1>1, <1>3 DEF SizeStep
  <2>4. pos[n + 1] = pos[n] + Width(s[n]) /\ pos[n] \in Nat /\ lo \in Nat
    BY <2>1, <1>4
  <2>5. Width(s[n]) \in Nat
    BY DEF Width
  <2> QED
    BY <2>2, <2>3, <2>4, <2>5
<1> HIDE DEF Good
<1>7. Good = Nat
  <2>1. Good \in SUBSET Nat
    BY DEF Good
  <2> QED
    BY <1>5, <1>6, <2>1, NatInduct
<1>8. L \in Good /\ L <= L
  BY <1>1, <1>7
<1> QED
  BY <1>3, <1>4, <1>8 DEF Good

LEMMA BlockStands ==
  ASSUME SliceInv, BlocksOK, CoveredTo(N), input.container,
         NEW p, PlanOK(p), PlanTiled(p, blocks), NEW v, v.base = input.base,
         NEW b \in DOMAIN blocks
  PROVE  BlockAddress(p, v, b) = blocks[b].start
<1> DEFINE q == SubSeq(p, 1, b - 1)
           g == [k \in 1 .. (b - 1) |-> blocks[k]]
           ops == FlattenSeq(q)
<1>1. /\ Len(p) \in Nat /\ IsSeq(p) /\ Len(p) = Len(blocks) /\ DOMAIN blocks = 1 .. Len(blocks)
      /\ \A k \in 1 .. Len(p) : Tiled(p[k], blocks[k].start, blocks[k].end)
      /\ \A k \in 1 .. Len(p) : OpsOK(p[k]) /\ Ascending(p[k])
      /\ \A k, d \in 1 .. Len(p) : k < d => \A a \in Sources(p[k]), c \in Sources(p[d]) : a < c
  BY DEF PlanOK, IsSeq, PlanTiled, BlocksOK
<1>2. b \in 1 .. Len(p) /\ b \in Nat
  BY <1>1
<1>3. /\ input.base \in Nat
      /\ Len(blocks) > 0 => blocks[1].start = input.base
      /\ \A k \in 1 .. (Len(blocks) - 1) : blocks[k].end = blocks[k + 1].start
  BY BlocksJoin
<1>4. IsSeq(q) /\ Len(q) = b - 1 /\ \A k \in 1 .. (b - 1) : q[k] = p[k]
  BY <1>1, <1>2, SplitSeq
<1>5. \A k \in 1 .. (b - 1) : k \in 1 .. Len(p) /\ g[k] = blocks[k]
  BY <1>1, <1>2
<1>6. Len(g) = b - 1
  <2>1. b - 1 \in Nat /\ g = [k \in 1 .. (b - 1) |-> g[k]]
    BY <1>2
  <2> HIDE DEF g
  <2> QED
    BY <2>1, LenOfFunction
<1>7. BlockAddress(p, v, b) = input.base + SizeOf(ops)
  BY DEF BlockAddress
<1> HIDE DEF q, g, ops
<1>8. PlanOK(q)
  BY <1>1, <1>4, <1>5 DEF PlanOK
<1>9. OpsOK(ops)
  BY <1>8, FlattenOps DEF ops
<1>10. CASE b = 1
  <2>6. Len(q) = 0 /\ Len(q) \in Nat
    BY <1>4, <1>10
  <2>1. FlattenSeq(q) = q
    BY <2>6, FlattenSteps
  <2>2. Len(ops) = 0 /\ Len(ops) \in Nat
    BY <2>1, <2>6 DEF ops
  <2>3. PICK size : /\ size[0] = 0 /\ SizeOf(ops) = size[Len(ops)]
                    /\ \A n \in 1 .. Len(ops) : size[n] = SizeStep(ops, size[n - 1], n)
    BY <2>2, SizeSteps
  <2>4. SizeOf(ops) = 0
    BY <2>2, <2>3
  <2>5. blocks[b].start = input.base
    BY <1>1, <1>2, <1>3, <1>10
  <2> QED
    BY <1>3, <1>7, <2>4, <2>5
<1>11. CASE b > 1
  <2> DEFINE d == b - 1
  <2>1. d \in Nat /\ d > 0 /\ d \in 1 .. d /\ 1 \in 1 .. d /\ d \in 1 .. (Len(blocks) - 1) /\ d + 1 = b
    BY <1>1, <1>2, <1>11
  <2>2. PlanTiled(q, g)
    BY <1>1, <1>4, <1>5, <1>6 DEF PlanTiled
  <2>3. \A k \in 1 .. (Len(q) - 1) : g[k].end = g[k + 1].start
    <3> SUFFICES ASSUME NEW k \in 1 .. (Len(q) - 1) PROVE g[k].end = g[k + 1].start
      OBVIOUS
    <3>1. k \in 1 .. d /\ k + 1 \in 1 .. d /\ k \in 1 .. (Len(blocks) - 1)
      BY <1>1, <1>2, <1>4
    <3> QED
      BY <3>1, <1>3, <1>5
  <2>4. Len(q) > 0
    BY <1>4, <2>1
  <2>5. Tiled(ops, g[1].start, g[Len(q)].end)
    BY <1>8, <2>2, <2>3, <2>4, FlattenTiles DEF ops
  <2> HIDE DEF d
  <2>6. Len(q) = d /\ g[1] = blocks[1] /\ g[d] = blocks[d]
    BY <1>4, <1>5, <2>1 DEF d
  <2>7. g[1].start = input.base /\ g[Len(q)].end = blocks[b].start
    <3>1. Len(blocks) > 0
      BY <1>1, <1>2
    <3> QED
      BY <3>1, <1>3, <2>1, <2>6
  <2>8. Tiled(ops, input.base, blocks[b].start)
    BY <2>5, <2>7
  <2>9. SizeOf(ops) = blocks[b].start - input.base
    BY <2>8, <1>9, TiledSize
  <2>10. blocks[b].start \in Nat
    BY <2>8, <1>9, TilesInNat DEF OpsOK, IsSeq
  <2> QED
    BY <1>3, <1>7, <2>9, <2>10
<1> QED
  BY <1>2, <1>10, <1>11

-----------------------------------------------------------------------------
(* A pair that became a macro still refers to what it referred to.         *)

\* The macro an adrp became, the source macro it comes from, and its companion.
LEMMA FusedOrigin ==
  ASSUME SliceInv, NEW x, NEW T, Emission(x, T), NEW i, NEW j, Reads(i, j),
         NEW m \in FusedInto(x.plan, i), ~Misattributed(i), ~LoneCompanion(x, i, j),
         instructions[i].address \notin T, instructions[j].address \notin T
  PROVE  /\ j = i + 1 /\ i \in 1 .. N /\ i + 1 \in 1 .. N
         /\ m \in OpsIn(x.plan) /\ m.op = "macro"
         /\ \E u \in MacroOps(LiftedAt(i), LiftedAt(i + 1)) :
              /\ u \in SourceOps /\ m.originals = <<LiftedAt(i), LiftedAt(i + 1)>>
              /\ m.kind = u.kind /\ m.target = Sh(x.view, u.target)
<1> DEFINE p == x.plan
           v == x.view
           a == instructions[i].address
<1>1. /\ i \in 1 .. N /\ j \in 1 .. N /\ i < j /\ N \in Nat
      /\ instructions[j].rn = instructions[i].rd
      /\ \A k \in i + 1 .. j - 1 : instructions[k].rd # instructions[i].rd
  BY SliceFacts DEF Reads
<1>2. i + 1 \in 1 .. N
  BY <1>1
<1>3. PlanOK(p) /\ Paired(p)
  BY DEF Emission
<1>4. /\ m \in OpsIn(p) /\ m.op = "macro" /\ MacroOK(m)
      /\ m.originals[1].orig = a /\ m.originals[2].orig = instructions[i + 1].address
      /\ Source(m) = {m.originals[1].orig, m.originals[2].orig}
  BY <1>1, <1>2, <1>3, FusedPair
<1>5. From(v, m, T) /\ a \in Source(m)
  BY <1>4 DEF Emission
<1>6. PICK u \in SourceOps : Origin(v, m, T, i, u)
  BY <1>1, <1>5, OpFor
<1>7. SameButTarget(m, u) /\ (Source(u) \cap T = {} =>
                               (u.op = "insn" /\ u.ref = "none") \/ m.target = Sh(v, u.target))
  BY <1>6 DEF Origin
<1>8. u.op = "macro" /\ m.kind = u.kind /\ m.originals = u.originals
  BY <1>4, <1>7 DEF SameButTarget
<1>9. PICK n \in 1 .. N - 1 :
        /\ n \in 1 .. N /\ n + 1 \in 1 .. N
        /\ u \in MacroOps(LiftedAt(n), LiftedAt(n + 1))
        /\ u.originals = <<LiftedAt(n), LiftedAt(n + 1)>>
        /\ Source(u) = {instructions[n].address, instructions[n + 1].address}
  BY <1>6, <1>8 DEF Origin
<1>10. n = i
  <2>1. LiftedAt(n).orig = instructions[n].address
    BY <1>9, LiftedFields
  <2>2. m.originals[1] = LiftedAt(n)
    BY <1>8, <1>9
  <2> QED
    BY <1>1, <1>4, <1>9, <2>1, <2>2, AddressesDiffer
<1>11. /\ u \in MacroOps(LiftedAt(i), LiftedAt(i + 1))
       /\ u.originals = <<LiftedAt(i), LiftedAt(i + 1)>>
       /\ Source(u) = {instructions[i].address, instructions[i + 1].address}
  BY <1>9, <1>10
\* The companion of the macro is the one that completes the pair.
<1>12. j = i + 1
  <2> SUFFICES ASSUME j # i + 1 PROVE FALSE
    OBVIOUS
  <2>1. i + 1 \in i + 1 .. j - 1
    BY <1>1
  <2>2. RelocAt(a) # {}
    BY <1>1, <1>2, <1>11, <2>1, HalvesPair
  <2>3. OwnRelocAt(a) # {}
    BY <2>2 DEF Misattributed
  <2>4. SourceRefers(i, j)[1] # "address"
    <3> DEFINE R == OwnRelocAt(a)
               Q == OwnRelocAt(instructions[j].address)
    <3>1. SourceRefers(i, j) = Refers(instructions[i].target, instructions[j].imm, R, Q)
      BY DEF SourceRefers
    <3> HIDE DEF R, Q
    <3>2. R # {}
      BY <2>3 DEF R
    <3> QED
      BY <3>1, <3>2 DEF Refers
  <2>5. instructions[i + 1].address # instructions[j].address
    BY <1>1, <1>2, AddressesDiffer
  <2>6. \A w \in FusedInto(p, i) : w.originals[2].orig = instructions[i + 1].address
    BY <1>1, <1>2, <1>3, FusedPair
  <2> QED
    BY <2>4, <2>5, <2>6 DEF LoneCompanion
<1>13. m.target = Sh(v, u.target)
  <2>1. Source(u) \cap T = {}
    BY <1>11, <1>12
  <2> QED
    BY <1>7, <1>8, <2>1
<1> QED
  BY <1>1, <1>2, <1>4, <1>8, <1>11, <1>12, <1>13

\* In a view without a shift every symbol is where it was.
LEMMA StillCallable ==
  ASSUME SliceInv, NEW v, v.shift = 0, NEW s \in SymbolIds
  PROVE  callable_address_of_symbol(v, s) =
           IF Symbol(s).undefined THEN Symbol(s).stub ELSE Symbol(s).address
<1>1. Symbol(s).address \in Nat
  BY PlanAssumption DEF SliceInv, InputOK, Symbol
<1> QED
  BY <1>1 DEF callable_address_of_symbol, Moved

\* A view either leaves the originals where they are or shifts what it lays out
\* with them, and words of a section nobody resized stand for it.
Settled(x) ==
  /\ x.mode # "grown_gap" => x.view.shift = 0 \/ x.view.base = input.base + x.view.shift
  /\ (input.container /\ ~Resized) =>
       PlanTiled(x.plan, blocks) /\ Stands(x.words, input.base)

\* An address nothing moved.
LEMMA AddressWanted ==
  ASSUME SliceInv, BlocksOK, CoveredTo(N), input.container, NEW x, PlanOK(x.plan),
         PlanTiled(x.plan, blocks), x.view.base = input.base, x.view.shift = 0, NEW a \in Int
  PROVE  <<"address", a, 0>> \in NamedWanted(x, <<"address", a, 0>>, TRUE)
<1> DEFINE b == BlocksAt(a)
           s == IF input.container THEN symbol_at_address(a) ELSE {}
           W == NamedWanted(x, <<"address", a, 0>>, TRUE)
<1>1. W = IF b # {} THEN {<<"address", BlockAddress(x.plan, x.view, LowestOf(b)), 0>>}
          ELSE IF s # {} THEN {<<"address", callable_address_of_symbol(x.view, u), 0>> : u \in s}
                              \cup {<<"symbol", u, 0>> : u \in s}
          ELSE {<<"address", Moved(x.view, a), 0>>}
  BY DEF NamedWanted
<1>2. CASE b # {}
  <2>1. DOMAIN blocks = 1 .. Len(blocks) /\ Len(blocks) \in Nat
    BY DEF BlocksOK
  <2>2. b \subseteq Nat
    BY <2>1 DEF BlocksAt
  <2> HIDE DEF b
  <2>3. LowestOf(b) \in b
    BY <1>2, <2>2, LowestFacts
  <2>4. LowestOf(b) \in DOMAIN blocks /\ blocks[LowestOf(b)].start = a
    BY <2>3 DEF b, BlocksAt
  <2>5. BlockAddress(x.plan, x.view, LowestOf(b)) = a
    BY <2>4, BlockStands
  <2> QED
    BY <1>1, <1>2, <2>5
<1>3. CASE b = {} /\ s # {}
  <2>1. PICK u \in s : TRUE
    BY <1>3
  <2>2. u \in SymbolIds /\ ~Symbol(u).undefined /\ Symbol(u).address = a
    BY <2>1 DEF symbol_at_address
  <2>3. callable_address_of_symbol(x.view, u) = a
    BY <2>2, StillCallable
  <2> HIDE DEF b, s
  <2> QED
    BY <1>1, <1>3, <2>1, <2>3
<1>4. CASE b = {} /\ s = {}
  <2>1. Moved(x.view, a) = a
    BY DEF Moved
  <2> QED
    BY <1>1, <1>4, <2>1
<1> QED
  BY <1>2, <1>3, <1>4

LEMMA StandsAt ==
  ASSUME NEW words, NEW lo, Stands(words, lo), NEW k \in 1 .. Len(words), words[k].src \in Nat
  PROVE  words[k].src = lo + (k - 1)
BY DEF Stands

\* The address a pair of the source computes is the one its reference is to, when
\* its adrp still decodes and nothing moved.
LEMMA CopiedMeans ==
  ASSUME SliceInv, BlocksOK, CoveredTo(N), input.container, NEW x, PlanOK(x.plan),
         PlanTiled(x.plan, blocks), x.view.base = input.base, x.view.shift = 0,
         NEW i \in 1 .. N, i + 1 \in 1 .. N, instructions[i].mn = "adrp",
         NEW u \in MacroOps(LiftedAt(i), LiftedAt(i + 1)), StillDecodes(x.plan, x.view, LiftedAt(i)),
         ~Misattributed(i), ~Misattributed(i + 1), ~AddendDropped(i),
         SourceRefers(i, i + 1)[1] # "broken"
  PROVE  <<"address", instructions[i].target + instructions[i + 1].imm, 0>>
           \in NamedWanted(x, SourceRefers(i, i + 1), TRUE)
<1> DEFINE R == OwnRelocAt(instructions[i].address)
           Q == OwnRelocAt(instructions[i + 1].address)
           page == instructions[i].target
           low == instructions[i + 1].imm
           ref == SourceRefers(i, i + 1)
<1>1. page \in Int /\ low \in Int /\ page % PageSize = 0
  BY LiftedFields
<1>2. PairComputes(i, u.target) \/ \E r, q : PairNames(i, u.target, r, q)
  BY FusedTarget
<1>3. CASE PairComputes(i, u.target)
  <2> DEFINE A == page + low
  <2>1. A \in Int /\ ref = <<"address", A, 0>>
    BY <1>3 DEF PairComputes
  <2> HIDE DEF A, ref
  <2>2. <<"address", A, 0>> \in NamedWanted(x, <<"address", A, 0>>, TRUE)
    BY <2>1, AddressWanted
  <2>3. <<"address", A, 0>> \in NamedWanted(x, ref, TRUE)
    BY <2>1, <2>2
  <2> QED
    BY <2>3 DEF A, ref
<1>4. ASSUME NEW r, NEW q, PairNames(i, u.target, r, q)
      PROVE  <<"address", page + low, 0>> \in NamedWanted(x, ref, TRUE)
  <2>5. /\ R = {r} /\ Q = {q} /\ r.symbol \in SymbolIds /\ q.symbol = r.symbol
        /\ q.addend = 0 /\ ref = <<"symbol", r.symbol, 0>>
    BY <1>4 DEF PairNames
  <2> DEFINE s == r.symbol
             c == callable_address_of_symbol(x.view, s)
  <2>1. c = page
    <3>1. LiftedAt(i).target = At("symbol", s)
      BY <2>5, LiftedTarget
    <3>2. LiftedAt(i).ref = "page" /\ LiftedAt(i).orig = instructions[i].address
      BY LiftedFields
    <3>3. resolve_target(x.plan, x.view, LiftedAt(i).target) = SourceWord(LiftedAt(i).orig).val
      BY <3>2 DEF StillDecodes
    <3>4. SourceWord(instructions[i].address).val = page
      BY SourceWordAt
    <3>5. At("symbol", s).kind = "symbol" /\ At("symbol", s).v = s
      BY DEF At
    <3>6. resolve_target(x.plan, x.view, At("symbol", s)) = c
      BY <3>5 DEF resolve_target
    <3> HIDE DEF c, s, page
    <3> QED
      BY <3>1, <3>2, <3>3, <3>4, <3>6
  <2>2. low = 0
    <3>1. RelocFits(input, q, instructions[i + 1]) /\ q.kind \in LiftRelocs
      BY <2>5, OwnRelocFacts
    <3>2. instructions[i + 1].mn \in {"add", "mov", "ldst"}
      BY HalvesPair
    <3>3. q.kind \in {"AddPageOffset12", "LoadStorePageOffset12"}
      BY <3>1, <3>2 DEF RelocFits, LiftRelocs, PcRelativeRelocs
    <3>4. c = IF Symbol(s).undefined THEN Symbol(s).stub ELSE Symbol(s).address
      BY <2>5, StillCallable
    <3>5. low \in {0, (c + 0) % PageSize}
      BY <2>5, <3>1, <3>3, <3>4 DEF RelocFits, Symbol
    <3> HIDE DEF c, page, low
    <3>6. c + 0 = page
      BY <1>1, <2>1
    <3> QED
      BY <1>1, <3>5, <3>6
  <2>3. NamedWanted(x, <<"symbol", s, 0>>, TRUE) = {<<"symbol", s, 0>>, <<"address", c + 0, 0>>}
    BY DEF NamedWanted
  <2> HIDE DEF c, ref, page, low
  <2>4. c + 0 = page + low
    BY <1>1, <2>1, <2>2
  <2> QED
    BY <2>5, <2>3, <2>4
<1> QED
  BY <1>2, <1>3, <1>4

\* The words k and l of a pair are at its own addresses although something moved.
StaleAt(x, i, j, k, l) ==
  /\ x.mode = "grown_gap" \/ Resized
  /\ x.view.base + k - 1 = instructions[i].address \/ x.view.base + l - 1 = instructions[j].address

\* The macro was copied from its source where nothing moved.
LEMMA CopiedKept ==
  ASSUME SliceInv, BlocksOK, CoveredTo(N), NEW x, NEW T, Emission(x, T), Settled(x),
         NEW i \in 1 .. N, i + 1 \in 1 .. N, instructions[i].mn = "adrp",
         NEW m \in FusedInto(x.plan, i),
         NEW u \in MacroOps(LiftedAt(i), LiftedAt(i + 1)),
         m.originals = <<LiftedAt(i), LiftedAt(i + 1)>>,
         ~Misattributed(i), ~Misattributed(i + 1), ~AddendDropped(i),
         SourceRefers(i, i + 1)[1] # "broken",
         NEW k \in WordsFor(x, instructions[i].address),
         NEW l \in WordsFor(x, instructions[i + 1].address), ~StaleAt(x, i, i + 1, k, l),
         NEW h, NEW d, CopiedTo(x, x.plan, x.view, m, h, d), k = d + 1 \/ l = d + 2
  PROVE  Refers(x.words[k].val, x.words[l].imm, RelocsOn(x, k), RelocsOn(x, l))
           \in NamedWanted(x, SourceRefers(i, i + 1), TRUE)
<1> DEFINE p == x.plan
           v == x.view
           a == instructions[i].address
           b == instructions[i + 1].address
           page == instructions[i].target
           low == instructions[i + 1].imm
<1>1. /\ PlanOK(p) /\ IsSeq(x.words) /\ v.base \in Int /\ v.shift \in Int
  BY CommitAssumption DEF Emission, Emitting
<1>2. /\ m \in OpsIn(p) /\ m.op = "macro"
      /\ m.originals[1].orig = a /\ m.originals[2].orig = b /\ m.originals[1] = LiftedAt(i)
  <2>1. m \in OpsIn(p) /\ m.op = "macro"
    BY MemberFused
  <2>2. LiftedAt(i).orig = a /\ LiftedAt(i + 1).orig = b
    BY LiftedFields
  <2> HIDE DEF a, b
  <2> QED
    BY <2>1, <2>2
<1> HIDE DEF a, b, page, low
<1>3. /\ input.container /\ a = v.base + d /\ d \in Nat
      /\ d + 1 \in 1 .. Len(x.words) /\ x.words[d + 1] = SourceWord(a)
      /\ d + 2 \in 1 .. Len(x.words) /\ x.words[d + 2] = SourceWord(b)
      /\ RelocsOn(x, d + 1) = {} /\ RelocsOn(x, d + 2) = {}
      /\ StillDecodes(p, v, LiftedAt(i))
  <2>1. /\ input.container /\ m.originals[1].orig = x.view.base + d /\ d \in Nat
        /\ d + 1 \in 1 .. Len(x.words) /\ x.words[d + 1] = SourceWord(m.originals[1].orig)
        /\ d + 2 \in 1 .. Len(x.words) /\ x.words[d + 2] = SourceWord(m.originals[2].orig)
        /\ RelocsOn(x, d + 1) = {} /\ RelocsOn(x, d + 2) = {}
        /\ StillDecodes(x.plan, x.view, m.originals[1])
    BY <1>1, <1>2, CopiedFacts
  <2> QED
    BY <1>2, <2>1
<1>4. /\ b = a + 1 /\ a \in Nat /\ b \in Nat /\ input.base \in Nat
  <2>1. InputOK(input) /\ instructions = input.slice /\ DOMAIN instructions = 1 .. N
    BY SliceFacts, PlanAssumption DEF SliceInv
  <2>2. input.base \in Nat /\ a = input.base + (i - 1) /\ b = input.base + ((i + 1) - 1)
    BY <1>3, <2>1 DEF InputOK, a, b
  <2>3. a \in Nat /\ b \in Nat
    BY SliceFacts DEF a, b
  <2> QED
    BY <2>2, <2>3
<1>5. /\ k \in 1 .. Len(x.words) /\ x.words[k].src = a /\ k \in Int
      /\ l \in 1 .. Len(x.words) /\ x.words[l].src = b /\ l \in Int
  BY <1>1 DEF WordsFor, IsSeq, a, b
\* Only an emission that moved nothing copies the macro.
<1>6. v.base + k - 1 = a \/ v.base + l - 1 = b
  <2>1. v.base + d = a /\ v.base \in Int /\ d \in Int /\ a \in Int /\ b = a + 1
    BY <1>1, <1>3, <1>4
  <2> HIDE DEF v
  <2> QED
    BY <2>1
<1>7. x.mode # "grown_gap" /\ ~Resized
  BY <1>6 DEF StaleAt, a, b
<1>8. PlanTiled(p, blocks) /\ Stands(x.words, input.base) /\ (v.shift = 0 \/ v.base = input.base + v.shift)
  BY <1>3, <1>7 DEF Settled
<1>9. k = d + 1 /\ l = d + 2 /\ v.base = input.base
  <2>1. SourceWord(a).src = a
    BY DEF SourceWord
  <2>5. d + 1 \in 1 .. Len(x.words) /\ x.words[d + 1].src = a /\ a \in Nat
    BY <1>3, <1>4, <2>1
  <2>2. a = input.base + ((d + 1) - 1)
    BY <1>8, <2>5, StandsAt
  <2>6. a = input.base + (k - 1)
    BY <1>4, <1>5, <1>8, StandsAt
  <2>3. b = input.base + (l - 1)
    BY <1>4, <1>5, <1>8, StandsAt
  <2>4. d \in Int /\ a = v.base + d /\ v.base \in Int /\ b = a + 1 /\ input.base \in Int /\ k \in Int /\ l \in Int
    <3>1. d \in Int /\ a = v.base + d
      BY <1>3
    <3>2. v.base \in Int
      BY <1>1
    <3>3. b = a + 1 /\ input.base \in Int
      BY <1>4
    <3> QED
      BY <1>5, <3>1, <3>2, <3>3
  <2> DEFINE e == v.base
             w == input.base
  <2>8. a = w + ((d + 1) - 1) /\ a = w + (k - 1) /\ b = w + (l - 1) /\ a = e + d /\ b = a + 1
        /\ d \in Int /\ e \in Int /\ w \in Int /\ k \in Int /\ l \in Int /\ a \in Int
    BY <1>4, <2>2, <2>3, <2>4, <2>6
  <2> HIDE DEF e, w
  <2>7. k = d + 1 /\ l = d + 2 /\ e = w
    BY <2>8
  <2> QED
    BY <2>7 DEF e, w
<1>10. v.shift = 0
  BY <1>1, <1>4, <1>8, <1>9
\* Its words are those of the source.
<1>11. x.words[k].val = page /\ x.words[l].imm = low /\ RelocsOn(x, k) = {} /\ RelocsOn(x, l) = {}
  <2>1. SourceWord(a).val = page /\ SourceWord(b).imm = low
    BY SourceWordAt DEF a, b, page, low
  <2> QED
    BY <1>3, <1>9, <2>1
<1>12. Refers(x.words[k].val, x.words[l].imm, RelocsOn(x, k), RelocsOn(x, l))
         = <<"address", page + low, 0>>
  BY <1>11 DEF Refers
<1>13. <<"address", page + low, 0>> \in NamedWanted(x, SourceRefers(i, i + 1), TRUE)
  BY <1>1, <1>3, <1>8, <1>9, <1>10, CopiedMeans DEF page, low
<1> QED
  BY <1>12, <1>13

\* What the macro of an untouched pair refers to.
LEMMA FusedKept ==
  ASSUME SliceInv, BlocksOK, CoveredTo(N), IsSeq(log),
         NEW x, Emission(x, TouchedAt(log)), Settled(x),
         NEW i, NEW j, Reads(i, j), FusedInto(x.plan, i) # {}, Untouched(i), Untouched(j),
         SourceRefers(i, j)[1] # "broken", ~Misattributed(i), ~Misattributed(j),
         ~AddendDropped(i), ~LoneCompanion(x, i, j), ~FoldedAccess(x, i),
         NEW k \in WordsFor(x, instructions[i].address),
         NEW l \in WordsFor(x, instructions[j].address), ~StaleAt(x, i, j, k, l)
  PROVE  Refers(x.words[k].val, x.words[l].imm, RelocsOn(x, k), RelocsOn(x, l))
           \in NamedWanted(x, SourceRefers(i, j), TRUE)
<1> DEFINE p == x.plan
           v == x.view
           T == TouchedAt(log)
           ref == Refers(x.words[k].val, x.words[l].imm, RelocsOn(x, k), RelocsOn(x, l))
<1>1. /\ ~Misattributed(i) /\ ~Misattributed(j) /\ ~AddendDropped(i) /\ ~LoneCompanion(x, i, j)
      /\ ~FoldedAccess(x, i) /\ ~StaleAt(x, i, j, k, l)
  OBVIOUS
<1>2. instructions[i].address \notin T /\ instructions[j].address \notin T
  BY NotTouched
<1>3. PICK m : m \in FusedInto(p, i)
  OBVIOUS
<1>4. /\ j = i + 1 /\ i \in 1 .. N /\ i + 1 \in 1 .. N /\ m \in OpsIn(p) /\ m.op = "macro"
      /\ \E u \in MacroOps(LiftedAt(i), LiftedAt(i + 1)) :
           /\ u \in SourceOps /\ m.originals = <<LiftedAt(i), LiftedAt(i + 1)>>
           /\ m.kind = u.kind /\ m.target = Sh(v, u.target)
  BY <1>1, <1>2, <1>3, FusedOrigin
<1>5. PICK u \in MacroOps(LiftedAt(i), LiftedAt(i + 1)) :
        /\ u \in SourceOps /\ m.originals = <<LiftedAt(i), LiftedAt(i + 1)>>
        /\ m.kind = u.kind /\ m.target = Sh(v, u.target)
  BY <1>4
<1>6. /\ PlanOK(p) /\ Emitting(x) /\ v.base \in Int /\ v.shift \in Int /\ IsSeq(x.words)
      /\ Covered(x, p, v)
  BY CommitAssumption DEF Emission, Emitting
<1>7. TargetOK(u.target) /\ TargetOK(m.target)
  BY <1>5, SourceOpTarget, ShOK
<1>8. /\ k \in 1 .. Len(x.words) /\ x.words[k].src = m.originals[1].orig
      /\ l \in 1 .. Len(x.words) /\ x.words[l].src = m.originals[2].orig
  <2>1. LiftedAt(i).orig = instructions[i].address /\ LiftedAt(i + 1).orig = instructions[i + 1].address
    BY <1>4, LiftedFields
  <2>2. m.originals[1] = LiftedAt(i) /\ m.originals[2] = LiftedAt(i + 1)
    BY <1>5
  <2> QED
    BY <1>4, <1>6, <2>1, <2>2 DEF WordsFor, IsSeq
<1> HIDE DEF ref
<1>9. \/ \E h, d : CopiedTo(x, p, v, m, h, d) /\ (k = d + 1 \/ l = d + 2)
      \/ Folded(v, m)
      \/ ref \in Refs(p, v, m.target)
  BY <1>4, <1>6, <1>7, <1>8, PairRefers DEF ref
<1>10. ~Folded(v, m)
  BY <1>1, <1>3 DEF Folded, FoldedAccess
<1>11. ASSUME NEW h, NEW d, CopiedTo(x, p, v, m, h, d), k = d + 1 \/ l = d + 2
       PROVE  ref \in NamedWanted(x, SourceRefers(i, j), TRUE)
  <2>1. instructions[i].mn = "adrp"
    BY DEF Reads
  <2> QED
    BY <1>1, <1>3, <1>4, <1>5, <1>11, <2>1, CopiedKept DEF ref
<1>12. Refs(p, v, m.target) \subseteq NamedWanted(x, SourceRefers(i, j), TRUE)
  <2> DEFINE R == OwnRelocAt(instructions[i].address)
             A == instructions[i].target + instructions[i + 1].imm
  <2>1. \/ /\ u.target = resolve_address(A) /\ A \in Int
           /\ SourceRefers(i, i + 1) = <<"address", A, 0>>
        \/ \E r : /\ input.container /\ r.symbol \in SymbolIds
                  /\ u.target = At("symbol", r.symbol)
                  /\ SourceRefers(i, i + 1) = <<"symbol", r.symbol, 0>>
    BY <1>1, <1>4, FusedTarget DEF PairComputes, PairNames
  <2> HIDE DEF A
  <2>2. ASSUME u.target = resolve_address(A), A \in Int
        PROVE  Refs(p, v, m.target) \subseteq NamedWanted(x, <<"address", A, 0>>, TRUE)
    BY <1>5, <1>6, <2>2, ResolvedWanted
  <2>3. ASSUME NEW s \in SymbolIds, input.container, u.target = At("symbol", s)
        PROVE  Refs(p, v, m.target) \subseteq NamedWanted(x, <<"symbol", s, 0>>, TRUE)
    BY <1>5, <1>6, <2>3, SymbolWanted
  <2> QED
    BY <1>4, <2>1, <2>2, <2>3
<1> QED
  BY <1>9, <1>10, <1>11, <1>12 DEF ref

-----------------------------------------------------------------------------
(* What an emission with its overlays refers to.                           *)

\* o is x with some words replaced by words that stand for no source.
Shows(o, x) ==
  /\ o.mode = x.mode /\ o.view = x.view /\ o.plan = x.plan /\ o.relocs = x.relocs
  /\ \A a \in Nat : \A k \in WordsFor(o, a) : k \in WordsFor(x, a) /\ o.words[k] = x.words[k]

LEMMA WantedSame ==
  ASSUME NEW o, NEW x, o.view = x.view, o.plan = x.plan, NEW ref, NEW symbolic
  PROVE  NamedWanted(o, ref, symbolic) = NamedWanted(x, ref, symbolic)
BY DEF NamedWanted

\* The words k and l of x refer to what the pair of the source does.
KeepsPair(x, i, j, k, l, symbolic) ==
  Refers(x.words[k].val, x.words[l].imm, RelocsOn(x, k), RelocsOn(x, l))
    \in NamedWanted(x, SourceRefers(i, j), symbolic)

LEMMA PairKept ==
  ASSUME SliceInv, BlocksOK, CoveredTo(N), IsSeq(log),
         NEW x, Emission(x, TouchedAt(log)), Settled(x),
         NEW i, NEW j, Reads(i, j), Untouched(i), Untouched(j),
         SourceRefers(i, j)[1] # "broken", ~Misattributed(i), ~Misattributed(j),
         ~AddendDropped(i), ~LoneCompanion(x, i, j), ~FoldedAccess(x, i), ~AcrossInsert(x, i, j),
         NEW k \in WordsFor(x, instructions[i].address),
         NEW l \in WordsFor(x, instructions[j].address),
         FusedInto(x.plan, i) # {} => ~StaleAt(x, i, j, k, l)
  PROVE  KeepsPair(x, i, j, k, l, FusedInto(x.plan, i) # {})
<1>1. CASE FusedInto(x.plan, i) = {}
  <2>1. KeepsPair(x, i, j, k, l, FALSE)
    BY <1>1, ApartKept DEF KeepsPair
  <2> QED
    BY <1>1, <2>1
<1>2. CASE FusedInto(x.plan, i) # {}
  <2>1. KeepsPair(x, i, j, k, l, TRUE)
    BY <1>2, FusedKept DEF KeepsPair
  <2> QED
    BY <1>2, <2>1
<1> QED
  BY <1>1, <1>2

\* A pair that is not in one of the named cases.
LEMMA ShownPair ==
  ASSUME SliceInv, BlocksOK, CoveredTo(N), IsSeq(log), NEW o, NEW x, Shows(o, x),
         Emission(x, TouchedAt(log)), Settled(x),
         NEW i, NEW j, Reads(i, j), Untouched(i), Untouched(j),
         SourceRefers(i, j)[1] # "broken", ~LosesName(o, i, j)
  PROVE  NamedRefers(o, i, j) \subseteq NamedWanted(o, SourceRefers(i, j), FusedInto(o.plan, i) # {})
<1> DEFINE a == instructions[i].address
           b == instructions[j].address
<1>1. /\ o.mode = x.mode /\ o.view = x.view /\ o.plan = x.plan /\ o.relocs = x.relocs
      /\ \A c \in Nat : \A k \in WordsFor(o, c) : k \in WordsFor(x, c) /\ o.words[k] = x.words[k]
  BY DEF Shows
<1>2. /\ ~Misattributed(i) /\ ~Misattributed(j) /\ ~AddendDropped(i) /\ ~LoneCompanion(o, i, j)
      /\ ~FoldedAccess(o, i) /\ ~CopiedStale(o, i, j) /\ ~AcrossInsert(o, i, j)
  BY DEF LosesName
<1>3. ~LoneCompanion(x, i, j) /\ ~FoldedAccess(x, i) /\ ~AcrossInsert(x, i, j)
  BY <1>1, <1>2 DEF LoneCompanion, FoldedAccess, AcrossInsert
<1>4. a \in Nat /\ b \in Nat
  <2>1. i \in 1 .. N /\ j \in 1 .. N
    BY DEF Reads
  <2> QED
    BY <2>1, SliceFacts
<1>5. ASSUME NEW k \in WordsFor(o, a), NEW l \in WordsFor(o, b)
      PROVE  Refers(o.words[k].val, o.words[l].imm, RelocsOn(o, k), RelocsOn(o, l))
               \in NamedWanted(o, SourceRefers(i, j), FusedInto(o.plan, i) # {})
  <2>1. /\ k \in WordsFor(x, a) /\ o.words[k] = x.words[k]
        /\ l \in WordsFor(x, b) /\ o.words[l] = x.words[l]
    BY <1>1, <1>4, <1>5
  <2>2. RelocsOn(o, k) = RelocsOn(x, k) /\ RelocsOn(o, l) = RelocsOn(x, l)
    BY <1>1 DEF RelocsOn
  <2>3. FusedInto(x.plan, i) # {} => ~StaleAt(x, i, j, k, l)
    BY <1>1, <1>2, <1>5 DEF StaleAt, CopiedStale, AtHome
  <2>4. KeepsPair(x, i, j, k, l, FusedInto(x.plan, i) # {})
    BY <1>2, <1>3, <2>1, <2>3, PairKept
  <2>5. KeepsPair(x, i, j, k, l, FusedInto(x.plan, i) # {})
          <=> KeepsPair(o, i, j, k, l, FusedInto(o.plan, i) # {})
    BY <1>1, <2>1, <2>2, WantedSame DEF KeepsPair
  <2> QED
    BY <2>4, <2>5 DEF KeepsPair
<1>6. NamedRefers(o, i, j) =
        {Refers(o.words[k].val, o.words[l].imm, RelocsOn(o, k), RelocsOn(o, l)) :
           k \in WordsFor(o, a), l \in WordsFor(o, b)}
  BY DEF NamedRefers
<1> HIDE DEF a, b
<1> QED
  BY <1>5, <1>6

\* A branch, with what its relocation or its word referred to.
LEMMA ShownBranch ==
  ASSUME SliceInv, BlocksOK, IsSeq(log), NEW o, NEW x, Shows(o, x),
         Emission(x, TouchedAt(log)), NEW i \in 1 .. N, instructions[i].kind \in Targeted,
         Untouched(i), ~Misattributed(i), ~AddendDropped(i),
         NEW k \in WordsFor(o, instructions[i].address)
  PROVE  NamedBranch(o, k) \in NamedWanted(o, BranchSource(i), TRUE)
<1>1. /\ o.view = x.view /\ o.plan = x.plan /\ o.relocs = x.relocs
      /\ \A c \in Nat : \A n \in WordsFor(o, c) : n \in WordsFor(x, c) /\ o.words[n] = x.words[n]
  BY DEF Shows
<1>2. instructions[i].address \in Nat
  BY SliceFacts
<1>3. k \in WordsFor(x, instructions[i].address) /\ o.words[k] = x.words[k]
  BY <1>1, <1>2
<1>4. RelocsOn(o, k) = RelocsOn(x, k)
  BY <1>1 DEF RelocsOn
<1>5. NamedBranch(o, k) = NamedBranch(x, k)
  BY <1>3, <1>4 DEF NamedBranch
<1>6. NamedBranch(x, k) \in NamedWanted(x, BranchSource(i), TRUE)
  <2>1. /\ SliceInv /\ BlocksOK /\ IsSeq(log) /\ Emission(x, TouchedAt(log)) /\ i \in 1 .. N
        /\ instructions[i].kind \in Targeted /\ Untouched(i) /\ ~Misattributed(i) /\ ~AddendDropped(i)
        /\ k \in WordsFor(x, instructions[i].address)
    BY <1>3
  <2> QED
    BY <2>1, BranchKept
<1>7. NamedWanted(o, BranchSource(i), TRUE) = NamedWanted(x, BranchSource(i), TRUE)
  <2>1. o.view = x.view /\ o.plan = x.plan
    BY <1>1
  <2> QED
    BY ONLY <2>1 DEF NamedWanted
<1> QED
  BY <1>5, <1>6, <1>7

-----------------------------------------------------------------------------
(* The emissions of a session, and the step that makes one.                *)

AllFrom(v, p, T) == \A op \in OpsIn(p) : From(v, op, T)

\* The plan p is the edited one or that shifted, as the view v has it.
PlanFor(p, v) ==
  \/ p = plan /\ v.shift = 0
  \/ p = shift_plan_absolute_targets(plan) /\ v.shift = Delta

LEMMA PlanForFacts ==
  ASSUME SliceInv, BlocksOK, PlanOK(plan), Paired(plan), DOMAIN plan = DOMAIN blocks,
         NEW T, AllStem(plan, T), NEW p, NEW v, PlanFor(p, v)
  PROVE  /\ PlanOK(p) /\ Paired(p) /\ DOMAIN p = DOMAIN blocks /\ AllFrom(v, p, T)
         /\ v.shift \in {0, Delta}
         /\ PlanTiled(plan, blocks) => PlanTiled(p, blocks)
<1> DEFINE q == shift_plan_absolute_targets(plan)
<1>1. CASE p = plan /\ v.shift = 0
  <2>1. ASSUME NEW op \in OpsIn(p) PROVE From(v, op, T)
    BY <1>1, <2>1, PlainFrom DEF AllStem
  <2> QED
    BY <1>1, <2>1 DEF AllFrom
<1>2. CASE p = q /\ v.shift = Delta
  <2>1. PlanOK(q) /\ Paired(q) /\ (PlanTiled(plan, blocks) => PlanTiled(q, blocks))
    BY ShiftKeeps, ShiftRefers
  <2>2. DOMAIN q = DOMAIN plan
    BY DEF shift_plan_absolute_targets
  <2>3. ASSUME NEW op \in OpsIn(q) PROVE From(v, op, T)
    <3>1. PICK w \in OpsIn(plan) : op = ShiftedOp(w)
      BY <2>3, ShiftMembers
    <3>2. OpOK(w) /\ Stems(w, T)
      BY MemberFacts DEF AllStem
    <3>3. From(v, ShiftedOp(w), T)
      BY <1>2, <3>2, ShiftedFrom
    <3> QED
      BY <3>1, <3>3
  <2> HIDE DEF q
  <2> QED
    BY <1>2, <2>1, <2>2, <2>3 DEF AllFrom
<1> QED
  BY <1>1, <1>2 DEF PlanFor

\* x is what the emission of p for v becomes before any overlay.
Emits(x, mode, p, v) ==
  /\ x.mode = mode /\ x.view = v /\ x.plan = p
  /\ x.words = emit(p, v).words /\ x.relocs = emit(p, v).relocs

LEMMA EmissionOf ==
  ASSUME SliceInv, NEW p, PlanOK(p), Paired(p), DOMAIN p = DOMAIN blocks,
         NEW v, v.base \in Int, v.shift \in {0, Delta}, NEW T, AllFrom(v, p, T),
         emit(p, v).result = "Ok", NEW mode, NEW x, Emits(x, mode, p, v)
  PROVE  Emission(x, T)
<1> DEFINE e == emit(p, v)
<1>1. EmittedOK(e, 0) /\ Covered(e, p, v)
  BY EmitCovered
<1> HIDE DEF e
<1>2. x.view = v /\ x.plan = p /\ x.words = e.words /\ x.relocs = e.relocs
  BY DEF Emits, e
<1>3. IsSeq(x.words)
  BY <1>1, <1>2 DEF EmittedOK
<1>4. Covered(x, p, v)
  <2>1. \A k : RelocsOn(x, k) = RelocsOn(e, k)
    BY <1>2, SameWords
  <2>2. ASSUME NEW op, NEW here, NEW pos, Lands(e, p, v, op, here, pos)
        PROVE  Lands(x, p, v, op, here, pos)
    BY <1>2, <2>1, <2>2 DEF Lands
  <2>3. ASSUME NEW op, NEW here, NEW pos, NEW k, WordOf(e, p, v, op, here, pos, k)
        PROVE  WordOf(x, p, v, op, here, pos, k)
    BY <2>2, <2>3 DEF WordOf
  <2>4. Len(x.words) = Len(e.words)
    BY <1>2
  <2> QED
    BY <1>1, <2>3, <2>4 DEF Covered
<1>5. Emitting(x)
  BY <1>2 DEF Emitting
<1>6. \A op \in OpsIn(x.plan) : From(x.view, op, T)
  BY <1>2 DEF AllFrom
<1> QED
  BY <1>2, <1>3, <1>4, <1>5, <1>6 DEF Emission

LEMMA SettledOf ==
  ASSUME GInv, TileInv, pc = "edit", NEW p, PlanOK(p), PlanTiled(plan, blocks) => PlanTiled(p, blocks),
         NEW v, v.base \in Int, emit(p, v).result = "Ok", NEW mode, NEW x, Emits(x, mode, p, v),
         mode # "grown_gap" => v.shift = 0 \/ v.base = input.base + v.shift
  PROVE  Settled(x)
<1>1. x.mode = mode /\ x.view = v /\ x.plan = p /\ x.words = emit(p, v).words
  BY DEF Emits
<1>2. ASSUME input.container, ~Resized
      PROVE  PlanTiled(p, blocks) /\ Stands(emit(p, v).words, input.base)
  <2>1. PlanTiled(p, blocks)
    BY <1>2 DEF TileInv
  <2> QED
    BY <1>2, <2>1, SectionStands
<1> QED
  BY <1>1, <1>2 DEF Settled

LEMMA ShowsOf ==
  ASSUME NEW v, NEW p, NEW e, IsSeq(e.words), NEW words, words \in {e.words, ApplyOverlays(e.words)},
         NEW mode, NEW x, x.mode = mode, x.view = v, x.plan = p, x.words = e.words, x.relocs = e.relocs,
         NEW o, o.mode = mode, o.view = v, o.plan = p, o.words = words, o.relocs = e.relocs
  PROVE  Shows(o, x)
<1>1. ASSUME NEW a \in Nat, NEW k \in WordsFor(o, a)
      PROVE  k \in WordsFor(x, a) /\ o.words[k] = x.words[k]
  <2>1. CASE words = e.words
    BY <1>1, <2>1 DEF WordsFor
  <2>2. CASE words = ApplyOverlays(e.words)
    <3> DEFINE w == e.words
    <3>1. IsSeq(w)
      OBVIOUS
    <3> HIDE DEF w
    <3>2. /\ IsSeq(ApplyOverlays(w)) /\ Len(ApplyOverlays(w)) = Len(w)
          /\ \A n \in 1 .. Len(w) : ApplyOverlays(w)[n] = Overlaid(w, n)
      BY <3>1, OverlayFacts
    <3>3. DOMAIN w = 1 .. Len(w) /\ DOMAIN ApplyOverlays(w) = 1 .. Len(w)
      BY <3>1, <3>2 DEF IsSeq
    <3>4. o.words = ApplyOverlays(w) /\ x.words = w
      BY <2>2 DEF w
    <3>5. k \in 1 .. Len(w) /\ Overlaid(w, k).src = a
      BY <1>1, <3>2, <3>3, <3>4 DEF WordsFor
    <3>6. Overlaid(w, k) = w[k] \/ Overlaid(w, k).src = -1
      <4>1. \A c : OverlayWord(c).src = -1
        BY DEF OverlayWord
      <4> QED
        BY <4>1 DEF Overlaid
    <3>7. Overlaid(w, k) = w[k]
      BY <3>5, <3>6
    <3>8. o.words[k] = x.words[k] /\ x.words[k].src = a /\ k \in DOMAIN x.words
      BY <3>2, <3>3, <3>4, <3>5, <3>7
    <3> QED
      BY <3>8 DEF WordsFor
  <2> QED
    BY <2>1, <2>2
<1> QED
  BY <1>1 DEF Shows

\* What an emission o keeps.
PairKeeps(o, i, j) ==
  (/\ SourceRefers(i, j)[1] # "broken"
   /\ Untouched(i) /\ Untouched(j)) =>
    \/ NamedRefers(o, i, j) \subseteq NamedWanted(o, SourceRefers(i, j), FusedInto(o.plan, i) # {})
    \/ LosesName(o, i, j)

BranchKeeps(o, i) ==
  (/\ instructions[i].kind \in Targeted
   /\ Untouched(i) /\ ~AddendDropped(i) /\ ~Misattributed(i)) =>
    \A k \in WordsFor(o, instructions[i].address) :
      NamedBranch(o, k) \in NamedWanted(o, BranchSource(i), TRUE)

Keeps(o) ==
  /\ \A ij \in Pairs : PairKeeps(o, ij[1], ij[2])
  /\ \A i \in 1 .. N : BranchKeeps(o, i)

\* What nobody edited is still named.
NamesSurvive == \A o \in Outs : Keeps(o)

LEMMA ShownKeeps ==
  ASSUME SliceInv, BlocksOK, CoveredTo(N), IsSeq(log), NEW o, NEW x, Shows(o, x),
         Emission(x, TouchedAt(log)), Settled(x)
  PROVE  Keeps(o)
<1>1. ASSUME NEW ij \in Pairs PROVE PairKeeps(o, ij[1], ij[2])
  <2> DEFINE i == ij[1]
             j == ij[2]
  <2>1. Reads(i, j)
    BY DEF Reads, Pairs
  <2> HIDE DEF i, j
  <2>2. PairKeeps(o, i, j)
    BY <2>1, ShownPair DEF PairKeeps
  <2> QED
    BY <2>2 DEF i, j
<1>2. ASSUME NEW i \in 1 .. N PROVE BranchKeeps(o, i)
  BY ShownBranch DEF BranchKeeps
<1> QED
  BY <1>1, <1>2 DEF Keeps

\* The source and the graph decide what an emission has to keep.
LEMMA KeepsSame ==
  ASSUME UNCHANGED <<input, instructions, blocks, log>>, NEW o
  PROVE  Keeps(o)' <=> Keeps(o)
<1>1. N' = N /\ Pairs' = Pairs
  BY DEF N, Pairs
<1>2. ASSUME NEW i PROVE FusedInto(o.plan, i)' = FusedInto(o.plan, i)
  BY DEF FusedInto
<1>3. ASSUME NEW i, NEW j PROVE NamedRefers(o, i, j)' = NamedRefers(o, i, j)
  BY DEF NamedRefers, Refers, WordsFor, RelocsOn
<1>4. ASSUME NEW s PROVE Symbol(s)' = Symbol(s)
  BY DEF Symbol
<1>5. ASSUME NEW v, NEW a PROVE Moved(v, a)' = Moved(v, a)
  BY DEF Moved
<1>6. ASSUME NEW v, NEW s
      PROVE  callable_address_of_symbol(v, s)' = callable_address_of_symbol(v, s)
  BY <1>4, <1>5 DEF callable_address_of_symbol
<1>7. ASSUME NEW a PROVE symbol_at_address(a)' = symbol_at_address(a)
  BY <1>4 DEF symbol_at_address
<1>8. ASSUME NEW a PROVE OwnRelocAt(a)' = OwnRelocAt(a) /\ RelocAt(a)' = RelocAt(a)
  BY DEF OwnRelocAt, RelocAt, FirstReloc, SectionAddress
<1>9. ASSUME NEW a PROVE BlocksAt(a)' = BlocksAt(a)
  BY DEF BlocksAt
<1>10. ASSUME NEW ref, NEW symbolic PROVE NamedWanted(o, ref, symbolic)' = NamedWanted(o, ref, symbolic)
  <2> DEFINE a == ref[2]
             b == IF symbolic THEN BlocksAt(a) ELSE {}
             s == IF symbolic /\ input.container THEN symbol_at_address(a) ELSE {}
             U(S) == {<<"address", callable_address_of_symbol(o.view, t), 0>> : t \in S}
                       \cup {<<"symbol", t, 0>> : t \in S}
             C(t, d) == {ref, <<"address", callable_address_of_symbol(o.view, t) + d, 0>>}
             P(S) == {<<"address", BlockAddress(o.plan, o.view, LowestOf(S)), 0>>}
             M == {<<"address", Moved(o.view, a), 0>>}
             W == IF ref[1] = "symbol" THEN C(ref[2], ref[3])
                  ELSE IF b # {} THEN P(b) ELSE IF s # {} THEN U(s) ELSE M
  <2>1. b' = b /\ s' = s /\ M' = M
    BY <1>5, <1>7, <1>9
  <2>2. ASSUME NEW S PROVE U(S)' = U(S)
    BY <1>6
  <2>3. ASSUME NEW t, NEW d PROVE C(t, d)' = C(t, d)
    BY <1>6
  <2>4. ASSUME NEW S PROVE P(S)' = P(S)
    BY DEF BlockAddress
  <2>5. NamedWanted(o, ref, symbolic) = W
    BY DEF NamedWanted
  <2>6. NamedWanted(o, ref, symbolic)' = W'
    BY DEF NamedWanted
  <2>7. W' = W
    <3>1. W' = IF ref[1] = "symbol" THEN C(ref[2], ref[3])'
               ELSE IF b' # {} THEN P(b') ELSE IF s' # {} THEN U(s') ELSE M'
      BY <2>1, <2>2, <2>4
    <3> HIDE DEF b, s, M, U, C, P
    <3> QED
      BY <3>1, <2>1, <2>2, <2>3, <2>4
  <2> QED
    BY <2>5, <2>6, <2>7
<1>11. ASSUME NEW i, NEW j PROVE SourceRefers(i, j)' = SourceRefers(i, j)
  <2>1. ASSUME NEW k PROVE OwnRelocAt(instructions[k].address)' = OwnRelocAt(instructions[k].address)
    BY <1>8
  <2>2. ASSUME NEW a, NEW b, NEW R, NEW Q PROVE Refers(a, b, R, Q)' = Refers(a, b, R, Q)
    BY DEF Refers
  <2> QED
    BY <2>1, <2>2 DEF SourceRefers
<1>12. ASSUME NEW i
       PROVE  /\ Untouched(i)' <=> Untouched(i)
              /\ Misattributed(i)' <=> Misattributed(i)
              /\ AddendDropped(i)' <=> AddendDropped(i)
              /\ BranchSource(i)' = BranchSource(i)
  <2>1. Untouched(i)' <=> Untouched(i)
    BY DEF Untouched, Succeeded
  <2>2. Misattributed(i)' <=> Misattributed(i)
    BY <1>8 DEF Misattributed
  <2>3. AddendDropped(i)' <=> AddendDropped(i)
    BY <1>8 DEF AddendDropped
  <2>4. BranchSource(i)' = BranchSource(i)
    <3>1. OwnRelocAt(instructions[i].address)' = OwnRelocAt(instructions[i].address)
      BY <1>8
    <3> QED
      BY <3>1 DEF BranchSource
  <2> QED
    BY <2>1, <2>2, <2>3, <2>4
<1>13. Resized' <=> Resized
  BY DEF Resized, Succeeded
<1>14. ASSUME NEW v, NEW m PROVE MacroRelocs(v, m)' = MacroRelocs(v, m)
  BY <1>4 DEF MacroRelocs, macro_symbol_needs_relocation, OtherSection
<1>15. ASSUME NEW i, NEW j PROVE LosesName(o, i, j)' <=> LosesName(o, i, j)
  <2>1. LoneCompanion(o, i, j)' <=> LoneCompanion(o, i, j)
    BY <1>2, <1>11 DEF LoneCompanion
  <2>2. FoldedAccess(o, i)' <=> FoldedAccess(o, i)
    BY <1>2, <1>14 DEF FoldedAccess
  <2>3. AcrossInsert(o, i, j)' <=> AcrossInsert(o, i, j)
    BY <1>2 DEF AcrossInsert
  <2>4. CopiedStale(o, i, j)' <=> CopiedStale(o, i, j)
    BY <1>2, <1>13 DEF CopiedStale, AtHome, WordsFor
  <2> QED
    BY <1>12, <2>1, <2>2, <2>3, <2>4 DEF LosesName
<1>16. ASSUME NEW i, NEW j PROVE PairKeeps(o, i, j)' <=> PairKeeps(o, i, j)
  BY <1>2, <1>3, <1>10, <1>11, <1>12, <1>15 DEF PairKeeps
<1>17. ASSUME NEW i PROVE BranchKeeps(o, i)' <=> BranchKeeps(o, i)
  BY <1>10, <1>12 DEF BranchKeeps, NamedBranch, WordsFor, RelocsOn, Targeted
<1> QED
  BY <1>1, <1>16, <1>17 DEF Keeps

LEMMA EmittedKeeps ==
  ASSUME GInv, EditInv, CommitInv, RedirInv, SourceInv, pc = "edit",
         NEW v, v.base \in Int, NEW p, PlanFor(p, v),
         NEW mode, mode # "grown_gap" => v.shift = 0 \/ v.base = input.base + v.shift,
         NEW words, words \in {emit(p, v).words, ApplyOverlays(emit(p, v).words)},
         Record(v, mode, p, emit(p, v), words), NEW o \in Outs'
  PROVE  Keeps(o)
<1> DEFINE e == emit(p, v)
           T == TouchedAt(log)
           x == [mode |-> mode, view |-> v, plan |-> p, words |-> e.words, relocs |-> e.relocs]
<1>1. /\ SliceInv /\ BlocksOK /\ CoveredTo(N) /\ IsSeq(log) /\ TileInv
      /\ PlanOK(plan) /\ Paired(plan) /\ DOMAIN plan = DOMAIN blocks /\ AllStem(plan, T)
  BY DEF GInv, AttachInv, EditInv, CommitInv, RedirInv, SourceInv
<1>2. /\ PlanOK(p) /\ Paired(p) /\ DOMAIN p = DOMAIN blocks /\ AllFrom(v, p, T)
      /\ v.shift \in {0, Delta} /\ (PlanTiled(plan, blocks) => PlanTiled(p, blocks))
  BY <1>1, PlanForFacts
<1>3. /\ o.view = v /\ o.plan = p /\ o.mode = mode /\ o.words = words /\ o.relocs = e.relocs
      /\ e.result = "Ok"
  BY RecordWhole, RecordFacts
<1>4. x.mode = mode /\ x.view = v /\ x.plan = p /\ x.words = e.words /\ x.relocs = e.relocs
  OBVIOUS
<1> HIDE DEF T, x
<1>5. Emits(x, mode, p, v)
  BY <1>4 DEF Emits
<1>6. Emission(x, T)
  BY <1>1, <1>2, <1>3, <1>5, EmissionOf
<1>7. Settled(x)
  BY <1>1, <1>2, <1>3, <1>5, SettledOf
<1>8. IsSeq(e.words)
  BY <1>4, <1>6 DEF Emission
<1> HIDE DEF e
<1>9. Shows(o, x)
  BY <1>3, <1>4, <1>8, ShowsOf DEF e
<1> QED
  BY <1>1, <1>6, <1>7, <1>9, ShownKeeps DEF T

LEMMA ReferencesNext ==
  ASSUME GInv, EditInv, CommitInv, RedirInv, SourceInv, NamesSurvive, [CommitNext]_planVars
  PROVE  NamesSurvive'
<1>1. CASE pc' # "committed"
  <2>1. out' = <<>>
    BY <1>1, CommitInvNext DEF CommitInv, FreshInv
  <2>2. Outs' = {}
    BY <2>1 DEF Outs
  <2> QED
    BY <2>2 DEF NamesSurvive
<1>2. InputOK(input)
  BY PlanAssumption DEF GInv, SliceInv
<1>3. /\ InPlace.base \in Int /\ InPlace.shift = 0
      /\ Copied.base \in Int /\ Copied.shift = 0
      /\ GrownText.base \in Int /\ GrownText.shift = Delta /\ GrownText.base = input.base + Delta
      /\ GrownGap.base \in Int /\ GrownGap.shift = Delta
  BY <1>2, CommitAssumption DEF InPlace, Copied, GrownText, GrownGap, View, InputOK
<1>4. ASSUME UNCHANGED <<input, instructions, blocks, log>>, \A o \in Outs' : Keeps(o)
      PROVE  NamesSurvive'
  <2>1. \A o : Keeps(o)' <=> Keeps(o)
    BY <1>4, KeepsSame
  <2>2. \A o \in Outs' : Keeps(o)'
    BY <1>4, <2>1
  <2> QED
    BY <2>2 DEF NamesSurvive
<1>5. ASSUME UNCHANGED <<input, instructions, blocks, log>>, pc = "edit",
             NEW v, v.base \in Int, NEW p, PlanFor(p, v),
             NEW mode, mode # "grown_gap" => v.shift = 0 \/ v.base = input.base + v.shift,
             NEW words, words \in {emit(p, v).words, ApplyOverlays(emit(p, v).words)},
             Record(v, mode, p, emit(p, v), words)
      PROVE  NamesSurvive'
  <2>1. \A o \in Outs' : Keeps(o)
    BY <1>5, EmittedKeeps
  <2> QED
    BY <1>4, <1>5, <2>1
<1>6. CASE Commit
  <2>1. /\ pc = "edit" /\ UNCHANGED <<input, instructions, blocks, log>>
        /\ Record(InPlace, "commit", plan, emit(plan, InPlace),
                  ApplyOverlays(emit(plan, InPlace).words))
    BY <1>6 DEF Commit
  <2>2. PlanFor(plan, InPlace)
    BY <1>3 DEF PlanFor
  <2> QED
    BY <1>3, <1>5, <2>1, <2>2
<1>7. CASE EmitCopy
  <2> DEFINE e == emit(plan, Copied)
  <2>1. /\ pc = "edit" /\ UNCHANGED <<input, instructions, blocks, log>>
        /\ Record(Copied, "copy", plan, WithoutRelocations(e), WithoutRelocations(e).words)
    BY <1>7 DEF EmitCopy
  <2>2. PlanFor(plan, Copied)
    BY <1>3 DEF PlanFor
  <2>3. Outs' = {} \/ Record(Copied, "copy", plan, e, e.words)
    BY <2>1, Unrelocated
  <2> HIDE DEF e
  <2>4. CASE Outs' = {}
    BY <1>4, <2>1, <2>4
  <2>5. CASE Record(Copied, "copy", plan, e, e.words)
    BY <1>3, <1>5, <2>1, <2>2, <2>5 DEF e
  <2> QED
    BY <2>3, <2>4, <2>5
<1>8. CASE EmitGrownText
  <2> DEFINE q == shift_plan_absolute_targets(plan)
  <2>1. /\ pc = "edit" /\ UNCHANGED <<input, instructions, blocks, log>>
        /\ Record(GrownText, "grown_text", q, emit(q, GrownText),
                  ApplyOverlays(emit(q, GrownText).words))
    BY <1>8 DEF EmitGrownText, EmitGrown
  <2>2. PlanFor(q, GrownText)
    BY <1>3 DEF PlanFor
  <2> HIDE DEF q
  <2> QED
    BY <1>3, <1>5, <2>1, <2>2
<1>9. CASE EmitGrownGap
  <2> DEFINE q == shift_plan_absolute_targets(plan)
             e == emit(q, GrownGap)
  <2>1. /\ pc = "edit" /\ UNCHANGED <<input, instructions, blocks, log>>
        /\ Record(GrownGap, "grown_gap", q, WithoutRelocations(e), WithoutRelocations(e).words)
    BY <1>9 DEF EmitGrownGap, EmitGrown
  <2>2. PlanFor(q, GrownGap)
    BY <1>3 DEF PlanFor
  <2>3. Outs' = {} \/ Record(GrownGap, "grown_gap", q, e, e.words)
    BY <2>1, Unrelocated
  <2> HIDE DEF q, e
  <2>4. CASE Outs' = {}
    BY <1>4, <2>1, <2>4
  <2>5. CASE Record(GrownGap, "grown_gap", q, e, e.words)
    BY <1>3, <1>5, <2>1, <2>2, <2>5 DEF e
  <2> QED
    BY <2>3, <2>4, <2>5
<1>10. CASE UNCHANGED planVars
  <2>1. UNCHANGED <<input, instructions, blocks, log, out>>
    BY <1>10 DEF planVars, cfgVars
  <2>2. Outs' = Outs
    BY <2>1 DEF Outs
  <2>3. \A o \in Outs : Keeps(o)
    BY DEF NamesSurvive
  <2> QED
    BY <1>4, <2>1, <2>2, <2>3
<1>11. CASE PlanStep
  <2>1. pc' # "committed"
    BY <1>11 DEF PlanStep, CfgStep, CollectLeader, LeadersCollected, FormBlock, BlocksFormed,
                AttachSuccessors, SuccessorsAttached, Lift, Edit, RedirectBranch,
                RedirectMacro, Replace, ReplaceTerminator, InsertAfter, RemoveOp,
                OverlayBytes, Apply, cfgVars
  <2> QED
    BY <2>1, <1>1
<1> QED
  BY <1>6, <1>7, <1>8, <1>9, <1>10, <1>11 DEF CommitNext, Committed

LEMMA ReferencesInit ==
  ASSUME PlanInit
  PROVE  SourceInv /\ NamesSurvive
<1>1. pc \in {"leaders", "done"} /\ out = <<>>
  BY DEF PlanInit, CfgInit
<1>2. Outs = {}
  BY <1>1 DEF Outs
<1> QED
  BY <1>1, <1>2 DEF SourceInv, NamesSurvive

-----------------------------------------------------------------------------
(* From names to where the code goes: only the linker of an object applies *)
(* a relocation, and only a grow moves what a name stands for.             *)

\* Only a linked Mach-O image grows.
ViewInv ==
  \A o \in Outs :
    \/ o.view.shift = 0
    \/ input.macho /\ ~input.relocatable /\ o.view.shift = Delta

LEMMA ViewNext ==
  ASSUME GInv, EditInv, CommitInv, ViewInv, [CommitNext]_planVars
  PROVE  ViewInv'
<1>1. CASE pc' # "committed"
  <2>1. out' = <<>>
    BY <1>1, CommitInvNext DEF CommitInv, FreshInv
  <2> QED
    BY <2>1 DEF ViewInv, Outs
<1>2. /\ InPlace.shift = 0 /\ Copied.shift = 0
      /\ GrownText.shift = Delta /\ GrownGap.shift = Delta
  BY DEF InPlace, Copied, GrownText, GrownGap, View
<1>3. ASSUME NEW v, NEW mode, NEW p, NEW e, NEW words, Record(v, mode, p, e, words),
             UNCHANGED input,
             v.shift = 0 \/ (input.macho /\ ~input.relocatable /\ v.shift = Delta)
      PROVE  ViewInv'
  <2>1. \A o \in Outs' : o.view = v
    BY <1>3, RecordWhole
  <2> QED
    BY <1>3, <2>1 DEF ViewInv
<1>4. CASE Commit
  BY <1>2, <1>3, <1>4 DEF Commit
<1>5. CASE EmitCopy
  BY <1>2, <1>3, <1>5 DEF EmitCopy
<1>6. CASE EmitGrownText
  BY <1>2, <1>3, <1>6 DEF EmitGrownText, EmitGrown
<1>7. CASE EmitGrownGap
  BY <1>2, <1>3, <1>7 DEF EmitGrownGap, EmitGrown
<1>8. CASE UNCHANGED planVars
  BY <1>8 DEF planVars, cfgVars, ViewInv, Outs
<1>9. CASE PlanStep
  <2>1. pc' # "committed"
    BY <1>9 DEF PlanStep, CfgStep, CollectLeader, LeadersCollected, FormBlock, BlocksFormed,
                AttachSuccessors, SuccessorsAttached, Lift, Edit, RedirectBranch,
                RedirectMacro, Replace, ReplaceTerminator, InsertAfter, RemoveOp,
                OverlayBytes, Apply, cfgVars
  <2> QED
    BY <2>1, <1>1
<1> QED
  BY <1>4, <1>5, <1>6, <1>7, <1>8, <1>9 DEF CommitNext, Committed

\* What is relied on of a reference: in an object any, elsewhere an address.
Holds(ref) == input.relocatable \/ ref[1] = "address"

\* Unless a relocation is left to nobody, words refer to what they name.
LEMMA PairApplied ==
  ASSUME NEW o, NEW i, NEW j,
         ~Unapplied(o, instructions[i].address), ~Unapplied(o, instructions[j].address)
  PROVE  /\ EmittedRefers(o, i, j) = NamedRefers(o, i, j)
         /\ \A r \in NamedRefers(o, i, j) : Holds(r)
<1> DEFINE A == WordsFor(o, instructions[i].address)
           B == WordsFor(o, instructions[j].address)
           V(k, l) == Refers(o.words[k].val, o.words[l].imm, RelocsOn(o, k), RelocsOn(o, l))
           W(k, l) == Refers(o.words[k].val, o.words[l].imm, AppliedTo(o, k), AppliedTo(o, l))
<1>1. ASSUME NEW k \in A \cup B PROVE AppliedTo(o, k) = RelocsOn(o, k)
  BY <1>1 DEF AppliedTo, Unapplied
<1>2. ASSUME NEW k \in A, NEW l \in B PROVE W(k, l) = V(k, l) /\ Holds(V(k, l))
  <2>1. AppliedTo(o, k) = RelocsOn(o, k) /\ AppliedTo(o, l) = RelocsOn(o, l)
    BY <1>1, <1>2
  <2>2. W(k, l) = V(k, l)
    BY <2>1
  <2>3. CASE input.relocatable
    BY <2>2, <2>3 DEF Holds
  <2>4. CASE ~input.relocatable
    <3>1. RelocsOn(o, k) = {} /\ RelocsOn(o, l) = {}
      BY <2>1, <2>4 DEF AppliedTo
    <3>2. V(k, l)[1] = "address"
      BY <3>1 DEF Refers
    <3> QED
      BY <2>2, <3>2 DEF Holds
  <2> QED
    BY <2>3, <2>4
<1>3. NamedRefers(o, i, j) = {V(k, l) : k \in A, l \in B}
  BY DEF NamedRefers
<1>4. EmittedRefers(o, i, j) = {W(k, l) : k \in A, l \in B}
  BY DEF EmittedRefers
<1> HIDE DEF A, B, V, W
<1> QED
  BY <1>2, <1>3, <1>4

LEMMA BranchApplied ==
  ASSUME NEW o, NEW a, ~Unapplied(o, a), NEW k \in WordsFor(o, a)
  PROVE  BranchRefers(o, k) = NamedBranch(o, k) /\ Holds(NamedBranch(o, k))
<1>1. AppliedTo(o, k) = RelocsOn(o, k)
  BY DEF AppliedTo, Unapplied
<1>2. BranchRefers(o, k) = NamedBranch(o, k)
  BY <1>1 DEF BranchRefers, NamedBranch
<1>3. CASE ~input.relocatable
  <2>1. RelocsOn(o, k) = {}
    BY <1>1, <1>3 DEF AppliedTo
  <2> QED
    BY <1>2, <2>1 DEF Holds, NamedBranch
<1> QED
  BY <1>2, <1>3 DEF Holds

\* A name of a symbol whose stub did not move is a reference to it.
LEMMA SymbolReached ==
  ASSUME SliceInv, NEW o, o.view.shift \in Int, NEW s \in SymbolIds, NEW d,
         Symbol(s).undefined => Moved(o.view, Symbol(s).stub) = Symbol(s).stub,
         NEW ref, Holds(ref),
         ref \in {<<"symbol", s, d>>, <<"address", callable_address_of_symbol(o.view, s) + d, 0>>}
  PROVE  ref \in ToSymbol(o, s, d)
<1> DEFINE c == callable_address_of_symbol(o.view, s)
           at == IF Symbol(s).undefined THEN Moved(o.view, Symbol(s).stub) ELSE c
<1>1. at = c
  BY DEF callable_address_of_symbol
<1>2. ToSymbol(o, s, d) = {<<"address", at + d, 0>>}
                          \cup (IF input.relocatable THEN {<<"symbol", s, d>>} ELSE {})
  BY DEF ToSymbol
<1> HIDE DEF c, at
<1>3. CASE ref = <<"symbol", s, d>>
  <2>1. ref[1] # "address"
    BY <1>3
  <2> QED
    BY <1>2, <1>3, <2>1 DEF Holds
<1>4. CASE ref = <<"address", c + d, 0>>
  BY <1>1, <1>2, <1>4
<1> QED
  BY <1>3, <1>4 DEF c

\* Where a reference should name what the source named, it should go there.
LEMMA WantedNamed ==
  ASSUME SliceInv, NEW o, o.view.shift \in Int, NEW ref, NEW symbolic,
         ref[1] = "symbol" => /\ ref = <<"symbol", ref[2], ref[3]>> /\ ref[2] \in SymbolIds
                              /\ Moved(o.view, Symbol(ref[2]).stub) = Symbol(ref[2]).stub,
         NEW r \in NamedWanted(o, ref, symbolic), Holds(r)
  PROVE  r \in Wanted(o, ref, symbolic)
<1>1. CASE ref[1] = "symbol"
  <2>1. r \in {<<"symbol", ref[2], ref[3]>>,
               <<"address", callable_address_of_symbol(o.view, ref[2]) + ref[3], 0>>}
    BY <1>1 DEF NamedWanted
  <2>2. r \in ToSymbol(o, ref[2], ref[3])
    BY <1>1, <2>1, SymbolReached
  <2> QED
    BY <1>1, <2>2 DEF Wanted
<1>2. CASE ref[1] # "symbol"
  <2> DEFINE a == ref[2]
             b == IF symbolic THEN BlocksAt(a) ELSE {}
             s == IF symbolic /\ input.container THEN symbol_at_address(a) ELSE {}
             P == {<<"address", BlockAddress(o.plan, o.view, LowestOf(b)), 0>>}
             Q == {<<"address", Moved(o.view, a), 0>>}
             S == {<<"address", callable_address_of_symbol(o.view, t), 0>> : t \in s}
                  \cup {<<"symbol", t, 0>> : t \in s}
             T == UNION {ToSymbol(o, t, 0) : t \in s}
  <2>1. NamedWanted(o, ref, symbolic) = IF b # {} THEN P ELSE IF s # {} THEN S ELSE Q
    BY <1>2 DEF NamedWanted
  <2>2. Wanted(o, ref, symbolic) = IF b # {} THEN P ELSE IF s # {} THEN T ELSE Q
    BY <1>2 DEF Wanted
  <2>3. ASSUME NEW t \in s, r \in {<<"address", callable_address_of_symbol(o.view, t), 0>>,
                                   <<"symbol", t, 0>>}
        PROVE  r \in ToSymbol(o, t, 0)
    <3>1. t \in SymbolIds /\ ~Symbol(t).undefined
      BY <2>3 DEF symbol_at_address
    <3>2. callable_address_of_symbol(o.view, t) + 0 = callable_address_of_symbol(o.view, t)
      <4>1. callable_address_of_symbol(o.view, t) \in Int
        BY <3>1, CallableInInt
      <4> QED
        BY <4>1
    <3> HIDE DEF s
    <3> QED
      BY <2>3, <3>1, <3>2, SymbolReached
  <2>4. r \in S => r \in T
    <3> HIDE DEF s
    <3> QED
      BY <2>3
  <2> HIDE DEF a, b, s, P, Q, S, T
  <2> QED
    BY <2>1, <2>2, <2>4
<1> QED
  BY <1>1, <1>2

LEMMA ShiftInInt ==
  ASSUME ViewInv, NEW o \in Outs
  PROVE  o.view.shift \in Int
BY CommitAssumption DEF ViewInv

\* A relocation of the source names a symbol whose stub stays.
LEMMA SourceSymbols ==
  ASSUME SliceInv, ViewInv, NEW o \in Outs,
         NEW i \in 1 .. N, NEW r \in OwnRelocAt(instructions[i].address)
  PROVE  r.symbol \in SymbolIds /\ Moved(o.view, Symbol(r.symbol).stub) = Symbol(r.symbol).stub
<1> DEFINE a == instructions[i].address
           S == {n \in DOMAIN input.relocs :
                   LET q == input.relocs[n] IN
                   q.kind \in LiftRelocs /\ q.section = "text" /\ input.base + q.offset = a}
<1>1. InputOK(input)
  BY PlanAssumption DEF SliceInv
<1>2. OwnRelocAt(a) = IF input.container THEN FirstReloc(S) ELSE {}
  BY DEF OwnRelocAt
<1>3. r.symbol \in SymbolIds
  BY OwnRelocFacts
<1>4. ~(input.macho /\ ~input.relocatable)
  <2> SUFFICES ASSUME input.macho, ~input.relocatable PROVE FALSE
    OBVIOUS
  <2>1. S = {}
    BY <1>1 DEF InputOK
  <2> HIDE DEF S
  <2> QED
    BY <1>2, <2>1 DEF FirstReloc
<1>5. o.view.shift = 0
  BY <1>4 DEF ViewInv
<1>6. Symbol(r.symbol).stub \in Int
  BY <1>1, <1>3 DEF InputOK, Symbol
<1> QED
  BY <1>3, <1>5, <1>6 DEF Moved

\* Redirected words that name the new target refer to it.
LEMMA RedirectsReach ==
  ASSUME SliceInv, ViewInv, RedirectsNamed
  PROVE  RedirectsTakeEffect
<1> SUFFICES ASSUME NEW o \in Outs, NEW e \in Succeeded(Redirects), LastRedirectAt(e), overlays = {},
                    ~CopiedAtHome(o, e), ~FoldedAccessRedirect(o, e),
                    ~UnappliedRedirect(o, e), ~StubLeftBehind(o, e)
             PROVE  RedirectEffective(o, e)
  BY DEF RedirectsTakeEffect, Redirects
<1> DEFINE t == e.target
<1>1. TargetOK(t) /\ NamedEffective(o, e)
  BY DEF RedirectsNamed, Claim
<1>2. InputOK(input)
  BY PlanAssumption DEF SliceInv
<1>3. RedirectedRefers(o, e) = RedirectedNames(o, e) /\ \A r \in RedirectedNames(o, e) : Holds(r)
  <2>1. CASE e.edit = "redirect_branch"
    <3> DEFINE K == WordsFor(o, e.at)
    <3>1. \A k \in K : BranchRefers(o, k) = NamedBranch(o, k) /\ Holds(NamedBranch(o, k))
      BY <2>1, BranchApplied DEF UnappliedRedirect
    <3>2. /\ RedirectedRefers(o, e) = {BranchRefers(o, k) : k \in K}
          /\ RedirectedNames(o, e) = {NamedBranch(o, k) : k \in K}
      BY <2>1 DEF RedirectedRefers, RedirectedNames
    <3> HIDE DEF K
    <3> QED
      BY <3>1, <3>2
  <2>2. CASE e.edit # "redirect_branch"
    <3> DEFINE P == RedirectedPairs(o, e)
    <3>1. ASSUME NEW ij \in P
          PROVE  /\ EmittedRefers(o, ij[1], ij[2]) = NamedRefers(o, ij[1], ij[2])
                 /\ \A r \in NamedRefers(o, ij[1], ij[2]) : Holds(r)
      <4>1. /\ ~Unapplied(o, instructions[ij[1]].address)
            /\ ~Unapplied(o, instructions[ij[2]].address)
        BY <2>2, <3>1 DEF UnappliedRedirect
      <4> QED
        BY <4>1, PairApplied
    <3>2. /\ RedirectedRefers(o, e) = UNION {EmittedRefers(o, ij[1], ij[2]) : ij \in P}
          /\ RedirectedNames(o, e) = UNION {NamedRefers(o, ij[1], ij[2]) : ij \in P}
      BY <2>2 DEF RedirectedRefers, RedirectedNames
    <3> HIDE DEF P
    <3> QED
      BY <3>1, <3>2
  <2> QED
    BY <2>1, <2>2
<1>4. ASSUME NEW r \in NamedReference(o, t), Holds(r)
      PROVE  r \in NewReference(o, t)
  <2> DEFINE u == IF o.view.shift > 0 THEN Bump(t) ELSE t
             to == resolve_target(o.plan, o.view, u)
  <2>1. NamedReference(o, t) =
          {<<"address", to, 0>>} \cup (IF t.kind = "symbol" THEN {<<"symbol", t.v, 0>>} ELSE {})
    BY DEF NamedReference
  <2>2. NewReference(o, t) = IF t.kind = "symbol" /\ input.container THEN ToSymbol(o, t.v, 0)
                             ELSE {<<"address", to, 0>>}
    BY DEF NewReference
  <2>3. CASE t.kind = "symbol" /\ input.container
    <3> DEFINE c == callable_address_of_symbol(o.view, t.v)
    <3>1. t.v \in SymbolIds
      BY <1>1, <2>3 DEF TargetOK
    <3>2. u = t
      BY <2>3 DEF Bump
    <3>3. to = c
      BY <2>3, <3>2 DEF resolve_target
    <3>4. c \in Int /\ o.view.shift \in Int
      BY <3>1, CallableInInt, ShiftInInt
    <3>5. c + 0 = c
      BY <3>4
    <3>6. Symbol(t.v).undefined => Moved(o.view, Symbol(t.v).stub) = Symbol(t.v).stub
      BY <2>3 DEF StubLeftBehind
    <3> HIDE DEF to, u
    <3>7. r \in {<<"symbol", t.v, 0>>, <<"address", c + 0, 0>>}
      BY <1>4, <2>1, <3>3, <3>5
    <3>8. r \in ToSymbol(o, t.v, 0)
      BY <1>4, <3>1, <3>4, <3>6, <3>7, SymbolReached
    <3> QED
      BY <2>2, <2>3, <3>8
  <2>4. CASE ~(t.kind = "symbol" /\ input.container)
    <3>1. t.kind = "symbol" => ~input.relocatable
      BY <1>2, <2>4 DEF InputOK
    <3>2. r # <<"symbol", t.v, 0>> \/ t.kind # "symbol"
      <4> SUFFICES ASSUME r = <<"symbol", t.v, 0>>, t.kind = "symbol" PROVE FALSE
        OBVIOUS
      <4>1. r[1] = "symbol"
        OBVIOUS
      <4> QED
        BY <1>4, <3>1, <4>1 DEF Holds
    <3> HIDE DEF to
    <3> QED
      BY <1>4, <2>1, <2>2, <2>4, <3>2
  <2> QED
    BY <2>3, <2>4
<1> QED
  BY <1>1, <1>3, <1>4 DEF NamedEffective, RedirectEffective

\* What nobody edited refers to what it names.
LEMMA ReferencesReach ==
  ASSUME SliceInv, ViewInv, NamesSurvive
  PROVE  ReferencesSurvive
<1>1. ASSUME NEW o \in Outs, NEW ij \in Pairs,
             SourceRefers(ij[1], ij[2])[1] # "broken", Untouched(ij[1]), Untouched(ij[2]),
             ~LosesReference(o, ij[1], ij[2])
      PROVE  EmittedRefers(o, ij[1], ij[2])
               \subseteq Wanted(o, SourceRefers(ij[1], ij[2]), FusedInto(o.plan, ij[1]) # {})
  <2> DEFINE i == ij[1]
             j == ij[2]
             ref == SourceRefers(i, j)
             fused == FusedInto(o.plan, i) # {}
  <2>1. i \in 1 .. N
    BY DEF Pairs
  <2>2. ~LosesName(o, i, j)
    BY <1>1 DEF LosesReference, LosesName
  <2>3. NamedRefers(o, i, j) \subseteq NamedWanted(o, ref, fused)
    BY <1>1, <2>2 DEF NamesSurvive, Keeps, PairKeeps
  <2>4. /\ EmittedRefers(o, i, j) = NamedRefers(o, i, j)
        /\ \A r \in NamedRefers(o, i, j) : Holds(r)
    BY <1>1, PairApplied DEF LosesReference
  <2>5. ref[1] = "symbol" => /\ ref = <<"symbol", ref[2], ref[3]>> /\ ref[2] \in SymbolIds
                             /\ Moved(o.view, Symbol(ref[2]).stub) = Symbol(ref[2]).stub
    <3> DEFINE R == OwnRelocAt(instructions[i].address)
    <3>1. ref[1] = "symbol" => \E r \in R : ref = <<"symbol", r.symbol, r.addend>>
      BY DEF SourceRefers, Refers
    <3> HIDE DEF ref
    <3>2. \A r \in R : /\ r.symbol \in SymbolIds
                       /\ Moved(o.view, Symbol(r.symbol).stub) = Symbol(r.symbol).stub
      BY <2>1, SourceSymbols
    <3> QED
      BY <3>1, <3>2
  <2>6. o.view.shift \in Int
    BY ShiftInInt
  <2>7. ASSUME NEW r \in NamedWanted(o, ref, fused), Holds(r) PROVE r \in Wanted(o, ref, fused)
    <3> HIDE DEF ref, fused
    <3> QED
      BY <2>5, <2>6, <2>7, WantedNamed
  <2> HIDE DEF i, j, ref, fused
  <2>8. EmittedRefers(o, i, j) \subseteq Wanted(o, ref, fused)
    BY <2>3, <2>4, <2>7
  <2> QED
    BY <2>8 DEF i, j, ref, fused
<1>2. ASSUME NEW o \in Outs, NEW i \in 1 .. N, instructions[i].kind \in Targeted,
             Untouched(i), ~AddendDropped(i), ~Misattributed(i),
             ~Unapplied(o, instructions[i].address), NEW k \in WordsFor(o, instructions[i].address)
      PROVE  BranchRefers(o, k) \in Wanted(o, BranchSource(i), TRUE)
  <2> DEFINE ref == BranchSource(i)
             R == OwnRelocAt(instructions[i].address)
  <2>1. NamedBranch(o, k) \in NamedWanted(o, ref, TRUE)
    BY <1>2 DEF NamesSurvive, Keeps, BranchKeeps
  <2>2. BranchRefers(o, k) = NamedBranch(o, k) /\ Holds(NamedBranch(o, k))
    BY <1>2, BranchApplied
  <2>3. ref[1] = "symbol" => \E r \in R : ref = <<"symbol", r.symbol, r.addend>>
    BY DEF BranchSource
  <2>4. \A r \in R : /\ r.symbol \in SymbolIds
                     /\ Moved(o.view, Symbol(r.symbol).stub) = Symbol(r.symbol).stub
    BY SourceSymbols
  <2> HIDE DEF ref, R
  <2>5. ref[1] = "symbol" => /\ ref = <<"symbol", ref[2], ref[3]>> /\ ref[2] \in SymbolIds
                             /\ Moved(o.view, Symbol(ref[2]).stub) = Symbol(ref[2]).stub
    BY <2>3, <2>4
  <2>6. o.view.shift \in Int
    BY ShiftInInt
  <2>7. NamedBranch(o, k) \in Wanted(o, ref, TRUE)
    BY <2>1, <2>2, <2>5, <2>6, WantedNamed
  <2> QED
    BY <2>2, <2>7 DEF ref
<1>3. PairsKeepTheirReference
  BY <1>1 DEF PairsKeepTheirReference
<1>4. BranchesKeepTheirTarget
  BY <1>2 DEF BranchesKeepTheirTarget
<1> QED
  BY <1>3, <1>4 DEF ReferencesSurvive

-----------------------------------------------------------------------------
(* The theorems.                                                           *)

NamesInv == RedirInv /\ RedirectsNamed /\ SourceInv /\ NamesSurvive /\ ViewInv

LEMMA NamesHold == CommitSpec => [](GInv /\ NamesInv)
<1> DEFINE Inv == GInv /\ EditInv
           Section == CommitInv /\ OverlaysLand /\ RelocationsFitTheBytes
<1>1. PlanInit => NamesInv
  <2> SUFFICES ASSUME PlanInit PROVE NamesInv
    OBVIOUS
  <2>1. Outs = {}
    BY DEF PlanInit, Outs
  <2> QED
    BY <2>1, RedirInit, ReferencesInit DEF NamesInv, ViewInv
<1>2. Inv /\ Section /\ NamesInv /\ [CommitNext]_planVars => NamesInv'
  <2> SUFFICES ASSUME Inv, Section, NamesInv, [CommitNext]_planVars PROVE NamesInv'
    OBVIOUS
  <2>1. IsSeq(log)
    BY DEF CommitInv
  <2> QED
    BY <2>1, RedirInvNext, RedirectsNext, SourceInvNext, ReferencesNext, ViewNext DEF NamesInv
<1>3. CommitSpec => []Inv
  BY PlanInv
<1>4. CommitSpec => []Section
  BY SectionInv
<1>5. Inv => GInv
  OBVIOUS
<1> HIDE DEF Inv, Section
<1> QED
  BY <1>1, <1>2, <1>3, <1>4, <1>5, PTL DEF CommitSpec

\* For every slice, container, sequence of edits and kind of emission: what a
\* redirect that returned Ok asked for last is where the emitted op goes, unless
\* the macro's source bytes are copied, its folded access ignores the target, the
\* target became a relocation of a final image, or it is the stub of an import
\* that a grow moves (plan.rs redirect_branch and redirect_macro_target, emit.rs
\* emit_instruction, macro_emit.rs emit_macro, editor.rs
\* shift_plan_absolute_targets).
THEOREM RedirectsHold == CommitSpec => []RedirectsTakeEffect
<1>1. GInv /\ NamesInv => RedirectsTakeEffect
  BY RedirectsReach DEF NamesInv, GInv
<1> QED
  BY <1>1, NamesHold, PTL

\* For every slice, container, sequence of edits and kind of emission: an adrp
\* pair or a direct branch that no redirect touched goes to the symbol, the block
\* or the address it went to, as far as that moved, but for the pairs named by
\* LosesReference, among them those that became a relocation of a final image
\* (plan.rs lift_instruction and resolve_address, fusion.rs, emit.rs
\* emit_instruction, macro_emit.rs emit_macro, editor.rs
\* shift_plan_absolute_targets and commit_grown).
THEOREM ReferencesKept == CommitSpec => []ReferencesSurvive
<1>1. GInv /\ NamesInv => ReferencesSurvive
  BY ReferencesReach DEF NamesInv, GInv
<1> QED
  BY <1>1, NamesHold, PTL
=============================================================================
