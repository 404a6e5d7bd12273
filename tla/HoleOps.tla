------------------------------ MODULE HoleOps -------------------------------
(***************************************************************************)
(* The pool of freed .text holes of rewrite/editor.rs: best fit, shrink,   *)
(* drop a remainder shorter than an instruction, and undo.  A pool is a    *)
(* sequence of holes [va, size]; its order is part of the state, because   *)
(* ties are broken by it and a rollback restores it.                       *)
(***************************************************************************)
EXTENDS Integers, Sequences, SequencesExt

Hole == [va : Nat, size : Nat]

Apart(a, an, b, bn) == a + an <= b \/ b + bn <= a

\* What a caller hands over: the spans of functions that were freed, which are not
\* empty and do not overlap.
IsPool(holes) ==
  /\ holes \in Seq(Hole)
  /\ \A i \in DOMAIN holes : holes[i].size > 0
  /\ \A i, j \in DOMAIN holes :
       i # j => Apart(holes[i].va, holes[i].size, holes[j].va, holes[j].size)

\* (need + 3) & !3
round4(need) == ((need + 3) \div 4) * 4

\* The first of the smallest holes that fit, 0 when none does.
Fits(holes, need) == {i \in DOMAIN holes : holes[i].size >= need}

best_fit(holes, need) ==
  IF need = 0 \/ Fits(holes, need) = {} THEN 0
  ELSE CHOOSE i \in Fits(holes, need) :
         \A j \in Fits(holes, need) :
           \/ holes[i].size < holes[j].size
           \/ holes[i].size = holes[j].size /\ i <= j

Shrunk(hole, need) == [va |-> hole.va + need, size |-> hole.size - need]

\* Mutant: the start of the shrunk hole is not moved.
take_hole_in_place(holes, i, need) ==
  IF holes[i].size - need < 4 THEN RemoveAt(holes, i)
  ELSE [holes EXCEPT ![i].size = @ - need]

\* The pool after `need` bytes are taken from hole i.
take_hole(holes, i, need) ==
  IF holes[i].size - need < 4 THEN RemoveAt(holes, i)
  ELSE [holes EXCEPT ![i] = Shrunk(@, need)]

\* What reserve_hole remembers in order to undo.
HoleReservation(holes, i, need) ==
  [va |-> holes[i].va, need |-> need, removed |-> holes[i].size - need < 4,
   idx |-> i, entry |-> holes[i]]

\* Mutant: a hole that was removed is put back at the end.
release_hole_append(holes, r) ==
  IF r.removed THEN Append(holes, r.entry)
  ELSE [i \in DOMAIN holes |->
          IF holes[i].va = r.va + r.need
          THEN [va |-> r.va, size |-> holes[i].size + r.need] ELSE holes[i]]

\* A removed hole is reinserted at its index, a shrunk one is found by its
\* start and grown back.
release_hole(holes, r) ==
  IF r.removed
  THEN InsertAt(holes, IF r.idx > Len(holes) + 1 THEN Len(holes) + 1 ELSE r.idx,
                r.entry)
  ELSE LET i == SelectInSeq(holes, LAMBDA h : h.va = r.va + r.need)
       IN  IF i = 0 THEN holes
           ELSE [holes EXCEPT ![i] = [va   |-> r.va,
                                      size |-> holes[i].size + r.need]]
=============================================================================
