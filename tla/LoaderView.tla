----------------------------- MODULE LoaderView -----------------------------
(***************************************************************************)
(* What an ELF editing session promises, without files: the process that   *)
(* loads the output sees the input's libraries, exports, initialisers and  *)
(* relocations with the session's edits applied, and nothing else changed. *)
(* A session that fails leaves what was there.                             *)
(***************************************************************************)
EXTENDS Sequences, SequencesExt

CONSTANTS Names, Ids

VARIABLES
  view,  \* what a process sees of the current file
  plan,  \* what it is promised to see of the next one
  ok     \* whether the last session came to a file

vars == <<view, plan, ok>>

\* Initialisers stay in the slots the file has, each a chain of functions;
\* the libraries and slots a session adds follow them.
Promise(v) ==
  [needed |-> v.needed, added |-> <<>>, exports |-> v.exports,
   slots |-> v.inits, fresh |-> <<>>, others |-> v.others]

Kept(p) ==
  [needed |-> p.needed \o p.added, exports |-> p.exports,
   inits |-> p.slots \o p.fresh, others |-> p.others]

Init == plan = Promise(view) /\ ok = TRUE

AddLibrary(n) == plan' = [plan EXCEPT !.added = Append(@, n)]

RemoveLibrary(n) ==
  /\ n \in Range(plan.needed)
  /\ plan' = [plan EXCEPT !.needed = SelectSeq(@, LAMBDA m : m # n)]

\* A name that is exported already keeps its first definition.
Export(n, id) ==
  plan' = [plan EXCEPT !.exports =
             [m \in DOMAIN @ \cup {n} |-> IF m \in DOMAIN @ THEN @[m] ELSE <<id>>]]

\* A new function runs ahead of what the slot runs already.
Chain(k, id) ==
  /\ k \in DOMAIN plan.slots
  /\ plan' = [plan EXCEPT !.slots[k] = <<id>> \o @]

AppendSlot(id) == plan' = [plan EXCEPT !.fresh = Append(@, <<id>>)]

Replace(n, id) ==
  /\ n \in DOMAIN plan.exports
  /\ plan' = [plan EXCEPT !.exports[n] = <<id>>]

Edit ==
  /\ \/ \E n \in Names : AddLibrary(n) \/ RemoveLibrary(n)
     \/ \E n \in Names, id \in Ids : Export(n, id) \/ Replace(n, id)
     \/ \E id \in Ids : AppendSlot(id) \/ \E k \in {1, Len(plan.slots)} : Chain(k, id)
  /\ UNCHANGED <<view, ok>>

Deliver == view' = Kept(plan) /\ plan' = Promise(view') /\ ok' = TRUE

Refuse == plan' = Promise(view) /\ ok' = FALSE /\ UNCHANGED view

Next == Edit \/ Deliver \/ Refuse

Spec == Init /\ [][Next]_vars

=============================================================================
