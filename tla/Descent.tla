------------------------------ MODULE Descent -------------------------------
(***************************************************************************)
(* Recursive-descent disassembly (isa/aarch64/recursive.rs and its armv7   *)
(* Thumb and Arm twins): walk the control flow from the entry points with  *)
(* a stack of pending addresses, then classify every byte as code or data. *)
(* Addresses count instruction units (words, or halfwords for Thumb) from  *)
(* the base.  decode[a] is what the bytes at a decode to, for every a: a   *)
(* Thumb-2 instruction is two units long and another instruction may start *)
(* at its second one.                                                      *)
(***************************************************************************)
EXTENDS ControlFlow, Sequences, FiniteSets

CONSTANTS
  Programs,     \* functions from 0 .. n-1 to Instruction
  EntryLists,   \* the entry points a caller may pass
  Tails         \* trailing bytes that do not fill a unit

ASSUME DescentAssumption ==
  /\ \A p \in Programs :
       /\ p \in [DOMAIN p -> Instruction]
       /\ IsFiniteSet(DOMAIN p) /\ DOMAIN p = 0 .. Cardinality(DOMAIN p) - 1
       /\ \A a \in DOMAIN p : a + p[a].size <= Cardinality(DOMAIN p)
  /\ EntryLists \subseteq Seq(Int)
  /\ Tails \subseteq Nat

VARIABLES
  decode,       \* what the bytes decode to
  tail,         \* bytes past the last unit
  entries,      \* entry_points
  worklist,     \* addresses to walk from, a stack
  address,      \* where the current walk is (meaningful when pc = "walk")
  status,       \* classified addresses: "Decoded" or "DecodeError"
  pc,           \* "pop", "walk", "build" or "done"
  offset,       \* next address of build_disassembly
  data_start,   \* start of the open data range, -1 for none
  data_reason,  \* its reason
  instructions, \* addresses of the listed instructions
  data_ranges   \* [address, len, reason]

walkVars == <<worklist, address, status>>
buildVars == <<offset, data_start, data_reason, instructions, data_ranges>>
vars == <<decode, tail, entries, pc, walkVars, buildVars>>

End == Cardinality(DOMAIN decode)     \* aligned_end

in_range(a) == a \in DOMAIN decode

\* The worklist the call starts with: the entry points filtered by in_range.
initial_worklist ==
  LET kept[n \in 0 .. Len(entries)] ==
        IF n = 0 THEN <<>>
        ELSE IF in_range(entries[n]) THEN Append(kept[n - 1], entries[n])
        ELSE kept[n - 1]
  IN  kept[Len(entries)]

Init ==
  /\ decode \in Programs
  /\ entries \in EntryLists
  /\ tail \in Tails
  /\ worklist = initial_worklist
  /\ address = 0 /\ status = <<>>
  /\ pc = "pop"
  /\ offset = 0 /\ data_start = -1 /\ data_reason = "none"
  /\ instructions = <<>> /\ data_ranges = <<>>

-----------------------------------------------------------------------------
(* The walk.                                                               *)

\* Mutant: the pending address is read and left on the stack.
Peek ==
  /\ pc = "pop"
  /\ worklist # <<>>
  /\ address' = worklist[Len(worklist)]
  /\ pc' = "walk"
  /\ UNCHANGED <<decode, tail, entries, worklist, status, buildVars>>

Pop ==
  /\ pc = "pop"
  /\ worklist # <<>>
  /\ address' = worklist[Len(worklist)]
  /\ worklist' = SubSeq(worklist, 1, Len(worklist) - 1)
  /\ pc' = "walk"
  /\ UNCHANGED <<decode, tail, entries, status, buildVars>>

\* Outside the buffer, or classified already.
WalkEnds(a) == ~in_range(a) \/ a \in DOMAIN status

StopWalk ==
  /\ pc = "walk"
  /\ WalkEnds(address)
  /\ pc' = "pop"
  /\ UNCHANGED <<decode, tail, entries, walkVars, buildVars>>

\* Mutant: the walk runs past a return.
continues_always(insn) == TRUE

\* Does the walk go on at the next address after this instruction?
continues(insn) == has_fallthrough(insn)

Classify(class) ==
  status' = [a \in DOMAIN status \cup {address} |->
               IF a = address THEN class ELSE status[a]]

\* The targets pushed on the worklist: none or one.
enqueued(insn) == {t \in direct_target(insn) : in_range(t)}

DecodeInstruction ==
  LET insn == decode[address]
  IN /\ pc = "walk"
     /\ ~WalkEnds(address)
     /\ insn.kind # "Error"
     /\ Classify("Decoded")
     /\ worklist' = IF enqueued(insn) = {} THEN worklist
                    ELSE Append(worklist, insn.target)
     /\ IF continues(insn)
        THEN address' = address + insn.size /\ pc' = pc
        ELSE pc' = "pop" /\ UNCHANGED address
     /\ UNCHANGED <<decode, tail, entries, buildVars>>

DecodeFails ==
  /\ pc = "walk"
  /\ ~WalkEnds(address)
  /\ decode[address].kind = "Error"
  /\ Classify("DecodeError")
  /\ pc' = "pop"
  /\ UNCHANGED <<decode, tail, entries, worklist, address, buildVars>>

StartBuild ==
  /\ pc = "pop"
  /\ worklist = <<>>
  /\ pc' = "build"
  /\ UNCHANGED <<decode, tail, entries, walkVars, buildVars>>

-----------------------------------------------------------------------------
(* build_disassembly: units in address order, data gathered into ranges.   *)

Decoded == {a \in DOMAIN status : status[a] = "Decoded"}

\* flush_data: close the open range, if any, at address a.
flush_data(a) ==
  IF data_start = -1 THEN data_ranges
  ELSE Append(data_ranges, [address |-> data_start, len |-> a - data_start,
                            reason |-> data_reason])

ListInstruction ==
  /\ pc = "build"
  /\ offset < End
  /\ offset \in Decoded
  /\ data_ranges' = flush_data(offset)
  /\ data_start' = -1 /\ data_reason' = "none"
  /\ instructions' = Append(instructions, offset)
  /\ offset' = offset + decode[offset].size
  /\ UNCHANGED <<decode, tail, entries, pc, walkVars>>

\* Mutant: a range keeps its first reason.
Interrupts_never(reason) == FALSE

\* A change of reason closes the open range.
Interrupts(reason) == data_start # -1 /\ data_reason # reason

accumulate ==
  LET reason == IF offset \in DOMAIN status THEN "DecodeError" ELSE "Unreachable"
      opens  == data_start = -1 \/ Interrupts(reason)
  IN /\ pc = "build"
     /\ offset < End
     /\ offset \notin Decoded
     /\ data_ranges' = IF Interrupts(reason) THEN flush_data(offset) ELSE data_ranges
     /\ data_start' = IF opens THEN offset ELSE data_start
     /\ data_reason' = IF opens THEN reason ELSE data_reason
     /\ offset' = offset + 1
     /\ UNCHANGED <<decode, tail, entries, pc, walkVars, instructions>>

\* The final flush_data.
flush_last == flush_data(End)

FinishBuild ==
  /\ pc = "build"
  /\ offset >= End
  /\ data_ranges' = IF tail = 0 THEN flush_last
                    ELSE Append(flush_last,
                           [address |-> End, len |-> tail, reason |-> "Padding"])
  /\ data_start' = -1 /\ data_reason' = "none"
  /\ pc' = "done"
  /\ UNCHANGED <<decode, tail, entries, walkVars, offset, instructions>>

Returned == pc = "done" /\ UNCHANGED vars

Walk == Pop \/ StopWalk \/ DecodeInstruction \/ DecodeFails \/ StartBuild

Build == ListInstruction \/ accumulate \/ FinishBuild

Next == Walk \/ Build \/ Returned

\* One sequential call runs to its end.
Spec == Init /\ [][Next]_vars /\ WF_vars(Walk \/ Build)

-----------------------------------------------------------------------------
(* Properties.                                                             *)

\* Where execution may go from address a, inside the buffer.
Successors(a) ==
  IF decode[a].kind = "Error" THEN {}
  ELSE {t \in direct_target(decode[a])
          \cup (IF has_fallthrough(decode[a]) THEN {a + decode[a].size} ELSE {}) :
        in_range(t)}

Closed(S) == \A a \in S : Successors(a) \subseteq S

InRangeEntries == {entries[i] : i \in {i \in DOMAIN entries : in_range(entries[i])}}

\* The least set of addresses with the entry points that control flow stays in.
Reachable ==
  {a \in DOMAIN decode :
     \A S \in SUBSET DOMAIN decode : InRangeEntries \subseteq S /\ Closed(S) => a \in S}

\* "never code lost": when the walk is over, the classified addresses are
\* exactly those control flow reaches from the entry points.
FindsExactlyReachable ==
  pc \in {"build", "done"} => DOMAIN status = Reachable

Spans ==
  {[from |-> a, to |-> a + decode[a].size] :
     a \in {instructions[i] : i \in DOMAIN instructions}}
  \cup {[from |-> data_ranges[i].address,
         to   |-> data_ranges[i].address + data_ranges[i].len] : i \in DOMAIN data_ranges}

\* The listing accounts for every byte once: instructions and data ranges tile
\* the buffer with its tail, in address order, and two data ranges that touch
\* have different reasons, each true of every unit in it (recursive.rs,
\* build_disassembly, accumulate and flush_data).
ListingTilesBuffer ==
  pc = "done" =>
    /\ \A x \in 0 .. End + tail - 1 :
         Cardinality({s \in Spans : s.from <= x /\ x < s.to}) = 1
    /\ \A s \in Spans : s.to <= End + tail
    /\ \A i \in 1 .. Len(instructions) - 1 : instructions[i] < instructions[i + 1]
    /\ \A i \in 1 .. Len(data_ranges) - 1 :
         LET r == data_ranges[i]
             q == data_ranges[i + 1]
         IN /\ r.address + r.len <= q.address
            /\ r.address + r.len = q.address => r.reason # q.reason
    /\ \A i \in DOMAIN data_ranges :
         LET r == data_ranges[i]
         IN \A x \in r.address .. r.address + r.len - 1 :
              r.reason = (IF x >= End THEN "Padding"
                          ELSE IF x \in DOMAIN status THEN status[x]
                          ELSE "Unreachable")

\* The disassembly ends, loops in the code notwithstanding.
Terminates == <>(pc = "done")

=============================================================================
