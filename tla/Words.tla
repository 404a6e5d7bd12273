------------------------------- MODULE Words -------------------------------
(***************************************************************************)
(* Machine words as the set of their one bits: bitwise or is union, and    *)
(* is intersection, and a 32- or 64-bit word needs no integer that large.  *)
(***************************************************************************)
EXTENDS Integers, FiniteSets

\* The unsigned value of the n-bit field of w at bit lo.
Fld(w, lo, n) ==
  LET from[i \in 0..n] ==
        IF i = n THEN 0 ELSE (IF lo + i \in w THEN 2^i ELSE 0) + from[i + 1]
  IN  from[0]

\* The low n bits of v, two's complement when negative, placed at bit lo.
Put(v, lo, n) == {lo + i : i \in {j \in 0..(n - 1) : (v \div 2^j) % 2 = 1}}

Bit(condition, i) == IF condition THEN {i} ELSE {}

\* The 32-bit word written as two 16-bit halves.
Hex(high, low) == Put(low, 0, 16) \cup Put(high, 16, 16)

Shl(w, n) == {i + n : i \in w}

sign_extend(value, bits) ==
  IF value >= 2^(bits - 1) THEN value - 2^bits ELSE value

\* A fallible conversion: the bits it contributes, or an error.
Ok(bits) == [ok |-> TRUE, bits |-> bits]
Err == [ok |-> FALSE, bits |-> {}]
When(condition, bits) == IF condition THEN Ok(bits) ELSE Err
=============================================================================
