---------------------------- MODULE MCTextSpace -----------------------------
(***************************************************************************)
(* A 5-bit address space: three free lists whose order, sources, sizes and *)
(* alignment losses differ, and requests on every side of their limits.    *)
(***************************************************************************)
EXTENDS TextSpace

Ext(a, o, l, s) == [address |-> a, file_offset |-> o, len |-> l, source |-> s]

\* As reported, reversed with ties, and with a header pad and a grown extent.
MCExtentLists ==
  { << Ext(5, 1, 6, "InterSectionHole"), Ext(12, 8, 6, "TailPad") >>,
    << Ext(20, 16, 4, "TailPad"), Ext(8, 4, 4, "TailPad"),
       Ext(1, 2, 3, "InterSectionHole"), Ext(14, 9, 5, "InterSectionHole") >>,
    << Ext(3, 3, 9, "HeaderPad"), Ext(13, 13, 12, "GrewText"),
       Ext(29, 20, 2, "TailPad") >>,
    << >> }

MCRequests ==
  [min_bytes : {0, 3, 4, 13, 29}, headroom : {0, 2, 31}, align : {0, 1, 4, 32 - 3},
   allow_headerpad : BOOLEAN, on_exhaustion : {"Grow", "Fail"}]

MCCarveSizes == {0, 1, 2, 31}
MCCarveAligns == {0, 1, 4, 31}
=============================================================================
