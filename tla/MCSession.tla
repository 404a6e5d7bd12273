----------------------------- MODULE MCSession ------------------------------
(***************************************************************************)
(* A small image: __TEXT occupies 64..127 with two free regions, a data    *)
(* segment ends the mapped range at 160, pages are 16 bytes.  Bodies and   *)
(* blobs fit a free region once or twice, never four times.                *)
(***************************************************************************)
EXTENDS Session

Region2(v, n) == [vaddr |-> v, size |-> n]

MCFreeRegions == << Region2(89, 7), Region2(108, 20) >>
MCPaddingRegions == << Region2(140, 4), Region2(150, 9) >>

Fn(len, near, reloc, fails) ==
  [len |-> len, near |-> near, reloc |-> reloc, fails |-> fails]

Plain == Fn(4, FALSE, FALSE, FALSE)
Near  == Fn(4, TRUE, FALSE, FALSE)
Reloc == Fn(4, FALSE, TRUE, FALSE)
Fails == Fn(8, FALSE, FALSE, TRUE)

MCBodies == {Plain, Near, Reloc, Fails}
SomeBodies == {Plain}

MCBlobs == {[len |-> 1, align |-> 1], [len |-> 6, align |-> 4]}
BigBlobs == {[len |-> 6, align |-> 4], [len |-> 12, align |-> 1]}

Req(n, policy) ==
  [min_bytes |-> n, headroom |-> 0, align |-> 4, allow_headerpad |-> FALSE,
   on_exhaustion |-> policy]

MCReservations == {Req(8, "Fail"), Req(24, "Grow")}

OneName == {<<"f">>}
TwoNames == {<<"f">>, <<"g">>}
=============================================================================
