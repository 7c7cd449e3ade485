----------------------------- MODULE MCDisplay ------------------------------
(* A small display for TLC: 3 x 2 pixels, where one pixel is negligible and *)
(* the queue holds two rectangles, so that the third update flushes it; a   *)
(* default surface, one layer and one buffer.                               *)
EXTENDS CommonDisplay

MCBufferIdx == {-2}
Corner == RectInit(0, 0, 1, 1)
Edge == RectInit(2, 1, 2, 1)        \* reaches beyond the right edge
All == RectInit(0, 0, 3, 2)

\* A column of two pixels.
Column(p, q) == [w |-> 1, h |-> 2, pix |-> (<<0, 0>> :> p) @@ (<<0, 1>> :> q), opaque |-> FALSE]
Filled == [Column(Clear, Black) EXCEPT !.opaque = TRUE]

MCDraws == {<<0, <<2, 0>>, Filled>>, <<0, <<0, 0>>, Column(Black, Clear)>>}
MCPaints == {<<1, <<0, 0>>, Column(White, Clear), Black>>}
MCSets == {<<0, Corner, Black>>, <<0, Edge, Clear>>, <<-2, All, White>>}
MCCopies == {<<0, Corner, 0, <<2, 0>>>>, <<-2, All, 0, <<1, 0>>>>}
MCTransfers == {<<-2, All, 0, <<0, 0>>, "XOR">>}
MCClips == {<<0, RectInit(1, 0, 2, 2)>>}
MCResizes == {<<0, <<3, 1>>>>, <<0, <<3, 2>>>>}
MCMoves == {<<1, 0>>}
UserSymmetry == Permutations(Users)
MCAllocSizes == {<<3, 1>>}
=============================================================================
