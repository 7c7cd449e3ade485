------------------------------ MODULE Surface -------------------------------
(***************************************************************************)
(* A surface of libguac_common (common/surface.c): the server's copy of a   *)
(* layer or buffer, which gathers the regions that change and decides when  *)
(* and how the clients are told.  A surface is a record; an operation       *)
(* returns the surface and the instructions it broadcast.                   *)
(*                                                                          *)
(* A pixel is 2 * alpha + colour with two levels each: transparent or       *)
(* opaque, black or white.  The heat map is reduced to the number of        *)
(* touches since it was allocated, which says when a region may look like   *)
(* video; how noisy the pixels are, and so which codec is chosen, is left   *)
(* open.                                                                    *)
(***************************************************************************)
EXTENDS Rect, Sequences, SequencesExt, FiniteSets

CONSTANTS
    MaxW, MaxH,         \* largest surface of the instance
    NegligibleWidth, NegligibleHeight, DataFactor, BaseCost,
    NegligibleIncrease, FillPatternFactor,
    QueueSize,          \* GUAC_COMMON_SURFACE_QUEUE_SIZE
    HeatHistory,        \* GUAC_COMMON_SURFACE_HEAT_CELL_HISTORY_SIZE
    JpegBlock, WebpBlock

ASSUME SurfaceConsts ==
    /\ {MaxW, MaxH, DataFactor, NegligibleIncrease, QueueSize, HeatHistory} \subseteq Nat \ {0}
    /\ QueueSize > 1

\* A pixel's place in the largest surface.
Cells == 0 .. MaxW * MaxH - 1
Col(c) == c % MaxW
Line(c) == c \div MaxW
At(x, y) == y * MaxW + x
RectCells(r) == {c \in Cells : Inside(r, Col(c), Line(c))}
EmptyRect == RectInit(0, 0, 0, 0)

Clear == 0
Black == 2
White == 3
Solid(p) == p >= 2              \* the alpha component is 0xFF, not 0
Colour(p) == p % 2
Recoloured(p, colour) == (IF Solid(p) THEN 2 ELSE 0) + colour
Opaque(p) == 2 + Colour(p)      \* color | 0xFF000000
NoPixels == [c \in Cells |-> Clear]

\* Overlay the pixels of f on the cells in S of pix.
Put(pix, S, f) == [c \in Cells |-> IF c \in S THEN f[c] ELSE pix[c]]

-----------------------------------------------------------------------------
(* Creation and the fields that are only remembered until the next flush.  *)

\* The field intact is not the code's: it is FALSE once one of the known
\* inexact updates was sent.
NewSurface(idx, w, h) ==
    [idx |-> idx, realized |-> idx >= 0, intact |-> TRUE,
     w |-> w, h |-> h, pix |-> NoPixels, heat |-> 0,
     x |-> 0, y |-> 0, z |-> 0, par |-> 0, op |-> 255, locdirty |-> FALSE, opdirty |-> FALSE,
     touches |-> 0, lossless |-> FALSE,
     dirty |-> FALSE, rect |-> EmptyRect, queue |-> <<>>, clipped |-> FALSE, clip |-> EmptyRect]

\* guac_common_surface_alloc: layers exist on the clients at once, buffers
\* only when something is first drawn.
SurfaceAlloc(idx, w, h) ==
    [s |-> NewSurface(idx, w, h),
     out |-> IF idx >= 0 THEN <<<<"size", idx, w, h>>>> ELSE <<>>]

SurfaceFree(s) == IF s.realized THEN <<<<"dispose", s.idx>>>> ELSE <<>>

SetMultitouch(s, n) ==
    [s |-> [s EXCEPT !.touches = n], out |-> <<<<"touch", s.idx, n>>>>]
SetLossless(s, lossless) == [s EXCEPT !.lossless = lossless]
Move(s, x, y) == [s EXCEPT !.x = x, !.y = y, !.locdirty = TRUE]
Stack(s, z) == [s EXCEPT !.z = z, !.locdirty = TRUE]
SetParent(s, parent) == [s EXCEPT !.par = parent, !.locdirty = TRUE]
SetOpacity(s, op) == [s EXCEPT !.op = op, !.opdirty = TRUE]

-----------------------------------------------------------------------------
(* Regions.                                                                *)

Bounds(s) == RectInit(0, 0, s.w, s.h)
BoundRect(s, r) == RectConstrain(r, Bounds(s))
ClipRect(s, r) == IF s.clipped THEN RectConstrain(r, s.clip) ELSE BoundRect(s, r)

Clip(s, r) ==
    LET old == IF s.clipped THEN s.clip ELSE Bounds(s)
    IN  [s EXCEPT !.clipped = TRUE, !.clip = RectConstrain(old, r)]
ResetClip(s) == [s EXCEPT !.clipped = FALSE]

IsOpaque(s, r) == \A c \in RectCells(r) : Solid(s.pix[c])

\* The smallest rectangle holding every changed cell, as put computes it.
ChangedRect(r, changed) ==
    IF changed = {} THEN [r EXCEPT !.w = 0, !.h = 0]
    ELSE LET xs == {Col(c) : c \in changed}
             ys == {Line(c) : c \in changed}
             lo(S) == CHOOSE a \in S : \A b \in S : a <= b
             hi(S) == CHOOSE a \in S : \A b \in S : b <= a
         IN  Edges(lo(xs), lo(ys), hi(xs) + 1, hi(ys) + 1)

\* set and transfer start their search one pixel lower: a rectangle of one
\* pixel always counts as changed.
ChangedOrPixel(r, changed) == IF r.w = 1 /\ r.h = 1 THEN r ELSE ChangedRect(r, changed)

Cost(r) == BaseCost + r.w * r.h

\* Whether the update should join the dirty rectangle rather than be sent
\* apart: never a question of correctness, only of cost.
ShouldCombine(s, r, rectOnly) ==
    \/ ~s.realized
    \/ /\ s.dirty
       /\ LET combined == RectExtend(s.rect, r)
              all == Cost(combined)
              old == Cost(s.rect)
              new == IF rectOnly THEN Cost(r) \div DataFactor ELSE Cost(r)
          IN  \/ combined.w <= NegligibleWidth /\ combined.h <= NegligibleHeight
              \/ all <= new + old
              \/ all - old <= old \div NegligibleIncrease
              \/ all - new <= new \div NegligibleIncrease
              \/ /\ r.x = s.rect.x /\ r.y = s.rect.y + s.rect.h
                 /\ all <= (old + new) * FillPatternFactor

\* Mutant: a second change forgets the region of the first.
MutMarkDirty(s, r) == IF RectEmpty(r) THEN s ELSE [s EXCEPT !.dirty = TRUE, !.rect = r]

MarkDirty(s, r) ==
    IF RectEmpty(r) THEN s
    ELSE [s EXCEPT !.dirty = TRUE, !.rect = IF s.dirty THEN RectExtend(@, r) ELSE r]

\* The region whose pixels the clients need not have yet.
Pending(s) ==
    (IF s.dirty THEN RectCells(BoundRect(s, s.rect)) ELSE {})
        \cup UNION {RectCells(BoundRect(s, s.queue[i])) : i \in DOMAIN s.queue}

FlushToQueue(s) ==
    IF ~s.dirty THEN s
    ELSE [s EXCEPT !.queue = Append(@, s.rect), !.dirty = FALSE]

-----------------------------------------------------------------------------
(* Codecs.                                                                 *)

TouchRect(s) == [s EXCEPT !.heat = IF @ < HeatHistory THEN @ + 1 ELSE @]

\* calculate_framerate reaches the threshold only in cells whose whole
\* history was written since the heat map was allocated.
MayBeVideo(s) == s.heat = HeatHistory

\* What png_optimality says of the pixels, and guac_client_supports_webp of
\* the users connected now.
Looks == {"flat", "noisy", "noisy, WebP supported"}

UseWebp(s, noisy) == MayBeVideo(s) /\ noisy = "noisy, WebP supported"
UseJpeg(s, noisy) == ~s.lossless /\ MayBeVideo(s) /\ noisy # "flat"

Sent(s, exact) == [s EXCEPT !.realized = TRUE, !.dirty = FALSE, !.intact = @ /\ exact]

\* Pixels with transparency are preceded by a fill that erases the region.
FlushToPng(s, opaque) ==
    [s |-> Sent(s, TRUE),
     out |-> (IF opaque THEN <<>> ELSE <<<<"erase", s.idx, s.rect>>>>)
             \o <<<<"img", s.idx, s.rect, s.pix>>>>]

OpaquePix(s) == [c \in Cells |-> Opaque(s.pix[c])]

\* The rectangle grows to the block grid after it was found opaque: pixels
\* around it that are transparent are sent as opaque ones.
FlushToJpeg(s) ==
    LET r == RectExpandToGrid(JpegBlock, s.rect, Bounds(s))
    IN  [s |-> Sent(s, IsOpaque(s, r)), out |-> <<<<"img", s.idx, r, OpaquePix(s)>>>>]

\* As for JPEG; transparent pixels are drawn over what the clients have.
FlushToWebp(s, opaque) ==
    LET r == RectExpandToGrid(WebpBlock, s.rect, Bounds(s))
    IN  [s |-> Sent(s, opaque /\ IsOpaque(s, r)),
         out |-> <<<<"img", s.idx, r, IF opaque THEN OpaquePix(s) ELSE s.pix>>>>]

FlushDirty(s, noisy) ==
    LET opaque == IsOpaque(s, s.rect)
    IN  IF UseWebp(s, noisy) THEN FlushToWebp(s, opaque)
        ELSE IF opaque /\ UseJpeg(s, noisy) THEN FlushToJpeg(s)
        ELSE FlushToPng(s, opaque)

-----------------------------------------------------------------------------
(* __guac_common_surface_flush.  The queue is sorted; each rectangle not    *)
(* yet taken gathers those worth combining with it, and the result goes to  *)
(* the end of the same queue to be tried once more, or out if it gained     *)
(* nothing or the queue is full.                                            *)

Before(a, b) ==
    \/ a.y < b.y
    \/ a.y = b.y /\ a.x < b.x
    \/ a.y = b.y /\ a.x = b.x /\ a.w > b.w
    \/ a.y = b.y /\ a.x = b.x /\ a.w = b.w /\ a.h < b.h

\* st: the surface, the flushed flags of its queue, what was sent, and how
\* many were combined.
Absorb(st, j) ==
    LET r == BoundRect(st.s, st.s.queue[j])
        s == [st.s EXCEPT !.queue[j] = r]
    IN  IF st.flushed[j] THEN st
        ELSE IF RectEmpty(r) THEN [st EXCEPT !.s = s, !.flushed[j] = TRUE]
        ELSE IF ShouldCombine(s, r, FALSE) \/ ~s.dirty
        THEN [st EXCEPT !.s = MarkDirty(s, r), !.flushed[j] = TRUE, !.combined = @ + 1]
        ELSE [st EXCEPT !.s = s]

From(i, n) == [k \in 1 .. n - i + 1 |-> i + k - 1]

\* The rectangles worth sending as one, from entry i on.
Gather(st, i) == FoldLeft(Absorb, [st EXCEPT !.combined = 0], From(i, Len(st.s.queue)))

SendDirty(st, sent) == [st EXCEPT !.s = sent.s, !.out = @ \o sent.out]

Requeue(st, i, original, noisy) ==
    IF (st.combined > 1 \/ i <= original) /\ Len(st.s.queue) < QueueSize
    THEN [st EXCEPT !.s = FlushToQueue(@),
                    !.flushed = IF st.s.dirty THEN Append(@, FALSE) ELSE @]
    ELSE IF st.s.dirty THEN SendDirty(st, FlushDirty(st.s, noisy)) ELSE st

\* Entry i of the queue, which may be one that the loop itself appended.
FlushEntry(st, i, original, noisy) ==
    IF i > Len(st.s.queue) \/ st.flushed[i] THEN st ELSE Requeue(Gather(st, i), i, original, noisy)

FlushQueue(s, noisy) ==
    FoldLeft(LAMBDA st, i : FlushEntry(st, i, Len(s.queue), noisy),
             [s |-> [s EXCEPT !.queue = SortSeq(@, Before)], flushed |-> [i \in DOMAIN s.queue |-> FALSE],
              out |-> <<>>, combined |-> 0], From(1, QueueSize))

\* The loop leaves the surface with its pixels and an empty queue.  The queue
\* takes the dirty rectangle unchecked: it must have had room.
Emptied(s, st) ==
    [s |-> [s EXCEPT !.queue = <<>>, !.dirty = st.s.dirty, !.rect = st.s.rect,
                     !.realized = st.s.realized, !.intact = st.s.intact],
     out |-> st.out]
Flush(s, noisy) == Emptied(s, FlushQueue(FlushToQueue(s), noisy))

\* Mutant: the queue is flushed only when it is full.
MutFlushDeferred(s, noisy) ==
    IF ~s.dirty THEN [s |-> s, out |-> <<>>]
    ELSE LET f == IF Len(s.queue) = QueueSize THEN Flush(s, noisy) ELSE [s |-> s, out |-> <<>>]
         IN  [f EXCEPT !.s = FlushToQueue(@)]

\* A queue with one free entry is flushed before anything is added.
FlushDeferred(s, noisy) ==
    IF ~s.dirty THEN [s |-> s, out |-> <<>>]
    ELSE LET f == IF Len(s.queue) = QueueSize - 1 THEN Flush(s, noisy) ELSE [s |-> s, out |-> <<>>]
         IN  [f EXCEPT !.s = FlushToQueue(@)]

\* Only layers other than the default one have properties to send.
FlushProperties(s) ==
    IF s.idx <= 0 THEN [s |-> s, out |-> <<>>]
    ELSE [s |-> [s EXCEPT !.opdirty = FALSE, !.locdirty = FALSE],
          out |-> (IF s.opdirty THEN <<<<"shade", s.idx, s.op>>>> ELSE <<>>)
               \o (IF s.locdirty THEN <<<<"move", s.idx, s.par, s.x, s.y, s.z>>>> ELSE <<>>)]

FlushAfter(p, noisy) == [Flush(p.s, noisy) EXCEPT !.out = p.out \o @]
SurfaceFlush(s, noisy) == FlushAfter(FlushProperties(s), noisy)

-----------------------------------------------------------------------------
(* Drawing.  src is the image drawn at (x, y): a function on the cells of   *)
(* the rectangle [0, w) x [0, h).                                           *)

ArgbBlend(dst, src) == IF Solid(src) \/ ~Solid(dst) THEN src ELSE dst

PutPixels(s, r, x, y, src, opaque) ==
    Put(s.pix, RectCells(r),
        [c \in RectCells(r) |->
            LET p == src[<<Col(c) - x, Line(c) - y>>]
            IN  IF opaque THEN Opaque(p) ELSE ArgbBlend(s.pix[c], p)])

Changed(s, pix) == {c \in Cells : s.pix[c] # pix[c]}

\* Queue the update, apart from the dirty rectangle if that is cheaper.
AddUpdate(s, r, noisy) ==
    LET f == IF ShouldCombine(s, r, FALSE) THEN [s |-> s, out |-> <<>>] ELSE FlushDeferred(s, noisy)
    IN  [f EXCEPT !.s = MarkDirty(@, r)]

Silent(s) == [s |-> s, out |-> <<>>]

Draw(s, x, y, w, h, src, opaque, noisy) ==
    LET r == ClipRect(s, RectInit(x, y, w, h))
        pix == PutPixels(s, r, x, y, src, opaque)
        d == ChangedRect(r, Changed(s, pix))
    IN  IF RectEmpty(r) \/ RectEmpty(d) THEN Silent(s)
        ELSE AddUpdate(TouchRect([s EXCEPT !.pix = pix]), d, noisy)

\* The stencil paints one colour where it is not transparent; the whole
\* rectangle counts as changed.
Paint(s, x, y, w, h, stencil, colour, noisy) ==
    LET r == ClipRect(s, RectInit(x, y, w, h))
        hit == {c \in RectCells(r) : Solid(stencil[<<Col(c) - x, Line(c) - y>>])}
    IN  IF RectEmpty(r) THEN Silent(s)
        ELSE AddUpdate([s EXCEPT !.pix = Put(@, hit, [c \in hit |-> colour])], r, noisy)

\* guac_common_surface_set: an opaque colour may be sent as a fill.
FillAfter(f, r, colour) ==
    [s |-> [f.s EXCEPT !.realized = TRUE], out |-> Append(f.out, <<"fill", f.s.idx, r, colour>>)]
SetRect(s, r, colour, noisy) ==
    IF ~Solid(colour) THEN AddUpdate(s, r, noisy)
    ELSE IF ShouldCombine(s, r, TRUE) THEN Silent(MarkDirty(s, r))
    ELSE FillAfter(Flush(s, noisy), r, colour)
Set(s, rect, colour, noisy) ==
    LET r == ClipRect(s, rect)
        pix == Put(s.pix, RectCells(r), [c \in RectCells(r) |-> colour])
        d == ChangedOrPixel(r, Changed(s, pix))
    IN  IF RectEmpty(r) \/ RectEmpty(d) THEN Silent(s)
        ELSE SetRect([s EXCEPT !.pix = pix], d, colour, noisy)

\* guac_common_surface_resize: the old pixels are put into a cleared buffer
\* as opaque ones, transparent or not, which the clients do not do.
Resized(s, w, h) ==
    LET b == [s EXCEPT !.w = w, !.h = h]
        keep == RectCells(BoundRect(b, Bounds(s)))
        r == BoundRect(b, s.rect)
    IN  [b EXCEPT !.pix = Put(NoPixels, keep, OpaquePix(s)),
                  !.clip = BoundRect(b, @), !.heat = 0,
                  !.rect = IF s.dirty THEN r ELSE @,
                  !.dirty = @ /\ ~RectEmpty(r),
                  !.intact = @ /\ \A c \in keep \ Pending(s) : Solid(s.pix[c])]
Resize(s, w, h) ==
    IF w = s.w /\ h = s.h THEN Silent(s)
    ELSE [s |-> Resized(s, w, h), out |-> IF s.realized THEN <<<<"size", s.idx, w, h>>>> ELSE <<>>]

-----------------------------------------------------------------------------
(* Copies between surfaces.  dst and src may be the same surface.           *)

Not(p) == Recoloured(p, 1 - Colour(p))
And(dst, src) == Recoloured(dst, Colour(dst) * Colour(src))
Or(dst, src) == Recoloured(dst, IF Colour(dst) + Colour(src) > 0 THEN 1 ELSE 0)
Xor(dst, src) == Recoloured(dst, (Colour(dst) + Colour(src)) % 2)

\* guac_transfer_function; the alpha of the destination is kept by all but
\* the first three and NSRC.
TransferInt(op, src, dst) ==
    CASE op = "BLACK" -> Black
      [] op = "WHITE" -> White
      [] op = "SRC" -> src
      [] op = "DEST" -> dst
      [] op = "NSRC" -> Not(src)
      [] op = "NDEST" -> Not(dst)
      [] op = "AND" -> And(dst, src)
      [] op = "NAND" -> Not(And(dst, src))
      [] op = "OR" -> Or(dst, src)
      [] op = "NOR" -> Not(Or(dst, src))
      [] op = "XOR" -> Xor(dst, src)
      [] op = "XNOR" -> Not(Xor(dst, src))
      [] op = "NSRC_AND" -> And(dst, Not(src))
      [] op = "NSRC_NAND" -> Not(And(dst, Not(src)))
      [] op = "NSRC_OR" -> Or(dst, Not(src))
      [] op = "NSRC_NOR" -> Not(Or(dst, Not(src)))

\* The pixels of dst after the transfer.  The direction of the loops makes an
\* overlapping transfer within one surface read every pixel before writing it.
TransferPixels(srcpix, dx, dy, op, dstpix, r) ==
    Put(dstpix, RectCells(r),
        [c \in RectCells(r) |-> TransferInt(op, srcpix[At(Col(c) - dx, Line(c) - dy)], dstpix[c])])

\* The cells of a flush's images.
SentCells(out) == UNION {RectCells(out[k][3]) : k \in DOMAIN out}

\* What a copy or transfer changes: the rectangle of dst, the way to it, and
\* the pixels of dst afterwards.  over: a copy, sent with GUAC_COMP_OVER.
CopyFrom(src, bounded, dst, at, op, over) ==
    LET r == ClipRect(dst, at)
        dx == at.x - bounded.x
        dy == at.y - bounded.y
        pix == TransferPixels(src.pix, dx, dy, op, dst.pix, r)
        same == src.idx = dst.idx
    IN  [same |-> same, dx |-> dx, dy |-> dy, pix |-> pix, op |-> op, over |-> over,
         void |-> RectEmpty(bounded) \/ RectEmpty(r),
         d |-> IF same THEN r ELSE ChangedOrPixel(r, Changed(dst, pix))]
CopyRect(src, sr, bounded, dst, x, y, op, over) ==
    CopyFrom(src, bounded, dst,
             RectInit(x + bounded.x - sr.x, y + bounded.y - sr.y, bounded.w, bounded.h), op, over)

\* Within one surface the pixels change after the flush.
Landed(s, p) == IF p.same THEN [s EXCEPT !.pix = p.pix] ELSE s

\* The clients draw a copy over what they have, where the server replaces it,
\* or transfer the colour they see of a transparent pixel, none; and between
\* two surfaces the pixels change before dst is flushed, so that an operation
\* that is not its own repetition reaches the clients twice where dst was
\* pending.
Exact(src, p, fd) ==
    /\ IsOpaque(src, [p.d EXCEPT !.x = @ - p.dx, !.y = @ - p.dy])
    /\ p.over \/ p.same \/ SentCells(fd.out) \cap RectCells(p.d) = {}

CopySent(src, p, fd, fs) ==
    LET s == Landed([fd.s EXCEPT !.realized = TRUE,
                                 !.intact = @ /\ Exact(src, p, fd) /\ (p.same \/ fs.s.intact)], p)
    IN  [src |-> IF p.same THEN s ELSE fs.s, dst |-> s,
         out |-> fd.out \o fs.out
                 \o <<<<"copy", src.idx, fd.s.idx, p.d, p.dx, p.dy, IF p.over THEN "OVER" ELSE p.op>>>>]

\* The common body of guac_common_surface_copy and _transfer.
CopyNow(src, dst, p, noisy) ==
    IF ShouldCombine(dst, p.d, TRUE)
    THEN [src |-> src, dst |-> Landed(MarkDirty(dst, p.d), p), out |-> <<>>]
    ELSE CopySent(src, p, Flush(dst, noisy), IF p.same THEN Silent(src) ELSE Flush(src, noisy))
CopyAs(src, dst, p, noisy) ==
    IF p.void \/ RectEmpty(p.d) THEN [src |-> src, dst |-> dst, out |-> <<>>]
    ELSE CopyNow(src, IF p.same THEN dst ELSE [dst EXCEPT !.pix = p.pix], p, noisy)
CopyOrTransfer(src, sr, dst, x, y, op, over, noisy) ==
    CopyAs(src, dst, CopyRect(src, sr, BoundRect(src, sr), dst, x, y, op, over), noisy)

Copy(src, sr, dst, x, y, noisy) == CopyOrTransfer(src, sr, dst, x, y, "SRC", TRUE, noisy)
Transfer(src, sr, dst, x, y, op, noisy) == CopyOrTransfer(src, sr, dst, x, y, op, FALSE, noisy)

\* guac_common_surface_dup: the whole surface, as it is now, for the pending
\* users.  A buffer nothing was drawn to does not exist there.
Dup(s) ==
    IF ~s.realized THEN <<>>
    ELSE (IF s.idx > 0
          THEN <<<<"shade", s.idx, s.op>>, <<"move", s.idx, s.par, s.x, s.y, s.z>>>>
          ELSE IF s.idx = 0 THEN <<<<"touch", 0, s.touches>>>> ELSE <<>>)
         \o <<<<"size", s.idx, s.w, s.h>>>>
         \o (IF s.w > 0 /\ s.h > 0 THEN <<<<"img", s.idx, Bounds(s), s.pix>>>> ELSE <<>>)
=============================================================================
