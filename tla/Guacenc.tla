------------------------------ MODULE Guacenc ------------------------------
(***************************************************************************)
(* guacenc, the encoder that turns a recording into a video (guacenc/*.c). *)
(* It reads the instructions that Protocol writes, keeps a display of      *)
(* layers and buffers, and at every "sync" flattens the layers into the    *)
(* picture that the next frames of the video show.                         *)
(*                                                                         *)
(* A surface is one row of pixels, a pixel a colour or Null where it is    *)
(* transparent; colours are opaque.  A buffer with no pixels has neither   *)
(* surface nor cairo context.  The y coordinates and the heights of the    *)
(* instructions are read and not used.                                     *)
(***************************************************************************)
EXTENDS Protocol, FiniteSets, SequencesExt

CONSTANTS
    MaxEncLayers,   \* GUACENC_DISPLAY_MAX_LAYERS
    MaxBuffers,     \* GUACENC_DISPLAY_MAX_BUFFERS
    MaxImages,      \* GUACENC_DISPLAY_MAX_STREAMS
    Recording,      \* the instructions a recording may hold
    Prefix,         \* the instructions it begins with
    MaxInstructions,\* bound: instructions read after those
    IntMax,         \* INT_MAX
    Null

(* guacenc_parse_timestamp returns a number, be it negative.               *)
ASSUME TimestampAssumption ==
    \A i \in Recording \cup Range(Prefix) :
        (i[1] = "sync" => i[2] \in Int) /\ (i[1] = "mouse" => i[5] \in Int)

VARIABLES
    disp,           \* guacenc_display, with its cursor and its video
    fed             \* instructions read

encVars == <<disp, fed>>

FrameRate == 25     \* GUACENC_VIDEO_FRAMERATE
NoParent == -1      \* GUACENC_LAYER_NO_PARENT

-----------------------------------------------------------------------------
(* Buffers: pixels, the pending path of the context and its clip.          *)

Pixels == Seq({Null} \cup (0 .. 255) \X (0 .. 255) \X (0 .. 255))
BufferState == [auto : BOOLEAN, px : Pixels, path : SUBSET Nat, clip : SUBSET Int \cup {Null}]
BufferAlloc == [auto |-> FALSE, px |-> <<>>, path |-> {}, clip |-> Null]

At(px, x) == IF x + 1 \in DOMAIN px THEN px[x + 1] ELSE Null
Columns(x, width) == x .. x + width - 1

(* A new context: the pixels that still fit, no path, no clip.             *)
BufferResize(b, width) ==
    IF Len(b.px) = width THEN b
    ELSE [b EXCEPT !.px = [k \in 1 .. width |-> At(b.px, k - 1)], !.path = {}, !.clip = Null]

BufferFit(b, x) == IF Len(b.px) < x + 1 THEN BufferResize(b, x + 1) ELSE b

BufferCopy(dst, src) ==
    IF src.px = <<>> THEN BufferResize(dst, 0)
    ELSE [BufferResize(dst, Len(src.px)) EXCEPT !.px = src.px, !.clip = Null]

(* The cairo operators, on one pixel: d is there, s is drawn.              *)
Composite(mode, d, s) ==
    CASE mode = "src" -> s
      [] mode = "in" -> IF d # Null THEN s ELSE Null
      [] mode = "out" -> IF d = Null THEN s ELSE Null
      [] mode = "atop" -> IF d # Null /\ s # Null THEN s ELSE d
      [] mode = "rover" -> IF d # Null THEN d ELSE s
      [] mode = "rin" -> IF s # Null THEN d ELSE Null
      [] mode = "rout" -> IF s = Null THEN d ELSE Null
      [] mode = "ratop" -> IF d # Null /\ s # Null THEN d ELSE s
      [] mode = "xor" -> IF d # Null /\ s # Null THEN Null ELSE IF d # Null THEN d ELSE s
      [] OTHER -> IF s # Null THEN s ELSE d

(* cairo_fill: the path and what was pending is filled from a source, as   *)
(* far as the clip lets it.  Beyond the path the source is transparent,    *)
(* which only CAIRO_OPERATOR_SOURCE leaves alone.                          *)
Fill(b, mode, path, Source(_)) ==
    [b EXCEPT
        !.px = [k \in DOMAIN b.px |->
                 IF b.clip # Null /\ k - 1 \notin b.clip THEN b.px[k]
                 ELSE IF k - 1 \in path \cup b.path THEN Composite(mode, b.px[k], Source(k - 1))
                 ELSE IF mode = "src" THEN b.px[k] ELSE Composite(mode, b.px[k], Null)],
        !.path = {}]

-----------------------------------------------------------------------------
(* Layers, buffers, image streams and the cursor of the display.           *)

LayerIndexes == 0 .. MaxEncLayers - 1
BufferIndexes == -MaxBuffers .. -1
LayerState == [buffer : BufferState, frame : BufferState, parent : LayerIndexes \cup {NoParent},
               x : Int, z : Int, opacity : 0 .. 255]
LayerAlloc(i) == [buffer |-> BufferAlloc, frame |-> BufferAlloc,
                  parent |-> IF i = 0 THEN NoParent ELSE 0, x |-> 0, z |-> 0, opacity |-> 255]
ImageState == [index : Int, mask : STRING, mime : STRING, x : Int, data : Pixels]
CursorState == [x : Int, hot : Int, buffer : BufferState]
VideoState == [last : Nat, pts : Nat, next : Pixels, failed : BOOLEAN]
DisplayState ==
    [layers : [LayerIndexes -> LayerState \cup {Null}],
     buffers : [BufferIndexes -> BufferState \cup {Null}],
     images : [0 .. MaxImages - 1 -> ImageState \cup {Null}],
     cursor : CursorState, last_sync : Nat, output : VideoState,
     first : Nat, flat : Pixels \cup {Null}, ended : BOOLEAN, crashed : BOOLEAN]

CursorAlloc == [x |-> -1, hot |-> 0, buffer |-> BufferAlloc]
VideoAlloc == [last |-> 0, pts |-> 0, next |-> <<>>, failed |-> FALSE]
(* first and flat are history: the first timestamp, and the picture of the *)
(* latest "sync" before the cursor is drawn on it.                         *)
DisplayAlloc ==
    [layers |-> [i \in LayerIndexes |-> Null], buffers |-> [i \in BufferIndexes |-> Null],
     images |-> [i \in 0 .. MaxImages - 1 |-> Null], cursor |-> CursorAlloc, last_sync |-> 0,
     output |-> VideoAlloc, first |-> 0, flat |-> Null, ended |-> FALSE, crashed |-> FALSE]

(* The getters allocate what is not there yet.                             *)
GetLayer(d, i) == IF d.layers[i] = Null THEN [d EXCEPT !.layers[i] = LayerAlloc(i)] ELSE d
GetBuffer(d, i) ==
    IF d.buffers[i] = Null THEN [d EXCEPT !.buffers[i] = [BufferAlloc EXCEPT !.auto = TRUE]] ELSE d

InBounds(i) == i \in LayerIndexes \cup BufferIndexes
GetRelated(d, i) == IF i >= 0 THEN GetLayer(d, i) ELSE GetBuffer(d, i)
Related(d, i) == IF i >= 0 THEN d.layers[i].buffer ELSE d.buffers[i]
SetRelated(d, i, b) ==
    IF i >= 0 THEN [d EXCEPT !.layers[i].buffer = b] ELSE [d EXCEPT !.buffers[i] = b]

Autosized(b, x) == IF b.auto THEN BufferFit(b, x) ELSE b

-----------------------------------------------------------------------------
(* Drawing instructions; i is the instruction, its arguments from i[2] on. *)

HandleSize(d, i) == SetRelated(d, i[2], BufferResize(Related(d, i[2]), i[3]))

HandleRect(d, i) ==
    LET b == Autosized(Related(d, i[2]), i[3] + i[5])
    IN SetRelated(d, i[2], IF b.px = <<>> THEN b ELSE [b EXCEPT !.path = @ \cup Columns(i[3], i[5])])

HandleCfill(d, i) ==
    LET colour == IF i[7] = 0 THEN Null ELSE <<i[4], i[5], i[6]>>
    IN SetRelated(d, i[3], Fill(Related(d, i[3]), i[2], {}, LAMBDA x : colour))

(* A copy within one buffer goes through a temporary surface.              *)
HandleCopy(d, i) ==
    LET e == GetRelated(d, i[8])
        dst == Autosized(Related(e, i[8]), i[9] + i[5])
        src == IF i[2] = i[8] THEN dst.px ELSE Related(d, i[2]).px
        from(x) == IF i[2] = i[8] /\ x \notin Columns(i[9], i[5]) THEN Null
                   ELSE At(src, x - i[9] + i[3])
    IN IF ~InBounds(i[8]) THEN d
       ELSE IF src = <<>> \/ dst.px = <<>> THEN SetRelated(e, i[8], dst)
       ELSE SetRelated(e, i[8], Fill(dst, i[7], Columns(i[9], i[5]), from))

HandleCursor(d, i) ==
    LET src == Related(d, i[4]).px
        dst == BufferResize(d.cursor.buffer, i[7])
    IN [d EXCEPT !.cursor.hot = i[2],
                 !.cursor.buffer = IF src = <<>> \/ dst.px = <<>> THEN dst
                                   ELSE [dst EXCEPT !.px = [k \in DOMAIN dst.px |-> At(src, k - 1 - i[5])]]]

HandleDispose(d, i) ==
    IF i[2] >= 0 THEN [d EXCEPT !.layers[i[2]] = Null] ELSE [d EXCEPT !.buffers[i[2]] = Null]

(* Mutant: the parent is not looked up.                                    *)
MutHandleMove(d, i) ==
    [d EXCEPT !.layers[i[2]] = [@ EXCEPT !.parent = i[3], !.x = i[4], !.z = i[6]]]

HandleMove(d, i) ==
    IF i[3] \notin LayerIndexes THEN d
    ELSE [GetLayer(d, i[3]) EXCEPT !.layers[i[2]] =
            [@ EXCEPT !.parent = i[3], !.x = i[4], !.z = i[6]]]

HandleShade(d, i) == [d EXCEPT !.layers[i[2]].opacity = i[3]]

(* "transfer" is read and not drawn.                                       *)
HandleTransfer(d, i) == d

-----------------------------------------------------------------------------
(* Images arrive as a stream of their own: "img" opens it, "blob" adds to  *)
(* it, "end" decodes and draws.  The stream stays until the next "img".    *)

Decoders == {"image/png", "image/jpeg"}

HandleImg(d, i) ==
    [d EXCEPT !.images[i[2]] =
        [index |-> i[4], mask |-> i[3], mime |-> i[5], x |-> i[6], data |-> <<>>]]

ImageBlob(d, i) == [d EXCEPT !.images[i[2]].data = @ \o i[3]]

(* What the decoders make of the data: here a picture is a sequence of     *)
(* pixels, and no data is no picture.  libjpeg ends the process then.      *)
Decoded(mime, data) == IF mime \in Decoders THEN data ELSE <<>>

ImageEnd(d, i) ==
    LET s == d.images[i[2]]
        px == Decoded(s.mime, s.data)
        b == Autosized(Related(d, s.index), s.x + Len(px))
    IN IF s.mime = "image/jpeg" /\ px = <<>> THEN [d EXCEPT !.crashed = TRUE]
       ELSE IF px = <<>> THEN d
       ELSE IF b.px = <<>> THEN SetRelated(d, s.index, b)
       ELSE SetRelated(d, s.index,
                Fill(b, s.mask, Columns(s.x, Len(px)), LAMBDA x : At(px, x - s.x)))

-----------------------------------------------------------------------------
(* Flattening: every layer's frame is a copy of its buffer, on which the   *)
(* frames of its children are painted, the deepest layers first.           *)

Live(d) == {i \in LayerIndexes : d.layers[i] # Null}

(* The parent that guacenc_display_get_layer makes for a layer whose       *)
(* parent was disposed hangs from layer 0.                                 *)
ParentOf(d, i) == IF d.layers[i] # Null THEN d.layers[i].parent ELSE LayerAlloc(i).parent
Ancestor(d, i) ==
    LET up[k \in 0 .. MaxEncLayers] ==
            IF k = 0 THEN i ELSE IF up[k - 1] = NoParent THEN NoParent ELSE ParentOf(d, up[k - 1])
    IN up

(* guacenc_display_get_depth does not return where parents form a circle.  *)
Circular(d, i) == Ancestor(d, i)[MaxEncLayers] # NoParent
GetDepth(d, i) ==
    LET up == Ancestor(d, i) IN
    (CHOOSE k \in 1 .. MaxEncLayers : up[k] = NoParent /\ up[k - 1] # NoParent) - 1

(* Mutant: parents before their children.                                  *)
MutRenderedBefore(d, a, b) ==
    LET la == d.layers[a]
        lb == d.layers[b]
    IN \/ GetDepth(d, a) < GetDepth(d, b)
       \/ /\ GetDepth(d, a) = GetDepth(d, b)
          /\ \/ la.parent > lb.parent
             \/ la.parent = lb.parent /\ (la.z > lb.z \/ (la.z = lb.z /\ a < b))

(* guacenc_display_layer_comparator; qsort keeps the order of equals.      *)
RenderedBefore(d, a, b) ==
    LET la == d.layers[a]
        lb == d.layers[b]
    IN \/ GetDepth(d, a) > GetDepth(d, b)
       \/ /\ GetDepth(d, a) = GetDepth(d, b)
          /\ \/ la.parent > lb.parent
             \/ la.parent = lb.parent /\ (la.z > lb.z \/ (la.z = lb.z /\ a < b))

RenderOrder(d) == SetToSortSeq(Live(d), LAMBDA a, b : RenderedBefore(d, a, b))

(* The ancestors that comparing and painting allocate on the way.          *)
Reached(d) ==
    IF Cardinality(Live(d)) > 1
    THEN UNION {{Ancestor(d, i)[k] : k \in 0 .. MaxEncLayers} : i \in Live(d)} \ {NoParent}
    ELSE {d.layers[i].parent : i \in {j \in Live(d) : d.layers[j].opacity > 0}} \ {NoParent}

WithAncestors(d) ==
    [d EXCEPT !.layers = [i \in LayerIndexes |->
        IF i \in Reached(d) /\ d.layers[i] = Null THEN LayerAlloc(i) ELSE d.layers[i]]]

CopyToFrames(d) ==
    [d EXCEPT !.layers = [i \in LayerIndexes |->
        IF d.layers[i] = Null THEN Null
        ELSE [d.layers[i] EXCEPT !.frame = BufferCopy(@, d.layers[i].buffer)]]]

(* The clip of the parent's context is left behind.                        *)
PaintOnParent(d, i) ==
    LET l == d.layers[i] IN
    IF l.opacity = 0 \/ l.parent = NoParent THEN d
    ELSE LET to == d.layers[l.parent].frame
             area == Columns(l.x, Len(l.frame.px))
         IN IF l.frame.px = <<>> \/ to.px = <<>> THEN d
            ELSE [d EXCEPT !.layers[l.parent].frame =
                    [to EXCEPT !.clip = area,
                               !.px = [k \in DOMAIN to.px |->
                                        IF k - 1 \in area
                                        THEN Composite("over", to.px[k], At(l.frame.px, k - 1 - l.x))
                                        ELSE to.px[k]]]]

(* The cursor is drawn on the frame of layer 0, which may have no context. *)
RenderCursor(d) ==
    LET c == d.cursor
        e == GetLayer(d, 0)
        at == c.x - c.hot
    IN IF c.x < 0 THEN d
       ELSE IF c.buffer.px = <<>> THEN e
       ELSE IF e.layers[0].frame.px = <<>> THEN [e EXCEPT !.crashed = TRUE]
       ELSE [e EXCEPT !.layers[0].frame =
               Fill(@, "over", Columns(at, Len(c.buffer.px)), LAMBDA x : At(c.buffer.px, x - at))]

(* The layers after the children were painted; nothing else changes.       *)
Painted(d) == FoldLeft(PaintOnParent, WithAncestors(d), RenderOrder(d)).layers

Flatten(d) ==
    LET layers == Painted(CopyToFrames(d))
    IN IF Cardinality(Live(d)) > 1 /\ \E i \in Live(d) : Circular(d, i)
       THEN [d EXCEPT !.crashed = TRUE]
       ELSE RenderCursor([d EXCEPT !.layers = layers,
                                   !.flat = IF layers[0] = Null THEN <<>> ELSE layers[0].frame.px])

-----------------------------------------------------------------------------
(* The video: frames at a fixed rate.  last is the time of the frame that  *)
(* was written last, 0 before the first "sync".                            *)

Elapsed(v, timestamp) == ((timestamp - v.last) * FrameRate) \div 1000

(* Mutant: the time that does not fill a frame is lost.                    *)
MutAdvanceTimeline(v, timestamp, written) ==
    IF v.last = 0 THEN [v EXCEPT !.last = timestamp]
    ELSE IF Elapsed(v, timestamp) = 0 THEN v
    ELSE IF written < Elapsed(v, timestamp) THEN [v EXCEPT !.pts = @ + written, !.failed = TRUE]
    ELSE [v EXCEPT !.pts = @ + written, !.last = timestamp]

(* written: how many frames the codec took before it failed, if it did.    *)
AdvanceTimeline(v, timestamp, written) ==
    IF v.last = 0 THEN [v EXCEPT !.last = timestamp]
    ELSE IF Elapsed(v, timestamp) = 0 THEN v
    ELSE IF written < Elapsed(v, timestamp) THEN [v EXCEPT !.pts = @ + written, !.failed = TRUE]
    ELSE [v EXCEPT !.pts = @ + written,
                   !.last = @ + (Elapsed(v, timestamp) * 1000) \div FrameRate]

(* The frames are counted, and their time is taken, in an int: what a gap  *)
(* too long for it does is left open.                                      *)
Overflows(v, timestamp) == v.last # 0 /\ Elapsed(v, timestamp) * 1000 > IntMax

(* Borders that keep the aspect ratio of a w x h picture in a W x H video. *)
ScaledWidth(w, h, H) == (w * H) \div h
ScaledHeight(w, h, W) == (h * W) \div w
Borders(w, h, W, H) ==
    IF ScaledWidth(w, h, H) <= W
    THEN [lsize |-> 0, psize |-> (((W - ScaledWidth(w, h, H)) * h) \div H) \div 2]
    ELSE [lsize |-> (((H - ScaledHeight(w, h, W)) * w) \div W) \div 2, psize |-> 0]
(* The picture with its borders, which is then scaled to W x H.            *)
Bordered(w, h, b) == [w |-> w + 2 * b.psize, h |-> h + 2 * b.lsize]

PrepareFrame(v, frame) == IF frame.px = <<>> THEN v ELSE [v EXCEPT !.next = frame.px]

DisplaySync(d, timestamp, written) ==
    IF timestamp < d.last_sync THEN d
    ELSE LET e == [Flatten([d EXCEPT !.last_sync = timestamp])
                    EXCEPT !.first = IF @ = 0 THEN timestamp ELSE @]
         IN IF e.crashed THEN e
            ELSE IF Overflows(e.output, timestamp) THEN [e EXCEPT !.crashed = TRUE]
            ELSE LET f == GetLayer(e, 0)
                     v == AdvanceTimeline(f.output, timestamp, written)
                 IN [f EXCEPT !.output = IF v.failed THEN v ELSE PrepareFrame(v, f.layers[0].frame)]

OnSync(d, i, written) == DisplaySync(d, i[2], written)

HandleMouse(d, i, written) == DisplaySync([d EXCEPT !.cursor.x = i[2]], i[5], written)

-----------------------------------------------------------------------------
(* guacenc_handle_instruction: what has no handler, or names a layer,      *)
(* buffer or stream that cannot be, is passed over.                        *)

Handle(d, i, written) ==
    LET op == i[1] IN
    CASE op = "size" /\ InBounds(i[2]) -> HandleSize(GetRelated(d, i[2]), i)
      [] op = "rect" /\ InBounds(i[2]) -> HandleRect(GetRelated(d, i[2]), i)
      [] op = "cfill" /\ InBounds(i[3]) -> HandleCfill(GetRelated(d, i[3]), i)
      [] op = "copy" /\ InBounds(i[2]) -> HandleCopy(GetRelated(d, i[2]), i)
      [] op = "cursor" /\ InBounds(i[4]) -> HandleCursor(GetRelated(d, i[4]), i)
      [] op = "dispose" /\ InBounds(i[2]) -> HandleDispose(d, i)
      [] op = "move" /\ i[2] \in LayerIndexes -> HandleMove(GetLayer(d, i[2]), i)
      [] op = "shade" /\ i[2] \in LayerIndexes -> HandleShade(GetLayer(d, i[2]), i)
      [] op = "transfer" -> HandleTransfer(d, i)
      [] op = "img" /\ i[2] \in DOMAIN d.images -> HandleImg(d, i)
      [] op = "blob" /\ i[2] \in DOMAIN d.images /\ d.images[i[2]] # Null -> ImageBlob(d, i)
      [] op = "end" /\ i[2] \in DOMAIN d.images /\ d.images[i[2]] # Null
                    /\ InBounds(d.images[i[2]].index) ->
            ImageEnd(GetRelated(d, d.images[i[2]].index), i)
      [] op = "sync" -> OnSync(d, i, written)
      [] op = "mouse" -> HandleMouse(d, i, written)
      [] OTHER -> d

(* Frames are written with a "sync" or "mouse" only.                       *)
ToWrite(d, i) ==
    LET timestamp == IF i[1] = "sync" THEN i[2] ELSE i[5] IN
    IF i[1] \notin {"sync", "mouse"} \/ d.output.last = 0 \/ timestamp < d.last_sync THEN 0
    ELSE Elapsed(d.output, timestamp)

Clear(d) == [d EXCEPT !.flat = Null]

EncInit ==
    /\ disp = DisplayAlloc
    /\ fed = 0

Offered == IF fed + 1 \in DOMAIN Prefix THEN {Prefix[fed + 1]} ELSE Recording

(* guacenc_read_instructions goes on after an instruction that failed.     *)
ReadInstruction ==
    /\ fed < Len(Prefix) + MaxInstructions
    /\ ~disp.crashed /\ ~disp.ended
    /\ \E i \in Offered :
       \E written \in {0, ToWrite(disp, i)} :
          disp' = Handle(Clear(disp), i, written)
    /\ fed' = fed + 1

(* At the end of the recording guacenc_video_free writes the frame that    *)
(* was prepared last.                                                      *)
EndOfRecording ==
    /\ ~disp.crashed /\ ~disp.ended
    /\ disp' = [disp EXCEPT !.output.pts = @ + 1, !.ended = TRUE]
    /\ UNCHANGED fed

EncNext == ReadInstruction \/ EndOfRecording

EncSpec == EncInit /\ [][EncNext]_encVars

-----------------------------------------------------------------------------
(* Properties *)

(* guacenc_video_advance_timeline: the frames written fill the time since  *)
(* the first "sync" exactly, and the video never lags a frame behind.      *)
TimelineExact ==
    disp.output.last # 0 /\ ~disp.output.failed /\ ~disp.crashed =>
        /\ disp.output.last - disp.first =
              (disp.output.pts - Flag(disp.ended)) * (1000 \div FrameRate)
        /\ disp.last_sync - disp.output.last \in 0 .. 1000 \div FrameRate - 1

(* "Render cursor on top of everything else" (display-flatten.c)           *)
CursorOnTop ==
    disp.flat # Null /\ ~disp.crashed /\ disp.cursor.x >= 0 /\ Len(disp.layers[0].frame.px) > 0 =>
        \A k \in DOMAIN disp.cursor.buffer.px :
            LET x == disp.cursor.x - disp.cursor.hot + k - 1 IN
            disp.cursor.buffer.px[k] # Null /\ x + 1 \in DOMAIN disp.layers[0].frame.px =>
                disp.layers[0].frame.px[x + 1] = disp.cursor.buffer.px[k]
=============================================================================
