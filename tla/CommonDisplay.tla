---------------------------- MODULE CommonDisplay ---------------------------
(***************************************************************************)
(* The display shared by the users of a graphical connection               *)
(* (common/display.c, common/cursor.c): a default surface, layers, buffers  *)
(* and a cursor.  The protocol's threads draw; what the surfaces send goes  *)
(* to the users of the connection.  A pending user gets a copy of every     *)
(* surface, one after the other, and only then joins the users: the handler *)
(* of libguac/client.c that does so holds the display's lock while it       *)
(* copies, but a surface is locked only while it is copied itself.          *)
(*                                                                          *)
(* view[u] is the display as user u has it, the effect of the instructions  *)
(* received so far.                                                         *)
(***************************************************************************)
EXTENDS Surface

CONSTANTS
    Users, NULL,
    LayerIdx, BufferIdx,    \* indices the client's pools hand out
    \* The calls of the protocol's threads that the instance considers:
    Draws,      \* <<surface, place, image>>, an image being [w, h, pix, opaque]
    Paints,     \* <<surface, place, stencil, colour>>
    Sets,       \* <<surface, region, colour>>
    Copies,     \* <<source, region, destination, place>>
    Transfers,  \* <<source, region, destination, place, function>>
    Clips,      \* <<surface, region>>
    Resizes,    \* <<surface, width and height>>
    Moves,      \* places of a layer
    AllocSizes, CursorImages, Spots,
    MaxCalls                \* bound on the calls of the protocol's threads; the indices, and
                            \* the calls that free them, bound the allocation of buffers

ASSUME DisplayConsts ==
    /\ NULL \notin Users /\ IsFiniteSet(Users)
    /\ \A i \in LayerIdx : i > 0
    /\ \A i \in BufferIdx : i < 0

VARIABLES
    surf,       \* the live surfaces by index; 0 is the default layer
    layers, buffers,    \* the display's lists, newest first
    lossless,   \* guac_common_display.lossless
    cursor,
    stage,      \* "out", "pending" or "full" for each user
    promo,      \* the promotion handler: pc, surfaces to copy, indices whose
                \* instructions the pending users now need
    view,
    missed,     \* users that an instruction for a copied surface passed by
    alive,      \* FALSE once the display was freed
    calls

vars == <<surf, layers, buffers, lossless, cursor, stage, promo, view, missed, alive, calls>>

Indexes == {0} \cup LayerIdx \cup BufferIdx
Live == DOMAIN surf
Idle == [pc |-> "idle", todo |-> <<>>, done |-> {}]

-----------------------------------------------------------------------------
(* The user's side, as the protocol defines it.                             *)

BlankLayer == [w |-> 0, h |-> 0, pix |-> NoPixels, op |-> 255,
               loc |-> <<0, 0, 0, 0>>, touches |-> 0]
BlankView == [layer |-> [i \in Indexes |-> BlankLayer],
              image |-> "none", mouse |-> "none"]

\* A transparent pixel has no colour.
Seen(p) == IF Solid(p) THEN p ELSE Clear

\* Buffers grow as they are drawn to; a layer is clipped to its size.
Drawable(idx, l) == IF idx < 0 THEN Cells ELSE RectCells(RectInit(0, 0, l.w, l.h))

\* The layers after an instruction.
Apply(layer, i) ==
    LET idx == IF i[1] = "copy" THEN i[3] ELSE i[2]
        l == layer[idx]
        on(r) == RectCells(r) \cap Drawable(idx, l)
        new == CASE i[1] = "size" ->
                        [l EXCEPT !.w = i[3], !.h = i[4],
                                  !.pix = Put(NoPixels, RectCells(RectInit(0, 0, i[3], i[4])), @)]
                 [] i[1] = "dispose" -> BlankLayer
                 [] i[1] = "touch" -> [l EXCEPT !.touches = i[3]]
                 [] i[1] = "shade" -> [l EXCEPT !.op = i[3]]
                 [] i[1] = "move" -> [l EXCEPT !.loc = <<i[3], i[4], i[5], i[6]>>]
                 [] i[1] = "erase" -> [l EXCEPT !.pix = Put(@, on(i[3]), NoPixels)]
                 [] i[1] = "fill" ->
                        [l EXCEPT !.pix = Put(@, on(i[3]), [c \in Cells |-> i[4]])]
                 [] i[1] = "img" ->
                        [l EXCEPT !.pix = Put(@, on(i[3]),
                            [c \in Cells |-> IF Solid(i[4][c]) THEN i[4][c] ELSE l.pix[c]])]
                 [] i[1] = "copy" ->
                        LET from == layer[i[2]].pix
                            at(c) == from[At(Col(c) - i[5], Line(c) - i[6])]
                        IN  [l EXCEPT !.pix = Put(@, on(i[4]),
                                [c \in on(i[4]) |->
                                    IF i[7] = "OVER"
                                    THEN IF Solid(at(c)) THEN at(c) ELSE l.pix[c]
                                    ELSE Seen(TransferInt(i[7], at(c), l.pix[c]))])]
    IN  [layer EXCEPT ![idx] = new]

ApplyAll(v, out) == [v EXCEPT !.layer = FoldLeft(Apply, @, out)]

Target(i) == IF i[1] = "copy" THEN i[3] ELSE i[2]

\* client->socket reaches the users, not the pending ones; what is sent for a
\* surface the pending users already have a copy of passes them by.
Broadcast(out) ==
    /\ view' = [u \in Users |-> IF stage[u] = "full" THEN ApplyAll(view[u], out) ELSE view[u]]
    /\ missed' = IF \E k \in DOMAIN out : Target(out[k]) \in promo.done
                 THEN missed \cup {u \in Users : stage[u] = "pending"} ELSE missed

\* The cursor has no index here: it is the first thing copied.
ToUsers(Effect(_, _), recipients) ==
    /\ view' = [u \in Users |-> IF stage[u] = "full" /\ u \in recipients
                                THEN Effect(view[u], u) ELSE view[u]]
    /\ missed' = IF promo.pc # "idle"
                 THEN missed \cup {u \in Users : stage[u] = "pending"} ELSE missed

-----------------------------------------------------------------------------
(* Cursor.                                                                  *)

\* guac_common_cursor_alloc.  button_mask is not initialised and is left out.
CursorAlloc == [image |-> "none", user |-> NULL, at |-> "origin"]

\* guac_common_cursor_dup
CursorDup(v) == [v EXCEPT !.mouse = cursor.at,
                          !.image = IF cursor.image = "none" THEN @ ELSE cursor.image]

Started(fresh, first) ==
    /\ surf = [i \in {0} |-> first.s]
    /\ \E owner \in Users :
          /\ stage = [u \in Users |-> IF u = owner THEN "full" ELSE "out"]
          /\ view = [u \in Users |->
                IF u = owner
                THEN [ApplyAll(BlankView, fresh.out \o first.out) EXCEPT !.mouse = "origin"]
                ELSE BlankView]

\* The default surface as it was allocated, transparent, or as the first
\* update of the protocol's thread paints it.
FirstUpdate(fresh) == {Silent(fresh.s), Set(fresh.s, Bounds(fresh.s), White, "flat")}

Init ==
    /\ \E first \in FirstUpdate(SurfaceAlloc(0, MaxW, MaxH)) : Started(SurfaceAlloc(0, MaxW, MaxH), first)
    /\ layers = <<>> /\ buffers = <<>>
    /\ lossless \in BOOLEAN     \* display_alloc leaves it uninitialised
    /\ cursor = CursorAlloc
    /\ promo = Idle /\ missed = {} /\ alive = TRUE /\ calls = 0

Call == alive /\ calls < MaxCalls /\ calls' = calls + 1

\* display->_lock is held by the promotion while it copies.
DisplayLockFree == promo.pc # "dup"

CursorFrame == UNCHANGED <<surf, layers, buffers, lossless, stage, promo, alive>>

\* Mutant: who moved the cursor is not remembered.
MutCursorUpdate(u, at) ==
    /\ Call /\ stage[u] = "full"
    /\ cursor' = [cursor EXCEPT !.at = at]
    /\ ToUsers(LAMBDA v, w : [v EXCEPT !.mouse = at], Users \ {u})
    /\ CursorFrame

\* guac_common_cursor_update: everyone but the user who moved it is told.
CursorUpdate(u, at) ==
    /\ Call /\ stage[u] = "full"
    /\ cursor' = [cursor EXCEPT !.user = u, !.at = at]
    /\ ToUsers(LAMBDA v, w : [v EXCEPT !.mouse = at], Users \ {u})
    /\ CursorFrame

\* guac_common_cursor_set_argb, by way of set_pointer, set_dot, set_ibar,
\* set_blank or set_surface.
CursorSet(image) ==
    /\ Call
    /\ cursor' = [cursor EXCEPT !.image = image]
    /\ ToUsers(LAMBDA v, w : [v EXCEPT !.image = image], Users)
    /\ CursorFrame

-----------------------------------------------------------------------------
(* Calls on one surface.                                                    *)

SurfaceFrame == UNCHANGED <<layers, buffers, lossless, cursor, stage, promo, alive>>

\* The surface i becomes r.s and r.out is broadcast.
Done(i, r) ==
    /\ Call
    /\ surf' = [surf EXCEPT ![i] = r.s]
    /\ Broadcast(r.out)
    /\ SurfaceFrame

DrawCall(i, at, img, noisy) ==
    Done(i, Draw(surf[i], at[1], at[2], img.w, img.h, img.pix, img.opaque, noisy))
PaintCall(i, at, img, colour, noisy) ==
    Done(i, Paint(surf[i], at[1], at[2], img.w, img.h, img.pix, colour, noisy))
SetCall(i, r, colour, noisy) == Done(i, Set(surf[i], r, colour, noisy))
ClipCall(i, r) == Done(i, Silent(Clip(surf[i], r)))
ResetClipCall(i) == Done(i, Silent(ResetClip(surf[i])))
ResizeCall(i, size) == Done(i, Resize(surf[i], size[1], size[2]))
MoveCall(i, at) == Done(i, Silent(Move(surf[i], at[1], at[2])))
StackCall(i, z) == Done(i, Silent(Stack(surf[i], z)))
ParentCall(i, p) == Done(i, Silent(SetParent(surf[i], p)))
OpacityCall(i, op) == Done(i, Silent(SetOpacity(surf[i], op)))
MultitouchCall(n) == Done(0, SetMultitouch(surf[0], n))
FlushCall(i, noisy) == Done(i, SurfaceFlush(surf[i], noisy))

\* Copies lock both surfaces.
Pair(i, j, r) ==
    /\ Call
    /\ surf' = [surf EXCEPT ![i] = r.src, ![j] = r.dst]
    /\ Broadcast(r.out)
    /\ SurfaceFrame

CopyCall(i, r, j, at, noisy) == Pair(i, j, Copy(surf[i], r, surf[j], at[1], at[2], noisy))
TransferCall(i, r, j, at, op, noisy) ==
    Pair(i, j, Transfer(surf[i], r, surf[j], at[1], at[2], op, noisy))

-----------------------------------------------------------------------------
(* Calls on the display, under its lock.                                    *)

DisplayFrame == UNCHANGED <<cursor, stage, promo>>

\* set_lossless reaches the layers and the default surface, not the buffers.
DisplaySetLossless(b) ==
    /\ Call /\ DisplayLockFree
    /\ lossless' = b
    /\ surf' = [i \in Live |-> IF i >= 0 THEN SetLossless(surf[i], b) ELSE surf[i]]
    /\ UNCHANGED <<layers, buffers, view, missed, alive>> /\ DisplayFrame

\* guac_common_display_flush: every layer, then the default surface.
FlushedAs(f, order) ==
    /\ surf' = [i \in Live |-> IF i >= 0 THEN f[i].s ELSE surf[i]]
    /\ Broadcast(FlattenSeq([k \in DOMAIN order |-> f[order[k]].out]))

DisplayFlush(noisy) ==
    /\ Call /\ DisplayLockFree
    /\ FlushedAs([i \in Live |-> SurfaceFlush(surf[i], noisy)], Append(layers, 0))
    /\ UNCHANGED <<layers, buffers, lossless, alive>> /\ DisplayFrame

Added(i, size) ==
    LET a == SurfaceAlloc(i, size[1], size[2])
    IN  /\ surf' = [j \in Live \cup {i} |-> IF j = i THEN SetLossless(a.s, lossless) ELSE surf[j]]
        /\ Broadcast(a.out)

AllocLayer(i, size) ==
    /\ Call /\ DisplayLockFree /\ i \notin Live
    /\ layers' = <<i>> \o layers
    /\ Added(i, size)
    /\ UNCHANGED <<buffers, lossless, alive>> /\ DisplayFrame

AllocBuffer(i, size) ==
    /\ alive /\ DisplayLockFree /\ i \notin Live
    /\ buffers' = <<i>> \o buffers
    /\ Added(i, size)
    /\ UNCHANGED <<layers, lossless, alive, calls>> /\ DisplayFrame

RemoveFrom(list, i) == SelectSeq(list, LAMBDA j : j # i)
Without(i) == [j \in Live \ {i} |-> surf[j]]

FreeLayer(i) ==
    /\ Call /\ DisplayLockFree
    /\ layers' = RemoveFrom(layers, i)
    /\ surf' = Without(i) /\ Broadcast(SurfaceFree(surf[i]))
    /\ UNCHANGED <<buffers, lossless, alive>> /\ DisplayFrame

FreeBuffer(i) ==
    /\ Call /\ DisplayLockFree
    /\ buffers' = RemoveFrom(buffers, i)
    /\ surf' = Without(i) /\ Broadcast(SurfaceFree(surf[i]))
    /\ UNCHANGED <<layers, lossless, alive>> /\ DisplayFrame

\* free_layers disposes of each surface, and of its layer once more.
FreeLayers(list) ==
    FlattenSeq([k \in DOMAIN list |->
        SurfaceFree(surf[list[k]]) \o <<<<"dispose", list[k]>>>>])

\* guac_common_display_free takes no lock; the protocol's thread calls it
\* when nobody uses the display any more.
DisplayFree ==
    /\ Call /\ promo.pc = "idle"
    /\ Broadcast(SurfaceFree(surf[0]) \o FreeLayers(buffers) \o FreeLayers(layers))
    /\ surf' = <<>> /\ layers' = <<>> /\ buffers' = <<>> /\ alive' = FALSE
    /\ UNCHANGED lossless /\ DisplayFrame

-----------------------------------------------------------------------------
(* Users.                                                                   *)

UserFrame == UNCHANGED <<surf, layers, buffers, lossless, alive, calls>>

\* guac_client_add_user waits for a promotion in progress.
AddUser(u) ==
    /\ stage[u] = "out" /\ promo.pc = "idle" /\ alive
    /\ stage' = [stage EXCEPT ![u] = "pending"]
    /\ view' = [view EXCEPT ![u] = BlankView]
    /\ UNCHANGED <<cursor, promo, missed>> /\ UserFrame

\* guac_common_cursor_remove_user, by the leave handler.
CursorRemoveUser(u) == [cursor EXCEPT !.user = IF @ = u THEN NULL ELSE @]

RemoveUser(u) ==
    /\ stage[u] # "out" /\ promo.pc = "idle"
    /\ stage' = [stage EXCEPT ![u] = "out"]
    /\ view' = [view EXCEPT ![u] = BlankView]
    /\ missed' = missed \ {u}
    /\ cursor' = CursorRemoveUser(u)
    /\ UNCHANGED promo /\ UserFrame

ToPending(v) == [u \in Users |-> IF stage[u] = "pending" THEN v[u] ELSE view[u]]

\* guac_common_display_dup takes the display's lock and copies the cursor.
DupOrder == <<0>> \o layers \o buffers

StartDup ==
    /\ promo.pc = "idle" /\ alive
    /\ \E u \in Users : stage[u] = "pending"
    /\ promo' = [pc |-> "dup", todo |-> DupOrder, done |-> {}]
    /\ view' = ToPending([u \in Users |-> CursorDup(view[u])])
    /\ UNCHANGED <<cursor, stage, missed>> /\ UserFrame

\* Each surface is copied under its own lock.
DupSurface ==
    /\ promo.pc = "dup" /\ promo.todo # <<>>
    /\ LET i == Head(promo.todo)
       IN  /\ view' = ToPending([u \in Users |-> ApplyAll(view[u], Dup(surf[i]))])
           /\ promo' = [promo EXCEPT !.todo = Tail(@), !.done = @ \cup {i}]
    /\ UNCHANGED <<cursor, stage, missed>> /\ UserFrame

\* The sync, and the display's lock is released.
EndDup ==
    /\ promo.pc = "dup" /\ promo.todo = <<>>
    /\ promo' = [promo EXCEPT !.pc = "sent", !.done = Indexes]
    /\ UNCHANGED <<cursor, stage, view, missed>> /\ UserFrame

Promote ==
    /\ promo.pc = "sent"
    /\ stage' = [u \in Users |-> IF stage[u] = "pending" THEN "full" ELSE stage[u]]
    /\ promo' = Idle
    /\ UNCHANGED <<cursor, view, missed>> /\ UserFrame

\* How the pixels look matters only where they may be video.
Noise(S) == IF \E i \in S : MayBeVideo(surf[i]) THEN Looks ELSE {"flat"}

Next ==
    \/ \E c \in Draws : c[1] \in Live /\ \E n \in Noise({c[1]}) : DrawCall(c[1], c[2], c[3], n)
    \/ \E c \in Paints : c[1] \in Live /\ \E n \in Noise({c[1]}) : PaintCall(c[1], c[2], c[3], c[4], n)
    \/ \E c \in Sets : c[1] \in Live /\ \E n \in Noise({c[1]}) : SetCall(c[1], c[2], c[3], n)
    \/ \E c \in Copies : {c[1], c[3]} \subseteq Live
          /\ \E n \in Noise({c[1], c[3]}) : CopyCall(c[1], c[2], c[3], c[4], n)
    \/ \E c \in Transfers : {c[1], c[3]} \subseteq Live
          /\ \E n \in Noise({c[1], c[3]}) : TransferCall(c[1], c[2], c[3], c[4], c[5], n)
    \/ \E c \in Clips : c[1] \in Live /\ (ClipCall(c[1], c[2]) \/ ResetClipCall(c[1]))
    \/ \E c \in Resizes : c[1] \in Live /\ ResizeCall(c[1], c[2])
    \/ \E i \in Live : \E n \in Noise({i}) : FlushCall(i, n)
    \/ \E i \in Live \cap LayerIdx :
          \/ \E at \in Moves : MoveCall(i, at)
          \/ StackCall(i, 1) \/ ParentCall(i, i) \/ OpacityCall(i, 0)
          \/ FreeLayer(i)
    \/ \E i \in Live \cap BufferIdx : FreeBuffer(i)
    \/ \E size \in AllocSizes : \/ \E i \in LayerIdx : AllocLayer(i, size)
                                \/ \E i \in BufferIdx : AllocBuffer(i, size)
    \/ alive /\ MultitouchCall(1)
    \/ DisplaySetLossless(~lossless)
    \/ \E n \in Noise(Live) : DisplayFlush(n)
    \/ DisplayFree
    \/ \E image \in CursorImages : CursorSet(image)
    \/ \E u \in Users : \/ \E at \in Spots : CursorUpdate(u, at)
                        \/ AddUser(u) \/ RemoveUser(u)
    \/ StartDup \/ DupSurface \/ EndDup \/ Promote

Spec == Init /\ [][Next]_vars

-----------------------------------------------------------------------------
(* Properties.                                                              *)

\* The array of queued rectangles keeps one entry free between calls: flush
\* adds the dirty rectangle without looking (surface.c:669-719, 1893).
QueueBounded == \A i \in Live : Len(surf[i].queue) < QueueSize

\* Outside what a surface still has to send, the user sees its pixels, at its
\* size, and a layer where and as opaque as the server has it.
Agrees(u, i) ==
    LET s == surf[i]
        l == view[u].layer[i]
    IN  /\ s.intact =>
              \A c \in RectCells(Bounds(s)) \ Pending(s) : Seen(l.pix[c]) = Seen(s.pix[c])
        /\ i >= 0 => l.w = s.w /\ l.h = s.h
        /\ i > 0 /\ ~s.opdirty => l.op = s.op
        /\ i > 0 /\ ~s.locdirty => l.loc = <<s.par, s.x, s.y, s.z>>
        /\ i = 0 => l.touches = s.touches

\* Whatever was drawn, combined, queued, copied, resized, freed and allocated
\* again, every user who was not passed by while joining has the server's
\* display, up to the regions still to be sent (surface.c, display.c).
Converged ==
    \A u \in Users, i \in Live :
        stage[u] = "full" /\ u \notin missed => Agrees(u, i)

\* Every user has the cursor's image, and its position unless that user moved
\* it last (cursor.c:107-185).
CursorShared ==
    alive => \A u \in Users :
        stage[u] = "full" /\ u \notin missed =>
            /\ view[u].image = cursor.image
            /\ u # cursor.user => view[u].mouse = cursor.at

\* What guac_client.join_pending_handler and guac_common_display_dup are
\* documented to give: once promoted, a user is synchronized
\* (libguac/guacamole/client.h:208, common/common/display.h:148).
JoinedConverges ==
    \A u \in Users, i \in Live : stage[u] = "full" => Agrees(u, i)
=============================================================================
