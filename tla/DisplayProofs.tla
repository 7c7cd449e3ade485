--------------------------- MODULE DisplayProofs ----------------------------
(***************************************************************************)
(* Theorems about the display that the users of a connection share         *)
(* (CommonDisplay), the surfaces it is made of (Surface), and the pipe of  *)
(* a terminal (Terminal).                                                  *)
(*                                                                         *)
(* Queues.  Every call of the protocol's threads leaves a surface with     *)
(* room in its queue (Queued): a call adds one rectangle at most, and only *)
(* after it has flushed a queue that would be full.                        *)
(*                                                                         *)
(* Cursor.  That a user who is promoted has the cursor needs what the      *)
(* pending ones have: nothing before the promotion, and the cursor as it   *)
(* is now from the moment it was copied for them, unless an instruction    *)
(* passed them by (CursorInv).                                             *)
(*                                                                         *)
(* Pipe.  Drawing, scrolling, and every handler but three leave the pipe   *)
(* of a terminal alone (Kept).  What the three do, byte after byte, and    *)
(* what the render thread does, keeps it sound (PipeSound): what was       *)
(* captured is sent or buffered, and a closed pipe has an empty buffer.    *)
(***************************************************************************)
EXTENDS CommonDisplay, Terminal, CommonProofs

-----------------------------------------------------------------------------
(* Surfaces.                                                               *)

SurfaceFields ==
    {"w", "h", "pix", "heat", "x", "y", "z", "par", "op", "locdirty", "opdirty", "touches",
     "lossless", "dirty", "rect", "queue", "clipped", "clip", "idx", "realized", "intact"}

(* A surface whose queue has an entry free.                                *)
Queued(s) ==
    /\ SurfaceFields \subseteq DOMAIN s
    /\ s.queue \in Seq(ToSet(s.queue)) /\ Len(s.queue) < QueueSize

Same(s, t) == DOMAIN t = DOMAIN s /\ t.queue = s.queue

LEMMA SameQueued == ASSUME NEW s, NEW t, Queued(s), Same(s, t)  PROVE Queued(t)
  BY DEF Queued, Same

(* An empty queue has room.                                                *)
LEMMA EmptyQueued ==
    ASSUME NEW s, SurfaceFields \subseteq DOMAIN s, s.queue = <<>>
    PROVE  Queued(s)
<1>1. <<>> \in Seq(ToSet(<<>>)) /\ Len(<<>>) = 0
  BY EmptySeq
<1> QED  BY <1>1, SurfaceConsts DEF Queued

(* What a call remembers besides the queue.                                *)
LEMMA SmallQueued ==
    ASSUME NEW s, Queued(s)
    PROVE  /\ \A b : Queued(SetLossless(s, b))
           /\ \A x, y : Queued(Move(s, x, y))
           /\ \A z : Queued(Stack(s, z)) /\ Queued(SetParent(s, z)) /\ Queued(SetOpacity(s, z))
           /\ \A n : Queued(SetMultitouch(s, n).s)
           /\ \A r : Queued(Clip(s, r)) /\ Queued(MarkDirty(s, r))
           /\ Queued(ResetClip(s)) /\ Queued(TouchRect(s)) /\ Queued(FlushProperties(s).s)
           /\ \A p : Queued([s EXCEPT !.pix = p]) /\ Queued(Landed(s, p))
           /\ Queued([s EXCEPT !.realized = TRUE])
<1>0. {"queue", "pix", "realized"} \subseteq DOMAIN s /\ \A t : Same(s, t) => Queued(t)
  BY SameQueued DEF Queued, SurfaceFields
<1>1. ASSUME NEW b  PROVE Queued(SetLossless(s, b))
  BY <1>0 DEF SetLossless, Same
<1>2. ASSUME NEW x, NEW y  PROVE Queued(Move(s, x, y))
  BY <1>0 DEF Move, Same
<1>3. ASSUME NEW z  PROVE Queued(Stack(s, z)) /\ Queued(SetParent(s, z)) /\ Queued(SetOpacity(s, z))
  <2>1. Same(s, Stack(s, z)) /\ Same(s, SetParent(s, z)) /\ Same(s, SetOpacity(s, z))
    BY <1>0 DEF Stack, SetParent, SetOpacity, Same
  <2> QED  BY <1>0, <2>1
<1>4. ASSUME NEW n  PROVE Queued(SetMultitouch(s, n).s)
  <2>1. SetMultitouch(s, n).s = [s EXCEPT !.touches = n]
    BY DEF SetMultitouch
  <2> QED  BY <1>0, <2>1 DEF Same
<1>5. ASSUME NEW r  PROVE Queued(Clip(s, r)) /\ Queued(MarkDirty(s, r))
  <2>1. \A c, d : Same(s, [s EXCEPT !.clipped = c, !.clip = d]) /\ Same(s, [s EXCEPT !.dirty = c, !.rect = d])
    BY <1>0 DEF Same
  <2>2. Same(s, Clip(s, r))
    BY <2>1 DEF Clip
  <2>3. MarkDirty(s, r) = s \/ \E d : MarkDirty(s, r) = [s EXCEPT !.dirty = TRUE, !.rect = d]
    BY DEF MarkDirty
  <2> QED  BY <1>0, <2>1, <2>2, <2>3
<1>6. Queued(ResetClip(s)) /\ Queued(TouchRect(s)) /\ Queued(FlushProperties(s).s)
  <2>1. Same(s, ResetClip(s))
    BY <1>0 DEF ResetClip, Same
  <2>2. Same(s, TouchRect(s))
    BY <1>0 DEF TouchRect, Same
  <2>3. FlushProperties(s).s = s \/ FlushProperties(s).s = [s EXCEPT !.opdirty = FALSE, !.locdirty = FALSE]
    BY DEF FlushProperties
  <2>4. Same(s, [s EXCEPT !.opdirty = FALSE, !.locdirty = FALSE])
    BY <1>0 DEF Same
  <2> QED  BY <1>0, <2>1, <2>2, <2>3, <2>4
<1>7. ASSUME NEW p  PROVE Queued([s EXCEPT !.pix = p]) /\ Queued(Landed(s, p))
  <2>1. \A q : Queued([s EXCEPT !.pix = q])
    BY <1>0 DEF Same
  <2> QED  BY <2>1 DEF Landed
<1>8. Queued([s EXCEPT !.realized = TRUE])
  BY <1>0 DEF Same
<1> QED  BY <1>1, <1>2, <1>3, <1>4, <1>5, <1>6, <1>7, <1>8

(* __guac_common_surface_flush empties the queue.                          *)
LEMMA FlushQueued ==
    ASSUME NEW s, SurfaceFields \subseteq DOMAIN s, NEW noisy
    PROVE  Queued(Flush(s, noisy).s) /\ Flush(s, noisy).s.queue = <<>>
<1> DEFINE st == FlushQueue(FlushToQueue(s), noisy)  t == Flush(s, noisy).s
<1> HIDE DEF st
<1>1. t = [s EXCEPT !.queue = <<>>, !.dirty = st.s.dirty, !.rect = st.s.rect,
                    !.realized = st.s.realized, !.intact = st.s.intact]
  BY DEF Flush, Emptied, st
<1>2. DOMAIN t = DOMAIN s /\ t.queue = <<>>
  BY <1>1 DEF SurfaceFields
<1> HIDE DEF t
<1>3. Queued(t)
  BY <1>2, EmptyQueued
<1> QED  BY <1>2, <1>3 DEF t

(* The dirty rectangle joins a queue that has two entries free.            *)
LEMMA AppendQueued ==
    ASSUME NEW s, Queued(s), Len(s.queue) + 1 < QueueSize
    PROVE  Queued(FlushToQueue(s))
<1>1. CASE ~s.dirty
  BY <1>1 DEF FlushToQueue
<1>2. CASE s.dirty
  <2> DEFINE q == s.queue  T == ToSet(q) \cup {s.rect}  a == Append(q, s.rect)  t == FlushToQueue(s)
  <2>1. q \in Seq(T)
    <3>1. Len(q) \in Nat /\ q \in [1 .. Len(q) -> ToSet(q)]
      BY LenProperties DEF Queued
    <3> HIDE DEF q
    <3>2. q \in [1 .. Len(q) -> T]
      BY <3>1
    <3> HIDE DEF T
    <3> QED  BY <3>1, <3>2, SeqDef
  <2>2. a \in Seq(T) /\ Len(a) = Len(q) + 1 /\ ToSet(a) = ToSet(q) \cup {s.rect}
    <3> DEFINE r == s.rect
    <3> HIDE DEF q, r
    <3>1. q \in Seq(ToSet(q) \cup {r})
      BY <2>1 DEF r
    <3>2. /\ Append(q, r) \in Seq(ToSet(q) \cup {r}) /\ Len(Append(q, r)) = Len(q) + 1
          /\ ToSet(Append(q, r)) = ToSet(q) \cup {r}
      BY <3>1, AppendProperties, SetOfAppend
    <3> QED  BY <3>2 DEF r
  <2>3. DOMAIN t = DOMAIN s /\ t.queue = a
    BY <1>2 DEF FlushToQueue, Queued, SurfaceFields
  <2> HIDE DEF a, t
  <2>4. Queued(t)
    BY <2>2, <2>3 DEF Queued
  <2> QED  BY <2>4 DEF t
<1> QED  BY <1>1, <1>2

(* guac_common_surface_flush_deferred                                      *)
LEMMA DeferredQueued == ASSUME NEW s, Queued(s), NEW noisy  PROVE Queued(FlushDeferred(s, noisy).s)
<1> DEFINE f == IF Len(s.queue) = QueueSize - 1 THEN Flush(s, noisy) ELSE [s |-> s, out |-> <<>>]
<1>1. CASE ~s.dirty
  BY <1>1 DEF FlushDeferred
<1>2. CASE s.dirty
  <2>1. Queued(f.s) /\ Len(f.s.queue) + 1 < QueueSize /\ f.s = f["s"] /\ {"s", "out"} \subseteq DOMAIN f
    <3>1. Len(s.queue) \in Nat /\ QueueSize \in Nat /\ QueueSize > 1 /\ Len(<<>>) = 0
      BY LenProperties, SurfaceConsts, EmptySeq DEF Queued
    <3>2. CASE Len(s.queue) = QueueSize - 1
      <4>1. Queued(Flush(s, noisy).s) /\ Flush(s, noisy).s.queue = <<>> /\ {"s", "out"} \subseteq DOMAIN Flush(s, noisy)
        BY FlushQueued DEF Queued, Flush, Emptied
      <4> QED  BY <3>1, <3>2, <4>1
    <3>3. CASE Len(s.queue) # QueueSize - 1
      <4>1. Len(s.queue) + 1 < QueueSize
        BY <3>1, <3>3 DEF Queued
      <4> QED  BY <3>3, <4>1
    <3> QED  BY <3>2, <3>3
  <2>2. FlushDeferred(s, noisy) = [f EXCEPT !.s = FlushToQueue(@)]
    BY <1>2 DEF FlushDeferred
  <2> HIDE DEF f
  <2>3. FlushDeferred(s, noisy).s = FlushToQueue(f.s)
    BY <2>1, <2>2
  <2> QED  BY <2>1, <2>3, AppendQueued
<1> QED  BY <1>1, <1>2

LEMMA UpdateQueued == ASSUME NEW s, Queued(s), NEW r, NEW noisy  PROVE Queued(AddUpdate(s, r, noisy).s)
<1> DEFINE f == IF ShouldCombine(s, r, FALSE) THEN [s |-> s, out |-> <<>>] ELSE FlushDeferred(s, noisy)
<1>1. Queued(f.s) /\ {"s", "out"} \subseteq DOMAIN f
  <2>1. Queued(FlushDeferred(s, noisy).s)
    BY DeferredQueued
  <2>2. {"s", "out"} \subseteq DOMAIN FlushDeferred(s, noisy)
    BY DEF FlushDeferred, Flush, Emptied
  <2> QED  BY <2>1, <2>2
<1>2. AddUpdate(s, r, noisy) = [f EXCEPT !.s = MarkDirty(@, r)]
  BY DEF AddUpdate
<1> HIDE DEF f
<1>3. AddUpdate(s, r, noisy).s = MarkDirty(f.s, r)
  BY <1>1, <1>2
<1> QED  BY <1>1, <1>3, SmallQueued

(* The calls that draw, resize and flush.                                  *)
LEMMA DrawQueued ==
    ASSUME NEW s, Queued(s), NEW noisy
    PROVE  /\ \A x, y, w, h, src, opaque : Queued(Draw(s, x, y, w, h, src, opaque, noisy).s)
           /\ \A x, y, w, h, stencil, colour : Queued(Paint(s, x, y, w, h, stencil, colour, noisy).s)
           /\ \A r, colour : Queued(Set(s, r, colour, noisy).s)
           /\ \A w, h : Queued(Resize(s, w, h).s)
           /\ Queued(SurfaceFlush(s, noisy).s)
<1>0. Queued(Silent(s).s)
  BY DEF Silent
<1>1. \A p : Queued([s EXCEPT !.pix = p])
  BY SmallQueued
<1>2. ASSUME NEW x, NEW y, NEW w, NEW h, NEW src, NEW opaque
      PROVE  Queued(Draw(s, x, y, w, h, src, opaque, noisy).s)
  <2>1. \A p, d : Queued(AddUpdate(TouchRect([s EXCEPT !.pix = p]), d, noisy).s)
    BY <1>1, SmallQueued, UpdateQueued
  <2> QED  BY <1>0, <2>1 DEF Draw
<1>3. ASSUME NEW x, NEW y, NEW w, NEW h, NEW stencil, NEW colour
      PROVE  Queued(Paint(s, x, y, w, h, stencil, colour, noisy).s)
  <2>1. \A p, d : Queued(AddUpdate([s EXCEPT !.pix = p], d, noisy).s)
    BY <1>1, UpdateQueued
  <2> QED  BY <1>0, <2>1 DEF Paint
<1>4. ASSUME NEW r, NEW colour  PROVE Queued(Set(s, r, colour, noisy).s)
  <2>1. ASSUME NEW t, Queued(t), NEW d  PROVE Queued(SetRect(t, d, colour, noisy).s)
    <3>1. Queued(AddUpdate(t, d, noisy).s) /\ Queued(Silent(MarkDirty(t, d)).s)
      BY <2>1, UpdateQueued, SmallQueued DEF Silent
    <3>2. Queued(FillAfter(Flush(t, noisy), d, colour).s)
      <4>1. Queued(Flush(t, noisy).s)
        BY <2>1, FlushQueued DEF Queued
      <4>2. FillAfter(Flush(t, noisy), d, colour).s = [Flush(t, noisy).s EXCEPT !.realized = TRUE]
        BY DEF FillAfter
      <4> QED  BY <4>1, <4>2, SmallQueued
    <3> QED  BY <3>1, <3>2 DEF SetRect
  <2>2. \A p, d : Queued(SetRect([s EXCEPT !.pix = p], d, colour, noisy).s)
    BY <1>1, <2>1
  <2> QED  BY <1>0, <2>2 DEF Set
<1>5. ASSUME NEW w, NEW h  PROVE Queued(Resize(s, w, h).s)
  <2>1. Same(s, Resize(s, w, h).s)
    <3>1. Same(s, Resized(s, w, h))
      BY DEF Resized, Same, Queued, SurfaceFields
    <3> QED  BY <3>1 DEF Resize, Silent, Same
  <2> QED  BY <2>1, SameQueued
<1>6. Queued(SurfaceFlush(s, noisy).s)
  <2> DEFINE p == FlushProperties(s)
  <2>1. Queued(p.s)
    BY SmallQueued
  <2>2. Queued(Flush(p.s, noisy).s)
    BY <2>1, FlushQueued DEF Queued
  <2>3. SurfaceFlush(s, noisy).s = Flush(p.s, noisy).s
    BY DEF SurfaceFlush, FlushAfter, Flush, Emptied
  <2> QED  BY <2>2, <2>3
<1> QED  BY <1>2, <1>3, <1>4, <1>5, <1>6

(* guac_common_surface_copy and guac_common_surface_transfer               *)
LEMMA CopyQueued ==
    ASSUME NEW src, NEW dst, Queued(src), Queued(dst), NEW sr, NEW x, NEW y, NEW op, NEW over, NEW noisy
    PROVE  LET r == CopyOrTransfer(src, sr, dst, x, y, op, over, noisy) IN Queued(r.src) /\ Queued(r.dst)
<1>1. ASSUME NEW d, Queued(d), NEW p
      PROVE  Queued(CopyNow(src, d, p, noisy).src) /\ Queued(CopyNow(src, d, p, noisy).dst)
  <2>1. Queued(Landed(MarkDirty(d, p.d), p))
    BY <1>1, SmallQueued
  <2>2. ASSUME NEW fd, NEW fs, Queued(fd.s), Queued(fs.s)
        PROVE  Queued(CopySent(src, p, fd, fs).src) /\ Queued(CopySent(src, p, fd, fs).dst)
    <3>1. \A b : Queued([fd.s EXCEPT !.realized = TRUE, !.intact = b])
      <4>1. "queue" \in DOMAIN fd.s /\ \A t : Same(fd.s, t) => Queued(t)
        BY <2>2, SameQueued DEF Queued, SurfaceFields
      <4> DEFINE u == fd.s
      <4> HIDE DEF u
      <4>2. \A b : Same(u, [u EXCEPT !.realized = TRUE, !.intact = b])
        BY <4>1 DEF Same, u
      <4> QED  BY <4>1, <4>2 DEF u
    <3>2. \A b : Queued(Landed([fd.s EXCEPT !.realized = TRUE, !.intact = b], p))
      BY <3>1, SmallQueued
    <3> QED  BY <2>2, <3>2 DEF CopySent
  <2>3. Queued(Flush(d, noisy).s) /\ Queued((IF p.same THEN Silent(src) ELSE Flush(src, noisy)).s)
    BY <1>1, FlushQueued DEF Queued, Silent
  <2> QED  BY <2>1, <2>2, <2>3 DEF CopyNow
<1>2. ASSUME NEW p  PROVE Queued(CopyAs(src, dst, p, noisy).src) /\ Queued(CopyAs(src, dst, p, noisy).dst)
  <2>1. Queued([dst EXCEPT !.pix = p.pix])
    BY SmallQueued
  <2> QED  BY <1>1, <2>1 DEF CopyAs
<1> QED  BY <1>2 DEF CopyOrTransfer

(* A surface that was just allocated.                                      *)
LEMMA AllocQueued == ASSUME NEW i, NEW w, NEW h  PROVE Queued(SurfaceAlloc(i, w, h).s)
<1> DEFINE s == SurfaceAlloc(i, w, h).s
<1>1. SurfaceFields \subseteq DOMAIN s /\ s.queue = <<>>
  BY DEF SurfaceAlloc, NewSurface, SurfaceFields
<1> HIDE DEF s
<1>2. Queued(s)
  BY <1>1, EmptyQueued
<1> QED  BY <1>2 DEF s

-----------------------------------------------------------------------------
(* The display.                                                            *)

SurfacesQueued == \A i \in Live : Queued(surf[i])

(* What the pending users have of the cursor, and what a promotion is at.  *)
CursorTypes ==
    /\ DOMAIN view = Users /\ \A u \in Users : {"layer", "image", "mouse"} \subseteq DOMAIN view[u]
    /\ {"image", "user", "at"} \subseteq DOMAIN cursor
    /\ stage \in [Users -> {"out", "pending", "full"}]
    /\ {"pc", "todo", "done"} \subseteq DOMAIN promo

HasCursor(u) == view[u].image = cursor.image /\ (u # cursor.user => view[u].mouse = cursor.at)

CursorOf(u) ==
    /\ stage[u] = "full" /\ u \notin missed => HasCursor(u)
    /\ stage[u] = "pending" /\ promo.pc = "idle" => view[u].image = "none"
    /\ stage[u] = "pending" /\ promo.pc # "idle" /\ u \notin missed => HasCursor(u)

CursorInv == CursorTypes /\ \A u \in Users : CursorOf(u)

(* Instructions for surfaces leave the cursor alone.                       *)
LEMMA BroadcastKeeps ==
    ASSUME CursorInv, NEW out, Broadcast(out), UNCHANGED <<cursor, stage, promo>>
    PROVE  CursorInv'
<1>1. ASSUME NEW u \in Users
      PROVE  /\ {"layer", "image", "mouse"} \subseteq DOMAIN view'[u]
             /\ view'[u].image = view[u].image /\ view'[u].mouse = view[u].mouse
  BY DEF Broadcast, ApplyAll, CursorInv, CursorTypes
<1>2. missed \subseteq missed' /\ DOMAIN view' = Users
  BY DEF Broadcast
<1>3. CursorTypes'
  BY <1>1, <1>2 DEF CursorInv, CursorTypes
<1>4. ASSUME NEW u \in Users  PROVE CursorOf(u)'
  BY <1>1, <1>2 DEF CursorInv, CursorOf, HasCursor
<1> QED  BY <1>3, <1>4 DEF CursorInv

(* A step that the cursor and the users do not see.                        *)
LEMMA QuietKeeps ==
    ASSUME CursorInv, UNCHANGED <<cursor, stage, promo, view, missed>>
    PROVE  CursorInv'
  BY DEF CursorInv, CursorTypes, CursorOf, HasCursor

(* guac_common_cursor_update and guac_common_cursor_set_argb               *)
LEMMA CursorUpdateKeeps == ASSUME CursorInv, NEW u \in Users, NEW at, CursorUpdate(u, at)  PROVE CursorInv'
<1>1. /\ cursor' = [cursor EXCEPT !.user = u, !.at = at] /\ UNCHANGED <<stage, promo>>
      /\ view' = [v \in Users |-> IF stage[v] = "full" /\ v \in Users \ {u}
                                  THEN [view[v] EXCEPT !.mouse = at] ELSE view[v]]
      /\ missed' = IF promo.pc # "idle" THEN missed \cup {v \in Users : stage[v] = "pending"} ELSE missed
  BY DEF CursorUpdate, ToUsers, CursorFrame
<1>2. cursor'.image = cursor.image /\ cursor'.user = u /\ cursor'.at = at /\ DOMAIN cursor' = DOMAIN cursor
  BY <1>1 DEF CursorInv, CursorTypes
<1>3. CursorTypes'
  BY <1>1, <1>2 DEF CursorInv, CursorTypes
<1>4. ASSUME NEW v \in Users  PROVE CursorOf(v)'
  <2>1. view'[v].image = view[v].image /\ (stage[v] = "full" /\ v # u => view'[v].mouse = at)
        /\ (stage[v] # "full" \/ v = u => view'[v] = view[v])
    BY <1>1 DEF CursorInv, CursorTypes
  <2> QED  BY <1>1, <1>2, <2>1 DEF CursorInv, CursorOf, HasCursor
<1> QED  BY <1>3, <1>4 DEF CursorInv

LEMMA CursorSetKeeps == ASSUME CursorInv, NEW image, CursorSet(image)  PROVE CursorInv'
<1>1. /\ cursor' = [cursor EXCEPT !.image = image] /\ UNCHANGED <<stage, promo>>
      /\ view' = [v \in Users |-> IF stage[v] = "full" /\ v \in Users
                                  THEN [view[v] EXCEPT !.image = image] ELSE view[v]]
      /\ missed' = IF promo.pc # "idle" THEN missed \cup {v \in Users : stage[v] = "pending"} ELSE missed
  BY DEF CursorSet, ToUsers, CursorFrame
<1>2. cursor'.image = image /\ cursor'.user = cursor.user /\ cursor'.at = cursor.at /\ DOMAIN cursor' = DOMAIN cursor
  BY <1>1 DEF CursorInv, CursorTypes
<1>3. CursorTypes'
  BY <1>1, <1>2 DEF CursorInv, CursorTypes
<1>4. ASSUME NEW v \in Users  PROVE CursorOf(v)'
  <2>1. /\ stage[v] = "full" => view'[v].image = image /\ view'[v].mouse = view[v].mouse
        /\ stage[v] # "full" => view'[v] = view[v]
    BY <1>1 DEF CursorInv, CursorTypes
  <2> QED  BY <1>1, <1>2, <2>1 DEF CursorInv, CursorOf, HasCursor
<1> QED  BY <1>3, <1>4 DEF CursorInv

(* Users come, leave and are promoted.                                     *)
UserStep ==
    \/ \E u \in Users : AddUser(u) \/ RemoveUser(u)
    \/ StartDup \/ DupSurface \/ EndDup \/ Promote

LEMMA UserStepKeeps == ASSUME CursorInv, UserStep  PROVE CursorInv'
<1> USE DEF CursorInv, CursorTypes
<1>1. ASSUME NEW u \in Users, AddUser(u)  PROVE CursorInv'
  <2>1. view'[u] = BlankView /\ stage'[u] = "pending" /\ \A v \in Users \ {u} : view'[v] = view[v] /\ stage'[v] = stage[v]
    BY <1>1 DEF AddUser
  <2>2. promo.pc = "idle" /\ UNCHANGED <<cursor, promo, missed>> /\ DOMAIN view' = Users
        /\ stage' \in [Users -> {"out", "pending", "full"}]
    BY <1>1 DEF AddUser
  <2>3. BlankView.image = "none" /\ {"layer", "image", "mouse"} \subseteq DOMAIN BlankView
    BY DEF BlankView
  <2>4. CursorTypes'
    BY <2>1, <2>2, <2>3
  <2>5. ASSUME NEW v \in Users  PROVE CursorOf(v)'
    BY <2>1, <2>2, <2>3 DEF CursorOf, HasCursor
  <2> QED  BY <2>4, <2>5
<1>2. ASSUME NEW u \in Users, RemoveUser(u)  PROVE CursorInv'
  <2>1. view'[u] = BlankView /\ stage'[u] = "out" /\ \A v \in Users \ {u} : view'[v] = view[v] /\ stage'[v] = stage[v]
    BY <1>2 DEF RemoveUser
  <2>2. promo.pc = "idle" /\ promo' = promo /\ missed' = missed \ {u} /\ DOMAIN view' = Users
        /\ stage' \in [Users -> {"out", "pending", "full"}]
    BY <1>2 DEF RemoveUser
  <2>3. {"layer", "image", "mouse"} \subseteq DOMAIN BlankView
    BY DEF BlankView
  <2>4. /\ cursor'.image = cursor.image /\ cursor'.at = cursor.at /\ DOMAIN cursor' = DOMAIN cursor
        /\ \A v \in Users \ {u} : v # cursor'.user => v # cursor.user
    BY <1>2, DisplayConsts DEF RemoveUser, CursorRemoveUser
  <2>5. CursorTypes'
    BY <2>1, <2>2, <2>3, <2>4
  <2>6. ASSUME NEW v \in Users  PROVE CursorOf(v)'
    BY <2>1, <2>2, <2>4 DEF CursorOf, HasCursor
  <2> QED  BY <2>5, <2>6
<1>3. CASE StartDup
  <2>1. /\ promo.pc = "idle" /\ promo' = [pc |-> "dup", todo |-> DupOrder, done |-> {}]
        /\ UNCHANGED <<cursor, stage, missed>> /\ DOMAIN view' = Users
    BY <1>3 DEF StartDup, ToPending
  <2>2. ASSUME NEW v \in Users
        PROVE  /\ stage[v] # "pending" => view'[v] = view[v]
               /\ stage[v] = "pending" => /\ DOMAIN view'[v] = DOMAIN view[v] /\ view'[v].mouse = cursor.at
                                          /\ view'[v].image = IF cursor.image = "none" THEN view[v].image ELSE cursor.image
    <3>1. CASE stage[v] # "pending"
      BY <1>3, <3>1 DEF StartDup, ToPending
    <3>2. CASE stage[v] = "pending"
      <4>1. view'[v] = CursorDup(view[v])
        BY <1>3, <3>2 DEF StartDup, ToPending
      <4> QED  BY <3>2, <4>1 DEF CursorDup
    <3> QED  BY <3>1, <3>2
  <2>3. promo'.pc = "dup" /\ {"pc", "todo", "done"} \subseteq DOMAIN promo'
    BY <2>1
  <2>4. CursorTypes'
    BY <2>1, <2>2, <2>3
  <2>5. ASSUME NEW v \in Users  PROVE CursorOf(v)'
    BY <2>1, <2>2, <2>3 DEF CursorOf, HasCursor
  <2> QED  BY <2>4, <2>5
<1>4. CASE DupSurface
  <2>1. /\ promo.pc = "dup" /\ promo'.pc = "dup" /\ DOMAIN promo' = DOMAIN promo
        /\ UNCHANGED <<cursor, stage, missed>> /\ DOMAIN view' = Users
    BY <1>4 DEF DupSurface, ToPending
  <2>2. ASSUME NEW v \in Users
        PROVE  DOMAIN view'[v] = DOMAIN view[v] /\ view'[v].mouse = view[v].mouse /\ view'[v].image = view[v].image
    BY <1>4 DEF DupSurface, ToPending, ApplyAll
  <2>3. CursorTypes'
    BY <2>1, <2>2
  <2>4. ASSUME NEW v \in Users  PROVE CursorOf(v)'
    BY <2>1, <2>2 DEF CursorOf, HasCursor
  <2> QED  BY <2>3, <2>4
<1>5. CASE EndDup
  <2>1. /\ promo.pc = "dup" /\ promo'.pc = "sent" /\ DOMAIN promo' = DOMAIN promo
        /\ UNCHANGED <<cursor, stage, missed, view>>
    BY <1>5 DEF EndDup
  <2> QED  BY <2>1 DEF CursorOf, HasCursor
<1>6. CASE Promote
  <2>1. /\ promo.pc = "sent" /\ promo' = Idle /\ UNCHANGED <<cursor, view, missed>>
        /\ stage' = [u \in Users |-> IF stage[u] = "pending" THEN "full" ELSE stage[u]]
    BY <1>6 DEF Promote
  <2>2. promo'.pc = "idle" /\ {"pc", "todo", "done"} \subseteq DOMAIN promo'
    BY <2>1 DEF Idle
  <2>3. CursorTypes'
    BY <2>1, <2>2
  <2>4. ASSUME NEW v \in Users  PROVE CursorOf(v)'
    BY <2>1, <2>2 DEF CursorOf, HasCursor
  <2> QED  BY <2>3, <2>4
<1> QED  BY <1>1, <1>2, <1>3, <1>4, <1>5, <1>6 DEF UserStep

(* The display before the first call of the protocol's thread.             *)
DisplayInv == SurfacesQueued /\ CursorInv

LEMMA DisplayInitially == Init => DisplayInv
<1> SUFFICES ASSUME Init  PROVE DisplayInv
  OBVIOUS
<1> DEFINE fresh == SurfaceAlloc(0, MaxW, MaxH)
<1>1. PICK first \in FirstUpdate(fresh) : Started(fresh, first)
  BY DEF Init
<1>2. Queued(first.s)
  <2>1. Queued(fresh.s)
    BY AllocQueued
  <2> HIDE DEF fresh
  <2>2. Queued(Silent(fresh.s).s)
    BY <2>1 DEF Silent
  <2> QED  BY <2>1, <2>2, DrawQueued DEF FirstUpdate
<1> HIDE DEF fresh
<1>3. SurfacesQueued
  BY <1>1, <1>2 DEF Started, SurfacesQueued, Live
<1>4. PICK owner \in Users :
        /\ stage = [u \in Users |-> IF u = owner THEN "full" ELSE "out"]
        /\ view = [u \in Users |-> IF u = owner
                                   THEN [ApplyAll(BlankView, fresh.out \o first.out) EXCEPT !.mouse = "origin"]
                                   ELSE BlankView]
  BY <1>1 DEF Started
<1>5. \A out : LET v == [ApplyAll(BlankView, out) EXCEPT !.mouse = "origin"]
               IN  {"layer", "image", "mouse"} \subseteq DOMAIN v /\ v.image = "none" /\ v.mouse = "origin"
  BY DEF ApplyAll, BlankView
<1>6. /\ cursor.image = "none" /\ cursor.at = "origin" /\ {"image", "user", "at"} \subseteq DOMAIN cursor
      /\ promo.pc = "idle" /\ {"pc", "todo", "done"} \subseteq DOMAIN promo
  BY DEF Init, CursorAlloc, Idle
<1>7. /\ {"layer", "image", "mouse"} \subseteq DOMAIN BlankView
  BY DEF BlankView
<1>8. \A u \in Users : /\ {"layer", "image", "mouse"} \subseteq DOMAIN view[u]
                       /\ stage[u] = "full" => view[u].image = "none" /\ view[u].mouse = "origin"
  BY <1>4, <1>5, <1>7
<1>9. CursorTypes
  BY <1>4, <1>6, <1>8 DEF CursorTypes
<1>10. ASSUME NEW u \in Users  PROVE CursorOf(u)
  BY <1>4, <1>6, <1>8 DEF CursorOf, HasCursor
<1> QED  BY <1>3, <1>9, <1>10 DEF DisplayInv, CursorInv

(* A call on one surface, on two, or on the display.                       *)
LEMMA OneSurface ==
    ASSUME DisplayInv, NEW i, NEW r, i \in Live => Queued(r.s), Done(i, r)
    PROVE  DisplayInv'
<1>1. SurfacesQueued'
  BY DEF DisplayInv, Done, SurfacesQueued, Live
<1>2. CursorInv'
  BY BroadcastKeeps DEF DisplayInv, Done, SurfaceFrame
<1> QED  BY <1>1, <1>2 DEF DisplayInv

LEMMA TwoSurfaces ==
    ASSUME DisplayInv, NEW i, NEW j, NEW r, Queued(r.src), Queued(r.dst), Pair(i, j, r)
    PROVE  DisplayInv'
<1>1. SurfacesQueued'
  BY DEF DisplayInv, Pair, SurfacesQueued, Live
<1>2. CursorInv'
  BY BroadcastKeeps DEF DisplayInv, Pair, SurfaceFrame
<1> QED  BY <1>1, <1>2 DEF DisplayInv

LEMMA SurfaceCall ==
    ASSUME DisplayInv, NEW i \in Live, NEW noisy
    PROVE  /\ \A at, img : DrawCall(i, at, img, noisy) => DisplayInv'
           /\ \A at, img, colour : PaintCall(i, at, img, colour, noisy) => DisplayInv'
           /\ \A r, colour : SetCall(i, r, colour, noisy) => DisplayInv'
           /\ \A r : ClipCall(i, r) => DisplayInv'
           /\ ResetClipCall(i) => DisplayInv'
           /\ \A size : ResizeCall(i, size) => DisplayInv'
           /\ \A at : MoveCall(i, at) => DisplayInv'
           /\ \A z : StackCall(i, z) \/ ParentCall(i, z) \/ OpacityCall(i, z) => DisplayInv'
           /\ FlushCall(i, noisy) => DisplayInv'
           /\ \A j \in Live : \A r, at : CopyCall(i, r, j, at, noisy) => DisplayInv'
           /\ \A j \in Live : \A r, at, op : TransferCall(i, r, j, at, op, noisy) => DisplayInv'
<1>0. Queued(surf[i]) /\ \A j \in Live : Queued(surf[j])
  BY DEF DisplayInv, SurfacesQueued
<1>1. \A s : Queued(s) => Queued(Silent(s).s)
  BY DEF Silent
<1>2. \A at, img : DrawCall(i, at, img, noisy) => DisplayInv'
  BY <1>0, DrawQueued, OneSurface DEF DrawCall
<1>3. \A at, img, colour : PaintCall(i, at, img, colour, noisy) => DisplayInv'
  BY <1>0, DrawQueued, OneSurface DEF PaintCall
<1>4. \A r, colour : SetCall(i, r, colour, noisy) => DisplayInv'
  BY <1>0, DrawQueued, OneSurface DEF SetCall
<1>5. \A r : ClipCall(i, r) => DisplayInv'
  <2>1. \A r : Queued(Clip(surf[i], r))
    BY <1>0, SmallQueued
  <2>2. \A r : Queued(Silent(Clip(surf[i], r)).s)
    BY <1>1, <2>1
  <2> QED  BY <2>2, OneSurface DEF ClipCall
<1>6. ResetClipCall(i) => DisplayInv'
  BY <1>0, <1>1, SmallQueued, OneSurface DEF ResetClipCall
<1>7. \A size : ResizeCall(i, size) => DisplayInv'
  BY <1>0, DrawQueued, OneSurface DEF ResizeCall
<1>8. \A at : MoveCall(i, at) => DisplayInv'
  <2>1. \A x, y : Queued(Move(surf[i], x, y))
    BY <1>0, SmallQueued
  <2>2. \A x, y : Queued(Silent(Move(surf[i], x, y)).s)
    BY <1>1, <2>1
  <2> QED  BY <2>2, OneSurface DEF MoveCall
<1>9. \A z : StackCall(i, z) \/ ParentCall(i, z) \/ OpacityCall(i, z) => DisplayInv'
  <2>1. \A z : Queued(Stack(surf[i], z)) /\ Queued(SetParent(surf[i], z)) /\ Queued(SetOpacity(surf[i], z))
    BY <1>0, SmallQueued
  <2>2. \A z : /\ Queued(Silent(Stack(surf[i], z)).s) /\ Queued(Silent(SetParent(surf[i], z)).s)
                /\ Queued(Silent(SetOpacity(surf[i], z)).s)
    BY <1>1, <2>1
  <2> QED  BY <2>2, OneSurface DEF StackCall, ParentCall, OpacityCall
<1>10. FlushCall(i, noisy) => DisplayInv'
  BY <1>0, DrawQueued, OneSurface DEF FlushCall
<1>11. \A j \in Live : \A r, at : CopyCall(i, r, j, at, noisy) => DisplayInv'
  BY <1>0, CopyQueued, TwoSurfaces DEF CopyCall, Copy
<1>12. \A j \in Live : \A r, at, op : TransferCall(i, r, j, at, op, noisy) => DisplayInv'
  BY <1>0, CopyQueued, TwoSurfaces DEF TransferCall, Transfer
<1> QED  BY <1>2, <1>3, <1>4, <1>5, <1>6, <1>7, <1>8, <1>9, <1>10, <1>11, <1>12

LEMMA DisplayCall ==
    ASSUME DisplayInv
    PROVE  /\ MultitouchCall(1) => DisplayInv'
           /\ \A b : DisplaySetLossless(b) => DisplayInv'
           /\ \A n : DisplayFlush(n) => DisplayInv'
           /\ \A i, size : AllocLayer(i, size) \/ AllocBuffer(i, size) => DisplayInv'
           /\ \A i : FreeLayer(i) \/ FreeBuffer(i) => DisplayInv'
           /\ DisplayFree => DisplayInv'
<1>0. \A j \in Live : Queued(surf[j])
  BY DEF DisplayInv, SurfacesQueued
<1>1. MultitouchCall(1) => DisplayInv'
  BY <1>0, SmallQueued, OneSurface DEF MultitouchCall
<1>2. ASSUME NEW b, DisplaySetLossless(b)  PROVE DisplayInv'
  <2>1. SurfacesQueued'
    BY <1>0, <1>2, SmallQueued DEF DisplaySetLossless, SurfacesQueued, Live
  <2>2. CursorInv'
    BY <1>2, QuietKeeps DEF DisplayInv, DisplaySetLossless, DisplayFrame
  <2> QED  BY <2>1, <2>2 DEF DisplayInv
<1>3. ASSUME NEW n, DisplayFlush(n)  PROVE DisplayInv'
  <2>1. \A j \in Live : Queued(SurfaceFlush(surf[j], n).s)
    BY <1>0, DrawQueued
  <2>2. SurfacesQueued'
    BY <1>0, <1>3, <2>1 DEF DisplayFlush, FlushedAs, SurfacesQueued, Live
  <2>3. CursorInv'
    BY <1>3, BroadcastKeeps DEF DisplayInv, DisplayFlush, FlushedAs, DisplayFrame
  <2> QED  BY <2>2, <2>3 DEF DisplayInv
<1>4. ASSUME NEW i, NEW size, AllocLayer(i, size) \/ AllocBuffer(i, size)  PROVE DisplayInv'
  <2>1. Added(i, size) /\ UNCHANGED <<cursor, stage, promo>>
    BY <1>4 DEF AllocLayer, AllocBuffer, DisplayFrame
  <2>2. Queued(SetLossless(SurfaceAlloc(i, size[1], size[2]).s, lossless))
    BY AllocQueued, SmallQueued
  <2>3. SurfacesQueued'
    BY <1>0, <2>1, <2>2 DEF Added, SurfacesQueued, Live
  <2>4. CursorInv'
    BY <2>1, BroadcastKeeps DEF DisplayInv, Added
  <2> QED  BY <2>3, <2>4 DEF DisplayInv
<1>5. ASSUME NEW i, FreeLayer(i) \/ FreeBuffer(i)  PROVE DisplayInv'
  <2>1. surf' = Without(i) /\ Broadcast(SurfaceFree(surf[i])) /\ UNCHANGED <<cursor, stage, promo>>
    BY <1>5 DEF FreeLayer, FreeBuffer, DisplayFrame
  <2>2. SurfacesQueued'
    BY <1>0, <2>1 DEF Without, SurfacesQueued, Live
  <2>3. CursorInv'
    BY <2>1, BroadcastKeeps DEF DisplayInv
  <2> QED  BY <2>2, <2>3 DEF DisplayInv
<1>6. ASSUME DisplayFree  PROVE DisplayInv'
  <2>1. SurfacesQueued'
    BY <1>6 DEF DisplayFree, SurfacesQueued, Live
  <2>2. CursorInv'
    BY <1>6, BroadcastKeeps DEF DisplayInv, DisplayFree, DisplayFrame
  <2> QED  BY <2>1, <2>2 DEF DisplayInv
<1> QED  BY <1>1, <1>2, <1>3, <1>4, <1>5, <1>6

LEMMA DisplayStep == DisplayInv /\ [Next]_vars => DisplayInv'
<1> SUFFICES ASSUME DisplayInv, [Next]_vars  PROVE DisplayInv'
  OBVIOUS
<1>1. CASE UNCHANGED vars
  <2>1. SurfacesQueued'
    BY <1>1 DEF vars, DisplayInv, SurfacesQueued, Live
  <2>2. CursorInv'
    BY <1>1, QuietKeeps DEF vars, DisplayInv
  <2> QED  BY <2>1, <2>2 DEF DisplayInv
<1>2. ASSUME UserStep  PROVE DisplayInv'
  <2>1. surf' = surf
    BY <1>2 DEF UserStep, AddUser, RemoveUser, StartDup, DupSurface, EndDup, Promote, UserFrame
  <2>2. SurfacesQueued'
    BY <2>1 DEF DisplayInv, SurfacesQueued, Live
  <2>3. CursorInv'
    BY <1>2, UserStepKeeps DEF DisplayInv
  <2> QED  BY <2>2, <2>3 DEF DisplayInv
<1>3. ASSUME (\E image \in CursorImages : CursorSet(image)) \/ (\E u \in Users, at \in Spots : CursorUpdate(u, at))
      PROVE  DisplayInv'
  <2>1. surf' = surf
    BY <1>3 DEF CursorSet, CursorUpdate, CursorFrame
  <2>2. SurfacesQueued'
    BY <2>1 DEF DisplayInv, SurfacesQueued, Live
  <2>3. CursorInv'
    BY <1>3, CursorSetKeeps, CursorUpdateKeeps DEF DisplayInv
  <2> QED  BY <2>2, <2>3 DEF DisplayInv
<1>4. CASE \E c \in Draws : c[1] \in Live /\ \E n \in Noise({c[1]}) : DrawCall(c[1], c[2], c[3], n)
  BY <1>4, SurfaceCall
<1>5. CASE \E c \in Paints : c[1] \in Live /\ \E n \in Noise({c[1]}) : PaintCall(c[1], c[2], c[3], c[4], n)
  BY <1>5, SurfaceCall
<1>6. CASE \E c \in Sets : c[1] \in Live /\ \E n \in Noise({c[1]}) : SetCall(c[1], c[2], c[3], n)
  BY <1>6, SurfaceCall
<1>7. CASE \E c \in Copies : {c[1], c[3]} \subseteq Live
                             /\ \E n \in Noise({c[1], c[3]}) : CopyCall(c[1], c[2], c[3], c[4], n)
  BY <1>7, SurfaceCall
<1>8. CASE \E c \in Transfers : {c[1], c[3]} \subseteq Live
                                /\ \E n \in Noise({c[1], c[3]}) : TransferCall(c[1], c[2], c[3], c[4], c[5], n)
  BY <1>8, SurfaceCall
<1>9. CASE \/ \E c \in Clips : c[1] \in Live /\ (ClipCall(c[1], c[2]) \/ ResetClipCall(c[1]))
           \/ \E c \in Resizes : c[1] \in Live /\ ResizeCall(c[1], c[2])
           \/ \E i \in Live : \E n \in Noise({i}) : FlushCall(i, n)
  BY <1>9, SurfaceCall
<1>10. CASE \E i \in Live \cap LayerIdx :
              \/ \E at \in Moves : MoveCall(i, at)
              \/ StackCall(i, 1) \/ ParentCall(i, i) \/ OpacityCall(i, 0)
              \/ FreeLayer(i)
  BY <1>10, SurfaceCall, DisplayCall
<1>11. CASE \/ \E i \in Live \cap BufferIdx : FreeBuffer(i)
            \/ \E size \in AllocSizes : \/ \E i \in LayerIdx : AllocLayer(i, size)
                                        \/ \E i \in BufferIdx : AllocBuffer(i, size)
            \/ alive /\ MultitouchCall(1)
            \/ DisplaySetLossless(~lossless)
            \/ \E n \in Noise(Live) : DisplayFlush(n)
            \/ DisplayFree
  BY <1>11, DisplayCall
<1> QED  BY <1>1, <1>2, <1>3, <1>4, <1>5, <1>6, <1>7, <1>8, <1>9, <1>10, <1>11 DEF Next, UserStep

LEMMA DisplayAlways == Spec => []DisplayInv
  BY DisplayInitially, DisplayStep, PTL DEF Spec

(* Between two calls every surface's array of rectangles has an entry      *)
(* free, so that the flush can put the dirty rectangle into it without     *)
(* looking: for any size of the array, any surfaces, and any order of      *)
(* drawing, copying, resizing and flushing (surface.c:669-719, 1893).      *)
THEOREM QueuesBounded == Spec => []QueueBounded
<1>1. DisplayInv => QueueBounded
  BY DEF DisplayInv, SurfacesQueued, Queued, QueueBounded
<1> QED  BY <1>1, DisplayAlways, PTL

(* Whoever has joined has the image of the cursor and its place, unless    *)
(* that user was the last to move it or an instruction went past the copy  *)
(* made for the pending users: for any number of users who come, move the  *)
(* cursor, and leave in the middle of another's promotion                  *)
(* (cursor.c:107-185, display.c's guac_common_display_dup).                *)
THEOREM CursorSharedAlways == Spec => []CursorShared
<1>1. DisplayInv => CursorShared
  BY DEF DisplayInv, CursorInv, CursorOf, HasCursor, CursorShared
<1> QED  BY <1>1, DisplayAlways, PTL
-----------------------------------------------------------------------------
(* The pipe of a terminal.                                                 *)

(* The handlers of a byte.                                                 *)
HandlerNames == {"echo", "escape", "csi", "g0", "g1", "ctrl", "apc", "osc", "download", "directory",
                 "title", "openpipe", "closepipe", "scrollback", "palette"}

(* A terminal with a pipe and a handler; what leaves its pipe alone.       *)
HasPipe(t) == {"pipe", "handler"} \subseteq DOMAIN t /\ t.handler \in HandlerNames
Kept(t, u) == HasPipe(t) => HasPipe(u) /\ u.pipe = t.pipe

LEMMA KeptTwice ==
    ASSUME NEW t, NEW u, NEW v, Kept(t, u), Kept(u, v)  PROVE Kept(t, v)
  BY DEF Kept

LEMMA KeptSelf == ASSUME NEW t  PROVE Kept(t, t)
  BY DEF Kept

LEMMA FieldKept ==
    ASSUME NEW t, NEW x
    PROVE  /\ Kept(t, [t EXCEPT !.rows = x]) /\ Kept(t, [t EXCEPT !.intact = x])
           /\ Kept(t, [t EXCEPT !.len = x]) /\ Kept(t, [t EXCEPT !.modified = x])
           /\ Kept(t, [t EXCEPT !.vc = x]) /\ Kept(t, [t EXCEPT !.vr = x])
           /\ Kept(t, [t EXCEPT !.cr = x]) /\ Kept(t, [t EXCEPT !.cc = x])
           /\ Kept(t, [t EXCEPT !.off = x]) /\ Kept(t, [t EXCEPT !.written = x])
           /\ Kept(t, [t EXCEPT !.stdin = x]) /\ Kept(t, [t EXCEPT !.curvis = x])
           /\ Kept(t, [t EXCEPT !.calls = x]) /\ Kept(t, [t EXCEPT !.att = x])
           /\ Kept(t, [t EXCEPT !.pal = x]) /\ Kept(t, [t EXCEPT !.p = x])
           /\ Kept(t, [t EXCEPT !.g = x]) /\ Kept(t, [t EXCEPT !.bar.value = x])
           /\ Kept(t, [t EXCEPT !.bar.handle = x]) /\ Kept(t, [t EXCEPT !.cursor = x])
           /\ Kept(t, [t EXCEPT !.mask = x]) /\ Kept(t, [t EXCEPT !.mods = x])
           /\ Kept(t, [t EXCEPT !.send = x]) /\ Kept(t, [t EXCEPT !.outer = x])
  BY DEF Kept, HasPipe

LEMMA DrawnKept == ASSUME NEW t, NEW u  PROVE Kept(t, Drawn(t, u))
  BY DEF Kept, HasPipe, Drawn

(* The ring, the pending operations and the selection.                     *)
LEMMA RingKept ==
    ASSUME NEW t, NEW row, NEW start, NEW end, NEW x
    PROVE  /\ Kept(t, PutRow(t, row, x))
           /\ Kept(t, GetRow(t, row, x))
           /\ Kept(t, BufferCopyColumns(t, row, start, end, x))
           /\ Kept(t, BufferCopyRows(t, start, end, x))
           /\ Kept(t, BufferSetColumns(t, row, start, end, x))
<1>1. \A u, r, c : Kept(u, PutRow(u, r, c))
  BY FieldKept DEF PutRow
<1>2. \A u, r, c : Kept(u, GetRow(u, r, c))
  BY <1>1, KeptSelf DEF GetRow
<1>3. \A u : Kept(u, MoveCells(u, row, start, end, x))
  BY <1>1, FieldKept, KeptTwice DEF MoveCells
<1>4. \A u : Kept(u, FillRow(u, row, start, end, x))
  BY <1>1, FieldKept, KeptTwice DEF FillRow
<1>5. Kept(t, BufferCopyColumns(t, row, start, end, x))
  BY <1>2, <1>3, KeptTwice DEF BufferCopyColumns
<1>6. Kept(t, BufferSetColumns(t, row, start, end, x))
  BY <1>2, <1>4, KeptSelf, KeptTwice DEF BufferSetColumns
<1>7. Kept(t, BufferCopyRows(t, start, end, x))
  BY DrawnKept DEF BufferCopyRows, DrawEach
<1> QED  BY <1>1, <1>2, <1>5, <1>6, <1>7

LEMMA OpsKept ==
    ASSUME NEW t, NEW row, NEW start, NEW end, NEW x
    PROVE  /\ Kept(t, DisplayCopyColumns(t, row, start, end, x))
           /\ Kept(t, DisplayCopyRows(t, start, end, x))
           /\ Kept(t, DisplaySetColumns(t, row, start, end, x))
           /\ Kept(t, DisplayResize(t, row, x))
           /\ Kept(t, FlushDisplay(t))
<1>1. Kept(t, DisplayCopyColumns(t, row, start, end, x))
  BY DEF Kept, HasPipe, DisplayCopyColumns
<1>2. Kept(t, DisplayCopyRows(t, start, end, x))
  BY DEF Kept, HasPipe, DisplayCopyRows
<1>3. Kept(t, DisplaySetColumns(t, row, start, end, x))
  BY DEF Kept, HasPipe, DisplaySetColumns
<1>4. Kept(t, DisplayResize(t, row, x))
  BY DEF Kept, HasPipe, DisplayResize
<1>5. Kept(t, FlushDisplay(t))
  <2>1. Kept(t, FlushCopy(t))
    BY DrawnKept DEF FlushCopy, DrawEach, Kept, HasPipe
  <2>2. \A u : Kept(u, FlushClear(u))
    BY DEF FlushClear, Kept, HasPipe
  <2>3. \A u : Kept(u, FlushSet(u))
    BY DrawnKept DEF FlushSet, DrawEach
  <2> QED  BY <2>1, <2>2, <2>3, KeptTwice DEF FlushDisplay
<1> QED  BY <1>1, <1>2, <1>3, <1>4, <1>5

LEMMA SelectKept ==
    ASSUME NEW t, NEW r, NEW c, NEW r2, NEW c2
    PROVE  /\ Kept(t, SelectTouch(t, r, c, r2, c2)) /\ Kept(t, SelectStart(t, r, c))
           /\ Kept(t, SelectUpdate(t, r, c)) /\ Kept(t, SelectResume(t, r, c))
           /\ Kept(t, SelectEnd(t))
<1>1. Kept(t, SelectTouch(t, r, c, r2, c2))
  BY DEF Kept, HasPipe, SelectTouch
<1>2. Kept(t, SelectStart(t, r, c))
  BY DEF Kept, HasPipe, SelectStart
<1>3. \A u : Kept(u, SelectUpdate(u, r, c))
  BY DEF Kept, HasPipe, SelectUpdate
<1>4. Kept(t, SelectResume(t, r, c))
  <2>1. \A x, y, z : Kept(t, [t EXCEPT !.sel.sr = x, !.sel.sc = y, !.sel.com = z])
    BY DEF Kept, HasPipe
  <2> QED  BY <1>3, <2>1, KeptSelf, KeptTwice DEF SelectResume
<1>5. Kept(t, SelectEnd(t))
  BY DEF Kept, HasPipe, SelectEnd
<1> QED  BY <1>1, <1>2, <1>3, <1>4, <1>5

(* What changes the ring and the display together.                         *)
LEMMA ColumnsKept ==
    ASSUME NEW t, NEW row, NEW start, NEW end, NEW char
    PROVE  /\ Kept(t, ForceBreak(t, row, start))
           /\ Kept(t, SetColumns(t, row, start, end, char))
           /\ Kept(t, CopyColumns(t, row, start, end, char))
           /\ Kept(t, CopyRows(t, start, end, char))
           /\ Kept(t, ClearColumns(t, row, start, end))
           /\ Kept(t, SetChar(t, row, start, char))
           /\ Kept(t, ClearRange(t, row, start, end, char))
<1>1. \A u, r, a, b, c : Kept(u, SetBoth(u, r, a, b, c))
  <2> TAKE u, r, a, b, c
  <2> DEFINE v == DisplaySetColumns(u, r + u.off, a, b, c)
             w == BufferSetColumns(v, r, a, b, c)
  <2>1. Kept(u, v) /\ Kept(v, w) /\ Kept(w, SelectTouch(w, r, a, r, b))
    BY OpsKept, RingKept, SelectKept
  <2>2. SetBoth(u, r, a, b, c) = SelectTouch(w, r, a, r, b)
    BY DEF SetBoth
  <2> HIDE DEF v, w
  <2> QED  BY <2>1, <2>2, KeptTwice
<1>2. \A u, r, a, b : Kept(u, BreakRun(u, r, a, b))
  BY <1>1, KeptSelf DEF BreakRun, BreakAt
<1>3. \A u, r, a : Kept(u, BreakLeft(u, r, a)) /\ Kept(u, BreakRight(u, r, a))
  BY <1>2, KeptSelf DEF BreakLeft, BreakRight
<1>4. \A u, r, a : Kept(u, ForceBreak(u, r, a))
  BY <1>3, KeptTwice DEF ForceBreak
<1>5. \A u, r, a, b, c : Kept(u, SetColumns(u, r, a, b, c))
  <2>1. \A u, r, a, b, c : Kept(u, KeepCursor(u, r, a, b, c))
    BY <1>1, KeptSelf DEF KeepCursor
  <2> TAKE u, r, a, b, c
  <2> DEFINE v == SetBoth(u, r, a, b, c)
             w == KeepCursor(v, r, a, b, c)
             x == ForceBreak(w, r, a)
  <2>2. Kept(u, v) /\ Kept(v, w) /\ Kept(w, x) /\ Kept(x, ForceBreak(x, r, b + 1))
    BY <1>1, <1>4, <2>1
  <2>3. SetColumns(u, r, a, b, c) = ForceBreak(x, r, b + 1)
    BY DEF SetColumns
  <2> HIDE DEF v, w, x
  <2> QED  BY <2>2, <2>3, KeptTwice
<1>6. Kept(t, CopyColumns(t, row, start, end, char))
  <2> DEFINE v == DisplayCopyColumns(t, row + t.off, start, end, char)
             w == BufferCopyColumns(v, row, start, end, char)
             x == SelectTouch(w, row, start, row, end)
             y == CursorRight(x, row, start, end, char)
             z == ForceBreak(y, row, start + char)
  <2>1. Kept(t, v) /\ Kept(v, w) /\ Kept(w, x)
    BY OpsKept, RingKept, SelectKept
  <2>2. Kept(x, y) /\ Kept(y, z) /\ Kept(z, ForceBreak(z, row, end + char + 1))
    <3>1. \A u : Kept(u, CursorRight(u, row, start, end, char))
      BY FieldKept, KeptSelf DEF CursorRight
    <3> QED  BY <1>4, <3>1
  <2>3. CopyColumns(t, row, start, end, char) = ForceBreak(z, row, end + char + 1)
    BY DEF CopyColumns, CopyBoth
  <2> HIDE DEF v, w, x, y, z
  <2> QED  BY <2>1, <2>2, <2>3, KeptTwice
<1>7. Kept(t, CopyRows(t, start, end, char))
  <2> DEFINE v == DisplayCopyRows(t, start + t.off, end + t.off, char)
             w == BufferCopyRows(v, start, end, char)
             x == SelectTouch(w, start, 0, end, t.w)
  <2>1. Kept(t, v) /\ Kept(v, w) /\ Kept(w, x)
    BY OpsKept, RingKept, SelectKept
  <2>2. \A u : Kept(u, CursorDown(u, start, end, char))
    BY FieldKept, KeptSelf DEF CursorDown
  <2>3. CopyRows(t, start, end, char) = CursorDown(x, start, end, char)
    BY DEF CopyRows
  <2> HIDE DEF v, w, x
  <2> QED  BY <2>1, <2>2, <2>3, KeptTwice
<1>8. Kept(t, ClearColumns(t, row, start, end))
  BY <1>5 DEF ClearColumns
<1>9. Kept(t, SetChar(t, row, start, char))
  BY <1>5, KeptSelf DEF SetChar
<1>10. Kept(t, ClearRange(t, row, start, end, char))
  BY DrawnKept DEF ClearRange
<1> QED  BY <1>4, <1>5, <1>6, <1>7, <1>8, <1>9, <1>10

(* Scrolling, in the ring and of what is shown, and the cursor.            *)
LEMMA BarKept ==
    ASSUME NEW t, NEW x, NEW y
    PROVE  /\ Kept(t, SetBounds(t, x, y)) /\ Kept(t, SetBarValue(t, x)) /\ Kept(t, Bounded(t))
<1>1. \A u, a, b : Kept(u, SetBounds(u, a, b))
  BY DEF Kept, HasPipe, SetBounds
<1>2. Kept(t, SetBarValue(t, x))
  BY FieldKept DEF SetBarValue
<1> QED  BY <1>1, <1>2 DEF Bounded

LEMMA ScrollKept ==
    ASSUME NEW t, NEW start, NEW end, NEW amount
    PROVE  Kept(t, ScrollUp(t, start, end, amount)) /\ Kept(t, ScrollDown(t, start, end, amount))
<1>1. \A u : Kept(u, Rotate(u, amount))
  <2> TAKE u
  <2> DEFINE v == Turned(u, amount)
             w == Bounded(v)
             x == CursorDown(w, 0, u.h - 1, -amount)
  <2>1. Kept(u, v) /\ Kept(v, w)
    BY BarKept DEF Turned, Kept, HasPipe
  <2>2. Kept(w, x)
    BY FieldKept, KeptSelf DEF CursorDown
  <2>3. \A y : Kept(y, SelectionUp(y, amount))
    BY DEF SelectionUp, Kept, HasPipe
  <2>4. Rotate(u, amount) = SelectionUp(x, amount)
    BY DEF Rotate
  <2> HIDE DEF v, w, x
  <2> QED  BY <2>1, <2>2, <2>3, <2>4, KeptTwice
<1>2. \A u, a, b, c, d : Kept(u, ClearRange(u, a, b, c, d))
  BY ColumnsKept
<1>3. Kept(t, ScrollUp(t, start, end, amount))
  <2>1. \A u, a, b, c : Kept(u, CopyRows(u, a, b, c)) /\ Kept(u, DisplayCopyRows(u, a, b, c))
    BY ColumnsKept, OpsKept
  <2> DEFINE v == IF start = 0 /\ end = t.h - 1
                  THEN Rotate(DisplayCopyRows(t, start + amount, end, -amount), amount)
                  ELSE CopyRows(t, start + amount, end, -amount)
  <2>2. Kept(t, v)
    BY <1>1, <2>1, KeptTwice
  <2>3. ScrollUp(t, start, end, amount) = ClearRange(v, end - amount + 1, 0, end, t.w - 1)
    BY DEF ScrollUp
  <2> HIDE DEF v
  <2> QED  BY <1>2, <2>2, <2>3, KeptTwice
<1>4. Kept(t, ScrollDown(t, start, end, amount))
  <2> DEFINE v == CopyRows(t, start, end - amount, amount)
  <2>1. Kept(t, v)
    BY ColumnsKept
  <2>2. ScrollDown(t, start, end, amount) = ClearRange(v, start, 0, start + amount - 1, t.w - 1)
    BY DEF ScrollDown
  <2> HIDE DEF v
  <2> QED  BY <1>2, <2>1, <2>2, KeptTwice
<1> QED  BY <1>3, <1>4

LEMMA ShownKept ==
    ASSUME NEW t, NEW by, NEW c1, NEW r2, NEW c2
    PROVE  /\ Kept(t, ScrollDisplayDown(t, by)) /\ Kept(t, ScrollDisplayUp(t, by))
           /\ Kept(t, RedrawRect(t, by, c1, r2, c2)) /\ Kept(t, CommitCursor(t))
<1>1. \A u, x : Kept(u, [Drawn(u, x) EXCEPT !.modified = TRUE])
  BY DrawnKept, FieldKept, KeptTwice
<1>2. \A u, a, b, c : Kept(u, DisplayCopyRows(u, a, b, c))
  BY OpsKept
<1>3. Kept(t, ScrollDisplayDown(t, by))
  <2> DEFINE amount == IF by > t.off THEN t.off ELSE by
             t1 == IF t.h > amount THEN DisplayCopyRows(t, amount, t.h - 1, -amount) ELSE t
             t2 == SetBarValue([t1 EXCEPT !.off = @ - amount], -(t.off - amount))
  <2>1. Kept(t, t1)
    BY <1>2, KeptSelf
  <2>2. Kept(t1, t2)
    <3> HIDE DEF t1
    <3> QED  BY FieldKept, BarKept, KeptTwice
  <2>3. ScrollDisplayDown(t, by) = t \/ \E x : ScrollDisplayDown(t, by) = [Drawn(t2, x) EXCEPT !.modified = TRUE]
    BY DEF ScrollDisplayDown, DrawEach
  <2> HIDE DEF t1, t2
  <2> QED  BY <1>1, <2>1, <2>2, <2>3, KeptSelf, KeptTwice
<1>4. Kept(t, ScrollDisplayUp(t, by))
  <2> DEFINE amount == IF t.off + by > AvailableScroll(t) THEN AvailableScroll(t) - t.off ELSE by
             t1 == IF t.h > amount THEN DisplayCopyRows(t, 0, t.h - amount - 1, amount) ELSE t
             t2 == SetBarValue([t1 EXCEPT !.off = @ + amount], -(t.off + amount))
  <2>1. Kept(t, t1)
    BY <1>2, KeptSelf
  <2>2. Kept(t1, t2)
    <3> HIDE DEF t1
    <3> QED  BY FieldKept, BarKept, KeptTwice
  <2>3. ScrollDisplayUp(t, by) = t \/ \E x : ScrollDisplayUp(t, by) = [Drawn(t2, x) EXCEPT !.modified = TRUE]
    BY DEF ScrollDisplayUp, DrawEach
  <2> HIDE DEF t1, t2
  <2> QED  BY <1>1, <2>1, <2>2, <2>3, KeptSelf, KeptTwice
<1>5. Kept(t, RedrawRect(t, by, c1, r2, c2))
  BY DrawnKept DEF RedrawRect, DrawEach
<1>6. Kept(t, CommitCursor(t))
  <2>1. \A u, row, col, on :
           LET v == GetRow(u, row, col + 1)
               char == [Row(v, row)[col] EXCEPT !.cur = on]
           IN  Kept(u, DisplaySetColumns(PutRow(v, row, [Row(v, row) EXCEPT ![col] = char]),
                                         row + v.off, col, col, char))
    <3> TAKE u, row, col, on
    <3> DEFINE v == GetRow(u, row, col + 1)
               char == [Row(v, row)[col] EXCEPT !.cur = on]
               w == PutRow(v, row, [Row(v, row) EXCEPT ![col] = char])
    <3>1. Kept(u, v) /\ Kept(v, w) /\ Kept(w, DisplaySetColumns(w, row + v.off, col, col, char))
      BY RingKept, OpsKept
    <3>2. Kept(u, DisplaySetColumns(w, row + v.off, col, col, char))
      <4> HIDE DEF v, w, char
      <4> QED  BY <3>1, KeptTwice
    <3> QED  BY <3>2
  <2>2. \A u, x, y : Kept(u, [u EXCEPT !.vr = x, !.vc = y])
    BY DEF Kept, HasPipe
  <2> QED  BY <2>1, <2>2, KeptSelf, KeptTwice DEF CommitCursor
<1> QED  BY <1>3, <1>4, <1>5, <1>6

(* What the handlers are made of.                                          *)
LEMMA StepKept ==
    ASSUME NEW t, NEW x, NEW y
    PROVE  /\ Kept(t, MoveCursor(t, x, y)) /\ Kept(t, Linefeed(t)) /\ Kept(t, ReverseLinefeed(t))
           /\ Kept(t, SetTab(t, x)) /\ Kept(t, UnsetTab(t, x)) /\ Kept(t, ClearTabs(t))
           /\ Kept(t, SendString(t, x)) /\ Kept(t, Save(t)) /\ Kept(t, Restore(t))
           /\ (x \in HandlerNames => Kept(t, Handler(t, x))) /\ Kept(t, ToEcho(t))
<1>1. \A u, a, b : Kept(u, MoveCursor(u, a, b))
  BY DEF MoveCursor, Kept, HasPipe
<1>2. Kept(t, Linefeed(t)) /\ Kept(t, ReverseLinefeed(t))
  BY ScrollKept, FieldKept, KeptSelf DEF Linefeed, ReverseLinefeed
<1>3. Kept(t, SetTab(t, x)) /\ Kept(t, UnsetTab(t, x)) /\ Kept(t, ClearTabs(t))
  BY DEF SetTab, UnsetTab, ClearTabs, Kept, HasPipe
<1>4. Kept(t, SendString(t, x)) /\ Kept(t, Save(t)) /\ Kept(t, Restore(t))
  BY <1>1 DEF SendString, Save, Restore, Kept, HasPipe
<1>5. \A u, h : h \in HandlerNames => Kept(u, Handler(u, h))
  BY DEF Handler, Kept, HasPipe
<1>6. Kept(t, ToEcho(t))
  BY <1>5 DEF ToEcho, HandlerNames
<1> QED  BY <1>1, <1>2, <1>3, <1>4, <1>5, <1>6

LEMMA ResetKept == ASSUME NEW t  PROVE Kept(t, Reset(t))
<1> DEFINE t1 == [ToEcho(t) EXCEPT
                  !.g = 0, !.maps = <<"none", "none">>,
                  !.cr = 0, !.vr = 0, !.saver = 0, !.cc = 0, !.vc = 0, !.savec = 0, !.curvis = TRUE,
                  !.top = 0, !.len = 0, !.sstart = 0, !.send = t.h - 1, !.off = 0,
                  !.sel.on = FALSE, !.sel.com = FALSE,
                  !.appcur = FALSE, !.autocr = FALSE, !.insert = FALSE,
                  !.interval = TabInterval, !.tabs = [i \in 1 .. MaxTabs |-> 0],
                  !.att = DefaultAttributes, !.pal = InitialPalette]
           t2 == SetBarValue(SetBounds(t1, 0, 0), 0)
<1>1. Kept(t, t1)
  <2> DEFINE e == ToEcho(t)
  <2>1. Kept(t, e)
    BY StepKept
  <2> HIDE DEF e
  <2> DEFINE u1 == [e EXCEPT !.g = 0, !.maps = <<"none", "none">>, !.cr = 0, !.vr = 0, !.saver = 0, !.cc = 0]
             u2 == [u1 EXCEPT !.vc = 0, !.savec = 0, !.curvis = TRUE, !.top = 0, !.len = 0, !.sstart = 0]
             u3 == [u2 EXCEPT !.send = t.h - 1, !.off = 0, !.sel.on = FALSE, !.sel.com = FALSE]
             u4 == [u3 EXCEPT !.appcur = FALSE, !.autocr = FALSE, !.insert = FALSE, !.interval = TabInterval]
  <2>2. DOMAIN u1 = DOMAIN e /\ u1.pipe = e.pipe /\ u1.handler = e.handler
    OBVIOUS
  <2>3. t1 = [u4 EXCEPT !.tabs = [i \in 1 .. MaxTabs |-> 0], !.att = DefaultAttributes, !.pal = InitialPalette]
    BY DEF e
  <2> HIDE DEF u1
  <2>5. DOMAIN u2 = DOMAIN u1 /\ u2.pipe = u1.pipe /\ u2.handler = u1.handler
    OBVIOUS
  <2> HIDE DEF u2
  <2>6. DOMAIN u3 = DOMAIN u2 /\ u3.pipe = u2.pipe /\ u3.handler = u2.handler
    OBVIOUS
  <2> HIDE DEF u3
  <2>7. DOMAIN u4 = DOMAIN u3 /\ u4.pipe = u3.pipe /\ u4.handler = u3.handler
    OBVIOUS
  <2> HIDE DEF u4, t1
  <2>8. DOMAIN t1 = DOMAIN e /\ t1.pipe = e.pipe /\ t1.handler = e.handler
    BY <2>2, <2>3, <2>5, <2>6, <2>7
  <2> QED  BY <2>1, <2>8 DEF Kept, HasPipe
<1>2. Kept(t1, t2)
  <2> HIDE DEF t1
  <2> QED  BY BarKept, KeptTwice
<1>3. \E u : Reset(t) = Drawn(t2, u)
  BY DEF Reset, DrawEach
<1> HIDE DEF t1, t2
<1> QED  BY <1>1, <1>2, <1>3, DrawnKept, KeptTwice

(* A byte of text.                                                         *)
LEMMA DecodedKept == ASSUME NEW t, NEW c  PROVE Kept(t, Decode(t, c)) /\ Kept(t, Decoded(t))
<1>1. Kept(t, Decode(t, c))
  BY DEF Decode, Kept, HasPipe
<1>2. \A v : Kept(t, PutChar(t, v))
  <2> TAKE v
  <2>1. \A u : Kept(u, Wrap(u))
    <3> SUFFICES ASSUME NEW u  PROVE Kept(u, Wrap(u))
      OBVIOUS
    <3>1. Kept(u, [u EXCEPT !.cc = 0]) /\ \A w : Kept(w, Linefeed(w))
      BY FieldKept, StepKept
    <3> QED  BY <3>1, KeptSelf, KeptTwice DEF Wrap
  <2>2. \A u : Kept(u, MakeRoom(u))
    BY ColumnsKept, KeptSelf DEF MakeRoom
  <2>3. \A u : Kept(u, PlaceChar(u, v))
    <3> SUFFICES ASSUME NEW u  PROVE Kept(u, PlaceChar(u, v))
      OBVIOUS
    <3>1. Kept(u, SetChar(u, u.cr, u.cc, v))
      BY ColumnsKept
    <3>2. \A w, a : Kept(w, [w EXCEPT !.cc = a])
      BY FieldKept
    <3>3. \A w : Kept(w, [w EXCEPT !.cc = @ + WcWidth(v)])
      BY <3>2
    <3> QED  BY <3>1, <3>3, KeptTwice DEF PlaceChar
  <2>4. Kept(t, Wrap(t)) /\ Kept(Wrap(t), MakeRoom(Wrap(t))) /\ Kept(MakeRoom(Wrap(t)), PutChar(t, v))
    BY <2>1, <2>2, <2>3 DEF PutChar
  <2> QED  BY <2>4, KeptTwice
<1>3. Kept(t, AutoReturn(Linefeed(t)))
  <2>1. \A u : Kept(u, AutoReturn(u))
    BY StepKept, KeptSelf DEF AutoReturn
  <2>2. Kept(t, Linefeed(t))
    BY StepKept
  <2> QED  BY <2>1, <2>2, KeptTwice
<1>4. \A v : Kept(t, Interpret(t, v))
  <2> TAKE v
  <2>1. \A x, y : /\ Kept(t, SendString(t, x)) /\ Kept(t, MoveCursor(t, x, y)) /\ Kept(t, [t EXCEPT !.g = x])
                  /\ x \in HandlerNames => Kept(t, Handler(t, x))
    BY StepKept, FieldKept
  <2>2. Kept(t, Handler(t, "escape")) /\ Kept(t, Handler(t, "csi"))
    BY <2>1 DEF HandlerNames
  <2> QED  BY <1>2, <1>3, <2>1, <2>2, KeptSelf DEF Interpret
<1>5. Kept(t, Decoded(t))
  BY <1>4, KeptSelf DEF Decoded
<1> QED  BY <1>1, <1>5

(* The handlers that leave the pipe alone.                                 *)
LEMMA EscapeKept ==
    ASSUME NEW t, NEW c, NEW g
    PROVE  Kept(t, Escape(t, c)) /\ Kept(t, Charset(t, g, c)) /\ Kept(t, CtrlFunc(t, c)) /\ Kept(t, Apc(t, c))
<1>1. \A u : Kept(u, ToEcho(u))
  BY StepKept
<1>2. \A u : Kept(t, u) => Kept(t, ToEcho(u))
  BY <1>1, KeptTwice
<1>3. Kept(t, Escape(t, c))
  <2>1. \A h \in HandlerNames : Kept(t, Handler(t, h))
    BY StepKept
  <2>2. \A h \in {"g0", "g1", "osc", "csi", "ctrl", "apc"} : Kept(t, Handler(t, h))
    BY <2>1 DEF HandlerNames
  <2>3. /\ Kept(t, Save(t)) /\ Kept(t, Restore(t)) /\ Kept(t, Linefeed(t)) /\ Kept(t, ReverseLinefeed(t))
        /\ Kept(t, Linefeed(MoveCursor(t, t.cr, 0)))
        /\ Kept(t, SetTab(t, t.cc)) /\ Kept(t, SendString(t, "vt102"))
    BY StepKept, KeptTwice
  <2>4. Kept(t, Reset(t)) /\ Kept(t, t)
    BY ResetKept, KeptSelf
  <2>5. \A u \in {Save(t), Restore(t), Linefeed(t), ReverseLinefeed(t), Linefeed(MoveCursor(t, t.cr, 0)),
                  SetTab(t, t.cc), SendString(t, "vt102"), t} : Kept(t, ToEcho(u))
    BY <1>2, <2>3, <2>4
  <2> QED  BY <2>2, <2>4, <2>5, ZenonT(40) DEF Escape
<1>4. Kept(t, Charset(t, g, c))
  <2>1. \A x : Kept(t, [t EXCEPT !.maps[g] = x])
    BY DEF Kept, HasPipe
  <2> QED  BY <1>2, <2>1 DEF Charset
<1>5. Kept(t, CtrlFunc(t, c))
  BY <1>2, DrawnKept, KeptSelf DEF CtrlFunc, DrawEach
<1>6. Kept(t, Apc(t, c))
  <2>1. \A u, x : Kept(u, [u EXCEPT !.p.escaping = x])
    BY DEF Kept, HasPipe
  <2>2. Kept(t, ToEcho(t)) /\ Kept(t, t)
    BY <1>1, KeptSelf
  <2> QED  BY <2>1, <2>2, KeptTwice DEF Apc
<1> QED  BY <1>3, <1>4, <1>5, <1>6

LEMMA CsiKept == ASSUME NEW t, NEW c  PROVE Kept(t, Csi(t, c))
<1>1. \A n : Kept(t, InsertChars(t, n)) /\ Kept(t, DeleteChars(t, n))
  <2> TAKE n
  <2>1. \A a, b, d : Kept(t, CopyColumns(t, t.cr, a, b, d)) /\ Kept(t, t)
    BY ColumnsKept, KeptSelf
  <2>2. \A u, a, b : Kept(t, u) => Kept(t, ClearColumns(u, t.cr, a, b))
    BY ColumnsKept, KeptTwice
  <2> QED  BY <2>1, <2>2 DEF InsertChars, DeleteChars
<1>2. \A n : Kept(t, EraseDisplay(t, n)) /\ Kept(t, EraseLine(t, n))
  BY ColumnsKept, KeptSelf DEF EraseDisplay, EraseLine
<1>3. \A n, private, on : Kept(t, SetFlag(t, n, private, on))
  BY DEF SetFlag, Kept, HasPipe
<1>4. \A args : Kept(t, Sgr(t, args)) /\ Kept(t, ScrollRegion(t, args))
  BY DEF Sgr, ScrollRegion, Kept, HasPipe
<1>5. ASSUME NEW args, NEW private  PROVE Kept(t, CsiFinal(t, c, args, private))
  <2>1. \A a, b : /\ Kept(t, MoveCursor(t, a, b)) /\ Kept(t, UnsetTab(t, a)) /\ Kept(t, SendString(t, a))
                  /\ Kept(t, ClearTabs(t)) /\ Kept(t, Save(t)) /\ Kept(t, Restore(t)) /\ Kept(t, t)
    BY StepKept, KeptSelf
  <2>2. \A a, b, d : /\ Kept(t, ScrollUp(t, a, b, d)) /\ Kept(t, ScrollDown(t, a, b, d))
                     /\ Kept(t, ClearColumns(t, a, b, d))
    BY ScrollKept, ColumnsKept
  <2> DEFINE arg == args[1]
             amount == IF arg = 0 THEN 1 ELSE arg
             Pos(i) == IF i > Len(args) \/ args[i] = 0 THEN 0 ELSE args[i] - 1
  <2>3. /\ Kept(t, InsertChars(t, amount)) /\ Kept(t, DeleteChars(t, amount))
        /\ Kept(t, EraseDisplay(t, arg)) /\ Kept(t, EraseLine(t, arg))
        /\ Kept(t, SetFlag(t, arg, private, TRUE)) /\ Kept(t, SetFlag(t, arg, private, FALSE))
        /\ Kept(t, Sgr(t, args)) /\ Kept(t, ScrollRegion(t, args))
    BY <1>1, <1>2, <1>3, <1>4
  <2>4. /\ Kept(t, MoveCursor(t, t.cr - amount, t.cc)) /\ Kept(t, MoveCursor(t, t.cr + amount, t.cc))
        /\ Kept(t, MoveCursor(t, t.cr, t.cc + amount)) /\ Kept(t, MoveCursor(t, t.cr, t.cc - amount))
        /\ Kept(t, MoveCursor(t, t.cr + amount, 0)) /\ Kept(t, MoveCursor(t, t.cr - amount, 0))
        /\ Kept(t, MoveCursor(t, t.cr, Pos(1))) /\ Kept(t, MoveCursor(t, Pos(1), Pos(2)))
        /\ Kept(t, MoveCursor(t, Pos(1), t.cc))
    BY <2>1
  <2>5. /\ Kept(t, ScrollDown(t, t.cr, t.send, amount)) /\ Kept(t, ScrollUp(t, t.cr, t.send, amount))
        /\ Kept(t, ClearColumns(t, t.cr, t.cc, t.cc + amount - 1))
    BY <2>2
  <2>6. /\ Kept(t, SendString(t, "vt102")) /\ Kept(t, SendString(t, "ok"))
        /\ Kept(t, SendString(t, <<t.cr + 1, t.cc + 1>>)) /\ Kept(t, UnsetTab(t, t.cc))
        /\ Kept(t, ClearTabs(t)) /\ Kept(t, Save(t)) /\ Kept(t, Restore(t)) /\ Kept(t, t)
    BY <2>1
  <2> QED  BY <2>3, <2>4, <2>5, <2>6, ZenonT(60) DEF CsiFinal
<1>6. CASE c \notin 64 .. 126
  BY <1>6 DEF Csi, Kept, HasPipe
<1>7. \A u : Kept(u, [ToEcho(u) EXCEPT !.p.args = <<>>, !.p.num = 0, !.p.private = 0])
  BY DEF ToEcho, Handler, HandlerNames, Kept, HasPipe
<1>8. \A args, private :
         Kept(t, [ToEcho(CsiFinal(t, c, args, private)) EXCEPT !.p.args = <<>>, !.p.num = 0, !.p.private = 0])
  BY <1>5, <1>7, KeptTwice
<1>9. CASE c \in 64 .. 126
  <2>1. c \notin 48 .. 57 /\ c # 59
    BY <1>9
  <2> QED  BY <1>8, <1>9, <2>1, Zenon DEF Csi
<1> QED  BY <1>6, <1>9

LEMMA OscKept ==
    ASSUME NEW t, NEW c
    PROVE  /\ Kept(t, Osc(t, c)) /\ Kept(t, Download(t, c)) /\ Kept(t, SetDirectory(t, c))
           /\ Kept(t, WindowTitle(t, c)) /\ Kept(t, SetScrollback(t, c)) /\ Kept(t, XtermPalette(t, c))
<1>1. \A u : Kept(t, u) => Kept(t, ToEcho(u))
  BY StepKept, KeptTwice
<1>2. Kept(t, t)
  BY KeptSelf
<1>3. \A x, y : /\ Kept(t, [t EXCEPT !.p.num = x]) /\ Kept(t, [t EXCEPT !.p.osc = x])
                /\ Kept(t, [t EXCEPT !.p.spec = x, !.p.rgb = y]) /\ Kept(t, [t EXCEPT !.p.rgb = x])
                /\ Kept(t, [t EXCEPT !.calls = x]) /\ Kept(t, [t EXCEPT !.requested = x, !.p.num = y])
  BY DEF Kept, HasPipe
<1>4. Kept(t, Osc(t, c))
  <2>1. OscHandler(t.p.osc) \in HandlerNames
    BY DEF OscHandler, HandlerNames
  <2>2. Kept(t, [Handler(t, OscHandler(t.p.osc)) EXCEPT !.p.osc = 0])
    BY <2>1 DEF Handler, Kept, HasPipe
  <2> QED  BY <1>1, <1>2, <1>3, <2>2 DEF Osc
<1>5. Kept(t, Download(t, c)) /\ Kept(t, SetDirectory(t, c)) /\ Kept(t, WindowTitle(t, c))
  BY <1>1, <1>2, <1>3 DEF Download, SetDirectory, WindowTitle
<1>6. Kept(t, SetScrollback(t, c))
  <2>1. \A u, x, y : Kept(u, SetBounds(u, x, y))
    BY BarKept
  <2>2. \A x, y : LET u == [t EXCEPT !.requested = x, !.p.num = y] IN \A a : Kept(t, SetBounds(u, a, 0))
    BY <1>3, <2>1, KeptTwice
  <2> QED  BY <1>1, <1>2, <1>3, <2>2 DEF SetScrollback
<1>7. Kept(t, XtermPalette(t, c))
  <2>1. \A i, x : Kept(t, AssignColor(t, i, x))
    BY DEF AssignColor, Kept, HasPipe
  <2>2. \A u : Kept(u, [u EXCEPT !.p.spec = FALSE, !.p.num = 0])
    BY DEF Kept, HasPipe
  <2>3. \A u : Kept(t, u) => Kept(t, [u EXCEPT !.p.spec = FALSE, !.p.num = 0])
    BY <2>2, KeptTwice
  <2> QED  BY <1>1, <1>2, <1>3, <2>1, <2>3 DEF XtermPalette
<1> QED  BY <1>4, <1>5, <1>6, <1>7

(* The pipe: what was captured is sent or in the buffer, the buffer does   *)
(* not overflow, and a closed pipe holds nothing.                          *)
PipeSound(t) ==
    /\ HasPipe(t)
    /\ {"open", "n", "sent", "seen", "flags"} \subseteq DOMAIN t.pipe
    /\ t.pipe.n \in 0 .. PipeSize /\ t.pipe.sent \in Nat /\ t.pipe.seen \in Nat
    /\ t.pipe.sent + t.pipe.n = t.pipe.seen
    /\ ~t.pipe.open => t.pipe.n = 0

LEMMA SoundKept == ASSUME NEW t, NEW u, PipeSound(t), Kept(t, u)  PROVE PipeSound(u)
  BY DEF PipeSound, Kept

LEMMA PipeSteps ==
    ASSUME NEW t, PipeSound(t)
    PROVE  /\ PipeSound(PipeFlush(t)) /\ PipeSound(PipeClose(t)) /\ \A flags : PipeSound(PipeOpen(t, flags))
           /\ t.pipe.open => PipeSound(PipeWrite(t))
<1> USE PipeAssumption
<1>1. ASSUME NEW u, PipeSound(u)
      PROVE  /\ PipeSound(PipeFlush(u)) /\ (u.pipe.open => PipeFlush(u).pipe.n = 0)
             /\ PipeFlush(u).pipe.open = u.pipe.open
  BY <1>1 DEF PipeFlush, PipeSound, HasPipe
<1>2. PipeSound(PipeClose(t)) /\ PipeClose(t).pipe.n = 0
  <2>1. CASE ~t.pipe.open
    BY <2>1 DEF PipeClose, PipeSound
  <2>2. CASE t.pipe.open
    <3> DEFINE u == PipeFlush(t)
    <3>1. PipeSound(u) /\ u.pipe.n = 0 /\ PipeClose(t) = [u EXCEPT !.pipe.open = FALSE]
      BY <1>1, <2>2 DEF PipeClose
    <3> HIDE DEF u
    <3> QED  BY <3>1 DEF PipeSound, HasPipe
  <2> QED  BY <2>1, <2>2
<1>3. ASSUME NEW flags  PROVE PipeSound(PipeOpen(t, flags))
  <2> DEFINE u == PipeClose(t)
  <2>1. PipeSound(u) /\ u.pipe.n = 0
    BY <1>2
  <2>2. PipeOpen(t, flags) = [u EXCEPT !.pipe.open = TRUE, !.pipe.n = 0, !.pipe.flags = flags]
    BY DEF PipeOpen
  <2> HIDE DEF u
  <2> DEFINE v == PipeOpen(t, flags)
             w == [u.pipe EXCEPT !.open = TRUE, !.n = 0, !.flags = flags]
  <2>3. DOMAIN v = DOMAIN u /\ v.handler = u.handler /\ v.pipe = w
    BY <2>1, <2>2 DEF PipeSound, HasPipe
  <2>4. DOMAIN w = DOMAIN u.pipe /\ w.open /\ w.n = 0
    BY <2>1 DEF PipeSound
  <2>5. w.sent = u.pipe.sent /\ w.seen = u.pipe.seen
    BY <2>1 DEF PipeSound
  <2> HIDE DEF v, w
  <2>6. PipeSound(v)
    BY <2>1, <2>3, <2>4, <2>5, PipeAssumption DEF PipeSound, HasPipe
  <2> QED  BY <2>6 DEF v
<1>4. ASSUME t.pipe.open  PROVE PipeSound(PipeWrite(t))
  <2> DEFINE u == IF t.pipe.n = PipeSize THEN PipeFlush(t) ELSE t
  <2>1. PipeSound(u) /\ u.pipe.n # PipeSize /\ u.pipe.open = t.pipe.open
    <3>1. t.pipe.n = PipeSize => PipeFlush(t).pipe.n # PipeSize
      BY <1>1, <1>4
    <3> QED  BY <1>1, <3>1
  <2>2. PipeWrite(t) = [u EXCEPT !.pipe.n = @ + 1, !.pipe.seen = @ + 1]
    BY DEF PipeWrite
  <2> HIDE DEF u
  <2> DEFINE v == PipeWrite(t)
  <2>3. /\ DOMAIN v = DOMAIN u /\ v.handler = u.handler /\ DOMAIN v.pipe = DOMAIN u.pipe
        /\ v.pipe.open = u.pipe.open /\ v.pipe.sent = u.pipe.sent
        /\ v.pipe.n = u.pipe.n + 1 /\ v.pipe.seen = u.pipe.seen + 1
    BY <2>1, <2>2 DEF PipeSound, HasPipe
  <2> HIDE DEF v
  <2>4. /\ u.pipe.n \in Nat /\ u.pipe.sent \in Nat /\ u.pipe.seen \in Nat
        /\ u.pipe.sent + u.pipe.n = u.pipe.seen /\ u.pipe.n <= PipeSize /\ u.pipe.n # PipeSize
    BY <2>1 DEF PipeSound
  <2>5. v.pipe.n \in 0 .. PipeSize /\ v.pipe.seen \in Nat /\ v.pipe.sent + v.pipe.n = v.pipe.seen
    BY <2>3, <2>4
  <2>6. v.pipe.open
    BY <1>4, <2>1, <2>3
  <2>7. PipeSound(v)
    BY <2>1, <2>3, <2>4, <2>5, <2>6 DEF PipeSound, HasPipe
  <2> QED  BY <2>7 DEF v
<1> QED  BY <1>1, <1>2, <1>3, <1>4

(* Whatever a byte does, the pipe stays sound.                             *)
LEMMA ByteSound == ASSUME NEW t, NEW c, PipeSound(t)  PROVE PipeSound(CharHandler(t, c))
<1>1. \A u : Kept(t, u) => PipeSound(u)
  BY SoundKept
<1>2. PipeSound(Echo(t, c))
  <2>1. ASSUME NEW u, PipeSound(u)  PROVE PipeSound(Decoded(Decode(u, c)))
    BY <2>1, DecodedKept, KeptTwice, SoundKept
  <2>2. t.pipe.open => PipeSound(PipeWrite(t))
    BY PipeSteps
  <2> QED  BY <2>1, <2>2 DEF Echo
<1>3. PipeSound(OpenPipeStream(t, c))
  <2>1. CASE c \in Ends
    <3> DEFINE u == PipeOpen(t, t.p.flags)
    <3>1. PipeSound(u)
      BY PipeSteps
    <3>2. OpenPipeStream(t, c) = [ToEcho(u) EXCEPT !.p.flags = {}, !.p.num = 0]
      BY <2>1 DEF OpenPipeStream
    <3> HIDE DEF u
    <3>3. Kept(u, OpenPipeStream(t, c))
      BY <3>2 DEF ToEcho, Handler, HandlerNames, Kept, HasPipe
    <3> QED  BY <3>1, <3>3, SoundKept
  <2>2. CASE c \notin Ends
    <3>1. Kept(t, OpenPipeStream(t, c))
      BY <2>2 DEF OpenPipeStream, Kept, HasPipe
    <3> QED  BY <1>1, <3>1
  <2> QED  BY <2>1, <2>2
<1>4. PipeSound(ClosePipeStream(t, c))
  <2>1. \A u : PipeSound(u) => PipeSound(ToEcho(u))
    BY StepKept, SoundKept
  <2> QED  BY <2>1, PipeSteps DEF ClosePipeStream
<1>5. /\ PipeSound(Escape(t, c)) /\ \A g : PipeSound(Charset(t, g, c))
      /\ PipeSound(CtrlFunc(t, c)) /\ PipeSound(Apc(t, c)) /\ PipeSound(Csi(t, c))
  BY <1>1, EscapeKept, CsiKept
<1>6. /\ PipeSound(Osc(t, c)) /\ PipeSound(Download(t, c)) /\ PipeSound(SetDirectory(t, c))
      /\ PipeSound(WindowTitle(t, c)) /\ PipeSound(SetScrollback(t, c)) /\ PipeSound(XtermPalette(t, c))
  BY <1>1, OscKept
<1>7. t.handler \in HandlerNames
  BY DEF PipeSound, HasPipe
<1> QED  BY <1>2, <1>3, <1>4, <1>5, <1>6, <1>7 DEF CharHandler, HandlerNames

(* The function of Handled exists, and goes byte by byte.                  *)
LEMMA HandledSteps ==
    ASSUME NEW u, NEW bytes \in Seq(0 .. 255)
    PROVE  /\ Handled(u, bytes)[0] = u
           /\ \A i \in 1 .. Len(bytes) : Handled(u, bytes)[i] = CharHandler(Handled(u, bytes)[i - 1], bytes[i])
<1> DEFINE To(m, g) == g = [i \in 0 .. m |-> IF i = 0 THEN u ELSE CharHandler(g[i - 1], bytes[i])]
           Bad == {m \in 0 .. Len(bytes) : ~\E g : To(m, g)}
<1>1. Bad = {}
  <2> SUFFICES ASSUME Bad # {}  PROVE FALSE
    OBVIOUS
  <2>0. Bad \subseteq Nat
    OBVIOUS
  <2>1. PICK m \in Bad : \A j \in Bad : m <= j
    <3> HIDE DEF Bad
    <3> QED  BY <2>0, SmallestOf
  <2>2. CASE m = 0
    <3> DEFINE g == [i \in 0 .. 0 |-> u]
    <3>1. To(0, g)
      OBVIOUS
    <3> QED  BY <2>2, <3>1
  <2>3. CASE m # 0
    <3>0. m \in 1 .. Len(bytes) /\ m - 1 \in 0 .. Len(bytes)
      BY <2>1, <2>3
    <3>1. m - 1 \in 0 .. Len(bytes) /\ m - 1 \notin Bad
      <4> HIDE DEF Bad
      <4> QED  BY <2>1, <3>0
    <3>2. PICK g : To(m - 1, g)
      BY <3>1
    <3> DEFINE h == [i \in 0 .. m |-> IF i = m THEN CharHandler(g[m - 1], bytes[m]) ELSE g[i]]
    <3>3. \A i \in 0 .. m : h[i] = IF i = 0 THEN u ELSE CharHandler(h[i - 1], bytes[i])
      <4> SUFFICES ASSUME NEW i \in 0 .. m  PROVE h[i] = IF i = 0 THEN u ELSE CharHandler(h[i - 1], bytes[i])
        OBVIOUS
      <4>1. CASE i = m
        BY <2>3, <4>1
      <4>2. CASE i # m
        BY <2>3, <3>2, <4>2
      <4> QED  BY <4>1, <4>2
    <3>4. To(m, h)
      BY <3>3
    <3> QED  BY <3>4
  <2> QED  BY <2>2, <2>3
<1>2. \E g : To(Len(bytes), g)
  BY <1>1
<1>3. To(Len(bytes), Handled(u, bytes))
  BY <1>2 DEF Handled
<1> QED  BY <1>3

LEMMA HandledSound ==
    ASSUME NEW u, NEW bytes \in Seq(0 .. 255), PipeSound(u)
    PROVE  PipeSound(Handled(u, bytes)[Len(bytes)])
<1> DEFINE Bad == {i \in 0 .. Len(bytes) : ~PipeSound(Handled(u, bytes)[i])}
<1> SUFFICES ASSUME Bad # {}  PROVE FALSE
  OBVIOUS
<1>0. Bad \subseteq Nat
  OBVIOUS
<1>1. PICK i \in Bad : \A j \in Bad : i <= j
  <2> HIDE DEF Bad
  <2> QED  BY <1>0, SmallestOf
<1>2. CASE i = 0
  BY <1>2, HandledSteps
<1>3. CASE i # 0
  <2>1. PipeSound(Handled(u, bytes)[i - 1])
    BY <1>1, <1>3
  <2>2. Handled(u, bytes)[i] = CharHandler(Handled(u, bytes)[i - 1], bytes[i])
    BY <1>1, <1>3, HandledSteps
  <2> QED  BY <2>1, <2>2, ByteSound
<1> QED  BY <1>2, <1>3

LEMMA FreshSound == ASSUME NEW height, NEW width  PROVE PipeSound(Fresh(height, width))
<1>1. \E u : /\ DOMAIN u = {"handler", "h", "w", "outer", "rows", "top", "len", "max", "requested", "ops",
                            "shown", "intact", "written", "cr", "cc", "vr", "vc", "saver", "savec", "curvis",
                            "sstart", "send", "off", "sel", "clipboard", "appcur", "autocr", "insert",
                            "interval", "tabs", "g", "maps", "att", "pal", "p", "pipe", "bar", "mods", "mask",
                            "cursor", "started", "modified", "input", "stdin", "calls"}
             /\ u.handler = "echo" /\ u.pipe = ClosedPipe /\ Fresh(height, width) = Reset(u)
  BY DEF Fresh
<1>2. PICK u : {"pipe", "handler"} \subseteq DOMAIN u /\ u.handler = "echo" /\ u.pipe = ClosedPipe
               /\ Fresh(height, width) = Reset(u)
  BY <1>1
<1>3. PipeSound(u)
  BY <1>2, PipeAssumption DEF PipeSound, HasPipe, HandlerNames, ClosedPipe
<1> QED  BY <1>2, <1>3, ResetKept, SoundKept

(* A flush of the render thread, a resize, the keyboard and the mouse.     *)
LEMMA FlushedSound == ASSUME NEW t, PipeSound(t)  PROVE PipeSound(Flushed(t))
<1>1. PipeSound(IF Autoflush(t) THEN PipeFlush(t) ELSE t)
  BY PipeSteps
<1>2. \A u, value : Kept(u, ScrollHandler(u, value))
  BY ShownKept, BarKept, KeptSelf, KeptTwice DEF ScrollHandler
<1>3. \A u : Kept(u, ScrollbarFlush(u))
  <2> TAKE u
  <2> DEFINE v == IF BarValue(u) # u.bar.value THEN ScrollHandler(u, BarValue(u)) ELSE u
  <2>1. Kept(u, v)
    BY <1>2, KeptSelf
  <2>2. \A w, x : Kept(w, [w EXCEPT !.bar.handle = x])
    BY FieldKept
  <2>3. ScrollbarFlush(u) = [v EXCEPT !.bar.handle = <<HandleY(u), HandleHeight(u)>>]
    BY DEF ScrollbarFlush
  <2> HIDE DEF v
  <2> QED  BY <2>1, <2>2, <2>3, KeptTwice
<1>4. \A u : Kept(u, CommitCursor(u)) /\ Kept(u, FlushDisplay(u))
  BY ShownKept, OpsKept
<1>5. \A u : PipeSound(u) => PipeSound(ScrollbarFlush(FlushDisplay(CommitCursor(u))))
  BY <1>3, <1>4, SoundKept
<1> QED  BY <1>1, <1>5 DEF Flushed

LEMMA RefittedKept == ASSUME NEW t, NEW w, NEW h  PROVE Kept(t, Refitted(t, w, h))
<1>1. \A u, n : Kept(u, Shift(u, n))
  BY DEF Shift, Kept, HasPipe
<1>2. \A u, a, b, c, d : Kept(u, RedrawRect(u, a, b, c, d)) /\ Kept(u, DisplayCopyRows(u, a, b, c))
                         /\ Kept(u, SetBarValue(u, a)) /\ Kept(u, DisplayResize(u, a, b)) /\ Kept(u, FlushDisplay(u))
  BY ShownKept, OpsKept, BarKept
<1>3. Kept(t, Shrunk(t, w, h))
  BY <1>1, <1>2, KeptSelf, KeptTwice DEF Shrunk
<1>4. \A u, a : Kept(u, Widened(u, a, w, h))
  BY <1>2, KeptSelf DEF Widened
<1>5. \A u, a, b, c : Kept(u, Grown(u, a, b, c, w, h))
  <2>1. \A u, by : Kept(u, PullDown(u, by, w, h))
    BY <1>2, KeptSelf, KeptTwice DEF PullDown
  <2> TAKE u, from, grow, back
  <2> DEFINE v == Shift(u, -grow)
             x == [v EXCEPT !.off = IF @ >= grow THEN @ - grow ELSE @]
             y == RedrawRect(SetBarValue(x, -(u.off - back)), from, 0, from + back - 1, w - 1)
             z == [y EXCEPT !.off = u.off - back]
  <2>2. \A s, o : Kept(s, [s EXCEPT !.off = o])
    BY FieldKept
  <2>3. Kept(u, v) /\ Kept(v, x) /\ Kept(x, y) /\ Kept(y, z)
    <3>1. Kept(u, v)
      BY <1>1
    <3> HIDE DEF v
    <3>2. Kept(v, x)
      BY <2>2
    <3> HIDE DEF x
    <3>3. Kept(x, y)
      BY <1>2, KeptTwice
    <3> HIDE DEF y
    <3>4. Kept(y, z)
      BY <2>2
    <3> QED  BY <3>1, <3>2, <3>3, <3>4
  <2>4. Grown(u, from, grow, back, w, h) = PullDown(z, grow - back, w, h)
    BY DEF Grown
  <2> HIDE DEF v, x, y, z
  <2> QED  BY <2>1, <2>3, <2>4, KeptTwice
<1>6. \A u, a, b : Kept(u, Regrown(u, a, b, w, h))
  BY <1>5, KeptSelf DEF Regrown
<1> DEFINE a == Shrunk(t, w, h)
           b == FlushDisplay(a)
           c == DisplayResize(b, w, h)
           d == Widened(c, t.w, w, h)
           e == Regrown(d, t.h, GrowBy(t, h), w, h)
<1>7. Kept(t, a) /\ Kept(a, b) /\ Kept(b, c) /\ Kept(c, d) /\ Kept(d, e)
  BY <1>2, <1>3, <1>4, <1>6
<1>8. \A u, x, y, z : Kept(u, [u EXCEPT !.cr = x, !.cc = y, !.intact = z])
  BY DEF Kept, HasPipe
<1>9. Kept(e, Refitted(t, w, h))
  <2>1. Refitted(t, w, h) = [e EXCEPT !.cr = Fit(@, 0, h - 1), !.cc = Fit(@, 0, w - 1),
                                      !.intact = @ /\ ~Stale(t, GrowBy(t, h), w, h)]
    BY DEF Refitted
  <2> HIDE DEF e
  <2> QED  BY <2>1 DEF Kept, HasPipe
<1> HIDE DEF a, b, c, d, e
<1> QED  BY <1>7, <1>9, KeptTwice

LEMMA InputKept ==
    ASSUME NEW t, NEW x, NEW y, NEW mask, NEW released, NEW pressed
    PROVE  /\ Kept(t, Notify(t)) /\ Kept(t, Point(t, x)) /\ Kept(t, PressKey(t, x))
           /\ Kept(t, BarMouse(t, x, y, mask)[1]) /\ Kept(t, ClickAt(t, x, y, mask, released, pressed))
<1>1. \A u : Kept(u, Notify(u))
  BY FieldKept DEF Notify
<1>2. Kept(t, Point(t, x))
  BY DEF Point, Notify, Kept, HasPipe
<1>3. \A u, a : /\ Kept(u, ScrollDisplayUp(u, a)) /\ Kept(u, ScrollDisplayDown(u, a)) /\ Kept(u, SendString(u, a))
                /\ Kept(u, u)
  BY ShownKept, StepKept, KeptSelf
<1>4. Kept(t, PressKey(t, x))
  <2>1. Kept(t, Typing(t))
    BY <1>3, KeptTwice DEF Typing
  <2>2. \A data : Kept(t, SendString(Typing(t), data))
    BY <1>3, <2>1, KeptTwice
  <2>3. Kept(t, SendPressed(t, x))
    BY <2>1, <2>2, SMT DEF SendPressed, SendData
  <2> QED  BY <1>3, <2>3, SMT DEF PressKey, SendData
<1>5. Kept(t, BarMouse(t, x, y, mask)[1])
  BY DEF BarMouse, Kept, HasPipe
<1>6. Kept(t, ClickAt(t, x, y, mask, released, pressed))
  <2>1. \A u : Kept(u, WheelUp(u, released)) /\ Kept(u, WheelDown(u, released))
    BY <1>3 DEF WheelUp, WheelDown
  <2>2. \A r, c : /\ Kept(t, SelectEnd(t)) /\ Kept(t, SelectUpdate(t, r, c)) /\ Kept(t, SelectResume(t, r, c))
                  /\ Kept(t, SelectStart(t, r, c))
    BY SelectKept
  <2> DEFINE row == y \div CharHeight - t.off
             col == x \div CharWidth
             selected ==
                   IF "left" \in released THEN SelectEnd(t)
                   ELSE IF "left" \notin mask THEN t
                   ELSE IF "left" \notin pressed THEN SelectUpdate(t, row, col)
                   ELSE IF "shift" \in t.mods THEN SelectResume(t, row, col) ELSE SelectStart(t, row, col)
  <2>3. Kept(t, selected)
    <3> HIDE DEF row, col
    <3> QED  BY <1>3, <2>2
  <2>4. ClickAt(t, x, y, mask, released, pressed)
            \in {SendString(t, t.clipboard), WheelDown(WheelUp(selected, released), released)}
    BY Zenon DEF ClickAt, SendData
  <2> HIDE DEF selected
  <2> QED  BY <1>3, <2>1, <2>3, <2>4, KeptTwice
<1> QED  BY <1>1, <1>2, <1>4, <1>5, <1>6

(* Every step of the terminal keeps its pipe sound.                        *)
LEMMA TermStepSound ==
    ASSUME PipeSound(term), [TermNext]_termVars
    PROVE  PipeSound(term')
<1>1. CASE Start
  <2>1. Kept(term, [term EXCEPT !.started = TRUE])
    BY DEF Kept, HasPipe
  <2> QED  BY <1>1, <2>1, InputKept, KeptTwice, SoundKept DEF Start
<1>2. ASSUME NEW bytes \in Outputs, Write(bytes)  PROVE PipeSound(term')
  <2>1. bytes \in Seq(0 .. 255)
    BY OutputsAssumption
  <2> DEFINE u == Handled(term, bytes)[Len(bytes)]
  <2>2. PipeSound(u)
    BY <2>1, HandledSound
  <2>3. PICK x : Written(term, bytes) = [u EXCEPT !.intact = x]
    BY DEF Written
  <2> HIDE DEF u
  <2> QED  BY <1>2, <2>2, <2>3, FieldKept, SoundKept DEF Write
<1>3. CASE Wait \/ TimedOut \/ WaitMore
  BY <1>3, FieldKept, SoundKept DEF Wait, TimedOut, WaitMore, Unmodified
<1>4. CASE FlushFrame
  BY <1>4, FlushedSound DEF FlushFrame
<1>5. ASSUME NEW s \in Sizes, TermResize(s)  PROVE PipeSound(term')
  <2> DEFINE h == RowsOf(s[1])
             w == ColumnsOf(s[2])
             u == IF w # term.w \/ h # term.h THEN [Refitted(term, w, h) EXCEPT !.send = h - 1] ELSE term
             v == [u EXCEPT !.outer = s]
  <2>1. Kept(term, u)
    <3>1. \A z, x : Kept(z, [z EXCEPT !.send = x])
      BY FieldKept
    <3> HIDE DEF h, w
    <3> QED  BY <3>1, RefittedKept, KeptSelf, KeptTwice
  <2>2. term' = Bounded(v)
    BY <1>5 DEF TermResize
  <2>3. Kept(u, v)
    <3> HIDE DEF u
    <3> QED  BY FieldKept
  <2> HIDE DEF u, v
  <2>4. Kept(v, Bounded(v))
    BY BarKept
  <2> QED  BY <2>1, <2>2, <2>3, <2>4, SoundKept
<1>6. CASE ApplyColorScheme
  BY <1>6, FieldKept, SoundKept DEF ApplyColorScheme
<1>7. CASE RedrawNext
  <2>1. \E u : Kept(term, u) /\ term' \in {u, Notify(u)}
    BY <1>7, ShownKept DEF RedrawNext
  <2> QED  BY <2>1, InputKept, SoundKept
<1>8. ASSUME NEW k \in Presses, SendKey(k[1], k[2])  PROVE PipeSound(term')
  <2> DEFINE u == IF term.cursor # "blank" THEN Notify([term EXCEPT !.cursor = "blank"]) ELSE term
  <2>1. Kept(term, u)
    BY KeptSelf DEF Notify, Kept, HasPipe
  <2>2. PICK x : term' \in {term, u, [u EXCEPT !.mods = x], PressKey(u, k[1])}
    BY <1>8 DEF SendKey
  <2> HIDE DEF u
  <2>3. Kept(u, [u EXCEPT !.mods = x]) /\ Kept(u, PressKey(u, k[1]))
    BY FieldKept, InputKept
  <2> QED  BY <2>1, <2>2, <2>3, SoundKept
<1>9. ASSUME NEW m \in Mice, SendMouse(m[1], m[2], m[3])  PROVE PipeSound(term')
  <2> DEFINE x == IF m[1] >= Margin THEN m[1] - Margin ELSE 0
             y == IF m[2] >= Margin THEN m[2] - Margin ELSE 0
             bar == BarMouse(term, x, y, m[3])
             v == [bar[1] EXCEPT !.mask = m[3]]
             u == Point(v, "ibar")
             p == Point(bar[1], "pointer")
  <2>1. term' \in {term, Notify(p), ClickAt(u, x, y, m[3], term.mask \ m[3], m[3] \ term.mask)}
    BY <1>9 DEF SendMouse, Moused
  <2>2. Kept(term, bar[1])
    BY InputKept
  <2>3. Kept(bar[1], v)
    <3> HIDE DEF bar
    <3> QED  BY FieldKept
  <2>4. Kept(v, u) /\ Kept(bar[1], p) /\ Kept(p, Notify(p))
    BY InputKept
  <2>5. Kept(u, ClickAt(u, x, y, m[3], term.mask \ m[3], m[3] \ term.mask))
    BY InputKept
  <2> HIDE DEF x, y, bar, v, u, p
  <2> QED  BY <2>1, <2>2, <2>3, <2>4, <2>5, SoundKept
<1>10. CASE SendStream
  BY <1>10, SoundKept DEF SendStream, Kept, HasPipe
<1>11. CASE StreamBlob
  BY <1>11, SoundKept DEF StreamBlob, Kept, HasPipe
<1>12. CASE StreamEnd
  BY <1>12, SoundKept DEF StreamEnd, Kept, HasPipe
<1>13. ASSUME NEW who, Told(who)  PROVE PipeSound(term')
  BY <1>13, InputKept, SoundKept DEF Told
<1>14. CASE UNCHANGED termVars
  BY <1>14 DEF termVars
<1> QED  BY <1>1, <1>2, <1>3, <1>4, <1>5, <1>6, <1>7, <1>8, <1>9, <1>10, <1>11, <1>12, <1>13, <1>14 DEF TermNext

LEMMA PipeAlwaysSound == TermSpec => []PipeSound(term)
<1>1. TermInit => PipeSound(term)
  BY FreshSound DEF TermInit
<1>2. PipeSound(term) /\ [TermNext]_termVars => PipeSound(term)'
  BY TermStepSound DEF PipeSound, HasPipe
<1> QED  BY <1>1, <1>2, PTL DEF TermSpec

(* Nothing the pipe captured is lost, whatever order the output, the       *)
(* flushes of the render thread and the commands that open and close the   *)
(* pipe come in.                                                           *)
THEOREM PipeNotLost == TermSpec => []PipeComplete
<1>1. PipeSound(term) => PipeComplete
  BY DEF PipeSound, PipeComplete
<1> QED  BY <1>1, PipeAlwaysSound, PTL

(* The bytes buffered for the pipe never pass the end of its buffer.       *)
THEOREM PipeInBuffer == TermSpec => [](term.pipe.n \in 0 .. PipeSize)
<1>1. PipeSound(term) => term.pipe.n \in 0 .. PipeSize
  BY DEF PipeSound
<1> QED  BY <1>1, PipeAlwaysSound, PTL
=============================================================================
