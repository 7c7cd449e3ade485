---------------------------- MODULE CommonProofs ----------------------------
(***************************************************************************)
(* What the proofs of several components rest on.  First facts about       *)
(* sequences without repetition, which the pools of numbers are made of,   *)
(* and about sets of numbers; then what the rectangle algebra of           *)
(* common/rect.c promises the surfaces, for all integer coordinates.       *)
(***************************************************************************)
EXTENDS Rect, SequencesExt, SequenceTheorems, WellFoundedInduction, TLAPS

-----------------------------------------------------------------------------
(* Sequences and numbers.                                                  *)

(* What Append does to the set of the elements; it stays without           *)
(* repetition if the element is new.                                       *)
LEMMA SetOfAppend ==
    ASSUME NEW T, NEW s \in Seq(T), NEW v \in T
    PROVE  /\ ToSet(Append(s, v)) = ToSet(s) \cup {v}
           /\ IsInjective(s) /\ v \notin ToSet(s) => IsInjective(Append(s, v))
<1> DEFINE a == Append(s, v)
<1>1. /\ Len(s) \in Nat /\ Len(a) = Len(s) + 1 /\ DOMAIN a = 1 .. Len(s) + 1 /\ DOMAIN s = 1 .. Len(s)
      /\ \A i \in 1 .. Len(s) : a[i] = s[i]
      /\ a[Len(s) + 1] = v
  BY AppendProperties, LenProperties
<1> HIDE DEF a
<1>2. ToSet(a) = ToSet(s) \cup {v}
  <2>1. ASSUME NEW x \in ToSet(a)  PROVE x \in ToSet(s) \cup {v}
    <3>1. PICK i \in 1 .. Len(s) + 1 : x = a[i]
      BY <1>1, <2>1 DEF ToSet
    <3>2. CASE i = Len(s) + 1
      BY <1>1, <3>1, <3>2
    <3>3. CASE i # Len(s) + 1
      <4>1. i \in 1 .. Len(s)
        BY <1>1, <3>3
      <4> QED  BY <1>1, <3>1, <4>1 DEF ToSet
    <3> QED  BY <3>2, <3>3
  <2>2. ASSUME NEW x \in ToSet(s)  PROVE x \in ToSet(a)
    <3>1. PICK i \in 1 .. Len(s) : x = s[i]
      BY <1>1, <2>2 DEF ToSet
    <3>2. i \in 1 .. Len(s) + 1
      BY <1>1
    <3> QED  BY <1>1, <3>1, <3>2 DEF ToSet
  <2>3. v \in ToSet(a)
    <3>1. Len(s) + 1 \in DOMAIN a
      BY <1>1
    <3> QED  BY <1>1, <3>1 DEF ToSet
  <2> QED  BY <2>1, <2>2, <2>3
<1>3. ASSUME IsInjective(s), v \notin ToSet(s), NEW i \in DOMAIN a, NEW j \in DOMAIN a, a[i] = a[j]
      PROVE  i = j
  <2>1. ASSUME NEW k \in DOMAIN a, k # Len(s) + 1  PROVE k \in DOMAIN s /\ a[k] = s[k] /\ a[k] # v
    <3>1. k \in 1 .. Len(s)
      BY <1>1, <2>1
    <3> QED  BY <1>1, <1>3, <3>1 DEF ToSet
  <2> QED  BY <1>1, <1>3, <2>1 DEF IsInjective
<1> QED  BY <1>2, <1>3 DEF a, IsInjective

(* What Tail does to the set of the elements of a sequence without         *)
(* repetition.                                                             *)
LEMMA SetOfTail ==
    ASSUME NEW T, NEW s \in Seq(T), s # <<>>
    PROVE  /\ ToSet(s) = ToSet(Tail(s)) \cup {Head(s)} /\ Head(s) \in T /\ Tail(s) \in Seq(T)
           /\ IsInjective(s) => IsInjective(Tail(s)) /\ Head(s) \notin ToSet(Tail(s))
<1> DEFINE a == Tail(s)
<1>1. /\ Len(s) \in Nat \ {0} /\ Len(a) = Len(s) - 1 /\ DOMAIN a = 1 .. Len(s) - 1 /\ DOMAIN s = 1 .. Len(s)
      /\ \A i \in 1 .. Len(s) - 1 : a[i] = s[i + 1]
      /\ Head(s) = s[1] /\ Head(s) \in T /\ a \in Seq(T)
  BY HeadTailProperties, LenProperties, EmptySeq
<1> HIDE DEF a
<1>2. ToSet(s) = ToSet(a) \cup {Head(s)}
  <2>1. ASSUME NEW x \in ToSet(s)  PROVE x \in ToSet(a) \cup {Head(s)}
    <3>1. PICK i \in 1 .. Len(s) : x = s[i]
      BY <1>1, <2>1 DEF ToSet
    <3>2. CASE i = 1
      BY <1>1, <3>1, <3>2
    <3>3. CASE i # 1
      <4>1. i - 1 \in 1 .. Len(s) - 1 /\ (i - 1) + 1 = i
        BY <1>1, <3>3
      <4>2. a[i - 1] = s[i]
        BY <1>1, <4>1
      <4> QED  BY <1>1, <3>1, <4>1, <4>2 DEF ToSet
    <3> QED  BY <3>2, <3>3
  <2>2. ASSUME NEW x \in ToSet(a)  PROVE x \in ToSet(s)
    <3>1. PICK i \in 1 .. Len(s) - 1 : x = a[i]
      BY <1>1, <2>2 DEF ToSet
    <3>2. i + 1 \in 1 .. Len(s)
      BY <1>1
    <3> QED  BY <1>1, <3>1, <3>2 DEF ToSet
  <2>3. Head(s) \in ToSet(s)
    <3>1. 1 \in DOMAIN s
      BY <1>1
    <3> QED  BY <1>1, <3>1 DEF ToSet
  <2> QED  BY <2>1, <2>2, <2>3
<1>3. ASSUME IsInjective(s), NEW i \in DOMAIN a, NEW j \in DOMAIN a, a[i] = a[j]
      PROVE  i = j
  <2>1. i + 1 \in DOMAIN s /\ j + 1 \in DOMAIN s /\ s[i + 1] = s[j + 1]
    BY <1>1, <1>3
  <2>2. i + 1 = j + 1
    BY <1>3, <2>1 DEF IsInjective
  <2> QED  BY <1>1, <2>2
<1>4. ASSUME IsInjective(s)  PROVE Head(s) \notin ToSet(a)
  <2>1. SUFFICES ASSUME NEW i \in 1 .. Len(s) - 1, a[i] = Head(s)  PROVE FALSE
    BY <1>1 DEF ToSet
  <2>2. i + 1 \in DOMAIN s /\ 1 \in DOMAIN s /\ s[i + 1] = s[1] /\ i + 1 # 1
    BY <1>1, <2>1
  <2> QED  BY <1>4, <2>2 DEF IsInjective
<1> QED  BY <1>1, <1>2, <1>3, <1>4 DEF a, IsInjective

(* What RemoveAt does to the set of the elements of a sequence without     *)
(* repetition.                                                             *)
LEMMA SetOfRemoveAt ==
    ASSUME NEW T, NEW s \in Seq(T), NEW k \in DOMAIN s
    PROVE  /\ RemoveAt(s, k) \in Seq(T)
           /\ IsInjective(s) => /\ IsInjective(RemoveAt(s, k))
                                /\ ToSet(RemoveAt(s, k)) = ToSet(s) \ {s[k]}
<1> DEFINE a == RemoveAt(s, k)  b == SubSeq(s, 1, k - 1)  c == SubSeq(s, k + 1, Len(s))
<1>1. Len(s) \in Nat /\ DOMAIN s = 1 .. Len(s) /\ \A i \in 1 .. Len(s) : s[i] \in T
  BY LenProperties, ElementOfSeq
<1>2. b \in Seq(T) /\ Len(b) = k - 1 /\ \A i \in 1 .. k - 1 : b[i] = s[i]
  <2>1. \A i \in 1 .. k - 1 : s[i] \in T
    BY <1>1
  <2>2. 1 \in Int /\ k - 1 \in Int /\ (k - 1) - 1 + 1 = k - 1
    BY <1>1
  <2>3. Len(b) = IF 1 <= k - 1 THEN (k - 1) - 1 + 1 ELSE 0
    BY <2>1, <2>2, SubSeqProperties
  <2>4. \A i \in 1 .. (k - 1) - 1 + 1 : b[i] = s[1 + i - 1]
    BY <2>1, <2>2, SubSeqProperties
  <2>5. b \in Seq(T)
    BY <2>1, <2>2, SubSeqProperties
  <2> HIDE DEF b
  <2> QED  BY <1>1, <2>3, <2>4, <2>5
<1>3. c \in Seq(T) /\ Len(c) = Len(s) - k /\ \A i \in 1 .. Len(s) - k : c[i] = s[k + i]
  <2>1. \A i \in k + 1 .. Len(s) : s[i] \in T
    BY <1>1
  <2>2. k + 1 \in Int /\ Len(s) \in Int
    BY <1>1
  <2>3. Len(c) = IF k + 1 <= Len(s) THEN Len(s) - (k + 1) + 1 ELSE 0
    BY <2>1, <2>2, SubSeqProperties
  <2>4. \A i \in 1 .. Len(s) - (k + 1) + 1 : c[i] = s[(k + 1) + i - 1]
    BY <2>1, <2>2, SubSeqProperties
  <2>5. c \in Seq(T)
    BY <2>1, <2>2, SubSeqProperties
  <2> HIDE DEF c
  <2>6. /\ k \in Int /\ k <= Len(s) /\ Len(s) - (k + 1) + 1 = Len(s) - k
        /\ \A i \in 1 .. Len(s) - k : (k + 1) + i - 1 = k + i
    BY <1>1
  <2>7. Len(c) = Len(s) - k
    BY <1>1, <2>3, <2>6
  <2>8. \A i \in 1 .. Len(s) - k : c[i] = s[k + i]
    BY <2>4, <2>6
  <2> QED  BY <2>5, <2>7, <2>8
<1>4. /\ a \in Seq(T) /\ Len(a) = Len(s) - 1
      /\ \A i \in 1 .. Len(s) - 1 : a[i] = IF i < k THEN s[i] ELSE s[i + 1]
  <2>1. a = b \o c
    BY DEF RemoveAt
  <2> HIDE DEF a, b, c
  <2>2. /\ a \in Seq(T) /\ Len(a) = Len(b) + Len(c)
        /\ \A i \in 1 .. Len(b) + Len(c) : a[i] = IF i <= Len(b) THEN b[i] ELSE c[i - Len(b)]
    BY <1>2, <1>3, <2>1, ConcatProperties
  <2>3. k \in Int /\ 1 <= k /\ k <= Len(s) /\ Len(b) + Len(c) = Len(s) - 1
    BY <1>1, <1>2, <1>3
  <2>4. ASSUME NEW i \in 1 .. Len(s) - 1  PROVE a[i] = IF i < k THEN s[i] ELSE s[i + 1]
    <3>1. a[i] = IF i <= Len(b) THEN b[i] ELSE c[i - Len(b)]
      BY <2>2, <2>3
    <3>2. CASE i < k
      <4>1. i <= Len(b) /\ i \in 1 .. k - 1
        BY <1>1, <1>2, <2>3, <3>2
      <4> QED  BY <1>2, <3>1, <3>2, <4>1
    <3>3. CASE ~(i < k)
      <4>1. ~(i <= Len(b)) /\ i - Len(b) \in 1 .. Len(s) - k /\ k + (i - Len(b)) = i + 1
        BY <1>1, <1>2, <2>3, <3>3
      <4> QED  BY <1>3, <3>1, <3>3, <4>1
    <3> QED  BY <3>2, <3>3
  <2> QED  BY <2>2, <2>3, <2>4
<1>5. DOMAIN a = 1 .. Len(s) - 1
  BY <1>4, LenProperties
<1> HIDE DEF a
<1>6. ASSUME NEW i \in DOMAIN a
      PROVE  \E j \in DOMAIN s : j # k /\ a[i] = s[j] /\ j = IF i < k THEN i ELSE i + 1
  <2>1. CASE i < k
    BY <1>1, <1>4, <1>5, <2>1
  <2>2. CASE ~(i < k)
    <3>1. i + 1 \in DOMAIN s /\ i + 1 # k
      BY <1>1, <1>5, <2>2
    <3> QED  BY <1>4, <1>5, <2>2, <3>1
  <2> QED  BY <2>1, <2>2
<1>7. ASSUME NEW j \in DOMAIN s, j # k  PROVE \E i \in DOMAIN a : a[i] = s[j]
  <2>1. CASE j < k
    BY <1>1, <1>4, <1>5, <2>1
  <2>2. CASE ~(j < k)
    <3>1. j - 1 \in 1 .. Len(s) - 1 /\ ~(j - 1 < k) /\ (j - 1) + 1 = j
      BY <1>1, <1>7, <2>2
    <3> QED  BY <1>4, <1>5, <3>1
  <2> QED  BY <2>1, <2>2
<1>8. ASSUME IsInjective(s)  PROVE ToSet(a) = ToSet(s) \ {s[k]}
  <2>1. ASSUME NEW x \in ToSet(a)  PROVE x \in ToSet(s) \ {s[k]}
    <3>1. PICK i \in DOMAIN a : x = a[i]
      BY <2>1 DEF ToSet
    <3>2. PICK j \in DOMAIN s : j # k /\ a[i] = s[j]
      BY <1>6
    <3> QED  BY <1>8, <3>1, <3>2 DEF ToSet, IsInjective
  <2>2. ASSUME NEW x \in ToSet(s), x # s[k]  PROVE x \in ToSet(a)
    <3>1. PICK j \in DOMAIN s : x = s[j]
      BY <2>2 DEF ToSet
    <3>2. PICK i \in DOMAIN a : a[i] = s[j]
      BY <1>7, <2>2, <3>1
    <3> QED  BY <3>1, <3>2 DEF ToSet
  <2> QED  BY <2>1, <2>2
<1>9. ASSUME IsInjective(s)  PROVE IsInjective(a)
  <2>1. SUFFICES ASSUME NEW i \in DOMAIN a, NEW j \in DOMAIN a, a[i] = a[j]  PROVE i = j
    BY DEF IsInjective
  <2>2. PICK m \in DOMAIN s : a[i] = s[m] /\ m = IF i < k THEN i ELSE i + 1
    BY <1>6
  <2>3. PICK n \in DOMAIN s : a[j] = s[n] /\ n = IF j < k THEN j ELSE j + 1
    BY <1>6
  <2>4. m = n
    BY <1>9, <2>1, <2>2, <2>3 DEF IsInjective
  <2> QED  BY <1>1, <1>5, <2>2, <2>3, <2>4
<1> QED  BY <1>4, <1>8, <1>9 DEF a

(* Every nonempty set of naturals has a smallest element.                  *)
LEMMA SmallestOf ==
    ASSUME NEW S, S \subseteq Nat, S # {}
    PROVE  \E m \in S : \A j \in S : m <= j
<1>1. PICK R : R = OpToRel(<, Nat)
  OBVIOUS
<1>2. IsWellFoundedOn(R, Nat)
  BY <1>1, NatLessThanWellFounded
<1>3. PICK m \in S : \A y \in S : ~(<<y, m>> \in R)
  BY <1>2, WFMin
<1>4. ASSUME NEW j \in S  PROVE m <= j
  <2>1. ~(j < m)
    BY <1>1, <1>3 DEF OpToRel
  <2> QED  BY <2>1
<1> QED  BY <1>4

(* A nonempty set of naturals with a bound has a largest element.          *)
LEMMA LargestOf ==
    ASSUME NEW n \in Nat, NEW S, S \subseteq 1 .. n, S # {}
    PROVE  Max(S) \in S /\ \A j \in S : j <= Max(S)
<1> DEFINE T == {n - j : j \in S}
<1>1. T \subseteq Nat /\ T # {}
  <2>1. \A j \in S : n - j \in Nat
    <3> SUFFICES ASSUME NEW j \in S  PROVE n - j \in Nat
      OBVIOUS
    <3>1. j \in 1 .. n
      OBVIOUS
    <3> QED  BY <3>1
  <2>2. T \subseteq Nat
    BY <2>1
  <2>3. PICK j : j \in S
    OBVIOUS
  <2>4. n - j \in T
    BY <2>3
  <2> QED  BY <2>2, <2>4
<1>2. PICK m \in T : \A j \in T : m <= j
  BY <1>1, SmallestOf
<1>3. PICK x \in S : m = n - x
  BY <1>2
<1>4. \A y \in S : x >= y
  <2> SUFFICES ASSUME NEW y \in S  PROVE x >= y
    OBVIOUS
  <2>1. n - x <= n - y
    BY <1>2, <1>3
  <2> QED  BY <2>1
<1>5. \E z \in S : \A y \in S : z >= y
  BY <1>4
<1>6. Max(S) \in S /\ \A y \in S : Max(S) >= y
  BY <1>5 DEF Max
<1> QED  BY <1>6

-----------------------------------------------------------------------------
(* Rectangles.                                                             *)

\* guac_common_rect_extend: no pixel of either rectangle is lost, so marking
\* a region dirty never forgets an earlier one (surface.c mark_dirty).
THEOREM ExtendContains ==
    ASSUME NEW r \in Rects, NEW min \in Rects, NEW px \in Int, NEW py \in Int
    PROVE  Inside(r, px, py) \/ Inside(min, px, py)
           => Inside(RectExtend(r, min), px, py)
BY DEF Rects, Inside, RectExtend, Edges, RectInit, Least, Most

\* guac_common_rect_constrain: exactly the pixels of both, also when the
\* rectangles are apart and the dimensions come out negative (bound_rect and
\* clip_rect of surface.c).
THEOREM ConstrainExact ==
    ASSUME NEW r \in Rects, NEW max \in Rects, NEW px \in Int, NEW py \in Int
    PROVE  Inside(RectConstrain(r, max), px, py)
           <=> Inside(r, px, py) /\ Inside(max, px, py)
BY DEF Rects, Inside, RectConstrain, Edges, RectInit, Least, Most

\* One dimension of guac_common_rect_expand_to_grid: a span inside its
\* bounds only grows, and stays inside them.
LEMMA ExpandSpanSound ==
    ASSUME NEW cell \in Int, cell > 1,
           NEW at \in Int, NEW len \in Int, len >= 0,
           NEW maxat \in Int, NEW maxlen \in Int,
           maxat <= at, at + len <= maxat + maxlen
    PROVE  LET e == ExpandSpan(cell, at, len, maxat, maxlen)
           IN  /\ e.lo \in Int /\ e.hi \in Int
               /\ maxat <= e.lo /\ e.lo <= at
               /\ at + len <= e.hi /\ e.hi <= maxat + maxlen
<1> DEFINE grow == cell - (len % cell)
           half == grow \div 2
           lo == at - half
           hi == lo + len + grow
           maxhi == maxat + maxlen
<1>1. grow \in Int /\ grow > 0
  BY SMT
<1>2. half \in Int /\ 0 <= half /\ half <= grow
  BY <1>1, SMT
<1>3. lo \in Int /\ hi \in Int /\ lo <= at /\ at + len <= hi
  BY <1>1, <1>2
<1>4. ExpandSpan(cell, at, len, maxat, maxlen) =
        CASE hi > maxhi -> [lo |-> Most(lo - (hi - maxhi), maxat), hi |-> maxhi]
          [] hi <= maxhi /\ lo < maxat ->
                [lo |-> maxat, hi |-> Least(hi + (maxat - lo), maxhi)]
          [] OTHER -> [lo |-> lo, hi |-> hi]
  BY DEF ExpandSpan
<1> HIDE DEF grow, half, lo, hi
<1>5. CASE hi > maxhi
  <2>1. ExpandSpan(cell, at, len, maxat, maxlen)
           = [lo |-> Most(lo - (hi - maxhi), maxat), hi |-> maxhi]
    BY <1>3, <1>4, <1>5
  <2> QED BY <2>1, <1>3, <1>5 DEF Most
<1>6. CASE hi <= maxhi /\ lo < maxat
  <2>1. ExpandSpan(cell, at, len, maxat, maxlen)
           = [lo |-> maxat, hi |-> Least(hi + (maxat - lo), maxhi)]
    BY <1>3, <1>4, <1>6
  <2> QED BY <2>1, <1>3, <1>6 DEF Least
<1>7. CASE hi <= maxhi /\ lo >= maxat
  <2>1. ExpandSpan(cell, at, len, maxat, maxlen) = [lo |-> lo, hi |-> hi]
    BY <1>3, <1>4, <1>7
  <2> QED BY <2>1, <1>3, <1>7
<1> QED BY <1>3, <1>5, <1>6, <1>7

\* guac_common_rect_expand_to_grid: aligning a dirty rectangle to the blocks
\* of JPEG or WebP keeps every dirty pixel and never leaves the surface, so
\* the encoder reads no byte outside the buffer (flush_to_jpeg and
\* flush_to_webp of surface.c).
THEOREM ExpandContainsWithinBounds ==
    ASSUME NEW cell \in Int, NEW r \in Rects, NEW max \in Rects,
           r.w >= 0, r.h >= 0, Within(r, max)
    PROVE  /\ Within(r, RectExpandToGrid(cell, r, max))
           /\ Within(RectExpandToGrid(cell, r, max), max)
<1>1. CASE cell <= 1
  BY <1>1 DEF RectExpandToGrid, Within, Rects
<1>2. CASE cell > 1
  <2> DEFINE hor == ExpandSpan(cell, r.x, r.w, max.x, max.w)
             ver == ExpandSpan(cell, r.y, r.h, max.y, max.h)
  <2>1. /\ r.x \in Int /\ r.y \in Int /\ r.w \in Int /\ r.h \in Int
        /\ max.x \in Int /\ max.y \in Int /\ max.w \in Int /\ max.h \in Int
    BY DEF Rects
  <2>2. /\ hor.lo \in Int /\ hor.hi \in Int
        /\ max.x <= hor.lo /\ hor.lo <= r.x
        /\ r.x + r.w <= hor.hi /\ hor.hi <= max.x + max.w
    BY <1>2, <2>1, ExpandSpanSound DEF Within
  <2>3. /\ ver.lo \in Int /\ ver.hi \in Int
        /\ max.y <= ver.lo /\ ver.lo <= r.y
        /\ r.y + r.h <= ver.hi /\ ver.hi <= max.y + max.h
    BY <1>2, <2>1, ExpandSpanSound DEF Within
  <2>4. RectExpandToGrid(cell, r, max) = Edges(hor.lo, ver.lo, hor.hi, ver.hi)
    BY <1>2 DEF RectExpandToGrid
  <2> HIDE DEF hor, ver
  <2> QED BY <2>1, <2>2, <2>3, <2>4 DEF Within, Edges, RectInit
<1> QED BY <1>1, <1>2

\* guac_common_rect_clip_and_split: a cut loses no pixel and sends none
\* twice; what is split off lies outside the hole.
THEOREM SplitPartitions ==
    ASSUME NEW r \in Rects, NEW hole \in Rects, r.w >= 0, r.h >= 0,
           hole.w >= 0, hole.h >= 0,
           RectClipAndSplit(r, hole).did,
           NEW px \in Int, NEW py \in Int
    PROVE  LET cut == RectClipAndSplit(r, hole)
           IN  /\ Inside(r, px, py)
                  <=> Inside(cut.split, px, py) \/ Inside(cut.rest, px, py)
               /\ ~(Inside(cut.split, px, py) /\ Inside(cut.rest, px, py))
               /\ Inside(cut.split, px, py) => ~Inside(hole, px, py)
<1> DEFINE right == r.x + r.w
           bottom == r.y + r.h
<1>0. /\ r.x \in Int /\ r.y \in Int /\ r.w \in Int /\ r.h \in Int
      /\ hole.x \in Int /\ hole.y \in Int /\ hole.w \in Int /\ hole.h \in Int
  BY DEF Rects
<1>1. RectIntersects(r, hole) # 0
  BY DEF RectClipAndSplit
<1>2. ~Apart(r, hole)
  BY <1>1 DEF RectIntersects
<1>3. CASE r.y < hole.y
  <2> DEFINE cut == RectClipAndSplit(r, hole)
  <2>1. cut = [did |-> TRUE, split |-> Edges(r.x, r.y, right, hole.y),
               rest |-> Edges(r.x, hole.y, right, bottom)]
    BY <1>1, <1>3 DEF RectClipAndSplit
  <2>2. /\ cut.split = Edges(r.x, r.y, right, hole.y)
        /\ cut.rest = Edges(r.x, hole.y, right, bottom)
    BY <2>1
  <2> HIDE DEF cut
  <2>3. /\ Inside(r, px, py) <=> Inside(cut.split, px, py) \/ Inside(cut.rest, px, py)
        /\ ~(Inside(cut.split, px, py) /\ Inside(cut.rest, px, py))
        /\ Inside(cut.split, px, py) => ~Inside(hole, px, py)
    BY <1>0, <1>2, <1>3, <2>2 DEF Edges, RectInit, Inside, Apart
  <2> QED BY <2>3 DEF cut
<1>4. CASE ~(r.y < hole.y) /\ r.x < hole.x
  <2> DEFINE cut == RectClipAndSplit(r, hole)
  <2>1. cut = [did |-> TRUE, split |-> Edges(r.x, r.y, hole.x, bottom),
               rest |-> Edges(hole.x, r.y, right, bottom)]
    BY <1>1, <1>4 DEF RectClipAndSplit
  <2>2. /\ cut.split = Edges(r.x, r.y, hole.x, bottom)
        /\ cut.rest = Edges(hole.x, r.y, right, bottom)
    BY <2>1
  <2> HIDE DEF cut
  <2>3. /\ Inside(r, px, py) <=> Inside(cut.split, px, py) \/ Inside(cut.rest, px, py)
        /\ ~(Inside(cut.split, px, py) /\ Inside(cut.rest, px, py))
        /\ Inside(cut.split, px, py) => ~Inside(hole, px, py)
    BY <1>0, <1>2, <1>4, <2>2 DEF Edges, RectInit, Inside, Apart
  <2> QED BY <2>3 DEF cut
<1>5. CASE ~(r.y < hole.y) /\ ~(r.x < hole.x) /\ bottom > hole.y + hole.h
  <2> DEFINE cut == RectClipAndSplit(r, hole)
  <2>1. cut = [did |-> TRUE, split |-> Edges(r.x, hole.y + hole.h, right, bottom),
               rest |-> Edges(r.x, r.y, right, hole.y + hole.h)]
    BY <1>1, <1>5 DEF RectClipAndSplit
  <2>2. /\ cut.split = Edges(r.x, hole.y + hole.h, right, bottom)
        /\ cut.rest = Edges(r.x, r.y, right, hole.y + hole.h)
    BY <2>1
  <2> HIDE DEF cut
  <2>3. /\ Inside(r, px, py) <=> Inside(cut.split, px, py) \/ Inside(cut.rest, px, py)
        /\ ~(Inside(cut.split, px, py) /\ Inside(cut.rest, px, py))
        /\ Inside(cut.split, px, py) => ~Inside(hole, px, py)
    BY <1>0, <1>2, <1>5, <2>2 DEF Edges, RectInit, Inside, Apart
  <2> QED BY <2>3 DEF cut
<1>6. CASE ~(r.y < hole.y) /\ ~(r.x < hole.x) /\ ~(bottom > hole.y + hole.h)
  <2> DEFINE cut == RectClipAndSplit(r, hole)
  <2>0. right > hole.x + hole.w
    BY <1>1, <1>6 DEF RectClipAndSplit
  <2>1. cut = [did |-> TRUE, split |-> Edges(hole.x + hole.w, r.y, right, bottom),
               rest |-> Edges(r.x, r.y, hole.x + hole.w, bottom)]
    BY <1>1, <1>6, <2>0 DEF RectClipAndSplit
  <2>2. /\ cut.split = Edges(hole.x + hole.w, r.y, right, bottom)
        /\ cut.rest = Edges(r.x, r.y, hole.x + hole.w, bottom)
    BY <2>1
  <2> HIDE DEF cut
  <2>3. /\ Inside(r, px, py) <=> Inside(cut.split, px, py) \/ Inside(cut.rest, px, py)
        /\ ~(Inside(cut.split, px, py) /\ Inside(cut.rest, px, py))
        /\ Inside(cut.split, px, py) => ~Inside(hole, px, py)
    BY <1>0, <1>2, <1>6, <2>2, <2>0 DEF Edges, RectInit, Inside, Apart
  <2> QED BY <2>3 DEF cut
<1> QED BY <1>3, <1>4, <1>5, <1>6
=============================================================================
