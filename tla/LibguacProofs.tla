--------------------------- MODULE LibguacProofs ---------------------------
(***************************************************************************)
(* Theorems about what a connection of libguac hands out.                  *)
(*                                                                         *)
(* UserStreams: the inductive invariant is StreamsInv.  Its part about the *)
(* pools, PoolsInv, says of every pool which numbers are given out: those  *)
(* of the slots that are taken, or of the buffers that are alive.  Its     *)
(* part about arguments, ArgsInv, ties the count of calls of an argument   *)
(* to the mark that its registration bears.  StreamsInvBut is what holds   *)
(* between the end of a stream and its close, inside of one handler.       *)
(*                                                                         *)
(* Recorder: the inductive invariant is RecInv; FileLocks says what the    *)
(* POSIX locks grant, Opened what O_CREAT and O_EXCL do.                   *)
(*                                                                         *)
(* Guaclog: HeldTracked is inductive with the types of the state (LogInv); *)
(* the work is in what adding and trimming do to the array.                *)
(*                                                                         *)
(* Guacenc: Timed ties the timeline of the video to the times of the       *)
(* "sync" instructions; SameTime says what leaves it alone, which is all   *)
(* of the drawing, flattening included.                                    *)
(***************************************************************************)
EXTENDS Recorder, UserStreams, Guaclog, Guacenc, CommonProofs,
        FiniteSetTheorems, SequenceTheorems, WellFoundedInduction, TLAPS

-----------------------------------------------------------------------------
(* Pools and the sequences they are made of.                               *)

(* A pool that has given out the numbers U and not got them back.          *)
Pools == [min : Nat, active : Int, next : Int, free : Seq(Int)]

GivenOut(p, U) ==
    /\ p \in Pools /\ p.next \in Nat
    /\ U \cap ToSet(p.free) = {} /\ IsInjective(p.free)
    /\ U \cup ToSet(p.free) = 0 .. p.next - 1
    /\ p.active = Cardinality(U)

(* guac_pool_next_int gives out a number that nobody has.                  *)
LEMMA PoolTakes ==
    ASSUME NEW p, NEW U, IsFiniteSet(U), GivenOut(p, U)
    PROVE  /\ NextInt(p) \in Nat /\ NextInt(p) \notin U
           /\ GivenOut(AfterNextInt(p), U \cup {NextInt(p)})
           /\ p.next <= AfterNextInt(p).next
           /\ AfterNextInt(p).next = p.next \/ NextInt(p) = p.next
<1>0. p \in Pools /\ p.next \in Nat /\ p.active \in Int /\ p.free \in Seq(Int)
  BY DEF GivenOut, Pools
<1> USE DEF GivenOut
<1> DEFINE n == NextInt(p)  q == AfterNextInt(p)
<1>1. n \notin U => Cardinality(U \cup {n}) = Cardinality(U) + 1
  BY FS_AddElement
<1>2. CASE PoolTakesNew(p)
  <2>1. n = p.next /\ q = [p EXCEPT !.active = @ + 1, !.next = @ + 1]
    BY <1>2 DEF NextInt, AfterNextInt
  <2>2. /\ q \in Pools /\ q.free = p.free /\ q.next = p.next + 1 /\ q.active = p.active + 1
    <3>1. q = [p EXCEPT !.active = p.active + 1, !.next = p.next + 1]
      BY <2>1
    <3> HIDE DEF q, GivenOut
    <3>2. p.active + 1 \in Int /\ p.next + 1 \in Int
      BY <1>0
    <3> QED  BY <1>0, <3>1, <3>2 DEF Pools
  <2>3. n \notin U \cup ToSet(p.free)
    BY <2>1
  <2> HIDE DEF n, q
  <2>4. (U \cup {n}) \cup ToSet(q.free) = 0 .. q.next - 1
    BY <2>1, <2>2
  <2> QED  BY <1>1, <2>1, <2>2, <2>3, <2>4 DEF n, q
<1>3. CASE ~PoolTakesNew(p)
  <2>1. /\ p.free # <<>>
        /\ n = Head(p.free) /\ q = [p EXCEPT !.active = @ + 1, !.free = Tail(@)]
    BY <1>3 DEF NextInt, AfterNextInt, PoolTakesNew
  <2>2. /\ ToSet(p.free) = ToSet(Tail(p.free)) \cup {n} /\ Tail(p.free) \in Seq(Int)
        /\ IsInjective(Tail(p.free)) /\ n \notin ToSet(Tail(p.free))
    BY <1>0, <2>1, SetOfTail
  <2>3. /\ q \in Pools /\ q.free = Tail(p.free) /\ q.next = p.next /\ q.active = p.active + 1
    <3>1. q = [p EXCEPT !.active = p.active + 1, !.free = Tail(p.free)]
      BY <2>1
    <3> HIDE DEF q, GivenOut
    <3>2. p.active + 1 \in Int
      BY <1>0
    <3> QED  BY <1>0, <2>2, <3>1, <3>2 DEF Pools
  <2>4. n \in 0 .. p.next - 1 /\ n \notin U
    BY <2>2
  <2> HIDE DEF n, q
  <2> QED  BY <1>1, <2>2, <2>3, <2>4 DEF n, q
<1> QED  BY <1>2, <1>3

(* guac_pool_free_int takes back a number that somebody has.               *)
LEMMA PoolGets ==
    ASSUME NEW p, NEW U, IsFiniteSet(U), GivenOut(p, U), NEW v \in U
    PROVE  GivenOut(FreeInt(p, v), U \ {v}) /\ FreeInt(p, v).next = p.next
<1>0. p \in Pools /\ p.next \in Nat /\ p.active \in Int /\ p.free \in Seq(Int)
  BY DEF GivenOut, Pools
<1> USE DEF GivenOut
<1> DEFINE q == FreeInt(p, v)
<1>1. Cardinality(U \ {v}) = Cardinality(U) - 1
  BY FS_RemoveElement
<1>2. v \in Int /\ v \notin ToSet(p.free)
  OBVIOUS
<1>3. /\ ToSet(Append(p.free, v)) = ToSet(p.free) \cup {v} /\ Append(p.free, v) \in Seq(Int)
      /\ IsInjective(Append(p.free, v))
  BY <1>0, <1>2, SetOfAppend, AppendProperties
<1>4. /\ q \in Pools /\ q.free = Append(p.free, v) /\ q.next = p.next /\ q.active = p.active - 1
  <2>1. q = [p EXCEPT !.active = p.active - 1, !.free = Append(p.free, v)]
    BY DEF FreeInt
  <2> HIDE DEF q, GivenOut
  <2>2. p.active - 1 \in Int
    BY <1>0
  <2> QED  BY <1>0, <1>3, <2>1, <2>2 DEF Pools
<1> HIDE DEF q
<1> QED  BY <1>1, <1>2, <1>3, <1>4 DEF q

-----------------------------------------------------------------------------
(* The types of the state.                                                 *)
SlotKinds == {"client", "user", "object"}
NumberSets == SUBSET Nat
InputStreams ==
    [open : BOOLEAN, handler : {"none", "plugin", "argv"}, arg : Nat,
     value : Values \cup {NULL}, freed : BOOLEAN]
Arguments == [name : ArgNames, once : BOOLEAN, echo : BOOLEAN, received : BOOLEAN]
StreamState ==
    [pool : [Kinds -> Pools], slot : [SlotKinds -> NumberSets],
     live : [{"layer", "buffer"} -> Seq(Int)],
     input : [Slots -> InputStreams],
     handlers : SUBSET {"argv", "clipboard", "file", "audio", "pipe", "put"},
     registered : Seq(Arguments), stopped : BOOLEAN, awake : SUBSET Plugin,
     calls : [ArgNames -> Nat],
     applied : [ArgNames -> Values \cup {NULL}], echoed : [ArgNames -> Values \cup {NULL}],
     active : BOOLEAN, crashed : BOOLEAN]

(* The numbers that are in use: slots that are taken, buffers that are     *)
(* alive.                                                                  *)
Taken(s, kind) == s.slot[kind]
BufferNumbers(s) == {-i - 1 : i \in ToSet(s.live.buffer)}

(* Every pool but that of the layers has given out exactly those numbers.  *)
PoolsInv(s) ==
    /\ \A kind \in SlotKinds : GivenOut(s.pool[kind], Taken(s, kind))
    /\ GivenOut(s.pool.buffer, BufferNumbers(s)) /\ IsInjective(s.live.buffer)

(* What a step may leave alone.                                            *)
SamePools(s, t) == t.pool = s.pool /\ t.slot = s.slot /\ t.live = s.live
SameArgs(s, t) == t.input = s.input /\ t.registered = s.registered /\ t.calls = s.calls

(* A step that leaves pools, slots, layers and buffers alone.              *)
LEMMA PoolsSame == ASSUME NEW s, NEW t, SamePools(s, t), PoolsInv(s) PROVE PoolsInv(t)
BY DEF SamePools, PoolsInv, Taken, BufferNumbers

(* What is taken can be counted: the numbers are below next.               *)
LEMMA SlotsFinite == \A s : PoolsInv(s) => \A kind \in SlotKinds : IsFiniteSet(Taken(s, kind))
<1> SUFFICES ASSUME NEW s, PoolsInv(s), NEW kind \in SlotKinds  PROVE IsFiniteSet(Taken(s, kind))
  OBVIOUS
<1>1. Taken(s, kind) \subseteq 0 .. s.pool[kind].next - 1 /\ s.pool[kind].next - 1 \in Int
  BY DEF PoolsInv, GivenOut
<1>2. IsFiniteSet(0 .. s.pool[kind].next - 1)
  BY <1>1, FS_Interval
<1> QED  BY <1>1, <1>2, FS_Subset

(* Updates of the state as operators, so that a lemma can speak of them.   *)
WithSlots(s, kind, f, p) == [s EXCEPT !.slot[kind] = f, !.pool[kind] = p]

(* The fields of the state after what is taken of one array, and its pool, *)
(* have changed.                                                           *)
LEMMA SlotsSet ==
    ASSUME NEW s \in StreamState, NEW kind \in SlotKinds, NEW f \in NumberSets,
           NEW p \in Pools, NEW t, t = WithSlots(s, kind, f, p)
    PROVE  /\ t \in StreamState
           /\ SameArgs(s, t) /\ t.live = s.live
           /\ t.slot = [s.slot EXCEPT ![kind] = f] /\ t.pool = [s.pool EXCEPT ![kind] = p]
<1> DEFINE slot == [s.slot EXCEPT ![kind] = f]  pool == [s.pool EXCEPT ![kind] = p]
<1>1. s.slot \in [SlotKinds -> NumberSets] /\ s.pool \in [Kinds -> Pools]
  BY DEF StreamState
<1>2. slot \in [SlotKinds -> NumberSets]
  BY <1>1
<1>3. pool \in [Kinds -> Pools]
  BY <1>1 DEF SlotKinds, Kinds
<1>4. t = [s EXCEPT !.slot = slot, !.pool = pool]
  BY DEF StreamState, WithSlots
<1> HIDE DEF slot, pool
<1>5. t \in StreamState /\ SameArgs(s, t) /\ t.live = s.live /\ t.slot = slot /\ t.pool = pool
  BY <1>2, <1>3, <1>4 DEF StreamState, SameArgs
<1> QED  BY <1>5 DEF slot, pool

(* guac_client_alloc_stream, guac_user_alloc_stream and                    *)
(* guac_user_alloc_object: the number the pool gives is not that of a slot *)
(* in use.                                                                 *)
LEMMA TakeSlotSound ==
    ASSUME NEW s \in StreamState, PoolsInv(s), NEW kind \in SlotKinds,
           NEW t, t = TakeSlot(s, kind)
    PROVE  t \in StreamState /\ PoolsInv(t) /\ SameArgs(s, t) /\ NextInt(s.pool[kind]) \in Taken(t, kind)
<1> DEFINE n == NextInt(s.pool[kind])
           p == AfterNextInt(s.pool[kind])
           f == s.slot[kind] \cup {n}
           u == WithSlots(s, kind, f, p)
<1>1. /\ n \notin Taken(s, kind) /\ GivenOut(p, Taken(s, kind) \cup {n})
  BY PoolTakes, SlotsFinite DEF PoolsInv
<1>2. p \in Pools /\ n \in 0 .. p.next - 1 /\ p.next \in Nat
  BY <1>1 DEF GivenOut, Pools
<1>3. f \in NumberSets
  BY <1>2 DEF StreamState, NumberSets
<1>4. t = [u EXCEPT !.crashed = s.crashed \/ n \notin Slots]
  BY DEF TakeSlot, WithSlots, StreamState
<1> HIDE DEF p, n, f, u
<1>5. /\ u \in StreamState /\ SameArgs(s, u) /\ u.live = s.live
      /\ u.slot = [s.slot EXCEPT ![kind] = f] /\ u.pool = [s.pool EXCEPT ![kind] = p]
  BY <1>2, <1>3, SlotsSet DEF u
<1>6. t \in StreamState /\ SameArgs(u, t) /\ SamePools(u, t)
  BY <1>4, <1>5 DEF StreamState, SameArgs, SamePools
<1>7. /\ u.pool[kind] = p /\ Taken(u, kind) = Taken(s, kind) \cup {n}
      /\ \A k \in SlotKinds \ {kind} : u.pool[k] = s.pool[k] /\ Taken(u, k) = Taken(s, k)
      /\ u.pool.buffer = s.pool.buffer /\ BufferNumbers(u) = BufferNumbers(s)
  BY <1>5 DEF StreamState, SlotKinds, Kinds, Taken, BufferNumbers, f
<1>8. PoolsInv(u)
  BY <1>1, <1>5, <1>7 DEF PoolsInv
<1>9. PoolsInv(t) /\ Taken(t, kind) = Taken(u, kind)
  BY <1>6, <1>8, PoolsSame DEF SamePools, Taken
<1> QED  BY <1>5, <1>6, <1>7, <1>9 DEF SameArgs, n

(* guac_client_free_stream, guac_user_free_stream and                      *)
(* guac_user_free_object: the number is found again from the index of the  *)
(* stream.                                                                 *)
LEMMA FreeSlotSound ==
    ASSUME NEW s \in StreamState, PoolsInv(s), NEW kind \in SlotKinds,
           NEW n \in Taken(s, kind),
           NEW t, t = FreeSlot(s, kind, StreamIndex(kind, n))
    PROVE  t \in StreamState /\ PoolsInv(t) /\ SameArgs(s, t)
<1> DEFINE p == FreeInt(s.pool[kind], n)
           f == s.slot[kind] \ {n}
<1> n \in Nat
  BY DEF Taken, StreamState, NumberSets
<1>1. SlotOf(kind, StreamIndex(kind, n)) = n
  BY DEF SlotOf, StreamIndex, SlotKinds
<1>2. t = WithSlots(s, kind, f, p)
  BY <1>1 DEF FreeSlot, WithSlots
<1>0. f \in NumberSets
  BY DEF StreamState, NumberSets
<1>3. GivenOut(p, Taken(s, kind) \ {n})
  BY PoolGets, SlotsFinite DEF PoolsInv
<1>4. p \in Pools
  BY <1>3 DEF GivenOut
<1> HIDE DEF p, f
<1>6. /\ t \in StreamState /\ SameArgs(s, t) /\ t.live = s.live
      /\ t.slot = [s.slot EXCEPT ![kind] = f] /\ t.pool = [s.pool EXCEPT ![kind] = p]
  BY <1>0, <1>2, <1>4, SlotsSet
<1>7. /\ t.pool[kind] = p /\ Taken(t, kind) = Taken(s, kind) \ {n}
      /\ \A k \in SlotKinds \ {kind} : t.pool[k] = s.pool[k] /\ Taken(t, k) = Taken(s, k)
      /\ t.pool.buffer = s.pool.buffer /\ BufferNumbers(t) = BufferNumbers(s)
  BY <1>6 DEF StreamState, SlotKinds, Kinds, Taken, BufferNumbers, f
<1> QED  BY <1>3, <1>6, <1>7 DEF PoolsInv

(* A stream for the time it takes to send a value leaves the pools sound.  *)
LEMMA StreamOnceSound ==
    ASSUME NEW s \in StreamState, PoolsInv(s), NEW t, t = StreamOnce(s)
    PROVE  t \in StreamState /\ PoolsInv(t) /\ SameArgs(s, t)
<1> DEFINE n == NextInt(s.pool.client)  u == TakeSlot(s, "client")
<1>1. CASE ~AtLimit(s, "client")
  <2>1. t = FreeSlot(u, "client", StreamIndex("client", n))
    BY <1>1 DEF StreamOnce
  <2>2. /\ u \in StreamState /\ PoolsInv(u) /\ SameArgs(s, u)
        /\ n \in Taken(u, "client")
    BY TakeSlotSound DEF SlotKinds
  <2> HIDE DEF u, n
  <2>3. "client" \in SlotKinds
    BY DEF SlotKinds
  <2>4. t \in StreamState /\ PoolsInv(t) /\ SameArgs(u, t)
    BY <2>1, <2>2, <2>3, FreeSlotSound
  <2> QED  BY <2>2, <2>4 DEF SameArgs
<1>2. CASE AtLimit(s, "client")
  <2>1. t = [s EXCEPT !.crashed = TRUE]
    BY <1>2 DEF StreamOnce
  <2>2. t \in StreamState /\ SamePools(s, t) /\ SameArgs(s, t)
    BY <2>1 DEF StreamState, SamePools, SameArgs
  <2> QED  BY <2>2, PoolsSame
<1> QED  BY <1>1, <1>2

-----------------------------------------------------------------------------
(* What changes with a layer or a buffer.                                  *)
WithLive(s, kind, l, p) == [s EXCEPT !.live[kind] = l, !.pool[kind] = p]

(* The buffers alive can be counted: their numbers are below next.         *)
LEMMA BuffersFinite == \A s : PoolsInv(s) => IsFiniteSet(BufferNumbers(s))
<1> SUFFICES ASSUME NEW s, PoolsInv(s)  PROVE IsFiniteSet(BufferNumbers(s))
  OBVIOUS
<1>1. BufferNumbers(s) \subseteq 0 .. s.pool.buffer.next - 1 /\ s.pool.buffer.next - 1 \in Int
  BY DEF PoolsInv, GivenOut
<1>2. IsFiniteSet(0 .. s.pool.buffer.next - 1)
  BY <1>1, FS_Interval
<1> QED  BY <1>1, <1>2, FS_Subset

(* The fields of the state after the list of layers or buffers, and its    *)
(* pool, have changed.                                                     *)
LEMMA LiveSet ==
    ASSUME NEW s \in StreamState, NEW kind \in {"layer", "buffer"}, NEW l \in Seq(Int),
           NEW p \in Pools, NEW t, t = WithLive(s, kind, l, p)
    PROVE  /\ t \in StreamState /\ SameArgs(s, t) /\ t.slot = s.slot
           /\ t.live = [s.live EXCEPT ![kind] = l] /\ t.pool = [s.pool EXCEPT ![kind] = p]
<1> DEFINE live == [s.live EXCEPT ![kind] = l]  pool == [s.pool EXCEPT ![kind] = p]
<1>1. s.live \in [{"layer", "buffer"} -> Seq(Int)] /\ s.pool \in [Kinds -> Pools]
  BY DEF StreamState
<1>2. live \in [{"layer", "buffer"} -> Seq(Int)]
  BY <1>1
<1>3. pool \in [Kinds -> Pools]
  BY <1>1 DEF Kinds
<1>4. t = [s EXCEPT !.live = live, !.pool = pool]
  BY DEF StreamState, WithLive
<1> HIDE DEF live, pool
<1>5. t \in StreamState /\ SameArgs(s, t) /\ t.slot = s.slot /\ t.live = live /\ t.pool = pool
  BY <1>2, <1>3, <1>4 DEF StreamState, SameArgs
<1> QED  BY <1>5 DEF live, pool

(* Layers come and go without an effect on anything else.                  *)
LEMMA LayerSound ==
    ASSUME NEW s \in StreamState, PoolsInv(s), NEW l \in Seq(Int), NEW p \in Pools,
           NEW t, t = WithLive(s, "layer", l, p)
    PROVE  t \in StreamState /\ PoolsInv(t) /\ SameArgs(s, t)
<1>1. /\ t \in StreamState /\ SameArgs(s, t) /\ t.slot = s.slot
      /\ t.live = [s.live EXCEPT !["layer"] = l] /\ t.pool = [s.pool EXCEPT !["layer"] = p]
  BY LiveSet
<1>2. /\ t.pool.buffer = s.pool.buffer /\ t.live.buffer = s.live.buffer
      /\ \A kind \in SlotKinds : t.pool[kind] = s.pool[kind] /\ Taken(t, kind) = Taken(s, kind)
  BY <1>1 DEF StreamState, Kinds, SlotKinds, Taken
<1> QED  BY <1>1, <1>2 DEF PoolsInv, BufferNumbers

(* A new list of buffers is sound if its pool has given out exactly their  *)
(* numbers.                                                                *)
LEMMA BufferSound ==
    ASSUME NEW s \in StreamState, PoolsInv(s), NEW l \in Seq(Int), NEW p, IsInjective(l),
           GivenOut(p, {-i - 1 : i \in ToSet(l)}),
           NEW t, t = WithLive(s, "buffer", l, p)
    PROVE  t \in StreamState /\ PoolsInv(t) /\ SameArgs(s, t)
<1>0. p \in Pools
  BY DEF GivenOut
<1>1. /\ t \in StreamState /\ SameArgs(s, t) /\ t.slot = s.slot
      /\ t.live = [s.live EXCEPT !["buffer"] = l] /\ t.pool = [s.pool EXCEPT !["buffer"] = p]
  BY <1>0, LiveSet
<1>2. /\ t.pool.buffer = p /\ t.live.buffer = l
      /\ \A kind \in SlotKinds : t.pool[kind] = s.pool[kind] /\ Taken(t, kind) = Taken(s, kind)
  BY <1>1 DEF StreamState, Kinds, SlotKinds, Taken
<1>3. BufferNumbers(t) = {-i - 1 : i \in ToSet(l)}
  BY <1>2 DEF BufferNumbers
<1> QED  BY <1>1, <1>2, <1>3 DEF PoolsInv

(* guac_client_alloc_layer and guac_client_alloc_buffer: the index of a    *)
(* new buffer is that of no other.                                         *)
LEMMA AllocLayerSound ==
    ASSUME st \in StreamState, PoolsInv(st), NEW kind \in {"layer", "buffer"},
           NEW t, t = AllocLayer(kind)
    PROVE  t \in StreamState /\ PoolsInv(t) /\ SameArgs(st, t)
<1> DEFINE q == st.pool[kind]  n == NextInt(q)  p == AfterNextInt(q)  l == st.live[kind]
           m == Append(l, LayerIndex(kind, n))
<1>1. t = WithLive(st, kind, m, p)
  BY DEF AllocLayer, WithLive
<1>2. q \in Pools /\ l \in Seq(Int)
  BY DEF StreamState, Kinds
<1>3. CASE kind = "layer"
  <2> HIDE DEF q, l
  <2>1. q.active \in Int /\ q.next \in Int /\ q.free \in Seq(Int)
    BY <1>2 DEF Pools
  <2>2. n \in Int /\ p \in Pools
    <3>1. CASE PoolTakesNew(q)
      <4>1. n = q.next /\ p = [q EXCEPT !.active = q.active + 1, !.next = q.next + 1]
        BY <3>1 DEF NextInt, AfterNextInt
      <4>2. q.active + 1 \in Int /\ q.next + 1 \in Int
        BY <2>1
      <4> HIDE DEF n, p
      <4> QED  BY <1>2, <2>1, <4>1, <4>2 DEF Pools
    <3>2. CASE ~PoolTakesNew(q)
      <4>1. n = Head(q.free) /\ p = [q EXCEPT !.active = q.active + 1, !.free = Tail(q.free)]
        BY <3>2 DEF NextInt, AfterNextInt
      <4>2. q.active + 1 \in Int /\ Tail(q.free) \in Seq(Int) /\ Head(q.free) \in Int
        BY <2>1, <3>2, SetOfTail DEF PoolTakesNew
      <4> HIDE DEF n, p
      <4> QED  BY <1>2, <2>1, <4>1, <4>2 DEF Pools
    <3> QED  BY <3>1, <3>2
  <2>3. LayerIndex(kind, n) \in Int
    BY <1>3, <2>2 DEF LayerIndex
  <2>4. m \in Seq(Int)
    BY <1>2, <2>3, AppendProperties
  <2> HIDE DEF p, m
  <2> QED  BY <1>1, <1>3, <2>2, <2>4, LayerSound
<1>4. CASE kind = "buffer"
  <2>1. GivenOut(q, BufferNumbers(st)) /\ IsInjective(l)
    BY <1>4 DEF PoolsInv
  <2>2. IsFiniteSet(BufferNumbers(st))
    BY BuffersFinite
  <2> HIDE DEF q, l
  <2>3. /\ n \in Nat /\ n \notin BufferNumbers(st)
        /\ GivenOut(p, BufferNumbers(st) \cup {n})
    BY <2>1, <2>2, PoolTakes
  <2> HIDE DEF n, p
  <2>4. BufferNumbers(st) = {-i - 1 : i \in ToSet(l)}
    BY <1>4 DEF BufferNumbers, l
  <2>5. m = Append(l, -n - 1) /\ -n - 1 \in Int /\ -n - 1 \notin ToSet(l)
    BY <1>4, <2>3, <2>4 DEF LayerIndex
  <2>6. m \in Seq(Int) /\ IsInjective(m) /\ ToSet(m) = ToSet(l) \cup {-n - 1}
    BY <1>2, <2>1, <2>5, SetOfAppend, AppendProperties
  <2> HIDE DEF m
  <2>7. {-i - 1 : i \in ToSet(m)} = BufferNumbers(st) \cup {n}
    <3>1. -(-n - 1) - 1 = n
      BY <2>3
    <3> QED  BY <2>4, <2>6, <3>1
  <2>8. GivenOut(p, {-i - 1 : i \in ToSet(m)})
    BY <2>3, <2>7
  <2> QED  BY <1>1, <1>4, <2>6, <2>8, BufferSound
<1> QED  BY <1>3, <1>4

(* guac_client_free_layer puts a wrong number into the pool of layers,     *)
(* which no other pool notices.                                            *)
LEMMA FreeLayerSound ==
    ASSUME st \in StreamState, PoolsInv(st), NEW k \in DOMAIN st.live.layer,
           NEW t, t = FreeLayer(k)
    PROVE  t \in StreamState /\ PoolsInv(t) /\ SameArgs(st, t)
<1> DEFINE l == st.live.layer  q == st.pool.layer  p == FreeInt(q, l[k])  m == RemoveAt(l, k)
<1>1. t = WithLive(st, "layer", m, p)
  BY DEF FreeLayer, WithLive
<1>2. q \in Pools /\ l \in Seq(Int) /\ k \in DOMAIN l
  BY DEF StreamState, Kinds
<1> HIDE DEF q, l
<1>3. m \in Seq(Int) /\ l[k] \in Int
  BY <1>2, SetOfRemoveAt
<1>4. p \in Pools
  <2>1. p = [q EXCEPT !.active = q.active - 1, !.free = Append(q.free, l[k])]
    BY DEF FreeInt
  <2>2. q.active - 1 \in Int /\ q.free \in Seq(Int)
    BY <1>2 DEF Pools
  <2>3. Append(q.free, l[k]) \in Seq(Int)
    BY <1>3, <2>2, AppendProperties
  <2> HIDE DEF p
  <2> QED  BY <1>2, <2>1, <2>2, <2>3 DEF Pools
<1> HIDE DEF p, m
<1> QED  BY <1>1, <1>3, <1>4, LayerSound

(* guac_client_free_buffer gives back the number that the index was made   *)
(* from.                                                                   *)
LEMMA FreeBufferSound ==
    ASSUME st \in StreamState, PoolsInv(st), NEW k \in DOMAIN st.live.buffer,
           NEW t, t = FreeBuffer(k)
    PROVE  t \in StreamState /\ PoolsInv(t) /\ SameArgs(st, t)
<1> DEFINE l == st.live.buffer  q == st.pool.buffer  v == -l[k] - 1
           p == FreeInt(q, v)  m == RemoveAt(l, k)
<1>1. t = WithLive(st, "buffer", m, p)
  BY DEF FreeBuffer, WithLive
<1>2. l \in Seq(Int) /\ k \in DOMAIN l
  BY DEF StreamState
<1>3. GivenOut(q, BufferNumbers(st)) /\ IsInjective(l)
  BY DEF PoolsInv
<1>4. BufferNumbers(st) = {-i - 1 : i \in ToSet(l)}
  BY DEF BufferNumbers
<1>5. IsFiniteSet(BufferNumbers(st))
  BY BuffersFinite
<1> HIDE DEF q, l
<1>6. m \in Seq(Int) /\ IsInjective(m) /\ ToSet(m) = ToSet(l) \ {l[k]}
  BY <1>2, <1>3, SetOfRemoveAt
<1>7. l[k] \in ToSet(l) /\ ToSet(l) \subseteq Int
  BY <1>2, ElementOfSeq, LenProperties DEF ToSet
<1>8. v \in BufferNumbers(st)
  BY <1>4, <1>7
<1>9. GivenOut(p, BufferNumbers(st) \ {v})
  BY <1>3, <1>5, <1>8, PoolGets
<1> HIDE DEF p, m
<1>10. {-i - 1 : i \in ToSet(m)} = BufferNumbers(st) \ {v}
  BY <1>4, <1>6, <1>7
<1>11. GivenOut(p, {-i - 1 : i \in ToSet(m)})
  BY <1>9, <1>10
<1> QED  BY <1>1, <1>6, <1>11, BufferSound

-----------------------------------------------------------------------------
(* The arguments and the input streams.                                    *)
NamesOnce(s) ==
    \A j, k \in DOMAIN s.registered : s.registered[j].name = s.registered[k].name => j = k
Processed(s, a) ==
    \E k \in DOMAIN s.registered :
        s.registered[k].name = a /\ s.registered[k].once /\ s.registered[k].received
CallsOnce(s) ==
    \A a \in ArgNames : s.calls[a] = 0 \/ (s.calls[a] = 1 /\ Processed(s, a))
ArgThere(s, i) == s.input[i].handler = "argv" => s.input[i].arg \in DOMAIN s.registered
DataThere(s, i) == s.input[i].open => ~s.input[i].freed

ArgsInv(s) == NamesOnce(s) /\ CallsOnce(s) /\ \A i \in Slots : ArgThere(s, i)

StreamsInv(s) ==
    s \in StreamState /\ PoolsInv(s) /\ ArgsInv(s) /\ \A i \in Slots : DataThere(s, i)

(* Between the end of stream i and its close, its data is gone.            *)
StreamsInvBut(s, i) ==
    s \in StreamState /\ PoolsInv(s) /\ ArgsInv(s) /\ \A j \in Slots \ {i} : DataThere(s, j)

(* A step that keeps the pools sound and leaves arguments and input        *)
(* streams alone.                                                          *)
LEMMA ArgsSame ==
    ASSUME NEW s, NEW t, StreamsInv(s), t \in StreamState, PoolsInv(t), SameArgs(s, t)
    PROVE  StreamsInv(t)
BY DEF StreamsInv, SameArgs, ArgsInv, NamesOnce, CallsOnce, Processed, ArgThere, DataThere

(* A step that touches nothing the invariant is about.                     *)
LEMMA AllSame ==
    ASSUME NEW s, NEW t, StreamsInv(s), t \in StreamState, SamePools(s, t), SameArgs(s, t)
    PROVE  StreamsInv(t)
BY ArgsSame, PoolsSame DEF StreamsInv

(* What a handler writes to an input stream.                               *)
WithInput(s, i, d) == [s EXCEPT !.input[i] = d]

(* What is written to an input stream keeps the invariant if its argument  *)
(* is there and, should it be open, its data is.                           *)
LEMMA InputSet ==
    ASSUME NEW i \in Slots, NEW s, StreamsInvBut(s, i), NEW d \in InputStreams,
           d.handler = "argv" => d.arg \in DOMAIN s.registered, d.open => ~d.freed,
           NEW t, t = WithInput(s, i, d)
    PROVE  StreamsInv(t)
<1> DEFINE input == [s.input EXCEPT ![i] = d]
<1>0. s \in StreamState /\ PoolsInv(s) /\ ArgsInv(s) /\ \A j \in Slots \ {i} : DataThere(s, j)
  BY DEF StreamsInvBut
<1>1. s.input \in [Slots -> InputStreams]
  BY <1>0 DEF StreamState
<1>2. /\ input \in [Slots -> InputStreams] /\ input[i] = d
      /\ \A j \in Slots \ {i} : input[j] = s.input[j]
  BY <1>1
<1>3. t = [s EXCEPT !.input = input]
  BY <1>0 DEF WithInput, StreamState
<1> HIDE DEF input
<1>4. /\ t \in StreamState /\ SamePools(s, t) /\ t.input = input
      /\ t.registered = s.registered /\ t.calls = s.calls
  BY <1>0, <1>2, <1>3 DEF StreamState, SamePools
<1>5. PoolsInv(t)
  BY <1>0, <1>4, PoolsSame
<1>6. NamesOnce(t) /\ CallsOnce(t)
  BY <1>0, <1>4 DEF ArgsInv, NamesOnce, CallsOnce, Processed
<1>7. ASSUME NEW j \in Slots  PROVE ArgThere(t, j) /\ DataThere(t, j)
  <2>1. CASE j = i
    BY <1>2, <1>4, <2>1 DEF ArgThere, DataThere
  <2>2. CASE j # i
    BY <1>0, <1>2, <1>4, <2>2 DEF ArgsInv, ArgThere, DataThere
  <2> QED  BY <2>1, <2>2
<1> QED  BY <1>4, <1>5, <1>6, <1>7 DEF StreamsInv, ArgsInv

(* An argument that was received.                                          *)
MarkReceived(r, k) == [r EXCEPT ![k].received = TRUE]

(* The mark that an argument was received changes nothing else, and is     *)
(* never taken back.                                                       *)
LEMMA ReceivedMarked ==
    ASSUME NEW r \in Seq(Arguments), NEW k \in DOMAIN r, NEW q, q = MarkReceived(r, k)
    PROVE  /\ q \in Seq(Arguments) /\ DOMAIN q = DOMAIN r
           /\ \A j \in DOMAIN r : q[j].name = r[j].name /\ q[j].once = r[j].once
           /\ \A j \in DOMAIN r : r[j].received => q[j].received
           /\ q[k].received
<1> DEFINE e == [r[k] EXCEPT !.received = TRUE]
<1>1. r[k] \in Arguments /\ k \in 1 .. Len(r)
  BY ElementOfSeq, LenProperties
<1>2. e \in Arguments /\ e.name = r[k].name /\ e.once = r[k].once /\ e.received
  BY <1>1 DEF Arguments
<1>3. q = [r EXCEPT ![k] = e]
  BY DEF MarkReceived
<1> HIDE DEF e
<1>4. q \in Seq(Arguments)
  BY <1>1, <1>2, <1>3, ExceptSeq
<1>5. /\ DOMAIN q = DOMAIN r /\ q[k] = e
      /\ \A j \in DOMAIN r \ {k} : q[j] = r[j]
  BY <1>3
<1> QED  BY <1>2, <1>4, <1>5

(* guac_argv_end_handler *)
LEMMA ArgvEndSound ==
    ASSUME NEW s, StreamsInv(s), NEW i \in Slots, s.input[i].handler = "argv",
           NEW accepted \in BOOLEAN, NEW t, t = ArgvEnd(s, i, accepted)
    PROVE  StreamsInvBut(t, i)
<1> DEFINE data == s.input[i]
           k == data.arg
           arg == s.registered[k]
           n == IF arg.once /\ ArgvEndApplies(s, i)
                THEN s.calls[arg.name] + 1 ELSE s.calls[arg.name]
           w == IF ArgvEndApplies(s, i) /\ accepted THEN data.value ELSE s.applied[arg.name]
           c == [s.calls EXCEPT ![arg.name] = n]
           v == [s.applied EXCEPT ![arg.name] = w]
           called == [s EXCEPT !.calls[arg.name] =
                                   IF arg.once /\ ArgvEndApplies(s, i) THEN @ + 1 ELSE @,
                               !.applied[arg.name] =
                                   IF ArgvEndApplies(s, i) /\ accepted THEN data.value ELSE @]
           once == StreamOnce(called)
           echoing == arg.echo /\ (accepted \/ ~ArgvEndApplies(s, i))
           told == IF echoing
                   THEN [once EXCEPT !.echoed[arg.name] = data.value]
                   ELSE called
<1>0. s \in StreamState /\ PoolsInv(s) /\ ArgsInv(s) /\ \A j \in Slots : DataThere(s, j)
  BY DEF StreamsInv
<1>1. /\ s.registered \in Seq(Arguments) /\ data \in InputStreams
      /\ s.calls \in [ArgNames -> Nat] /\ s.applied \in [ArgNames -> Values \cup {NULL}]
  BY <1>0 DEF StreamState
<1>2. k \in DOMAIN s.registered
  BY <1>0 DEF ArgsInv, ArgThere
<1>3. arg \in Arguments
  BY <1>1, <1>2, ElementOfSeq, LenProperties
<1>4. /\ arg.name \in ArgNames /\ data.value \in Values \cup {NULL}
  BY <1>1, <1>3 DEF Arguments, InputStreams
<1>5. t = [told EXCEPT !.registered[k].received = TRUE, !.awake = Plugin, !.input[i].freed = TRUE]
  BY DEF ArgvEnd
<1>21. called = [s EXCEPT !.calls = c, !.applied = v]
  BY <1>0 DEF StreamState
<1>22. n \in Nat /\ w \in Values \cup {NULL}
  <2>1. s.calls[arg.name] \in Nat /\ s.applied[arg.name] \in Values \cup {NULL}
    BY <1>1, <1>4
  <2>2. n \in Nat
    <3>1. CASE arg.once /\ ArgvEndApplies(s, i)
      BY <2>1, <3>1, SMTT(30)
    <3>2. CASE ~(arg.once /\ ArgvEndApplies(s, i))
      BY <2>1, <3>2
    <3> QED  BY <3>1, <3>2
  <2>3. w \in Values \cup {NULL}
    <3>1. CASE ArgvEndApplies(s, i) /\ accepted
      BY <1>4, <3>1
    <3>2. CASE ~(ArgvEndApplies(s, i) /\ accepted)
      BY <2>1, <3>2
    <3> QED  BY <3>1, <3>2
  <2> QED  BY <2>2, <2>3
<1>23. n = IF arg.once /\ ArgvEndApplies(s, i) THEN s.calls[arg.name] + 1 ELSE s.calls[arg.name]
  OBVIOUS
<1> HIDE DEF n, w
<1>6. /\ c \in [ArgNames -> Nat] /\ \A a \in ArgNames \ {arg.name} : c[a] = s.calls[a]
      /\ c[arg.name] = n
  BY <1>1, <1>4, <1>22
<1>7. v \in [ArgNames -> Values \cup {NULL}]
  BY <1>1, <1>4, <1>22
<1>8. ArgvEndApplies(s, i) <=> (~arg.once \/ ~arg.received)
  BY DEF ArgvEndApplies
<1> HIDE DEF c, v
<1>9. /\ called \in StreamState /\ SamePools(s, called) /\ called.calls = c
      /\ called.registered = s.registered /\ called.input = s.input
  BY <1>0, <1>6, <1>7, <1>21, ZenonT(30) DEF StreamState, SamePools
<1> HIDE DEF called
<1>10. PoolsInv(called)
  BY <1>0, <1>9, PoolsSame
<1>11. /\ told \in StreamState /\ PoolsInv(told) /\ told.calls = c
       /\ told.registered = s.registered /\ told.input = s.input
  <2>1. CASE echoing
    <3>1. once \in StreamState /\ PoolsInv(once) /\ SameArgs(called, once)
      BY <1>9, <1>10, StreamOnceSound
    <3> HIDE DEF once
    <3> DEFINE e == [once.echoed EXCEPT ![arg.name] = data.value]
    <3>2. told = [once EXCEPT !.echoed = e]
      BY <2>1
    <3>3. e \in [ArgNames -> Values \cup {NULL}]
      BY <1>4, <3>1 DEF StreamState
    <3> HIDE DEF e, told
    <3>4. told \in StreamState /\ SamePools(once, told) /\ SameArgs(once, told)
      BY <3>1, <3>2, <3>3 DEF StreamState, SamePools, SameArgs
    <3> QED  BY <1>9, <3>1, <3>4, PoolsSame DEF SameArgs
  <2>2. CASE ~echoing
    BY <1>9, <1>10, <2>2
  <2> QED  BY <2>1, <2>2
<1> HIDE DEF told
<1> DEFINE r == MarkReceived(s.registered, k)
           input == [s.input EXCEPT ![i] = [data EXCEPT !.freed = TRUE]]
<1>12. t = [told EXCEPT !.registered = r, !.awake = Plugin, !.input = input]
  BY <1>5, <1>11 DEF StreamState, MarkReceived
<1>13. /\ r \in Seq(Arguments) /\ DOMAIN r = DOMAIN s.registered
       /\ \A j \in DOMAIN r : r[j].name = s.registered[j].name /\ r[j].once = s.registered[j].once
       /\ \A j \in DOMAIN r : s.registered[j].received => r[j].received
       /\ r[k].received
  BY <1>1, <1>2, ReceivedMarked, SMTT(30)
<1>14. /\ input \in [Slots -> InputStreams]
       /\ \A j \in Slots : input[j].handler = s.input[j].handler /\ input[j].arg = s.input[j].arg
       /\ \A j \in Slots \ {i} : input[j] = s.input[j]
  <2>1. s.input \in [Slots -> InputStreams]
    BY <1>0 DEF StreamState
  <2>2. [data EXCEPT !.freed = TRUE] \in InputStreams
    BY <1>1 DEF InputStreams
  <2>3. /\ [data EXCEPT !.freed = TRUE].handler = data.handler
        /\ [data EXCEPT !.freed = TRUE].arg = data.arg
    BY <1>1 DEF InputStreams
  <2> QED  BY <2>1, <2>2, <2>3
<1> HIDE DEF r, input
<1>15. /\ t \in StreamState /\ SamePools(told, t) /\ t.calls = c /\ t.registered = r
       /\ t.input = input
  <2>1. told \in StreamState /\ r \in Seq(Arguments) /\ input \in [Slots -> InputStreams]
    BY <1>11, <1>13, <1>14
  <2>2. t \in StreamState
    BY <1>12, <2>1, ZenonT(30) DEF StreamState
  <2>3. SamePools(told, t) /\ t.calls = told.calls /\ t.registered = r /\ t.input = input
    BY <1>12, <2>1 DEF StreamState, SamePools
  <2> QED  BY <1>11, <2>2, <2>3
<1>16. PoolsInv(t)
  BY <1>11, <1>15, PoolsSame
<1>17. NamesOnce(t)
  BY <1>0, <1>13, <1>15 DEF ArgsInv, NamesOnce
<1>18. ASSUME NEW a \in ArgNames, Processed(s, a)  PROVE Processed(t, a)
  BY <1>13, <1>15, <1>18 DEF Processed
<1>19. CallsOnce(t)
  <2>1. SUFFICES ASSUME NEW a \in ArgNames
                 PROVE  t.calls[a] = 0 \/ (t.calls[a] = 1 /\ Processed(t, a))
    BY DEF CallsOnce
  <2>2. s.calls[a] = 0 \/ (s.calls[a] = 1 /\ Processed(s, a))
    BY <1>0 DEF ArgsInv, CallsOnce
  <2>3. CASE a = arg.name /\ arg.once /\ ~arg.received
    <3>1. ~Processed(s, a)
      BY <1>0, <1>2, <2>3 DEF ArgsInv, NamesOnce, Processed
    <3>2. Processed(t, a)
      BY <1>2, <1>13, <1>15, <2>3 DEF Processed
    <3>3. t.calls[a] = 1
      <4>1. n = s.calls[arg.name] + 1
        BY <1>8, <1>23, <2>3
      <4>2. s.calls[a] = 0 /\ t.calls[a] = n
        BY <1>6, <1>15, <2>2, <2>3, <3>1
      <4> QED  BY <2>3, <4>1, <4>2, SMTT(30)
    <3> QED  BY <3>2, <3>3
  <2>4. CASE ~(a = arg.name /\ arg.once /\ ~arg.received)
    <3>1. t.calls[a] = s.calls[a]
      <4>1. CASE a = arg.name
        <5>1. n = s.calls[arg.name]
          BY <1>8, <1>23, <2>4, <4>1
        <5> QED  BY <1>6, <1>15, <4>1, <5>1
      <4>2. CASE a # arg.name
        BY <1>6, <1>15, <4>2
      <4> QED  BY <4>1, <4>2
    <3> QED  BY <1>18, <2>2, <3>1
  <2> QED  BY <2>3, <2>4
<1>20. ASSUME NEW j \in Slots  PROVE ArgThere(t, j) /\ (j # i => DataThere(t, j))
  BY <1>0, <1>13, <1>14, <1>15 DEF ArgsInv, ArgThere, DataThere
<1> QED  BY <1>15, <1>16, <1>17, <1>19, <1>20 DEF StreamsInvBut, ArgsInv

(* Whatever the handler of a stream does at its end.                       *)
LEMMA EndSound ==
    ASSUME NEW s, StreamsInv(s), NEW i \in Slots, NEW accepted \in BOOLEAN,
           NEW t, t = EndHandler(s, i, accepted)
    PROVE  StreamsInvBut(t, i)
<1>1. CASE s.input[i].handler = "argv"
  BY <1>1, ArgvEndSound DEF EndHandler
<1>2. CASE s.input[i].handler # "argv"
  BY <1>2 DEF EndHandler, StreamsInv, StreamsInvBut
<1> QED  BY <1>1, <1>2

(* __init_input_stream *)
LEMMA InitSound ==
    ASSUME NEW s, StreamsInv(s), NEW i \in Slots, NEW accepted \in BOOLEAN,
           NEW t, t = InitInputStream(s, i, accepted)
    PROVE  StreamsInv(t)
<1> DEFINE ended == IF s.input[i].open THEN EndHandler(s, i, accepted) ELSE s
           d == NewStream(TRUE)
<1>1. t = WithInput(ended, i, d)
  BY DEF InitInputStream, WithInput
<1>2. StreamsInvBut(ended, i)
  <2>1. CASE s.input[i].open
    BY <2>1, EndSound
  <2>2. CASE ~s.input[i].open
    BY <2>2 DEF StreamsInv, StreamsInvBut
  <2> QED  BY <2>1, <2>2
<1>3. d \in InputStreams /\ d.handler = "none" /\ ~d.freed
  BY DEF NewStream, InputStreams
<1> HIDE DEF ended, d
<1> QED  BY <1>1, <1>2, <1>3, InputSet

(* A handler of the plugin takes over a stream.                            *)
LEMMA HandlerSet ==
    ASSUME NEW s, StreamsInv(s), NEW i \in Slots, NEW h \in {"none", "plugin"}
    PROVE  StreamsInv([s EXCEPT !.input[i].handler = h])
<1> DEFINE d == [s.input[i] EXCEPT !.handler = h]
<1>1. s.input[i] \in InputStreams /\ DataThere(s, i)
  BY DEF StreamsInv, StreamState
<1>2. d \in InputStreams /\ d.handler # "argv" /\ d.open = s.input[i].open /\ d.freed = s.input[i].freed
  BY <1>1 DEF InputStreams
<1>3. [s EXCEPT !.input[i].handler = h] = WithInput(s, i, d)
  BY DEF WithInput
<1>4. StreamsInvBut(s, i)
  BY DEF StreamsInv, StreamsInvBut
<1> HIDE DEF d
<1>5. d.open => ~d.freed
  BY <1>1, <1>2 DEF DataThere
<1>6. StreamsInv(WithInput(s, i, d))
  BY <1>2, <1>4, <1>5, InputSet
<1> QED  BY <1>3, <1>6

(* guac_argv_received *)
LEMMA ReceivedSound ==
    ASSUME NEW s, StreamsInv(s), NEW i \in Slots, NEW name,
           NEW t, t = ArgvReceived(s, i, name)
    PROVE  StreamsInv(t)
<1> DEFINE ks == ArgvCandidates(s, name)
           k == CHOOSE k \in ks : \A j \in ks : k <= j
           d == [s.input[i] EXCEPT !.handler = "argv", !.arg = k]
<1>1. s \in StreamState /\ s.input[i] \in InputStreams /\ s.registered \in Seq(Arguments)
  BY DEF StreamsInv, StreamState
<1>2. CASE ks = {}
  BY <1>2 DEF ArgvReceived
<1>3. CASE ks # {}
  <2>1. /\ ks \subseteq DOMAIN s.registered /\ Len(s.registered) \in Nat
        /\ DOMAIN s.registered = 1 .. Len(s.registered)
    BY <1>1, LenProperties DEF ArgvCandidates
  <2> HIDE DEF ks
  <2>2. \E m \in ks : \A j \in ks : m <= j
    BY <1>3, <2>1, SmallestOf
  <2>3. k \in DOMAIN s.registered /\ k \in Nat
    BY <2>1, <2>2
  <2>4. t = [s EXCEPT !.input[i].handler = "argv", !.input[i].arg = k]
    BY <1>3 DEF ArgvReceived, ks
  <2> HIDE DEF k
  <2>5. t = WithInput(s, i, d)
    BY <1>1, <2>4 DEF WithInput, StreamState
  <2>6. d \in InputStreams /\ d.arg = k /\ d.open = s.input[i].open /\ d.freed = s.input[i].freed
    BY <1>1, <2>3 DEF InputStreams
  <2>7. StreamsInvBut(s, i) /\ DataThere(s, i)
    BY DEF StreamsInv, StreamsInvBut
  <2> HIDE DEF d
  <2>8. d.open => ~d.freed
    BY <2>6, <2>7 DEF DataThere
  <2> QED  BY <2>3, <2>5, <2>6, <2>7, <2>8, InputSet
<1> QED  BY <1>2, <1>3

(* guac_argv_blob_handler                                                  *)
LEMMA BlobSound ==
    ASSUME NEW s, StreamsInv(s), NEW i \in Slots, NEW value \in Values,
           NEW t, t = ArgvBlob(s, i, value)
    PROVE  StreamsInv(t)
<1> DEFINE d == [s.input[i] EXCEPT !.value = value]
<1>1. s.input[i] \in InputStreams /\ DataThere(s, i) /\ ArgThere(s, i)
  BY DEF StreamsInv, StreamState, ArgsInv
<1>2. /\ d \in InputStreams /\ d.handler = s.input[i].handler /\ d.arg = s.input[i].arg
      /\ d.open = s.input[i].open /\ d.freed = s.input[i].freed
  BY <1>1 DEF InputStreams
<1>3. t = WithInput(s, i, d)
  BY DEF WithInput, ArgvBlob
<1>4. StreamsInvBut(s, i)
  BY DEF StreamsInv, StreamsInvBut
<1> HIDE DEF d
<1>5. (d.handler = "argv" => d.arg \in DOMAIN s.registered) /\ (d.open => ~d.freed)
  BY <1>1, <1>2 DEF DataThere, ArgThere
<1> QED  BY <1>2, <1>3, <1>4, <1>5, InputSet

(* guac_user_handle_end *)
LEMMA CloseSound ==
    ASSUME NEW s, StreamsInv(s), NEW i \in Slots, NEW accepted \in BOOLEAN,
           NEW t, t = [EndHandler(s, i, accepted) EXCEPT !.input[i].open = FALSE]
    PROVE  StreamsInv(t)
<1> DEFINE u == EndHandler(s, i, accepted)  d == [u.input[i] EXCEPT !.open = FALSE]
<1>1. StreamsInvBut(u, i)
  BY EndSound
<1>2. t = WithInput(u, i, d)
  BY DEF WithInput
<1> HIDE DEF u
<1>3. u.input[i] \in InputStreams /\ ArgThere(u, i)
  BY <1>1 DEF StreamsInvBut, StreamState, ArgsInv
<1>4. d \in InputStreams /\ d.handler = u.input[i].handler /\ d.arg = u.input[i].arg /\ ~d.open
  BY <1>3 DEF InputStreams
<1> HIDE DEF d
<1>5. d.handler = "argv" => d.arg \in DOMAIN u.registered
  BY <1>3, <1>4 DEF ArgThere
<1> QED  BY <1>1, <1>2, <1>4, <1>5, InputSet

-----------------------------------------------------------------------------
(* guac_argv_register *)
LEMMA RegisterSound ==
    ASSUME StreamsInv(st), NEW name \in ArgNames, NEW once \in BOOLEAN, NEW echo \in BOOLEAN,
           \A k \in DOMAIN st.registered : st.registered[k].name # name,
           NEW t, t = ArgvRegister(name, once, echo)
    PROVE  StreamsInv(t)
<1> DEFINE e == [name |-> name, once |-> once, echo |-> echo, received |-> FALSE]
           r == Append(st.registered, e)
<1>0. st \in StreamState /\ PoolsInv(st) /\ ArgsInv(st) /\ st.registered \in Seq(Arguments)
  BY DEF StreamsInv, StreamState
<1>1. CASE Len(st.registered) = MaxRegistered
  BY <1>1 DEF ArgvRegister
<1>2. CASE Len(st.registered) # MaxRegistered
  <2>1. t = [st EXCEPT !.registered = r]
    BY <1>2 DEF ArgvRegister
  <2>2. e \in Arguments /\ e.name = name
    BY DEF Arguments
  <2> HIDE DEF e
  <2>3. /\ r \in Seq(Arguments) /\ Len(st.registered) \in Nat
        /\ DOMAIN st.registered = 1 .. Len(st.registered)
        /\ DOMAIN r = 1 .. Len(st.registered) + 1
        /\ r[Len(st.registered) + 1] = e
        /\ \A k \in 1 .. Len(st.registered) : r[k] = st.registered[k]
    BY <1>0, <2>2, AppendProperties, LenProperties
  <2> HIDE DEF r
  <2>4. /\ t \in StreamState /\ SamePools(st, t) /\ t.registered = r
        /\ t.input = st.input /\ t.calls = st.calls
    BY <1>0, <2>1, <2>3 DEF StreamState, SamePools
  <2>5. PoolsInv(t)
    BY <1>0, <2>4, PoolsSame
  <2>6. /\ DOMAIN st.registered \subseteq DOMAIN t.registered
        /\ \A k \in DOMAIN st.registered : t.registered[k] = st.registered[k]
    BY <2>3, <2>4
  <2>7. ASSUME NEW k \in DOMAIN t.registered, k \notin DOMAIN st.registered
        PROVE  k = Len(st.registered) + 1 /\ t.registered[k].name = name
    BY <2>2, <2>3, <2>4, <2>7
  <2>8. NamesOnce(t)
    <3>1. SUFFICES ASSUME NEW j \in DOMAIN t.registered, NEW k \in DOMAIN t.registered,
                          t.registered[j].name = t.registered[k].name
                   PROVE  j = k
      BY DEF NamesOnce
    <3>2. CASE j \in DOMAIN st.registered /\ k \in DOMAIN st.registered
      BY <1>0, <2>6, <3>1, <3>2 DEF ArgsInv, NamesOnce
    <3>3. CASE j \notin DOMAIN st.registered /\ k \notin DOMAIN st.registered
      BY <2>7, <3>3
    <3>4. CASE j \notin DOMAIN st.registered /\ k \in DOMAIN st.registered
      BY <2>6, <2>7, <3>1, <3>4
    <3>5. CASE j \in DOMAIN st.registered /\ k \notin DOMAIN st.registered
      BY <2>6, <2>7, <3>1, <3>5
    <3> QED  BY <3>2, <3>3, <3>4, <3>5
  <2>9. CallsOnce(t)
    BY <1>0, <2>4, <2>6 DEF ArgsInv, CallsOnce, Processed
  <2>10. ASSUME NEW i \in Slots  PROVE ArgThere(t, i) /\ DataThere(t, i)
    BY <1>0, <2>4, <2>6 DEF StreamsInv, ArgsInv, ArgThere, DataThere
  <2> QED  BY <2>4, <2>5, <2>8, <2>9, <2>10 DEF StreamsInv, ArgsInv
<1> QED  BY <1>1, <1>2

(* The handlers that open a stream, ended before if it was open.           *)
LEMMA OpenSound ==
    ASSUME StreamsInv(st), NEW op, NEW i \in Slots, OpenStream(op, i)
    PROVE  StreamsInv(st')
<1>1. PICK accepted \in BOOLEAN :
        LET s == InitInputStream(st, i, accepted) IN
        \/ op \notin st.handlers /\ st' = s
        \/ op \in st.handlers /\ op # "argv"
           /\ \E h \in {"none", "plugin"} : st' = [s EXCEPT !.input[i].handler = h]
        \/ op \in st.handlers /\ op = "argv"
           /\ \E name \in ArgNames : st' = ArgvReceived(s, i, name)
  BY DEF OpenStream
<1> DEFINE s == InitInputStream(st, i, accepted)
<1>2. StreamsInv(s)
  BY InitSound
<1>3. \/ st' = s
      \/ \E h \in {"none", "plugin"} : st' = [s EXCEPT !.input[i].handler = h]
      \/ \E name \in ArgNames : st' = ArgvReceived(s, i, name)
  BY <1>1
<1> HIDE DEF s
<1>4. ASSUME NEW h \in {"none", "plugin"}, st' = [s EXCEPT !.input[i].handler = h]
      PROVE  StreamsInv(st')
  BY <1>2, <1>4, HandlerSet
<1>5. ASSUME NEW name \in ArgNames, st' = ArgvReceived(s, i, name)
      PROVE  StreamsInv(st')
  BY <1>2, <1>5, ReceivedSound
<1> QED  BY <1>2, <1>3, <1>4, <1>5

(* Every instruction of the user.                                          *)
LEMMA InstructionSound == StreamsInv(st) /\ Instruction => StreamsInv(st')
<1> SUFFICES ASSUME StreamsInv(st), Instruction  PROVE StreamsInv(st')
  OBVIOUS
<1>1. ASSUME NEW i, HandleAudio(i) \/ HandleClipboard(i) \/ HandleFile(i) \/ HandlePipe(i)
                    \/ HandleArgv(i)
      PROVE  StreamsInv(st')
  <2>1. CASE i \in Slots
    BY <1>1, <2>1, OpenSound
       DEF HandleAudio, HandleClipboard, HandleFile, HandlePipe, HandleArgv
  <2>2. CASE i \notin Slots
    BY <1>1, <2>2
       DEF HandleAudio, HandleClipboard, HandleFile, HandlePipe, HandleArgv, BadIndex
  <2> QED  BY <2>1, <2>2
<1>2. ASSUME NEW i, NEW o, HandlePut(o, i)  PROVE StreamsInv(st')
  <2>1. UNCHANGED st \/ (i \in Slots /\ OpenStream("put", i))
    BY <1>2 DEF HandlePut, BadIndex
  <2>2. CASE UNCHANGED st
    BY <2>2
  <2> QED  BY <2>1, <2>2, OpenSound
<1>3. ASSUME NEW i, HandleEnd(i)  PROVE StreamsInv(st')
  <2>1. CASE ~IsOpen(i)
    BY <1>3, <2>1 DEF HandleEnd, BadIndex
  <2>2. CASE IsOpen(i)
    <3>1. i \in Slots
      BY <2>2 DEF IsOpen
    <3>2. PICK accepted \in BOOLEAN :
            st' = [EndHandler(st, i, accepted) EXCEPT !.input[i].open = FALSE]
      BY <1>3, <2>2 DEF HandleEnd
    <3> QED  BY <3>1, <3>2, CloseSound
  <2> QED  BY <2>1, <2>2
<1>4. ASSUME NEW i, NEW value \in Values, HandleBlob(i, value)  PROVE StreamsInv(st')
  <2>1. UNCHANGED st \/ (i \in Slots /\ st' = ArgvBlob(st, i, value))
    BY <1>4 DEF HandleBlob, BadIndex, IsOpen
  <2>2. CASE UNCHANGED st
    BY <2>2
  <2> QED  BY <2>1, <2>2, BlobSound
<1>5. ASSUME HandleDisconnect  PROVE StreamsInv(st')
  <2>1. st \in StreamState
    BY DEF StreamsInv
  <2>2. st' \in StreamState /\ SamePools(st, st') /\ SameArgs(st, st')
    BY <1>5, <2>1 DEF HandleDisconnect, StreamState, SamePools, SameArgs
  <2> QED  BY <2>2, AllSame
<1> QED  BY <1>1, <1>2, <1>3, <1>4, <1>5 DEF Instruction

(* Every other step.                                                       *)
LEMMA SlotStepSound == StreamsInv(st) /\ SlotStep => StreamsInv(st')
<1> SUFFICES ASSUME StreamsInv(st), SlotStep  PROVE StreamsInv(st')
  OBVIOUS
<1>0. st \in StreamState /\ PoolsInv(st)
  BY DEF StreamsInv
<1>1. ASSUME NEW kind \in SlotKinds, st' = TakeSlot(st, kind)  PROVE StreamsInv(st')
  BY <1>0, <1>1, TakeSlotSound, ArgsSame
<1>2. ASSUME NEW kind \in SlotKinds, NEW n \in Taken(st, kind),
             st' = FreeSlot(st, kind, StreamIndex(kind, n))
      PROVE  StreamsInv(st')
  BY <1>0, <1>2, FreeSlotSound, ArgsSame
<1> QED  BY <1>1, <1>2 DEF SlotStep, SlotKinds, Taken

(* Layers and buffers come and go.                                         *)
LEMMA LayerStepSound == StreamsInv(st) /\ LayerStep => StreamsInv(st')
<1> SUFFICES ASSUME StreamsInv(st), LayerStep  PROVE StreamsInv(st')
  OBVIOUS
<1>0. st \in StreamState /\ PoolsInv(st)
  BY DEF StreamsInv
<1>1. ASSUME NEW kind \in {"layer", "buffer"}, st' = AllocLayer(kind)  PROVE StreamsInv(st')
  BY <1>0, <1>1, AllocLayerSound, ArgsSame
<1>2. ASSUME NEW k \in DOMAIN st.live.layer, st' = FreeLayer(k)  PROVE StreamsInv(st')
  BY <1>0, <1>2, FreeLayerSound, ArgsSame
<1>3. ASSUME NEW k \in DOMAIN st.live.buffer, st' = FreeBuffer(k)  PROVE StreamsInv(st')
  BY <1>0, <1>3, FreeBufferSound, ArgsSame
<1> QED  BY <1>1, <1>2, <1>3 DEF LayerStep

(* The threads of the plugin: the test of the limit and the number that is *)
(* taken after it are two steps.                                           *)
LEMMA PluginSound ==
    ASSUME StreamsInv(st), NEW t \in Plugin, AllocTest(t) \/ AllocTake(t) \/ Await(t)
    PROVE  StreamsInv(st')
<1>0. st \in StreamState /\ PoolsInv(st)
  BY DEF StreamsInv
<1>1. CASE AllocTest(t)
  BY <1>1 DEF AllocTest
<1>2. CASE AllocTake(t)
  <2>1. st' = TakeSlot(st, "client") /\ "client" \in SlotKinds
    BY <1>2 DEF AllocTake, SlotKinds
  <2> QED  BY <1>0, <2>1, TakeSlotSound, ArgsSame
<1>3. CASE Await(t)
  <2>1. st' = [st EXCEPT !.awake = @ \ {t}]
    BY <1>3 DEF Await
  <2>2. st' \in StreamState /\ SamePools(st, st') /\ SameArgs(st, st')
    BY <1>0, <2>1 DEF StreamState, SamePools, SameArgs
  <2> QED  BY <2>2, AllSame
<1> QED  BY <1>1, <1>2, <1>3

(* guac_argv_register and guac_argv_stop.                                  *)
LEMMA ArgvStepSound == StreamsInv(st) /\ ArgvStep => StreamsInv(st')
<1> SUFFICES ASSUME StreamsInv(st), ArgvStep  PROVE StreamsInv(st')
  OBVIOUS
<1>0. st \in StreamState
  BY DEF StreamsInv
<1>1. ASSUME NEW name \in ArgNames, NEW once \in BOOLEAN, NEW echo \in BOOLEAN,
             \A k \in DOMAIN st.registered : st.registered[k].name # name,
             st' = ArgvRegister(name, once, echo)
      PROVE  StreamsInv(st')
  BY <1>1, RegisterSound
<1>2. ASSUME st' = ArgvStop  PROVE StreamsInv(st')
  <2>1. st' \in StreamState /\ SamePools(st, st') /\ SameArgs(st, st')
    BY <1>0, <1>2 DEF ArgvStop, StreamState, SamePools, SameArgs
  <2> QED  BY <2>1, AllSame
<1> QED  BY <1>1, <1>2 DEF ArgvStep

-----------------------------------------------------------------------------
(* A pool that has given out nothing.                                      *)
LEMMA NewPoolSound == \A size \in Nat : NewPool(size) \in Pools /\ GivenOut(NewPool(size), {})
<1> SUFFICES ASSUME NEW size \in Nat
             PROVE  NewPool(size) \in Pools /\ GivenOut(NewPool(size), {})
  OBVIOUS
<1> DEFINE p == NewPool(size)
<1>1. /\ p \in Pools /\ p.next = 0 /\ p.active = 0 /\ p.free = <<>>
  BY DEF NewPool, Pools
<1>2. ToSet(<<>>) = {} /\ IsInjective(<<>>) /\ Cardinality({}) = 0
  BY FS_EmptySet DEF ToSet, IsInjective
<1> HIDE DEF p
<1>3. 0 .. p.next - 1 = {}
  BY <1>1
<1>4. GivenOut(p, {})
  BY <1>1, <1>2, <1>3 DEF GivenOut
<1> QED  BY <1>1, <1>4 DEF p

(* A connection starts with empty pools and no stream open.                *)
LEMMA StreamsInitially == StreamsInit => StreamsInv(st)
<1> SUFFICES ASSUME StreamsInit  PROVE StreamsInv(st)
  OBVIOUS
<1>1. PICK handlers \in {{}, {"argv"}, {"argv", "clipboard", "file", "audio", "pipe", "put"}} :
       st = [pool |-> [k \in Kinds |-> NewPool(IF k \in {"layer", "buffer"} THEN PoolSize ELSE 0)],
             slot |-> [k \in {"client", "user", "object"} |-> {}],
             live |-> [k \in {"layer", "buffer"} |-> <<>>],
             input |-> [i \in Slots |-> NewStream(FALSE)],
             handlers |-> handlers,
             registered |-> <<>>, stopped |-> FALSE, awake |-> {},
             calls |-> [a \in ArgNames |-> 0],
             applied |-> [a \in ArgNames |-> NULL], echoed |-> [a \in ArgNames |-> NULL],
             active |-> TRUE, crashed |-> FALSE]
  BY DEF StreamsInit
<1>2. handlers \subseteq {"argv", "clipboard", "file", "audio", "pipe", "put"}
  OBVIOUS
<1>3. NewStream(FALSE) \in InputStreams /\ NewStream(FALSE).handler = "none" /\ ~NewStream(FALSE).open
  BY DEF NewStream, InputStreams
<1>4. [k \in Kinds |-> NewPool(IF k \in {"layer", "buffer"} THEN PoolSize ELSE 0)] \in [Kinds -> Pools]
  BY NewPoolSound, StreamsConsts
<1>5. st \in StreamState
  <2>1. [i \in Slots |-> NewStream(FALSE)] \in [Slots -> InputStreams]
    BY <1>3
  <2>2. [k \in {"client", "user", "object"} |-> {}] \in [SlotKinds -> NumberSets]
    BY DEF SlotKinds, NumberSets
  <2>3. <<>> \in Seq(Int) /\ <<>> \in Seq(Arguments)
    BY EmptySeq
  <2>4. [k \in {"layer", "buffer"} |-> <<>>] \in [{"layer", "buffer"} -> Seq(Int)]
    BY <2>3
  <2>5. /\ [a \in ArgNames |-> 0] \in [ArgNames -> Nat]
        /\ [a \in ArgNames |-> NULL] \in [ArgNames -> Values \cup {NULL}]
    OBVIOUS
  <2> QED  BY <1>1, <1>2, <1>4, <2>1, <2>2, <2>3, <2>4, <2>5 DEF StreamState
<1>6. PoolsInv(st)
  <2>1. ASSUME NEW kind \in SlotKinds  PROVE GivenOut(st.pool[kind], Taken(st, kind))
    <3>1. st.pool[kind] = NewPool(0) /\ Taken(st, kind) = {}
      BY <1>1 DEF Kinds, SlotKinds, Taken
    <3> QED  BY <3>1, NewPoolSound
  <2>2. st.live.buffer = <<>> /\ st.pool.buffer = NewPool(PoolSize)
    BY <1>1 DEF Kinds
  <2>3. ToSet(<<>>) = {} /\ IsInjective(<<>>)
    BY DEF ToSet, IsInjective
  <2>4. BufferNumbers(st) = {}
    BY <2>2, <2>3 DEF BufferNumbers
  <2> QED  BY <2>1, <2>2, <2>3, <2>4, NewPoolSound, StreamsConsts DEF PoolsInv
<1>7. NamesOnce(st) /\ CallsOnce(st)
  BY <1>1 DEF NamesOnce, CallsOnce
<1>8. ASSUME NEW i \in Slots  PROVE ArgThere(st, i) /\ DataThere(st, i)
  <2>1. st.input[i] = NewStream(FALSE)
    BY <1>1
  <2> QED  BY <1>3, <2>1 DEF ArgThere, DataThere
<1> QED  BY <1>5, <1>6, <1>7, <1>8 DEF StreamsInv, ArgsInv

(* Every step of every thread keeps the invariant.                         *)
LEMMA StreamsInductive == StreamsInv(st) /\ [StreamsNext]_streamVars => StreamsInv(st')
<1> SUFFICES ASSUME StreamsInv(st), [StreamsNext]_streamVars  PROVE StreamsInv(st')
  OBVIOUS
<1>1. CASE SlotsNext
  BY <1>1, SlotStepSound, PluginSound DEF SlotsNext
<1>2. CASE LayersNext
  BY <1>2, LayerStepSound DEF LayersNext
<1>3. CASE ArgvNext
  BY <1>3, InstructionSound, ArgvStepSound, PluginSound DEF ArgvNext
<1>4. CASE SyncNext
  BY <1>4 DEF SyncNext
<1>5. CASE UNCHANGED streamVars
  BY <1>5 DEF streamVars
<1> QED  BY <1>1, <1>2, <1>3, <1>4, <1>5 DEF StreamsNext

(* The invariant of the specification.                                     *)
StreamsIInv == StreamsInv(st)

(* The invariant always holds.                                             *)
LEMMA StreamsAlways == StreamsSpec => []StreamsIInv
<1>1. StreamsInit => StreamsIInv
  BY StreamsInitially DEF StreamsIInv
<1>2. StreamsIInv /\ [StreamsNext]_streamVars => StreamsIInv'
  BY StreamsInductive DEF StreamsIInv
<1> QED  BY <1>1, <1>2, PTL DEF StreamsSpec

(* However streams, objects and buffers are allocated and freed, by as     *)
(* many threads as there are, a number that is in use is neither free nor  *)
(* in use twice, and active counts them (guac_pool_next_int,               *)
(* guac_pool_free_int and their callers in client.c and user.c).           *)
THEOREM NumbersInUseOnce == StreamsSpec => []PoolsSound
<1>1. StreamsIInv => PoolsSound
  <2> SUFFICES ASSUME PoolsInv(st), NEW kind \in Kinds \ {"layer"}
               PROVE  LET p == st.pool[kind] IN
                      /\ InUse(kind) \cap ToSet(p.free) = {} /\ IsInjective(p.free)
                      /\ InUse(kind) \cup ToSet(p.free) = 0 .. p.next - 1
                      /\ p.active = Cardinality(InUse(kind))
                      /\ kind = "buffer" => IsInjective(st.live.buffer)
    BY DEF StreamsIInv, StreamsInv, PoolsSound
  <2>1. CASE kind = "buffer"
    BY <2>1 DEF PoolsInv, GivenOut, InUse, BufferNumbers
  <2>2. CASE kind # "buffer"
    <3>1. kind \in SlotKinds
      BY <2>2 DEF Kinds, SlotKinds
    <3> QED  BY <2>2, <3>1 DEF PoolsInv, GivenOut, InUse, Taken
  <2> QED  BY <2>1, <2>2
<1> QED  BY <1>1, StreamsAlways, PTL

(* A handler never gets to see the data of a stream after                  *)
(* guac_argv_end_handler has freed it, in whatever order streams are       *)
(* opened, opened again and ended.                                         *)
THEOREM DataOfOpenStreams == StreamsSpec => []OpenDataLive
<1>1. StreamsIInv => OpenDataLive
  BY DEF StreamsIInv, StreamsInv, DataThere, OpenDataLive
<1> QED  BY <1>1, StreamsAlways, PTL

(* The callback of an argument with GUAC_ARGV_OPTION_ONCE runs once at     *)
(* most, however many streams carry a value for it at the same time.       *)
THEOREM OnceIsOnce == StreamsSpec => []OnceProcessed
<1>1. StreamsIInv => OnceProcessed
  <2> SUFFICES ASSUME StreamsInv(st), NEW a \in ArgNames  PROVE st.calls[a] <= 1
    BY DEF StreamsIInv, OnceProcessed
  <2>1. st.calls[a] = 0 \/ st.calls[a] = 1
    BY DEF StreamsInv, ArgsInv, CallsOnce
  <2> QED  BY <2>1
<1> QED  BY <1>1, StreamsAlways, PTL

-----------------------------------------------------------------------------
(* The files of recordings.                                                *)

USE DEF recVars

ReaderState ==
    [pc : {"idle", "opened", "locked", "refused", "reading", "done"}, file : Names, force : BOOLEAN]

RecTypes ==
    /\ rec \in [Sessions -> RecordingState]
    /\ rdr \in [Readers -> ReaderState]
    /\ files \subseteq Names /\ outputs \subseteq Names

(* The POSIX locks: no two write locks, no read lock beside a write lock.  *)
FileLocks ==
    /\ \A s, t \in Sessions :
          rec[s].pc = "on" /\ rec[t].pc = "on" /\ rec[s].file = rec[t].file => s = t
    /\ \A s \in Sessions, r \in Readers :
          /\ rec[s].pc = "on" /\ rdr[r].pc \in {"locked", "reading"} /\ ~rdr[r].force
          => rec[s].file # rdr[r].file

(* What a session has opened exists, so nobody else opens it with O_EXCL.  *)
Opened ==
    /\ \A s, t \in Sessions : rec[s].reuse = rec[t].reuse
    /\ \A s \in Sessions : rec[s].pc \in {"lock", "on", "closed"} => rec[s].file \in files
    /\ \A s, t \in Sessions :
          /\ s # t
          /\ rec[s].pc \in {"lock", "on", "closed"} /\ rec[t].pc \in {"lock", "on", "closed"}
          /\ rec[s].file = rec[t].file
          => rec[s].reuse

RecInv == RecTypes /\ FileLocks /\ Opened

(* No session has a file open at first.                                    *)
LEMMA RecInitially == RecInit => RecInv
<1> SUFFICES ASSUME RecInit  PROVE RecInv
  OBVIOUS
<1>1. 0 \in Names
  BY RecConsts DEF Names
<1> QED  BY <1>1 DEF RecInit, RecInv, RecTypes, RecordingState, ReaderState, FileLocks, Opened

(* A session's step.                                                       *)
LEMMA RecSessionStep ==
    ASSUME RecInv, NEW s \in Sessions,
           \/ \E ok \in BOOLEAN : Create(s, ok)
           \/ Open(s) \/ Lock(s) \/ TeeWrite(s) \/ Report(s) \/ Free(s)
    PROVE  RecInv'
<1> USE DEF RecInv
<1>1. ASSUME NEW ok \in BOOLEAN, Create(s, ok)  PROVE RecInv'
  BY <1>1 DEF Create, RecTypes, FileLocks, Opened, RecordingState
<1>2. CASE Open(s)
  <2>1. RecTypes'
    BY <1>2, RecConsts DEF Open, RecTypes, RecordingState, Names
  <2>2. FileLocks'
    BY <1>2 DEF Open, RecTypes, FileLocks, RecordingState
  <2>3. Opened'
    BY <1>2 DEF Open, RecTypes, Opened, RecordingState
  <2> QED  BY <2>1, <2>2, <2>3
<1>3. CASE Lock(s)
  <2>1. RecTypes' /\ Opened'
    <3>1. RecTypes'
      <4>1. rec[s] \in RecordingState /\ rec[s].include \in BOOLEAN
        BY DEF RecTypes, RecordingState
      <4>2. /\ [rec[s] EXCEPT !.pc = "on", !.tee = rec[s].include] \in RecordingState
            /\ [rec[s] EXCEPT !.pc = "failed"] \in RecordingState
        BY <4>1 DEF RecordingState
      <4>3. rec' \in [Sessions -> RecordingState]
        BY <1>3, <4>2 DEF Lock, RecTypes
      <4> QED  BY <1>3, <4>3 DEF Lock, RecTypes
    <3>2. /\ files' = files /\ \A t \in Sessions \ {s} : rec'[t] = rec[t]
          /\ rec'[s].file = rec[s].file /\ rec'[s].reuse = rec[s].reuse
          /\ rec[s].pc = "lock"
      BY <1>3 DEF Lock, RecTypes, RecordingState
    <3> QED  BY <3>1, <3>2 DEF Opened
  <2>2. FileLocks'
    BY <1>3 DEF Lock, RecTypes, FileLocks, RecordingState, ReaderState, Writers, ReadLocks
  <2> QED  BY <2>1, <2>2
<1>4. CASE TeeWrite(s) \/ Report(s)
  <2>1. RecTypes'
    BY <1>4, ZenonT(30) DEF TeeWrite, Report, RecTypes, RecordingState
  <2>2. /\ files' = files /\ rdr' = rdr
        /\ \A t \in Sessions : /\ rec'[t].pc = rec[t].pc /\ rec'[t].file = rec[t].file
                              /\ rec'[t].reuse = rec[t].reuse
    BY <1>4 DEF TeeWrite, Report, RecTypes, RecordingState
  <2> QED  BY <2>1, <2>2 DEF FileLocks, Opened
<1>5. CASE Free(s)
  <2>1. RecTypes'
    BY <1>5, ZenonT(30) DEF Free, RecTypes, RecordingState
  <2>2. /\ files' = files /\ rdr' = rdr
        /\ \A t \in Sessions \ {s} : rec'[t] = rec[t]
        /\ rec'[s].file = rec[s].file /\ rec'[s].reuse = rec[s].reuse
        /\ rec[s].pc = "on" /\ rec'[s].pc = "closed"
    BY <1>5 DEF Free, RecTypes, RecordingState
  <2> QED  BY <2>1, <2>2 DEF FileLocks, Opened
<1> QED  BY <1>1, <1>2, <1>3, <1>4, <1>5

(* A reader's step.                                                        *)
LEMMA RecReaderStep ==
    ASSUME RecInv, NEW r \in Readers,
           OpenInput(r) \/ LockInput(r) \/ OpenOutput(r) \/ ReadToEnd(r)
    PROVE  RecInv'
<1> USE DEF RecInv
<1>1. Opened'
  BY DEF OpenInput, LockInput, OpenOutput, ReadToEnd, Opened
<1>2. CASE OpenInput(r)
  <2>1. RecTypes'
    BY <1>2 DEF OpenInput, RecTypes, ReaderState
  <2>2. /\ rec' = rec /\ \A q \in Readers \ {r} : rdr'[q] = rdr[q]
        /\ rdr'[r].pc = "opened"
    BY <1>2 DEF OpenInput, RecTypes, ReaderState
  <2> QED  BY <1>1, <2>1, <2>2 DEF FileLocks
<1>3. CASE LockInput(r)
  <2>1. RecTypes' /\ FileLocks'
    BY <1>3 DEF LockInput, RecTypes, FileLocks, ReaderState, Writers
  <2> QED  BY <1>1, <2>1
<1>4. CASE OpenOutput(r)
  <2>1. RecTypes' /\ FileLocks'
    BY <1>4 DEF OpenOutput, RecTypes, FileLocks, ReaderState
  <2> QED  BY <1>1, <2>1
<1>5. CASE ReadToEnd(r)
  <2>1. RecTypes' /\ FileLocks'
    BY <1>5 DEF ReadToEnd, RecTypes, FileLocks, ReaderState
  <2> QED  BY <1>1, <2>1
<1> QED  BY <1>2, <1>3, <1>4, <1>5

(* Every step of a session or of a reader keeps the invariant.             *)
LEMMA RecInductive == RecInv /\ [RecNext]_recVars => RecInv'
<1> SUFFICES ASSUME RecInv, [RecNext]_recVars  PROVE RecInv'
  OBVIOUS
<1>1. CASE UNCHANGED recVars
  BY <1>1 DEF RecInv, RecTypes, FileLocks, Opened
<1> QED  BY Zenon, <1>1, RecSessionStep, RecReaderStep DEF RecNext

(* A set whose elements are all equal has one element at most.             *)
LEMMA AtMostOne ==
    ASSUME NEW S, \A x, y \in S : x = y
    PROVE  Cardinality(S) <= 1
<1>1. CASE S = {}
  BY <1>1, FS_EmptySet
<1>2. CASE S # {}
  <2>1. PICK x \in S : TRUE
    BY <1>2
  <2>2. S = {x}
    BY <2>1
  <2> QED  BY <2>2, FS_Singleton
<1> QED  BY <1>1, <1>2

(* recording.c, encode.c: a recording has one writer and no reader beside  *)
(* it, and is not written over by a session that may not.                  *)
THEOREM RecordingsKeptApart == RecSpec => []RecordingsApart
<1>1. RecInv => RecordingsApart
  <2> SUFFICES ASSUME RecInv  PROVE RecordingsApart
    OBVIOUS
  <2>1. ASSUME NEW f \in Names  PROVE Cardinality(Writers(f)) <= 1
    BY AtMostOne DEF Writers, RecInv, FileLocks
  <2>2. ASSUME NEW f \in Names, Writers(f) # {}  PROVE ReadLocks(f) = {}
    BY <2>2 DEF Writers, ReadLocks, RecInv, FileLocks
  <2> QED  BY <2>1, <2>2 DEF RecordingsApart, RecInv, Opened
<1> QED  BY <1>1, RecInitially, RecInductive, PTL DEF RecSpec

-----------------------------------------------------------------------------
(* guaclog: the modifiers that are held.                                   *)

(* A modifier that is tracked, the places of those that are down, and     *)
(* their keysyms.                                                          *)
KeyStates == [keysym : Keysyms, pressed : BOOLEAN]
DownIn(ks) == {k \in DOMAIN ks : ks[k].pressed}
DownKeys(ks) == {ks[k].keysym : k \in DownIn(ks)}
(* No modifier is tracked twice.                                           *)
EachOnce(ks) == \A j, k \in DOMAIN ks : ks[j].keysym = ks[k].keysym => j = k

(* The inductive invariant of guaclog.                                     *)
LogInv ==
    /\ keys \in Seq(KeyStates) /\ held \subseteq Keysyms /\ full \in BOOLEAN
    /\ HeldTracked

(* Forgetting the released modifiers at the end loses none that is down,   *)
(* and leaves a pressed one last (guaclog_state_trim_keys).                *)
LEMMA TrimKept ==
    ASSUME NEW ks \in Seq(KeyStates), EachOnce(ks)
    PROVE  /\ TrimKeys(ks) \in Seq(KeyStates) /\ EachOnce(TrimKeys(ks))
           /\ DownKeys(TrimKeys(ks)) = DownKeys(ks)
           /\ TrimKeys(ks) # <<>> => Last(TrimKeys(ks)).pressed
<1> DEFINE t == TrimKeys(ks)
           n == Max(DownIn(ks))
<1>1. Len(ks) \in Nat /\ DOMAIN ks = 1 .. Len(ks)
  BY LenProperties
<1>2. CASE DownIn(ks) = {}
  <2>1. t = <<>>
    BY <1>2 DEF TrimKeys, DownIn
  <2>2. t \in Seq(KeyStates) /\ DOMAIN t = {}
    BY <2>1, EmptySeq, LenProperties
  <2>3. DownKeys(t) = {} /\ DownKeys(ks) = {}
    BY <1>2, <2>2 DEF DownKeys, DownIn
  <2> QED  BY <2>1, <2>2, <2>3 DEF EachOnce
<1>3. CASE DownIn(ks) # {}
  <2>1. n \in DownIn(ks) /\ \A j \in DownIn(ks) : j <= n
    BY <1>1, <1>3, LargestOf DEF DownIn
  <2>2. n \in 1 .. Len(ks) /\ ks[n].pressed
    BY <1>1, <2>1 DEF DownIn
  <2>3. t = SubSeq(ks, 1, n)
    BY <1>3 DEF TrimKeys, DownIn
  <2> HIDE DEF n, t
  <2>4. \A i \in 1 .. n : ks[i] \in KeyStates
    BY <1>1, <2>2, ElementOfSeq
  <2>5. t \in Seq(KeyStates) /\ Len(t) = n /\ \A i \in 1 .. n : t[i] = ks[i]
    BY <2>2, <2>3, <2>4, SubSeqProperties
  <2>6. DOMAIN t = 1 .. n /\ 1 .. n \subseteq DOMAIN ks
    BY <1>1, <2>2, <2>5, LenProperties
  <2>7. EachOnce(t)
    BY <2>5, <2>6 DEF EachOnce
  <2>8. DownIn(t) = DownIn(ks)
    BY <1>1, <2>1, <2>2, <2>5, <2>6 DEF DownIn
  <2>9. DownKeys(t) = DownKeys(ks)
    BY <2>5, <2>6, <2>8 DEF DownKeys, DownIn
  <2>10. Last(t).pressed
    BY <2>2, <2>5 DEF Last
  <2> QED  BY <2>5, <2>7, <2>9, <2>10 DEF t
<1> QED  BY <1>2, <1>3

(* guaclog_state_add_key and the mark it sets: the one entry of a modifier *)
(* is found, or one is added.                                              *)
LEMMA AddKept ==
    ASSUME keys \in Seq(KeyStates), EachOnce(keys), NEW keysym \in Keysyms, NEW pressed \in BOOLEAN
    PROVE  /\ AddKey(keysym, pressed) \in Seq(KeyStates) /\ EachOnce(AddKey(keysym, pressed))
           /\ pressed => DownKeys(AddKey(keysym, pressed)) = DownKeys(keys) \cup {keysym}
           /\ ~pressed => DownKeys(AddKey(keysym, pressed)) = DownKeys(keys) \ {keysym}
<1> DEFINE a == AddKey(keysym, pressed)
           n == Len(keys)
<1>1. n \in Nat /\ DOMAIN keys = 1 .. n /\ \A i \in 1 .. n : keys[i] \in KeyStates
  BY LenProperties, ElementOfSeq
<1>2. CASE Tracked(keysym) # {}
  <2>1. PICK k \in DOMAIN keys : keys[k].keysym = keysym
    BY <1>2 DEF Tracked
  <2>2. Tracked(keysym) = {k}
    BY <2>1 DEF Tracked, EachOnce
  <2>3. a = [i \in 1 .. n |-> IF i = k THEN [keys[k] EXCEPT !.pressed = pressed] ELSE keys[i]]
    BY <1>1, <1>2, <2>2 DEF AddKey
  <2> HIDE DEF a, n
  <2>4. DOMAIN a = 1 .. n /\ a[k] = [keys[k] EXCEPT !.pressed = pressed]
        /\ \A i \in 1 .. n : i # k => a[i] = keys[i]
    BY <1>1, <2>1, <2>3
  <2>5. a[k] \in KeyStates /\ a[k].keysym = keysym /\ a[k].pressed = pressed
    BY <1>1, <2>1, <2>4 DEF KeyStates
  <2>6. \A i \in 1 .. n : a[i] \in KeyStates /\ a[i].keysym = keys[i].keysym
    BY <1>1, <2>1, <2>4, <2>5
  <2>7. a \in Seq(KeyStates)
    <3>1. a \in [1 .. n -> KeyStates]
      BY <2>3, <2>4, <2>6
    <3> QED  BY <1>1, <3>1, SeqDef
  <2>8. EachOnce(a)
    BY <1>1, <2>4, <2>6 DEF EachOnce
  <2>9. ASSUME pressed  PROVE DownIn(a) = DownIn(keys) \cup {k}
    BY <1>1, <2>1, <2>4, <2>5, <2>9 DEF DownIn
  <2>10. ASSUME ~pressed  PROVE DownIn(a) = DownIn(keys) \ {k}
    BY <1>1, <2>1, <2>4, <2>5, <2>10 DEF DownIn
  <2>11. ASSUME pressed  PROVE DownKeys(a) = DownKeys(keys) \cup {keysym}
    BY <1>1, <2>1, <2>4, <2>5, <2>6, <2>9, <2>11 DEF DownKeys, DownIn
  <2>12. ASSUME ~pressed  PROVE DownKeys(a) = DownKeys(keys) \ {keysym}
    <3>1. \A i \in DownIn(a) : a[i].keysym = keys[i].keysym /\ keys[i].keysym # keysym
      BY <1>1, <2>1, <2>6, <2>10, <2>12 DEF DownIn, EachOnce
    <3>2. \A i \in DownIn(keys) : keys[i].keysym # keysym => i \in DownIn(a)
      BY <2>1, <2>10, <2>12
    <3> QED  BY <2>10, <2>12, <3>1, <3>2 DEF DownKeys
  <2> QED  BY <2>7, <2>8, <2>11, <2>12 DEF a
<1>3. CASE Tracked(keysym) = {}
  <2> DEFINE e == [keysym |-> keysym, pressed |-> pressed]
  <2>1. a = Append(keys, e) /\ e \in KeyStates /\ e.keysym = keysym /\ e.pressed = pressed
    BY <1>3 DEF AddKey, KeyStates
  <2>2. \A i \in 1 .. n : keys[i].keysym # keysym
    BY <1>1, <1>3 DEF Tracked
  <2> HIDE DEF a, e, n
  <2>3. /\ a \in Seq(KeyStates) /\ DOMAIN a = 1 .. n + 1 /\ a[n + 1] = e
        /\ \A i \in 1 .. n : a[i] = keys[i]
    BY <2>1, AppendProperties, LenProperties DEF n
  <2>4. EachOnce(a)
    <3> SUFFICES ASSUME NEW i \in 1 .. n + 1, NEW j \in 1 .. n + 1, a[i].keysym = a[j].keysym
                 PROVE  i = j
      BY <2>3 DEF EachOnce
    <3>1. CASE i = n + 1 /\ j = n + 1
      BY <3>1
    <3>2. CASE i \in 1 .. n /\ j \in 1 .. n
      BY <1>1, <2>3, <3>2 DEF EachOnce
    <3>3. CASE i \in 1 .. n /\ j = n + 1
      BY <2>1, <2>2, <2>3, <3>3
    <3>4. CASE i = n + 1 /\ j \in 1 .. n
      BY <2>1, <2>2, <2>3, <3>4
    <3> QED  BY <1>1, <3>1, <3>2, <3>3, <3>4
  <2>5. ASSUME NEW x  PROVE x \in DownKeys(a) <=> x \in DownKeys(keys) \/ (x = keysym /\ pressed)
    <3>1. ASSUME x \in DownKeys(a)  PROVE x \in DownKeys(keys) \/ (x = keysym /\ pressed)
      <4>1. PICK i \in 1 .. n + 1 : a[i].pressed /\ x = a[i].keysym
        BY <2>3, <3>1 DEF DownKeys, DownIn
      <4>2. CASE i = n + 1
        BY <2>1, <2>3, <4>1, <4>2
      <4>3. CASE i \in 1 .. n
        BY <1>1, <2>3, <4>1, <4>3 DEF DownKeys, DownIn
      <4> QED  BY <1>1, <4>2, <4>3
    <3>2. ASSUME x \in DownKeys(keys)  PROVE x \in DownKeys(a)
      <4>1. PICK i \in 1 .. n : keys[i].pressed /\ x = keys[i].keysym
        BY <1>1, <3>2 DEF DownKeys, DownIn
      <4>2. i \in 1 .. n + 1
        BY <1>1
      <4> QED  BY <2>3, <4>1, <4>2 DEF DownKeys, DownIn
    <3>3. ASSUME x = keysym, pressed  PROVE x \in DownKeys(a)
      <4>1. n + 1 \in 1 .. n + 1
        BY <1>1
      <4> QED  BY <2>1, <2>3, <3>3, <4>1 DEF DownKeys, DownIn
    <3> QED  BY <3>1, <3>2, <3>3
  <2>6. keysym \notin DownKeys(keys)
    BY <1>1, <2>2 DEF DownKeys, DownIn
  <2> QED  BY <2>3, <2>4, <2>5, <2>6 DEF a
<1> QED  BY <1>2, <1>3

(* HeldTracked in these terms.                                             *)
LEMMA TrackedMeans ==
    HeldTracked <=> /\ EachOnce(keys) /\ DownKeys(keys) \subseteq held
                    /\ ~full => held \subseteq DownKeys(keys)
                    /\ keys # <<>> => Last(keys).pressed
BY DEF HeldTracked, EachOnce, DownKeys, DownIn

(* guaclog_handle_key, for any key.  When the array is full the modifier   *)
(* is not tracked, so its release does not find it either.                 *)
LEMMA KeyEventSound == LogInv /\ KeyEvent => LogInv'
<1> SUFFICES ASSUME LogInv, KeyEvent  PROVE LogInv'
  OBVIOUS
<1>0. /\ keys \in Seq(KeyStates) /\ held \subseteq Keysyms /\ full \in BOOLEAN
      /\ EachOnce(keys) /\ DownKeys(keys) \subseteq held
      /\ ~full => held \subseteq DownKeys(keys)
      /\ keys # <<>> => Last(keys).pressed
  BY TrackedMeans DEF LogInv
<1>1. PICK keysym \in Keysyms, pressed \in BOOLEAN :
        /\ HandleKey(SendKey(keysym, pressed, 1))
        /\ held' = IF ~KeydefAlloc(keysym).modifier THEN held
                   ELSE IF pressed THEN held \cup {keysym} ELSE held \ {keysym}
  BY DEF KeyEvent
<1>2. SendKey(keysym, pressed, 1)[2] = keysym /\ (SendKey(keysym, pressed, 1)[3] # 0) = pressed
  BY DEF SendKey, Flag
<1>3. IF KeydefAlloc(keysym).modifier THEN UpdateModifier(keysym, pressed)
      ELSE UpdateKey(keysym, pressed)
  BY <1>1, <1>2 DEF HandleKey
<1>4. held' \subseteq Keysyms
  BY <1>0, <1>1
<1>5. SUFFICES /\ keys' \in Seq(KeyStates) /\ full' \in BOOLEAN
               /\ EachOnce(keys') /\ DownKeys(keys') \subseteq held'
               /\ ~full' => held' \subseteq DownKeys(keys')
               /\ keys' # <<>> => Last(keys').pressed
  BY <1>4 DEF LogInv, HeldTracked, EachOnce, DownKeys, DownIn
<1>6. CASE ~KeydefAlloc(keysym).modifier
  <2>1. UNCHANGED <<keys, full, held>>
    BY <1>1, <1>3, <1>6 DEF UpdateKey
  <2> QED  BY <1>0, <2>1
<1>7. CASE KeydefAlloc(keysym).modifier /\ NoRoom(keysym)
  <2>1. keys' = keys /\ full' = TRUE
    BY <1>3, <1>7 DEF UpdateModifier
  <2>2. keysym \notin DownKeys(keys)
    BY <1>7 DEF NoRoom, Tracked, DownKeys, DownIn
  <2>3. DownKeys(keys) \subseteq held'
    BY <1>0, <1>1, <1>7, <2>2
  <2> QED  BY <1>0, <2>1, <2>3
<1>8. CASE KeydefAlloc(keysym).modifier /\ ~NoRoom(keysym)
  <2> DEFINE a == AddKey(keysym, pressed)
  <2>1. keys' = TrimKeys(a) /\ full' = full
    BY <1>0, <1>3, <1>8 DEF UpdateModifier
  <2>2. /\ a \in Seq(KeyStates) /\ EachOnce(a)
        /\ pressed => DownKeys(a) = DownKeys(keys) \cup {keysym}
        /\ ~pressed => DownKeys(a) = DownKeys(keys) \ {keysym}
    BY <1>0, AddKept
  <2> HIDE DEF a
  <2>3. /\ keys' \in Seq(KeyStates) /\ EachOnce(keys') /\ DownKeys(keys') = DownKeys(a)
        /\ keys' # <<>> => Last(keys').pressed
    BY <2>1, <2>2, TrimKept
  <2>4. held' = IF pressed THEN held \cup {keysym} ELSE held \ {keysym}
    BY <1>1, <1>8
  <2> QED  BY <1>0, <2>1, <2>2, <2>3, <2>4
<1> QED  BY <1>6, <1>7, <1>8

(* guaclog tracks exactly the modifiers that are held, each once and with  *)
(* a pressed one last, until there are more of them than the array holds;  *)
(* and never one that is not held: for any keys, any capacity of the array *)
(* and any sequence of events (guaclog/state.c).                           *)
THEOREM ModifiersTracked == LogSpec => []HeldTracked
<1>1. LogInit => LogInv
  <2> SUFFICES ASSUME LogInit  PROVE LogInv
    OBVIOUS
  <2>1. keys = <<>> /\ held = {} /\ full = FALSE
    BY DEF LogInit
  <2>2. keys \in Seq(KeyStates) /\ DOMAIN keys = {}
    BY <2>1, EmptySeq, LenProperties
  <2> QED  BY <2>1, <2>2 DEF LogInv, HeldTracked
<1>2. LogInv /\ [LogNext]_logVars => LogInv'
  <2>1. LogInv /\ UNCHANGED logVars => LogInv'
    BY DEF LogInv, logVars, HeldTracked
  <2> QED  BY <2>1, KeyEventSound DEF LogNext
<1>3. LogInv => HeldTracked
  BY DEF LogInv
<1> QED  BY <1>1, <1>2, <1>3, PTL DEF LogSpec

-----------------------------------------------------------------------------
(* The timeline of guacenc.                                                *)

(* What the timeline depends on, in the record of the display.             *)
EncFields == {"layers", "buffers", "images", "cursor", "last_sync", "output",
              "first", "flat", "ended", "crashed"}

(* The display e has the time and the video of d.                          *)
SameTime(d, e) ==
    /\ EncFields \subseteq DOMAIN d => EncFields \subseteq DOMAIN e
    /\ e.output = d.output /\ e.last_sync = d.last_sync
    /\ e.first = d.first /\ e.ended = d.ended

LEMMA SameTimeTwice ==
    ASSUME NEW d, NEW e, NEW f, SameTime(d, e), SameTime(e, f)
    PROVE  SameTime(d, f)
  BY DEF SameTime

(* One field of the display is replaced.                                   *)
LEMMA FieldSet ==
    ASSUME NEW d, EncFields \subseteq DOMAIN d, NEW x
    PROVE  /\ SameTime(d, [d EXCEPT !.layers = x])
           /\ SameTime(d, [d EXCEPT !.buffers = x])
           /\ SameTime(d, [d EXCEPT !.images = x])
           /\ SameTime(d, [d EXCEPT !.cursor = x])
           /\ SameTime(d, [d EXCEPT !.flat = x])
           /\ SameTime(d, [d EXCEPT !.crashed = x])
  BY DEF SameTime, EncFields

LEMMA EntrySet ==
    ASSUME NEW d, EncFields \subseteq DOMAIN d, NEW i, NEW x
    PROVE  /\ SameTime(d, [d EXCEPT !.layers[i] = x])
           /\ SameTime(d, [d EXCEPT !.layers[i].buffer = x])
           /\ SameTime(d, [d EXCEPT !.layers[i].opacity = x])
           /\ SameTime(d, [d EXCEPT !.layers[i].frame = x])
           /\ SameTime(d, [d EXCEPT !.buffers[i] = x])
           /\ SameTime(d, [d EXCEPT !.images[i] = x])
           /\ SameTime(d, [d EXCEPT !.images[i].data = x])
  BY DEF SameTime, EncFields

LEMMA GettersSameTime ==
    ASSUME NEW d, EncFields \subseteq DOMAIN d, NEW i, NEW b
    PROVE  /\ SameTime(d, GetLayer(d, i)) /\ SameTime(d, GetBuffer(d, i))
           /\ SameTime(d, GetRelated(d, i)) /\ SameTime(d, SetRelated(d, i, b))
<1>1. SameTime(d, d)
  BY DEF SameTime
<1>2. SameTime(d, GetLayer(d, i)) /\ SameTime(d, GetBuffer(d, i))
  BY <1>1, EntrySet DEF GetLayer, GetBuffer
<1> QED  BY <1>2, EntrySet DEF GetRelated, SetRelated

(* No drawing instruction touches the time.                                *)
LEMMA DrawingSameTime ==
    ASSUME NEW d, EncFields \subseteq DOMAIN d, NEW i
    PROVE  /\ SameTime(d, HandleSize(d, i)) /\ SameTime(d, HandleRect(d, i))
           /\ SameTime(d, HandleCfill(d, i)) /\ SameTime(d, HandleCopy(d, i))
           /\ SameTime(d, HandleCursor(d, i)) /\ SameTime(d, HandleDispose(d, i))
           /\ SameTime(d, HandleMove(d, i)) /\ SameTime(d, HandleShade(d, i))
           /\ SameTime(d, HandleTransfer(d, i)) /\ SameTime(d, HandleImg(d, i))
           /\ SameTime(d, ImageBlob(d, i)) /\ SameTime(d, ImageEnd(d, i))
<1>0. SameTime(d, d)
  BY DEF SameTime
<1>1. SameTime(d, HandleSize(d, i))
  BY GettersSameTime DEF HandleSize
<1>2. SameTime(d, HandleRect(d, i))
  BY GettersSameTime DEF HandleRect
<1>3. SameTime(d, HandleCfill(d, i))
  BY GettersSameTime DEF HandleCfill
<1>4. SameTime(d, HandleCopy(d, i))
  <2> DEFINE e == GetRelated(d, i[8])
  <2>1. SameTime(d, e) /\ EncFields \subseteq DOMAIN e
    BY GettersSameTime DEF SameTime
  <2>2. \A b : SameTime(d, SetRelated(e, i[8], b))
    <3> HIDE DEF e
    <3> QED  BY <2>1, GettersSameTime, SameTimeTwice
  <2> QED  BY <1>0, <2>2 DEF HandleCopy
<1>5. SameTime(d, HandleCursor(d, i))
  BY DEF HandleCursor, SameTime, EncFields
<1>6. SameTime(d, HandleDispose(d, i))
  BY EntrySet DEF HandleDispose
<1>7. SameTime(d, HandleMove(d, i))
  <2> DEFINE e == GetLayer(d, i[3])
  <2>1. SameTime(d, e) /\ EncFields \subseteq DOMAIN e
    BY GettersSameTime DEF SameTime
  <2>2. \A x : SameTime(d, [e EXCEPT !.layers[i[2]] = x])
    <3> HIDE DEF e
    <3> QED  BY <2>1, EntrySet, SameTimeTwice
  <2> QED  BY <1>0, <2>2 DEF HandleMove
<1>8. SameTime(d, HandleShade(d, i))
  BY EntrySet DEF HandleShade
<1>9. SameTime(d, HandleTransfer(d, i))
  BY <1>0 DEF HandleTransfer
<1>10. SameTime(d, HandleImg(d, i)) /\ SameTime(d, ImageBlob(d, i))
  BY EntrySet DEF HandleImg, ImageBlob
<1>11. SameTime(d, ImageEnd(d, i))
  BY <1>0, GettersSameTime, FieldSet DEF ImageEnd
<1> QED  BY <1>1, <1>2, <1>3, <1>4, <1>5, <1>6, <1>7, <1>8, <1>9, <1>10, <1>11

(* Nor does flattening, the cursor included.                               *)
LEMMA FlattenSameTime ==
    ASSUME NEW d, EncFields \subseteq DOMAIN d
    PROVE  SameTime(d, Flatten(d))
<1>1. ASSUME NEW f, EncFields \subseteq DOMAIN f
      PROVE  SameTime(f, RenderCursor(f))
  <2> DEFINE e == GetLayer(f, 0)
  <2>1. SameTime(f, e) /\ EncFields \subseteq DOMAIN e
    BY <1>1, GettersSameTime DEF SameTime
  <2>2. \A x : /\ SameTime(f, [e EXCEPT !.crashed = x])
               /\ SameTime(f, [e EXCEPT !.layers[0].frame = x])
    <3> HIDE DEF e
    <3> QED  BY <2>1, EntrySet, FieldSet, SameTimeTwice
  <2>3. SameTime(f, f)
    BY DEF SameTime
  <2> QED  BY <2>1, <2>2, <2>3 DEF RenderCursor
<1>2. \A x, y : LET f == [d EXCEPT !.layers = x, !.flat = y]
                IN  SameTime(d, f) /\ EncFields \subseteq DOMAIN f
  BY DEF SameTime, EncFields
<1>3. \A x, y : SameTime(d, RenderCursor([d EXCEPT !.layers = x, !.flat = y]))
  BY <1>1, <1>2, SameTimeTwice
<1> QED  BY <1>3, FieldSet DEF Flatten

(* The record of the video, with natural numbers.                          *)
VideoShaped(v) ==
    /\ DOMAIN v = {"last", "pts", "next", "failed"}
    /\ v.last \in Nat /\ v.pts \in Nat /\ v.failed \in BOOLEAN

(* The frames of a span of time, and the time that they do not fill.       *)
LEMMA ElapsedBounds ==
    ASSUME NEW v, VideoShaped(v), NEW time \in Int, time >= v.last
    PROVE  /\ Elapsed(v, time) \in Nat
           /\ (Elapsed(v, time) * 1000) \div FrameRate = Elapsed(v, time) * 40
           /\ time - v.last - Elapsed(v, time) * 40 \in 0 .. 39
<1>1. \A n \in Nat : /\ (n * 25) \div 1000 \in Nat
                     /\ n - ((n * 25) \div 1000) * 40 \in 0 .. 39
  OBVIOUS
<1>2. \A n \in Nat : (n * 1000) \div 25 = n * 40
  OBVIOUS
<1> DEFINE s == time - v.last
<1>3. s \in Nat
  BY DEF VideoShaped
<1>4. (s * 25) \div 1000 \in Nat /\ s - ((s * 25) \div 1000) * 40 \in 0 .. 39
  <2> HIDE DEF s
  <2> QED  BY <1>1, <1>3
<1> DEFINE r == (s * 25) \div 1000
<1>5. (r * 1000) \div 25 = r * 40
  <2>1. r \in Nat
    BY <1>4
  <2> HIDE DEF r
  <2> QED  BY <1>2, <2>1
<1>6. Elapsed(v, time) = r
  BY DEF Elapsed, FrameRate
<1>7. r \in Nat /\ s - r * 40 \in 0 .. 39
  BY <1>4
<1> HIDE DEF r
<1> QED  BY <1>5, <1>6, <1>7 DEF FrameRate

(* What the timeline of a video owes to the times of the first and of the  *)
(* latest "sync": nothing before the first, then exactly the frames of the *)
(* time gone by.                                                           *)
VideoTimed(v, first, sync) ==
    /\ VideoShaped(v) /\ first \in Nat /\ sync \in Nat
    /\ v.last = 0 <=> first = 0
    /\ v.last = 0 => v.pts = 0 /\ ~v.failed
    /\ v.last # 0 /\ ~v.failed =>
          /\ v.last - first = v.pts * 40
          /\ sync - v.last \in 0 .. 39
    /\ v.last <= sync

Timed(d) ==
    /\ EncFields \subseteq DOMAIN d /\ ~d.ended
    /\ VideoTimed(d.output, d.first, d.last_sync)

LEMMA TimedSameTime ==
    ASSUME NEW d, NEW e, Timed(d), SameTime(d, e) PROVE Timed(e)
  BY DEF Timed, SameTime

(* One call of guacenc_video_advance_timeline.                             *)
LEMMA AdvanceTimed ==
    ASSUME NEW o, NEW first, NEW sync, VideoTimed(o, first, sync),
           NEW time \in Int, time >= sync,
           NEW written \in {0, IF o.last = 0 THEN 0 ELSE Elapsed(o, time)}
    PROVE  VideoTimed(AdvanceTimeline(o, time, written), IF first = 0 THEN time ELSE first, time)
<1> DEFINE w == AdvanceTimeline(o, time, written)
           r == Elapsed(o, time)
           from == IF first = 0 THEN time ELSE first
<1> SUFFICES VideoTimed(w, from, time)
  OBVIOUS
<1>0. /\ DOMAIN o = {"last", "pts", "next", "failed"}
      /\ o.last \in Nat /\ o.pts \in Nat /\ o.failed \in BOOLEAN
      /\ first \in Nat /\ sync \in Nat /\ time \in Nat /\ o.last <= sync
  BY DEF VideoTimed, VideoShaped
<1>1. CASE o.last = 0
  <2>1. w = [o EXCEPT !.last = time]
    BY <1>1 DEF AdvanceTimeline
  <2>2. DOMAIN w = DOMAIN o /\ w.last = time /\ w.pts = 0 /\ w.failed = FALSE /\ first = 0
    BY <1>0, <1>1, <2>1 DEF VideoTimed
  <2>3. from = time /\ time - time = 0 * 40 /\ 0 \in 0 .. 39
    BY <1>0, <2>2
  <2> HIDE DEF w, from
  <2>4. VideoShaped(w)
    BY <1>0, <2>2 DEF VideoShaped
  <2>5. w.last - from = w.pts * 40 /\ time - w.last \in 0 .. 39 /\ w.last <= time
    BY <1>0, <2>2, <2>3
  <2> QED  BY <1>0, <2>2, <2>3, <2>4, <2>5 DEF VideoTimed
<1>2. CASE o.last # 0
  <2>1. written \in {0, r}
    BY <1>2
  <2>2. r \in Nat /\ (r * 1000) \div FrameRate = r * 40 /\ time - o.last - r * 40 \in 0 .. 39
    BY <1>0, ElapsedBounds DEF VideoTimed
  <2>3. /\ first # 0
        /\ ~o.failed => o.last - first = o.pts * 40
    BY <1>2 DEF VideoTimed
  <2>4. CASE r = 0
    <3>1. w = o
      BY <1>2, <2>4 DEF AdvanceTimeline
    <3>2. time - o.last \in 0 .. 39
      BY <1>0, <2>2, <2>4
    <3> HIDE DEF w, r
    <3> QED  BY <1>0, <1>2, <2>3, <3>1, <3>2 DEF VideoTimed, VideoShaped
  <2>5. CASE r # 0 /\ written < r
    <3>1. w = [o EXCEPT !.pts = @ + written, !.failed = TRUE]
      BY <1>2, <2>5 DEF AdvanceTimeline
    <3>2. DOMAIN w = DOMAIN o /\ w.last = o.last /\ w.pts = o.pts + written /\ w.failed = TRUE
      BY <1>0, <3>1
    <3>3. w.pts \in Nat /\ w.last <= time
      BY <1>0, <2>1, <2>2, <3>2
    <3> HIDE DEF w, r
    <3> QED  BY <1>0, <1>2, <2>3, <3>2, <3>3 DEF VideoTimed, VideoShaped
  <2>6. CASE r # 0 /\ ~(written < r)
    <3>1. written = r
      BY <2>1, <2>2, <2>6
    <3>2. w = [o EXCEPT !.pts = @ + r, !.last = @ + r * 40]
      BY <1>2, <2>2, <2>6, <3>1 DEF AdvanceTimeline
    <3>3. /\ DOMAIN w = DOMAIN o /\ w.last = o.last + r * 40
          /\ w.pts = o.pts + r /\ w.failed = o.failed
      BY <1>0, <3>2
    <3>4. /\ w.last \in Nat /\ w.last # 0 /\ w.pts \in Nat /\ w.last <= time
          /\ time - w.last \in 0 .. 39
          /\ ~w.failed => w.last - first = w.pts * 40
      <4> HIDE DEF w, r
      <4> QED  BY <1>0, <1>2, <2>2, <2>3, <3>3
    <3> HIDE DEF w, r
    <3> QED  BY <1>0, <1>2, <2>3, <3>3, <3>4 DEF VideoTimed, VideoShaped
  <2> QED  BY <2>4, <2>5, <2>6
<1> QED  BY <1>1, <1>2

(* One call of guacenc_display_sync.  A timestamp that goes back is        *)
(* refused, so none is negative.                                           *)
LEMMA SyncTimed ==
    ASSUME NEW d, Timed(d), NEW time \in Int,
           NEW written \in {0, IF d.output.last = 0 \/ time < d.last_sync THEN 0
                               ELSE Elapsed(d.output, time)},
           ~DisplaySync(d, time, written).crashed
    PROVE  Timed(DisplaySync(d, time, written))
<1>1. CASE time < d.last_sync
  BY <1>1 DEF DisplaySync
<1>2. CASE ~(time < d.last_sync)
  <2> DEFINE c == [d EXCEPT !.last_sync = time]
             f == Flatten(c)
             e == [f EXCEPT !.first = IF @ = 0 THEN time ELSE @]
             g == GetLayer(e, 0)
             v == AdvanceTimeline(g.output, time, written)
             last == [g EXCEPT !.output = IF v.failed THEN v ELSE PrepareFrame(v, g.layers[0].frame)]
             from == IF d.first = 0 THEN time ELSE d.first
  <2>1. DisplaySync(d, time, written) = IF e.crashed THEN e
                                       ELSE IF Overflows(e.output, time) THEN [e EXCEPT !.crashed = TRUE]
                                       ELSE last
    BY <1>2 DEF DisplaySync
  <2>3. /\ EncFields \subseteq DOMAIN c /\ c.output = d.output /\ c.last_sync = time
        /\ c.first = d.first /\ c.ended = d.ended
    BY DEF Timed, EncFields
  <2>4. /\ EncFields \subseteq DOMAIN f /\ f.output = d.output /\ f.last_sync = time
        /\ f.first = d.first /\ f.ended = d.ended
    <3> HIDE DEF c
    <3> QED  BY <2>3, FlattenSameTime DEF SameTime
  <2>5. /\ EncFields \subseteq DOMAIN e /\ e.output = d.output /\ e.last_sync = time
        /\ e.first = from /\ e.ended = d.ended
    <3> HIDE DEF f
    <3> QED  BY <2>4 DEF EncFields
  <2>2. DisplaySync(d, time, written) = last
    <3> HIDE DEF e, last
    <3> QED  BY <2>1, <2>5 DEF EncFields
  <2>6. /\ EncFields \subseteq DOMAIN g /\ g.output = d.output /\ g.last_sync = time
        /\ g.first = from /\ g.ended = d.ended
    <3>1. SameTime(e, g)
      <4> HIDE DEF e
      <4> QED  BY <2>5, GettersSameTime
    <3> HIDE DEF g, e
    <3> QED  BY <2>5, <3>1 DEF SameTime
  <2>7. VideoTimed(v, from, time)
    <3>1. v = AdvanceTimeline(d.output, time, written)
      <4> HIDE DEF g
      <4> QED  BY <2>6
    <3>2. written \in {0, IF d.output.last = 0 THEN 0 ELSE Elapsed(d.output, time)}
      BY <1>2
    <3>3. VideoTimed(d.output, d.first, d.last_sync) /\ time >= d.last_sync
      BY <1>2 DEF Timed, VideoTimed
    <3> HIDE DEF v
    <3> QED  BY <3>1, <3>2, <3>3, AdvanceTimed
  <2>8. /\ EncFields \subseteq DOMAIN last /\ last.last_sync = time
        /\ last.first = from /\ last.ended = d.ended
        /\ last.output = IF v.failed THEN v ELSE PrepareFrame(v, g.layers[0].frame)
    <3> HIDE DEF g, v
    <3> QED  BY <2>6 DEF EncFields
  <2>9. VideoTimed(last.output, from, time)
    <3>1. \A x : VideoTimed([v EXCEPT !.next = x], from, time)
      <4> HIDE DEF v, from
      <4> QED  BY <2>7 DEF VideoTimed, VideoShaped
    <3> HIDE DEF g, v, last, from
    <3> QED  BY <2>7, <2>8, <3>1 DEF PrepareFrame
  <2> HIDE DEF last, from
  <2> QED  BY <2>2, <2>8, <2>9 DEF Timed
<1> QED  BY <1>1, <1>2


(* A handler leaves the display timed, unless it ends the process.         *)
LEMMA HandleTimed ==
    ASSUME NEW d, Timed(d), NEW i \in Recording \cup Range(Prefix),
           NEW written \in {0, ToWrite(d, i)}, ~Handle(d, i, written).crashed
    PROVE  Timed(Handle(d, i, written))
<1>0. EncFields \subseteq DOMAIN d /\ SameTime(d, d)
  BY DEF Timed, SameTime
<1>1. CASE i[1] = "sync"
  <2>1. Handle(d, i, written) = DisplaySync(d, i[2], written)
    BY <1>1 DEF Handle, OnSync
  <2>2. /\ i[2] \in Int
        /\ written \in {0, IF d.output.last = 0 \/ i[2] < d.last_sync THEN 0
                           ELSE Elapsed(d.output, i[2])}
    BY <1>1, TimestampAssumption DEF ToWrite
  <2> QED  BY <2>1, <2>2, SyncTimed
<1>2. CASE i[1] = "mouse"
  <2> DEFINE e == [d EXCEPT !.cursor.x = i[2]]
  <2>1. Handle(d, i, written) = DisplaySync(e, i[5], written)
    BY <1>2 DEF Handle, HandleMouse
  <2>2. /\ i[5] \in Int
        /\ written \in {0, IF d.output.last = 0 \/ i[5] < d.last_sync THEN 0
                           ELSE Elapsed(d.output, i[5])}
    BY <1>2, TimestampAssumption DEF ToWrite
  <2>3. SameTime(d, e)
    BY <1>0 DEF SameTime, EncFields
  <2>4. Timed(e) /\ e.output = d.output /\ e.last_sync = d.last_sync
    <3> HIDE DEF e
    <3> QED  BY <2>3, TimedSameTime DEF SameTime
  <2> HIDE DEF e
  <2> QED  BY <2>1, <2>2, <2>4, SyncTimed
<1>3. CASE i[1] \notin {"sync", "mouse"}
  <2>1. SameTime(d, Handle(d, i, written))
    <3>1. \A n : LET e == GetRelated(d, n)
                 IN  SameTime(d, e) /\ EncFields \subseteq DOMAIN e
      BY <1>0, GettersSameTime DEF SameTime
    <3>2. \A n : LET e == GetLayer(d, n)
                 IN  SameTime(d, e) /\ EncFields \subseteq DOMAIN e
      BY <1>0, GettersSameTime DEF SameTime
    <3>3. \A n : /\ SameTime(d, HandleSize(GetRelated(d, n), i))
                 /\ SameTime(d, HandleRect(GetRelated(d, n), i))
                 /\ SameTime(d, HandleCfill(GetRelated(d, n), i))
                 /\ SameTime(d, HandleCopy(GetRelated(d, n), i))
                 /\ SameTime(d, HandleCursor(GetRelated(d, n), i))
                 /\ SameTime(d, ImageEnd(GetRelated(d, n), i))
      BY <3>1, DrawingSameTime, SameTimeTwice
    <3>4. \A n : /\ SameTime(d, HandleMove(GetLayer(d, n), i))
                 /\ SameTime(d, HandleShade(GetLayer(d, n), i))
      BY <3>2, DrawingSameTime, SameTimeTwice
    <3>5. /\ SameTime(d, HandleDispose(d, i)) /\ SameTime(d, HandleTransfer(d, i))
          /\ SameTime(d, HandleImg(d, i)) /\ SameTime(d, ImageBlob(d, i))
      BY <1>0, DrawingSameTime
    <3> QED  BY <1>0, <1>3, <3>3, <3>4, <3>5 DEF Handle
  <2> QED  BY <2>1, TimedSameTime
<1> QED  BY <1>1, <1>2, <1>3

(* The timeline of a display that can still be written to is timed; once   *)
(* the recording has ended its last frame was written too, and nothing is. *)
TimelineInv ==
    /\ disp.crashed \/ disp.ended \/ Timed(disp)
    /\ TimelineExact

LEMMA TimedExact ==
    ASSUME Timed(disp) PROVE TimelineExact
<1>1. 1000 \div FrameRate = 40
  BY DEF FrameRate
<1> QED  BY <1>1 DEF Timed, VideoTimed, VideoShaped, TimelineExact, Flag

(* guacenc_video_advance_timeline: whatever the recording, the frames      *)
(* written fill the time since the first "sync" exactly, and the video     *)
(* never lags a frame behind.                                              *)
THEOREM TimelineAlwaysExact == EncSpec => []TimelineExact
<1>1. EncInit => TimelineInv
  <2> SUFFICES ASSUME EncInit PROVE TimelineInv
    OBVIOUS
  <2>1. Timed(disp)
    <3>1. /\ disp.output = VideoAlloc /\ disp.first = 0 /\ disp.last_sync = 0
          /\ disp.ended = FALSE /\ EncFields \subseteq DOMAIN disp
      BY DEF EncInit, DisplayAlloc, EncFields
    <3>2. VideoShaped(VideoAlloc) /\ VideoAlloc.last = 0 /\ VideoAlloc.pts = 0 /\ VideoAlloc.failed = FALSE
      BY DEF VideoAlloc, VideoShaped
    <3> QED  BY <3>1, <3>2 DEF Timed, VideoTimed
  <2> QED  BY <2>1, TimedExact DEF EncInit, TimelineInv
<1>2. TimelineInv /\ [EncNext]_encVars => TimelineInv'
  <2> SUFFICES ASSUME TimelineInv, [EncNext]_encVars PROVE TimelineInv'
    OBVIOUS
  <2>0. 1000 \div FrameRate = 40
    BY DEF FrameRate
  <2>1. CASE ReadInstruction
    <3>1. PICK i \in Recording \cup Range(Prefix) :
             \E written \in {0, ToWrite(disp, i)} : disp' = Handle(Clear(disp), i, written)
      <4>1. Offered \subseteq Recording \cup Range(Prefix)
        BY DEF Offered, Range
      <4> QED  BY <2>1, <4>1 DEF ReadInstruction
    <3>2. PICK written \in {0, ToWrite(disp, i)} : disp' = Handle(Clear(disp), i, written)
      BY <3>1
    <3> DEFINE d == Clear(disp)
    <3>3. Timed(d) /\ ToWrite(d, i) = ToWrite(disp, i)
      <4>1. Timed(disp) /\ EncFields \subseteq DOMAIN disp
        BY <2>1 DEF ReadInstruction, TimelineInv, Timed
      <4>2. SameTime(disp, d)
        BY <4>1, FieldSet DEF Clear
      <4> HIDE DEF d
      <4> QED  BY <4>1, <4>2, TimedSameTime DEF SameTime, ToWrite
    <3>4. disp'.crashed \/ Timed(disp')
      <4> HIDE DEF d
      <4>1. disp' = Handle(d, i, written)
        BY <3>2 DEF d
      <4> QED  BY <3>2, <3>3, <4>1, HandleTimed
    <3>5. CASE disp'.crashed
      BY <3>5 DEF TimelineInv, TimelineExact
    <3>6. CASE Timed(disp')
      <4>1. TimelineExact'
        BY <3>6, <2>0 DEF Timed, VideoTimed, VideoShaped, TimelineExact, Flag
      <4> QED  BY <3>6, <4>1 DEF TimelineInv
    <3> QED  BY <3>4, <3>5, <3>6
  <2>2. CASE EndOfRecording
    <3>1. Timed(disp) /\ ~disp.crashed
      BY <2>2 DEF EndOfRecording, TimelineInv
    <3>2. disp' = [disp EXCEPT !.output.pts = @ + 1, !.ended = TRUE]
      BY <2>2 DEF EndOfRecording
    <3>3. /\ disp'.ended = TRUE /\ disp'.crashed = disp.crashed
          /\ disp'.output.pts = disp.output.pts + 1
          /\ disp'.output.last = disp.output.last /\ disp'.output.failed = disp.output.failed
          /\ disp'.first = disp.first /\ disp'.last_sync = disp.last_sync
      BY <3>1, <3>2 DEF Timed, VideoTimed, VideoShaped, EncFields
    <3>4. TimelineExact'
      BY <2>0, <3>1, <3>3 DEF Timed, VideoTimed, VideoShaped, TimelineExact, Flag
    <3> QED  BY <3>3, <3>4 DEF TimelineInv
  <2>3. CASE UNCHANGED encVars
    BY <2>3 DEF encVars, TimelineInv, TimelineExact
  <2> QED  BY <2>1, <2>2, <2>3 DEF EncNext
<1>3. TimelineInv => TimelineExact
  BY DEF TimelineInv
<1> QED  BY <1>1, <1>2, <1>3, PTL DEF EncSpec
=============================================================================
