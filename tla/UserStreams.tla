---------------------------- MODULE UserStreams ----------------------------
(***************************************************************************)
(* What a connection hands out and what its users open: layers, buffers,   *)
(* output streams and objects with their integer pools (libguac/pool.c,    *)
(* client.c, user.c), the input streams of a user and the handlers of its  *)
(* instructions (user-handlers.c), and the arguments that users may update *)
(* (argv.c).                                                               *)
(*                                                                         *)
(* The state is one record, st, so that a handler that ends one stream     *)
(* before it opens another is the composition of two operators.            *)
(***************************************************************************)
EXTENDS Integers, Sequences, FiniteSets, SequencesExt

CONSTANTS
    MaxStreams,     \* GUAC_CLIENT_MAX_STREAMS, GUAC_USER_MAX_STREAMS, ..._MAX_OBJECTS
    PoolSize,       \* GUAC_BUFFER_POOL_INITIAL_SIZE
    MaxRegistered,  \* GUAC_ARGV_MAX_REGISTERED
    ArgNames, Values,
    Plugin,         \* threads of the plugin that allocate streams
    MaxLayers,      \* bound: layers and buffers alive at a time
    MaxIndex,       \* bound: index of a layer
    MaxTime,        \* bound on the clock
    NULL

ASSUME StreamsConsts == MaxStreams \in Nat /\ PoolSize \in Nat

VARIABLES
    st,
    pc,             \* what each thread of the plugin does
    clock           \* time and the timestamps of frames

streamVars == <<st, pc, clock>>

Kinds == {"client", "user", "object", "layer", "buffer"}
Slots == 0 .. MaxStreams - 1
(* A stream; arg, value and freed are what its data points to, for a       *)
(* stream that argv.c has taken over.                                      *)
NewStream(isOpen) == [open |-> isOpen, handler |-> "none", arg |-> 0, value |-> NULL, freed |-> FALSE]

-----------------------------------------------------------------------------
(* guac_pool: integers from 0, reused once min_size of them were given out. *)

NewPool(size) == [min |-> size, active |-> 0, next |-> 0, free |-> <<>>]

PoolTakesNew(p) == p.free = <<>> \/ p.next < p.min
NextInt(p) == IF PoolTakesNew(p) THEN p.next ELSE Head(p.free)
AfterNextInt(p) ==
    IF PoolTakesNew(p) THEN [p EXCEPT !.active = @ + 1, !.next = @ + 1]
    ELSE [p EXCEPT !.active = @ + 1, !.free = Tail(@)]
FreeInt(p, v) == [p EXCEPT !.active = @ - 1, !.free = Append(@, v)]

StreamsInit ==
    /\ \E handlers \in {{}, {"argv"}, {"argv", "clipboard", "file", "audio", "pipe", "put"}} :
       st = [pool |-> [k \in Kinds |-> NewPool(IF k \in {"layer", "buffer"} THEN PoolSize ELSE 0)],
             slot |-> [k \in {"client", "user", "object"} |-> {}],
             live |-> [k \in {"layer", "buffer"} |-> <<>>],
             input |-> [i \in Slots |-> NewStream(FALSE)],
             handlers |-> handlers,
             registered |-> <<>>, stopped |-> FALSE, awake |-> {},
             calls |-> [a \in ArgNames |-> 0],
             applied |-> [a \in ArgNames |-> NULL], echoed |-> [a \in ArgNames |-> NULL],
             active |-> TRUE, crashed |-> FALSE]
    /\ pc = [t \in Plugin |-> "idle"]
    /\ clock = [now |-> 1, sent |-> 0, received |-> 1, rtt |-> 0, lag |-> 0]

-----------------------------------------------------------------------------
(* Layers and buffers are numbered from 1 up and from -1 down.             *)

LayerIndex(kind, n) == IF kind = "layer" THEN n + 1 ELSE -n - 1

AllocLayer(kind) ==
    [st EXCEPT !.live[kind] = Append(@, LayerIndex(kind, NextInt(st.pool[kind]))),
               !.pool[kind] = AfterNextInt(@)]

(* guac_client_free_layer gives the pool back the index of the layer, not  *)
(* the number it came from; guac_client_free_buffer converts it.           *)
FreeLayer(k) ==
    [st EXCEPT !.live.layer = RemoveAt(@, k),
               !.pool.layer = FreeInt(@, st.live.layer[k])]

(* Mutant: as guac_client_free_layer.                                      *)
MutFreeBuffer(k) ==
    [st EXCEPT !.live.buffer = RemoveAt(@, k),
               !.pool.buffer = FreeInt(@, -st.live.buffer[k])]

FreeBuffer(k) ==
    [st EXCEPT !.live.buffer = RemoveAt(@, k),
               !.pool.buffer = FreeInt(@, -st.live.buffer[k] - 1)]

(* Output streams and objects are slots of an array.  The limit is tested  *)
(* before the pool is asked, and not under its lock; a number beyond the   *)
(* array is a stream in memory of somebody else, and a NULL stream that is *)
(* used is the end of the process: what happens then is left open.         *)
AtLimit(s, kind) == s.pool[kind].active = MaxStreams

TakeSlot(s, kind) ==
    LET n == NextInt(s.pool[kind]) IN
    [s EXCEPT !.slot[kind] = @ \cup {n}, !.pool[kind] = AfterNextInt(@), !.crashed = @ \/ n \notin Slots]

(* Stream indexes: odd for the client, even for a user, so that they never *)
(* meet; the slot is found again from the index.                           *)
StreamIndex(kind, n) == CASE kind = "client" -> 2 * n + 1 [] kind = "user" -> 2 * n [] OTHER -> n
SlotOf(kind, index) ==
    CASE kind = "client" -> (index - 1) \div 2 [] kind = "user" -> index \div 2 [] OTHER -> index

FreeSlot(s, kind, index) ==
    [s EXCEPT !.slot[kind] = @ \ {SlotOf(kind, index)},
              !.pool[kind] = FreeInt(@, SlotOf(kind, index))]

(* guac_client_stream_argv and its like: a stream for the time it takes to *)
(* send a value or an image.                                               *)
StreamOnce(s) ==
    IF AtLimit(s, "client") THEN [s EXCEPT !.crashed = TRUE]
    ELSE FreeSlot(TakeSlot(s, "client"), "client", StreamIndex("client", NextInt(s.pool.client)))

-----------------------------------------------------------------------------
(* argv.c: arguments are registered by name, received over a stream each,  *)
(* and awaited by the thread of the plugin.                                *)

ArgvRegister(name, once, echo) ==
    IF Len(st.registered) = MaxRegistered THEN st
    ELSE [st EXCEPT !.registered =
              Append(@, [name |-> name, once |-> once, echo |-> echo, received |-> FALSE])]

ArgvIsReceived(s, names) ==
    \A k \in DOMAIN s.registered :
        s.registered[k].name \in names => s.registered[k].received

(* guac_argv_received hands the stream to the first argument of that name  *)
(* that may still be received.                                             *)
ArgvCandidates(s, name) ==
    {k \in DOMAIN s.registered :
        s.registered[k].name = name /\ ~(s.registered[k].once /\ s.registered[k].received)}

ArgvReceived(s, i, name) ==
    LET ks == ArgvCandidates(s, name) IN
    IF ks = {} THEN s
    ELSE LET k == CHOOSE k \in ks : \A j \in ks : k <= j IN
         [s EXCEPT !.input[i].handler = "argv", !.input[i].arg = k]

(* guac_argv_blob_handler keeps what fits the buffer: the value, or less.  *)
ArgvBlob(s, i, value) == [s EXCEPT !.input[i].value = value]

(* Mutant: what was received meanwhile over another stream is ignored.     *)
MutArgvEndApplies(s, i) == TRUE

(* guac_argv_end_handler: callback, echo, wake up whoever waits.  The      *)
(* callback may refuse the value.  The data of the stream is freed, its    *)
(* pointer stays.                                                          *)
ArgvEndApplies(s, i) ==
    LET arg == s.registered[s.input[i].arg] IN ~arg.once \/ ~arg.received

(* Mutant: nobody is woken up.                                             *)
MutArgvEnd(s, i, accepted) ==
    LET data == s.input[i] IN
    [s EXCEPT !.registered[data.arg].received = TRUE, !.input[i].freed = TRUE]

ArgvEnd(s, i, accepted) ==
    LET data == s.input[i]
        arg == s.registered[data.arg]
        called == [s EXCEPT !.calls[arg.name] = IF arg.once /\ ArgvEndApplies(s, i) THEN @ + 1 ELSE @,
                            !.applied[arg.name] =
                                IF ArgvEndApplies(s, i) /\ accepted THEN data.value ELSE @]
        told == IF arg.echo /\ (accepted \/ ~ArgvEndApplies(s, i))
                THEN [StreamOnce(called) EXCEPT !.echoed[arg.name] = data.value]
                ELSE called
    IN [told EXCEPT !.registered[data.arg].received = TRUE,
                    !.awake = Plugin,
                    !.input[i].freed = TRUE]

ArgvStop == [st EXCEPT !.stopped = TRUE, !.awake = IF st.stopped THEN @ ELSE Plugin]

-----------------------------------------------------------------------------
(* Input streams.                                                          *)

EndHandler(s, i, accepted) ==
    IF s.input[i].handler = "argv" THEN ArgvEnd(s, i, accepted) ELSE s

(* __init_input_stream: a stream that is open is ended first.              *)
InitInputStream(s, i, accepted) ==
    LET ended == IF s.input[i].open THEN EndHandler(s, i, accepted) ELSE s
    IN [ended EXCEPT !.input[i] = NewStream(TRUE)]

(* The handlers that open a stream differ in the handler of the user they  *)
(* call; without one they refuse.  A handler of the plugin may take over   *)
(* the stream.                                                             *)
OpenStream(op, i) ==
    \E accepted \in BOOLEAN :
        LET s == InitInputStream(st, i, accepted) IN
        \/ op \notin st.handlers /\ st' = s
        \/ op \in st.handlers /\ op # "argv"
           /\ \E h \in {"none", "plugin"} : st' = [s EXCEPT !.input[i].handler = h]
        \/ op \in st.handlers /\ op = "argv"
           /\ \E name \in ArgNames : st' = ArgvReceived(s, i, name)

(* The answer to the user, an "ack" with a status, is not state.           *)
BadIndex == UNCHANGED st

HandleAudio(i) == IF i \in Slots THEN OpenStream("audio", i) ELSE BadIndex
HandleClipboard(i) == IF i \in Slots THEN OpenStream("clipboard", i) ELSE BadIndex
HandleFile(i) == IF i \in Slots THEN OpenStream("file", i) ELSE BadIndex
HandlePipe(i) == IF i \in Slots THEN OpenStream("pipe", i) ELSE BadIndex
HandleArgv(i) == IF i \in Slots THEN OpenStream("argv", i) ELSE BadIndex

(* "put" names an object first; one that is not there is ignored.          *)
HandlePut(o, i) ==
    IF o \notin Slots \/ o \notin st.slot.object THEN UNCHANGED st
    ELSE IF i \in Slots THEN OpenStream("put", i) ELSE BadIndex

IsOpen(i) == i \in Slots /\ st.input[i].open

HandleBlob(i, value) ==
    IF ~IsOpen(i) THEN BadIndex
    ELSE CASE st.input[i].handler = "argv" -> st' = ArgvBlob(st, i, value)
           [] OTHER -> UNCHANGED st

(* Mutant: the stream stays open after its end.                            *)
MutHandleEnd(i) ==
    IF ~IsOpen(i) THEN BadIndex
    ELSE \E accepted \in BOOLEAN : st' = EndHandler(st, i, accepted)

HandleEnd(i) ==
    IF ~IsOpen(i) THEN BadIndex
    ELSE \E accepted \in BOOLEAN :
            st' = [EndHandler(st, i, accepted) EXCEPT !.input[i].open = FALSE]

HandleDisconnect == st' = [st EXCEPT !.active = FALSE]

(* __guac_handle_sync: the lag of a user is what its answer took beyond    *)
(* the estimated round trip.                                               *)
HandleSync(timestamp) ==
    LET duration == clock.now - timestamp
        excess == IF clock.rtt = 0 \/ duration < clock.rtt THEN 0 ELSE duration - clock.rtt
        lag == clock.now - timestamp - (duration - excess)
    IN /\ timestamp <= clock.sent
       /\ clock' = IF timestamp < clock.received THEN clock
                   ELSE [clock EXCEPT !.received = timestamp, !.rtt = duration - excess,
                                      !.lag = IF lag < 0 THEN 0 ELSE lag]

(* guac_client_end_frame *)
EndFrame == clock' = [clock EXCEPT !.sent = clock.now]
Tick == clock.now < MaxTime /\ clock' = [clock EXCEPT !.now = @ + 1]

-----------------------------------------------------------------------------
(* The plugin's threads.                                                   *)

(* guac_client_alloc_stream: the test, then the number.                    *)
AllocTest(t) ==
    /\ pc[t] = "idle"
    /\ pc' = [pc EXCEPT ![t] = IF AtLimit(st, "client") THEN "idle" ELSE "take"]
    /\ UNCHANGED <<st, clock>>

AllocTake(t) ==
    /\ pc[t] = "take" /\ pc' = [pc EXCEPT ![t] = "idle"]
    /\ st' = TakeSlot(st, "client")
    /\ UNCHANGED clock

(* guac_argv_await *)
Await(t) ==
    /\ pc[t] \in {"idle", "awaiting"} /\ pc[t] = "awaiting" => t \in st.awake
    /\ LET done == st.stopped \/ ArgvIsReceived(st, ArgNames) IN
       /\ pc' = [pc EXCEPT ![t] = IF done THEN "awaited" ELSE "awaiting"]
       /\ st' = [st EXCEPT !.awake = @ \ {t}]
    /\ UNCHANGED clock

(* The handlers of a user's thread allocate streams, of the connection and *)
(* of the user, and objects; layers come and go; somebody stops the        *)
(* waiting for arguments.                                                  *)
SlotStep ==
    \/ \E kind \in {"client", "user", "object"} : ~AtLimit(st, kind) /\ st' = TakeSlot(st, kind)
    \/ \E kind \in {"client", "user", "object"} :
          \E n \in st.slot[kind] : st' = FreeSlot(st, kind, StreamIndex(kind, n))

LayerStep ==
    \/ \E kind \in {"layer", "buffer"} :
          /\ Len(st.live[kind]) < MaxLayers /\ NextInt(st.pool[kind]) < MaxIndex
          /\ st' = AllocLayer(kind)
    \/ \E k \in DOMAIN st.live.layer : st' = FreeLayer(k)
    \/ \E k \in DOMAIN st.live.buffer : st' = FreeBuffer(k)

ArgvStep ==
    \/ \E name \in ArgNames, once, echo \in BOOLEAN :
          /\ \A k \in DOMAIN st.registered : st.registered[k].name # name
          /\ \A t \in Plugin : pc[t] = "idle"
          /\ st' = ArgvRegister(name, once, echo)
    \/ st' = ArgvStop

(* One instruction of the user, after its handshake.                       *)
Instruction ==
    \/ \E i \in 0 .. MaxStreams :
          \/ HandleAudio(i) \/ HandleClipboard(i) \/ HandleFile(i) \/ HandlePipe(i)
          \/ HandleArgv(i) \/ HandleEnd(i)
          \/ \E value \in Values : HandleBlob(i, value)
          \/ \E o \in 0 .. MaxStreams : HandlePut(o, i)
    \/ HandleDisconnect

(* What happens to output streams and objects, to layers, to arguments and *)
(* to timestamps.                                                          *)
SlotsNext ==
    /\ ~st.crashed
    /\ \/ SlotStep /\ UNCHANGED <<pc, clock>>
       \/ \E t \in Plugin : AllocTest(t) \/ AllocTake(t)

LayersNext == LayerStep /\ UNCHANGED <<pc, clock>>

ArgvNext ==
    /\ ~st.crashed
    /\ \/ st.active /\ Instruction /\ UNCHANGED <<pc, clock>>
       \/ ArgvStep /\ UNCHANGED <<pc, clock>>
       \/ \E t \in Plugin : AllocTest(t) \/ AllocTake(t) \/ Await(t)

SyncNext ==
    /\ \/ \E timestamp \in 0 .. MaxTime : HandleSync(timestamp)
       \/ EndFrame
       \/ Tick
    /\ UNCHANGED <<st, pc>>

StreamsNext == SlotsNext \/ LayersNext \/ ArgvNext \/ SyncNext

StreamsSpec == StreamsInit /\ [][StreamsNext]_streamVars

StreamsFair == \A t \in Plugin : WF_streamVars(~st.crashed /\ Await(t))

-----------------------------------------------------------------------------
(* Numbers of a kind that are in use.                                      *)
InUse(kind) ==
    IF kind = "buffer" THEN {-i - 1 : i \in ToSet(st.live.buffer)}
    ELSE st.slot[kind]

(* However streams, objects and buffers are allocated and freed, a number  *)
(* that is in use is neither free nor in use twice, so two of them never   *)
(* have the same index; active counts them, even past the limit.           *)
PoolsSound ==
    \A kind \in Kinds \ {"layer"} :
        LET p == st.pool[kind] IN
        /\ InUse(kind) \cap ToSet(p.free) = {} /\ IsInjective(p.free)
        /\ InUse(kind) \cup ToSet(p.free) = 0 .. p.next - 1
        /\ p.active = Cardinality(InUse(kind))
        /\ kind = "buffer" => IsInjective(st.live.buffer)

(* A handler never gets to see the data of a stream after it was freed,    *)
(* whether the stream was ended or opened again meanwhile.                 *)
OpenDataLive == \A i \in Slots : st.input[i].open => ~st.input[i].freed

(* argv-constants.h: an argument with GUAC_ARGV_OPTION_ONCE is "processed  *)
(* exactly once", even if streams for it were opened before the first      *)
(* value was complete.                                                     *)
OnceProcessed == \A a \in ArgNames : st.calls[a] <= 1

(* A thread that waits for arguments goes on when they are there, or when  *)
(* guac_argv_stop was called: no wakeup is lost.                           *)
AwaitReturns ==
    \A t \in Plugin :
        (pc[t] = "awaiting" /\ (st.stopped \/ ArgvIsReceived(st, ArgNames)))
            ~> (pc[t] # "awaiting" \/ st.crashed)

(* client.h: guac_client_alloc_layer returns "the next available layer":   *)
(* no two layers have the same index.                                      *)
LayersDistinct == IsInjective(st.live.layer)

(* argv-constants.h: GUAC_ARGV_OPTION_ECHO echoes "the values received and *)
(* accepted": what users are told is what was applied.                     *)
EchoedIsApplied ==
    \A a \in ArgNames : st.echoed[a] # NULL => st.echoed[a] = st.applied[a]
=============================================================================
