-------------------------------- MODULE Wire --------------------------------
(***************************************************************************)
(* Instructions on their way through libguac's sockets.                    *)
(*                                                                         *)
(* path = "recording": several threads and the keep-alive thread write     *)
(* instructions through a tee of the connection's socket and a file socket *)
(* (socket.c, socket-fd.c, socket-tee.c), and the parser of guacenc reads  *)
(* the file.  path = "connection": a client (external) writes its          *)
(* instructions into a connection in any segmentation, the parser of       *)
(* guacd's connection thread reads the first, what it read beyond is       *)
(* shifted into the pipe to the connection's process, the write thread     *)
(* copies the rest (guacd/connection.c), and the process parses on.        *)
(*                                                                         *)
(* The primary socket of the tee is the broadcast socket of the client,    *)
(* whose writes never fail and which GuacClient models; only its lock      *)
(* matters here.  A write to a file descriptor that fails once keeps       *)
(* failing.                                                                *)
(***************************************************************************)
EXTENDS Parser

CONSTANTS Threads,      \* the threads that send instructions
          KeepAlive,    \* the keep-alive thread of the tee (ssh.c:316)
          Script,       \* Threads -> instructions each thread sends, in order
          Stream,       \* the instructions an external client sends
          ShiftSize,    \* bytes of the write thread's buffer, fewer than a parser's
          OutSize,      \* GUAC_SOCKET_OUTPUT_BUFFER_SIZE
          MaxNops,      \* bound: keep-alive instructions sent
          MayFail       \* whether writing the file may fail

ASSUME WireSizes == /\ ShiftSize \in Nat \ {0} /\ OutSize \in Nat \ {0}
                    /\ MaxNops \in Nat /\ MayFail \in BOOLEAN

VARIABLES path,
          todo,       \* per thread: the instructions still to send
          locked,     \* the holder of the instruction locks of the tee, or "none"
          writes,     \* the writes the holder still makes for its instruction
          sent,       \* the instructions begun, in the order of the lock
          out,        \* out_buf of the file socket, written bytes only
          failed,     \* a write to the descriptor failed
          flushing,   \* the keep-alive thread is about to flush
          open,       \* the socket has not been freed
          wire,       \* bytes written to the descriptor and not read
          pipe,       \* bytes in the pipe to the connection's process
          front,      \* the parser of guacd's connection thread
          rear,       \* the parser of guacenc, or of the connection's process
          shifting,   \* the write thread still empties the front parser
          got         \* what the parsers returned, in order

senders == <<todo, locked, writes, sent, out, failed, flushing, open>>
readers == <<pipe, front, rear, shifting, got>>
wireVars == <<path, senders, wire, readers>>

Nop == [elements |-> << <<20>> >>, blob |-> << >>]

Senders == Threads \cup {KeepAlive}

WireInit ==
    /\ path \in {"recording", "connection"}
    /\ todo = Script /\ locked = "none" /\ writes = << >> /\ out = << >>
    /\ sent = IF path = "connection" THEN Stream ELSE << >>
    /\ failed = FALSE /\ flushing = FALSE
    /\ open = (path = "recording")
    /\ wire = IF path = "connection"
              THEN FoldLeft(LAMBDA acc, i : acc \o FoldLeft(\o, << >>, Writes(i)), << >>, Stream)
              ELSE << >>
    /\ pipe = << >> /\ front = ParserAlloc /\ rear = ParserAlloc
    /\ shifting = (path = "connection") /\ got = << >>

(***************************************************************************)
(* The writing side.                                                       *)
(***************************************************************************)

(* guac_socket_fd_flush: the buffered bytes go to the descriptor.  When    *)
(* write fails part of them may have gone already, and all stay buffered.  *)
FdFlush ==
    \/ /\ ~failed \/ out = << >>
       /\ wire' = wire \o out /\ out' = << >>
       /\ UNCHANGED failed
    \/ /\ out # << >> /\ (failed \/ MayFail)
       /\ failed' = TRUE
       /\ \E k \in (IF failed THEN {0} ELSE 0..(Len(out) - 1)) :
              wire' = wire \o SubSeq(out, 1, k)
       /\ UNCHANGED out

(* guac_socket_fd_write_buffered: the buffer is written out only when it   *)
(* is full and there is more to store, so the last bytes stay in it.       *)
Overflowing(total) ==
    IF Len(total) <= OutSize THEN 0 ELSE OutSize * ((Len(total) - 1) \div OutSize)

FdWriteBuffered(bytes) ==
    LET total == out \o bytes
        n == Overflowing(total)
    IN  \/ /\ ~failed \/ n = 0
           /\ wire' = wire \o SubSeq(total, 1, n)
           /\ out' = SubSeq(total, n + 1, Len(total))
           /\ UNCHANGED failed
        \/ /\ n > 0 /\ (failed \/ MayFail)
           /\ failed' = TRUE
           /\ \E k \in (IF failed THEN {0} ELSE 0..(n - 1)) :
                  /\ wire' = wire \o SubSeq(total, 1, k)
                  /\ out' = SubSeq(total, OutSize * (k \div OutSize) + 1,
                                   OutSize * (k \div OutSize) + OutSize)

(* guac_socket_instruction_begin on the tee locks the primary socket and   *)
(* then the secondary, and every sender does so in that order.             *)
Begin(t, instr) ==
    /\ open /\ locked = "none"
    /\ locked' = t
    /\ writes' = Writes(instr)
    /\ sent' = Append(sent, instr)
    /\ UNCHANGED <<path, out, failed, open, wire, readers>>

SendInstruction(t) ==
    /\ todo[t] # << >>
    /\ Begin(t, Head(todo[t]))
    /\ todo' = [todo EXCEPT ![t] = Tail(@)]
    /\ UNCHANGED flushing

(* The keep-alive thread: nothing was written for the interval, so a nop. *)
KeepAliveNop ==
    /\ Cardinality({i \in DOMAIN sent : sent[i] = Nop}) < MaxNops
    /\ ~flushing
    /\ Begin(KeepAlive, Nop)
    /\ flushing' = TRUE
    /\ UNCHANGED todo

(* One write of the instruction through the tee: the secondary first, its  *)
(* result ignored, then the primary.  The file socket serialises it with   *)
(* its buffer lock.                                                        *)
TeeWriteHandler ==
    /\ open /\ writes # << >>
    /\ FdWriteBuffered(Head(writes))
    /\ writes' = Tail(writes)
    /\ UNCHANGED <<path, todo, locked, sent, flushing, open, readers>>

End ==
    /\ open /\ locked # "none" /\ writes = << >>
    /\ locked' = "none"
    /\ UNCHANGED <<path, todo, writes, sent, out, failed, flushing, open, wire, readers>>

(* guac_socket_flush by a sender that is outside its own instruction; the  *)
(* buffer lock is all it takes, so it may fall into another's instruction. *)
FlushSocket(t) ==
    /\ open /\ locked # t /\ out # << >>
    /\ FdFlush
    /\ IF t = KeepAlive THEN flushing /\ flushing' = FALSE ELSE UNCHANGED flushing
    /\ UNCHANGED <<path, todo, locked, writes, sent, open, readers>>

(* The keep-alive thread finds nothing to flush. *)
KeepAliveIdle ==
    /\ open /\ flushing /\ locked # KeepAlive /\ out = << >>
    /\ flushing' = FALSE
    /\ UNCHANGED <<path, todo, locked, writes, sent, out, failed, open, wire, readers>>

(* The threads have sent what they had, and none is in an instruction.    *)
SendersDone == locked \notin Threads /\ \A t \in Threads : todo[t] = << >>

MutFreeSocket ==
    /\ open /\ SendersDone
    /\ open' = FALSE /\ flushing' = FALSE /\ writes' = << >>
    /\ UNCHANGED <<path, todo, locked, sent, out, failed, wire, readers>>

(* guac_socket_free, when the recording ends: a last flush, then the       *)
(* descriptor is closed and the data of the socket are released.  Nobody   *)
(* sends any more but the keep-alive thread, which is cancelled and joined *)
(* only then: an instruction it is writing stays cut off, and what it      *)
(* does with the released data until it is cancelled reaches no file.      *)
FreeSocket ==
    /\ open /\ SendersDone
    /\ FdFlush
    /\ open' = FALSE /\ flushing' = FALSE /\ writes' = << >>
    /\ UNCHANGED <<path, todo, locked, sent, readers>>

(***************************************************************************)
(* The reading side.  A parser's read loop is one action per iteration.    *)
(***************************************************************************)
Parsing(p) == p.state \in {"length", "content"}

(* The loop parses what it has. *)
Parse(p) == Parsing(p) /\ ParserAppend(p).parsed > 0

Advance(p) == LET r == ParserAppend(p) IN [r.parser EXCEPT !.start = @ + r.parsed]

(* There is nothing to parse: make room, wait, and read n bytes. *)
Starving(p) == LET r == ParserAppend(p) IN
               Parsing(p) /\ r.parsed = 0 /\ r.parser.state # "error" /\ ~ParserTooLong(p)

Refill(p, bytes) == [ParserCompact(p) EXCEPT !.buf = @ \o bytes]

Room(p) == BufSize - Len(ParserCompact(p).buf)

(* An instruction is complete: its reader takes it, and reads the next. *)
FrontParse ==
    /\ path = "connection" /\ got = << >>
    /\ Parse(front)
    /\ front' = Advance(front)
    /\ UNCHANGED <<path, senders, wire, pipe, rear, shifting, got>>

FrontRead ==
    /\ path = "connection" /\ got = << >>
    /\ Starving(front)
    /\ \E n \in 1..Len(wire) :
           /\ n <= Room(front)
           /\ front' = Refill(front, SubSeq(wire, 1, n))
           /\ wire' = SubSeq(wire, n + 1, Len(wire))
    /\ UNCHANGED <<path, senders, pipe, rear, shifting, got>>

(* guac_parser_expect: the first instruction selects the protocol; the     *)
(* connection is routed to its process.                                    *)
FrontExpect ==
    /\ path = "connection" /\ got = << >>
    /\ front.state = "complete"
    /\ got' = << ParserElements(front) >>
    /\ UNCHANGED <<path, senders, wire, pipe, front, rear, shifting>>

(* The write thread: first all that the front parser has read and not      *)
(* parsed, a buffer at a time, then whatever arrives.                      *)
ShiftToPipe ==
    /\ got # << >> /\ shifting
    /\ LET s == ParserShift(front, ShiftSize)
       IN  /\ front' = s.parser
           /\ pipe' = pipe \o s.bytes
           /\ shifting' = (s.bytes # << >>)
    /\ UNCHANGED <<path, senders, wire, rear, got>>

CopyToPipe ==
    /\ path = "connection" /\ got # << >> /\ ~shifting
    /\ \E n \in 1..Len(wire) :
           /\ pipe' = pipe \o SubSeq(wire, 1, n)
           /\ wire' = SubSeq(wire, n + 1, Len(wire))
    /\ UNCHANGED <<path, senders, front, rear, shifting, got>>

(* guac_parser_read of guacenc, which refuses a recording whose file is    *)
(* still locked by its writer, or of the connection's process.             *)
RearParse ==
    /\ Parse(rear)
    /\ rear' = Advance(rear)
    /\ UNCHANGED <<path, senders, wire, pipe, front, shifting, got>>

RearRead ==
    /\ ~open
    /\ Starving(rear)
    /\ LET source == IF path = "connection" THEN pipe ELSE wire
       IN  \E n \in 1..Len(source) :
               /\ n <= Room(rear)
               /\ rear' = Refill(rear, SubSeq(source, 1, n))
               /\ LET rest == SubSeq(source, n + 1, Len(source))
                  IN  IF path = "connection" THEN pipe' = rest /\ UNCHANGED wire
                                             ELSE wire' = rest /\ UNCHANGED pipe
    /\ UNCHANGED <<path, senders, front, shifting, got>>

RearTake ==
    /\ rear.state = "complete"
    /\ got' = Append(got, ParserElements(rear))
    /\ rear' = ParserBegin(rear)
    /\ UNCHANGED <<path, senders, wire, pipe, front, shifting>>

WireNext ==
    \/ \E t \in Threads : SendInstruction(t)
    \/ KeepAliveNop
    \/ TeeWriteHandler
    \/ End
    \/ \E t \in Senders : FlushSocket(t)
    \/ KeepAliveIdle
    \/ FreeSocket
    \/ FrontParse \/ FrontRead \/ FrontExpect
    \/ ShiftToPipe \/ CopyToPipe
    \/ RearParse \/ RearRead \/ RearTake

-----------------------------------------------------------------------------
(* Whatever the interleaving of senders, flushes and reads, and wherever   *)
(* reads cut the bytes, the parsers return the instructions in the order   *)
(* in which their senders held the lock, every element and every byte of   *)
(* blob data as it was sent, and never report a parse error.               *)
ReceivedAsSent ==
    /\ Len(got) <= Len(sent)
    /\ \A i \in DOMAIN got :
           /\ got[i] = Elements(sent[i])
           /\ sent[i].blob # << >> => DecodeBase64(Last(got[i])) = sent[i].blob
    /\ front.state # "error" /\ rear.state # "error"

(* Nothing is stranded: once the socket is closed, what it has written has *)
(* been read and the parsers have nothing they can parse, every            *)
(* instruction has been returned, unless writing failed or the socket was  *)
(* freed in the middle of the last, a keep-alive.  No bytes stay in the    *)
(* socket's buffer or in the front parser's, and no parser stops because   *)
(* its buffer is full of instructions it has returned already.             *)
NothingStranded ==
    LET idle(p) == Parsing(p) /\ ~Parse(p)
        stuck(p) == idle(p) /\ ParserTooLong(p)
        cut == IF locked = KeepAlive THEN 1 ELSE 0
    IN  /\ ~stuck(front) /\ ~stuck(rear)
        /\ ~open /\ wire = << >> /\ pipe = << >> /\ ~shifting /\ idle(rear)
               => failed \/ Len(got) \in (Len(sent) - cut)..Len(sent)

(* Not so: guac_socket_free releases the data of the socket (socket.c:206) *)
(* before it stops the keep-alive thread (:212), which may be using them.  *)
KeepAliveStopsFirst == [][open /\ ~open' => ~flushing]_wireVars
=============================================================================
