------------------------------- MODULE Parser -------------------------------
(***************************************************************************)
(* The byte format of Guacamole instructions: UTF-8 lengths and BASE64 as  *)
(* libguac writes them (unicode.c, socket.c, protocol.c), and the          *)
(* incremental parser that reads them back (parser.c).  Everything here is *)
(* an operator; Wire puts the operators into threads and sockets.          *)
(*                                                                         *)
(* A byte is a number.  0..9 stand for the ASCII digits, the named tokens  *)
(* for the separators, 20..98 for other one-byte characters, 100..163 for  *)
(* the 64 BASE64 characters, and 200.. for the bytes of longer characters. *)
(***************************************************************************)
EXTENDS Integers, Sequences, SequencesExt, FiniteSetsExt

CONSTANTS BufSize,       \* bytes of the parser's buffer (32768)
          MaxLength,     \* GUAC_INSTRUCTION_MAX_LENGTH
          MaxElements,   \* GUAC_INSTRUCTION_MAX_ELEMENTS
          ReadySize      \* GUAC_SOCKET_BASE64_READY_BUFFER_SIZE, a multiple of 3

ASSUME ParserSizes == /\ BufSize \in Nat \ {0} /\ MaxLength \in Nat /\ MaxElements \in Nat \ {0}
                      /\ ReadySize \in Nat \ {0} /\ ReadySize % 3 = 0

Dot == 10
Comma == 11
Semicolon == 12
Nul == 13
Pad == 99       \* '='

(***************************************************************************)
(* UTF-8.  A byte of 200..209 announces a character of two bytes, of       *)
(* 210..219 of three, of 220..229 of four; 230.. is a continuation byte    *)
(* and counts, as any byte that announces nothing, as one.                 *)
(***************************************************************************)
Utf8Charsize(c) == IF c \in 200..209 THEN 2
                   ELSE IF c \in 210..219 THEN 3
                   ELSE IF c \in 220..229 THEN 4 ELSE 1

(* Characters in a string: every byte that is not skipped by the character *)
(* before it counts.                                                       *)
Utf8Strlen(s) ==
    FoldLeft(LAMBDA acc, c : IF acc.skip > 0 THEN [acc EXCEPT !.skip = @ - 1]
                             ELSE [length |-> acc.length + 1, skip |-> Utf8Charsize(c) - 1],
             [length |-> 0, skip |-> 0], s).length

(* The decimal digits of a number, as snprintf prints them. *)
WriteInt(n) ==
    LET digits[k \in Nat] == IF k < 10 THEN <<k>> ELSE digits[k \div 10] \o <<k % 10>>
    IN  digits[n]

(***************************************************************************)
(* BASE64 as the socket writes it: three bytes give four characters, a     *)
(* missing second or third byte (-1) gives padding.                        *)
(***************************************************************************)
EncodeBase64(a, b, c) ==
    IF b < 0 THEN <<100 + a \div 4, 100 + (a % 4) * 16, Pad, Pad>>
    ELSE IF c < 0 THEN <<100 + a \div 4, 100 + (a % 4) * 16 + b \div 16,
                         100 + (b % 16) * 4, Pad>>
    ELSE <<100 + a \div 4, 100 + (a % 4) * 16 + b \div 16,
           100 + (b % 16) * 4 + c \div 64, 100 + (c % 64)>>

(* What flushing a ready buffer writes: whole groups of three, then the rest. *)
FlushBase64(ready) ==
    LET n == Len(ready)
        group(g) == LET at(j) == IF 3 * g + j <= n THEN ready[3 * g + j] ELSE -1
                    IN  EncodeBase64(at(1), at(2), at(3))
    IN  FoldLeft(LAMBDA acc, g : acc \o group(g - 1), << >>,
                 [i \in 1..((n + 2) \div 3) |-> i])

(* The writes that sending data makes: the ready buffer is flushed whenever *)
(* it is full, and guac_socket_flush_base64 writes what is left (possibly   *)
(* nothing).                                                                *)
WriteBase64(data) ==
    LET full == Len(data) \div ReadySize
    IN  [i \in 1..(full + 1) |->
            FlushBase64(SubSeq(data, (i - 1) * ReadySize + 1,
                               IF i > full THEN Len(data) ELSE i * ReadySize))]

(* guac_protocol_decode_base64: six bits a character until '=' or the end, *)
(* a byte whenever eight bits are there.                                   *)
DecodeBase64(s) ==
    FoldLeft(LAMBDA acc, c :
                 IF acc.done \/ c = Pad THEN [acc EXCEPT !.done = TRUE]
                 ELSE LET v == acc.value * 64 + (c - 100)
                          b == acc.bits + 6
                      IN  IF b >= 8
                          THEN [acc EXCEPT !.out = Append(@, (v \div (2 ^ (b - 8))) % 256),
                                           !.bits = b - 8, !.value = v % (2 ^ (b - 8))]
                          ELSE [acc EXCEPT !.bits = b, !.value = v],
             [out |-> << >>, bits |-> 0, value |-> 0, done |-> FALSE], s).out

(***************************************************************************)
(* An instruction is a sequence of elements; a blob instruction carries    *)
(* binary data as its last element.  Its bytes reach the socket in several *)
(* writes, with the instruction lock held from the first to the last.      *)
(***************************************************************************)
LengthString(s) == << WriteInt(Utf8Strlen(s)), <<Dot>>, s >>

Base64Length(data) == ((Len(data) + 2) \div 3) * 4

(* The writes of guac_protocol_send_*: every element as a length string,   *)
(* separated by commas; the data of a blob as BASE64, whose length is      *)
(* announced before it is encoded.                                         *)
Writes(instr) ==
    LET heads == FoldLeft(LAMBDA acc, e : acc \o LengthString(e) \o << <<Comma>> >>,
                          << >>, Front(instr.elements))
    IN  heads \o LengthString(Last(instr.elements))
        \o (IF instr.blob = << >> THEN << >>
            ELSE << <<Comma>>, WriteInt(Base64Length(instr.blob)), <<Dot>> >>
                 \o WriteBase64(instr.blob))
        \o << <<Semicolon>> >>

(* What the reader of an instruction must get: the elements, the data encoded. *)
Elements(instr) ==
    IF instr.blob = << >> THEN instr.elements
    ELSE Append(instr.elements, FlushBase64(instr.blob))

(***************************************************************************)
(* guac_parser.  buf holds the bytes up to __instructionbuf_unparsed_end,  *)
(* start is __instructionbuf_unparsed_start, instr the beginning of the    *)
(* instruction being read (a local of guac_parser_read), elementv the      *)
(* offsets of the elements found so far.                                   *)
(***************************************************************************)
ParserReset(p) == [p EXCEPT !.state = "length", !.elementv = << >>, !.length = 0]

ParserAlloc == [buf |-> << >>, start |-> 0, instr |-> 0,
                state |-> "length", elementv |-> << >>, length |-> 0]

(* One or more digits and '.' of an element's length: what is parsed of    *)
(* bytes, and the parser afterwards.  A byte that is neither is an error.  *)
ParseLength(p, bytes) ==
    LET others == {i \in 1..Len(bytes) : bytes[i] \notin 0..9}
        n == IF others = {} THEN Len(bytes) ELSE Min(others) - 1
        value == FoldLeft(LAMBDA v, d : v * 10 + d, p.length, SubSeq(bytes, 1, n))
        error == [parser |-> [p EXCEPT !.state = "error"], parsed |-> 0]
    IN  IF (others # {} /\ bytes[n + 1] # Dot) \/ value > MaxLength THEN error
        ELSE IF others = {} THEN [parser |-> [p EXCEPT !.length = value], parsed |-> n]
        ELSE [parser |-> [p EXCEPT !.length = value, !.state = "content",
                                   !.elementv = Append(@, p.start + n + 1)],
              parsed |-> n + 1]

(* Where the characters from byte i on end, as far as they are whole. *)
WholeCharacters(bytes, i) ==
    FoldLeft(LAMBDA acc, j :
                 LET e == j + Utf8Charsize(bytes[j + 1])
                 IN  IF (IF acc = << >> THEN i ELSE Last(acc)) = j /\ e <= Len(bytes)
                     THEN Append(acc, e) ELSE acc,
             << >>, [k \in 1..(Len(bytes) - i) |-> i + k - 1])

(* The content of an element from byte i of bytes on: whole characters     *)
(* only, then the separator, which is overwritten by NUL.                  *)
ParseContent(p, bytes, i) ==
    LET ends == WholeCharacters(bytes, i)
        whole == Len(ends)
        at(k) == IF k = 0 THEN i ELSE ends[k]
        sep == at(p.length)
    IN  IF whole <= p.length
        THEN [parser |-> [p EXCEPT !.length = @ - whole], parsed |-> at(whole)]
        ELSE LET terminated == [p EXCEPT !.length = 0, !.buf[p.start + sep + 1] = Nul]
                 c == bytes[sep + 1]
             IN  IF c = Semicolon
                 THEN [parser |-> [terminated EXCEPT !.state = "complete"], parsed |-> sep + 1]
                 ELSE IF c = Comma
                 THEN [parser |-> [terminated EXCEPT !.state = "length"], parsed |-> sep + 1]
                 ELSE [parser |-> [terminated EXCEPT !.state = "error"], parsed |-> 0]

(* guac_parser_append over the unparsed bytes: at most one length and one  *)
(* content per call.  An instruction that already has the maximum number   *)
(* of elements is an error however little of it is left.                   *)
ParserAppend(p) ==
    LET bytes == SubSeq(p.buf, p.start + 1, Len(p.buf))
        head == ParseLength(p, bytes)
    IN  IF Len(p.elementv) = MaxElements /\ p.state # "complete"
        THEN [parser |-> [p EXCEPT !.state = "error"], parsed |-> 0]
        ELSE IF p.state = "content" THEN ParseContent(p, bytes, 0)
        ELSE IF head.parser.state = "content"
        THEN ParseContent(head.parser, bytes, head.parsed)
        ELSE head

(* Room for more bytes when the end of the buffer is reached: the current  *)
(* instruction moves to the beginning, and its elements with it.           *)
MutParserCompact(p) ==
    IF Len(p.buf) < BufSize THEN p
    ELSE [p EXCEPT !.buf = SubSeq(@, p.instr + 1, Len(@)),
                   !.start = @ - p.instr, !.instr = 0]

ParserCompact(p) ==
    IF Len(p.buf) < BufSize THEN p
    ELSE [p EXCEPT !.buf = SubSeq(@, p.instr + 1, Len(@)),
                   !.start = @ - p.instr, !.instr = 0,
                   !.elementv = [i \in DOMAIN @ |-> @[i] - p.instr]]

(* The buffer is full of one instruction: "Instruction too long". *)
ParserTooLong(p) == Len(p.buf) = BufSize /\ p.instr = 0

(* guac_parser_read begins: the instruction read before is forgotten. *)
ParserBegin(p) ==
    [(IF p.state = "complete" THEN ParserReset(p) ELSE p) EXCEPT !.instr = p.start]

(* An element as its reader sees it: the C string at its offset. *)
CString(p, offset) ==
    LET ends == {i \in (offset + 1)..Len(p.buf) : p.buf[i] = Nul}
    IN  SubSeq(p.buf, offset + 1, IF ends = {} THEN Len(p.buf) ELSE Min(ends) - 1)

ParserElements(p) == [i \in DOMAIN p.elementv |-> CString(p, p.elementv[i])]

(* guac_parser_length and guac_parser_shift: the bytes read and not parsed, *)
(* at most a given number of them taken away.                              *)
ParserLength(p) == Len(p.buf) - p.start

ParserShift(p, n) ==
    LET k == IF ParserLength(p) > n THEN n ELSE ParserLength(p)
    IN  [parser |-> [p EXCEPT !.start = @ + k],
         bytes |-> SubSeq(p.buf, p.start + 1, p.start + k)]
=============================================================================
