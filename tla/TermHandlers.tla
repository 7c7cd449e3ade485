---------------------------- MODULE TermHandlers ----------------------------
(***************************************************************************)
(* The character handlers of the terminal emulator                         *)
(* (terminal/terminal-handlers.c): t.handler names the handler of the next      *)
(* byte, and the static variables of the handlers are the fields of t.p.   *)
(* They survive a reset, and a change of handler.                          *)
(***************************************************************************)
EXTENDS TermGrid

CONSTANTS
    TabInterval,    \* 8 after a reset
    MaxTabs,        \* GUAC_TERMINAL_MAX_TABS
    PipeSize,       \* bytes of pipe_buffer
    UnsetWidth      \* what the memory holds of the width of ESC # 8's character

ASSUME PipeAssumption == PipeSize \in Nat \ {0}

Esc == 27
Ends == {156, 92, 7}        \* ST, its last byte, BEL: what ends an OSC string
Handler(t, h) == [t EXCEPT !.handler = h]
ToEcho(t) == Handler(t, "echo")

(* What the terminal itself answers goes to STDIN, unless a stream does.   *)
SendString(t, data) == IF t.input THEN t ELSE [t EXCEPT !.stdin = Append(@, data)]

-----------------------------------------------------------------------------
(* The pipe that captures the output.                                      *)
PipeFlush(t) ==
    IF t.pipe.open /\ t.pipe.n > 0 THEN [t EXCEPT !.pipe.sent = @ + t.pipe.n, !.pipe.n = 0] ELSE t

(* Mutant: closing forgets what is still in the buffer.                    *)
MutPipeClose(t) == IF t.pipe.open THEN [t EXCEPT !.pipe.open = FALSE, !.pipe.n = 0] ELSE t

PipeClose(t) == IF t.pipe.open THEN [PipeFlush(t) EXCEPT !.pipe.open = FALSE] ELSE t

PipeOpen(t, flags) ==
    [PipeClose(t) EXCEPT !.pipe.open = TRUE, !.pipe.n = 0, !.pipe.flags = flags]

PipeWrite(t) ==
    LET u == IF t.pipe.n = PipeSize THEN PipeFlush(t) ELSE t IN
    [u EXCEPT !.pipe.n = @ + 1, !.pipe.seen = @ + 1]

InterpretOutput(t) == 1 \in t.pipe.flags
Autoflush(t) == 2 \in t.pipe.flags
Bits(n) == CASE n % 4 = 0 -> {} [] n % 4 = 1 -> {1} [] n % 4 = 2 -> {2} [] OTHER -> {1, 2}

-----------------------------------------------------------------------------
(* Tab stops: custom_tabs holds column + 1, or 0.                          *)
SetTab(t, column) ==
    IF \E i \in 1 .. MaxTabs : t.tabs[i] = 0
    THEN [t EXCEPT !.tabs[CHOOSE i \in 1 .. MaxTabs : t.tabs[i] = 0 /\ \A j \in 1 .. i - 1 : t.tabs[j] # 0] = column + 1]
    ELSE t

UnsetTab(t, column) ==
    IF \E i \in 1 .. MaxTabs : t.tabs[i] = column + 1
    THEN [t EXCEPT !.tabs[CHOOSE i \in 1 .. MaxTabs :
              t.tabs[i] = column + 1 /\ \A j \in 1 .. i - 1 : t.tabs[j] # column + 1] = 0]
    ELSE t

ClearTabs(t) == [t EXCEPT !.interval = 0, !.tabs = [i \in 1 .. MaxTabs |-> 0]]

NextTab(t, column) ==
    LET regular == IF t.interval # 0 THEN (column \div t.interval + 1) * t.interval ELSE t.w - 1
        custom == {t.tabs[i] - 1 : i \in 1 .. MaxTabs}
        stops == {regular} \cup {c \in custom : c # -1 /\ c > column /\ c < regular}
    IN CHOOSE c \in stops : \A d \in stops : c <= d

-----------------------------------------------------------------------------
MoveCursor(t, row, col) == [t EXCEPT !.cr = Fit(row, 0, t.h - 1), !.cc = Fit(col, 0, t.w - 1)]

Linefeed(t) ==
    IF t.cr = t.send THEN ScrollUp(t, t.sstart, t.send, 1)
    ELSE IF t.cr < t.h - 1 THEN [t EXCEPT !.cr = @ + 1] ELSE t

ReverseLinefeed(t) ==
    IF t.cr = t.sstart THEN ScrollDown(t, t.sstart, t.send, 1)
    ELSE IF t.cr > 0 THEN [t EXCEPT !.cr = @ - 1] ELSE t

InitialPalette == [i \in {} |-> 0]     \* entries that differ from the initial palette

(* guac_terminal_reset; the ring keeps its rows, but for those on screen.  *)
Reset(t) ==
    LET t1 == [ToEcho(t) EXCEPT
                  !.g = 0, !.maps = <<"none", "none">>,
                  !.cr = 0, !.vr = 0, !.saver = 0, !.cc = 0, !.vc = 0, !.savec = 0, !.curvis = TRUE,
                  !.top = 0, !.len = 0, !.sstart = 0, !.send = t.h - 1, !.off = 0,
                  !.sel.on = FALSE, !.sel.com = FALSE,
                  !.appcur = FALSE, !.autocr = FALSE, !.insert = FALSE,
                  !.interval = TabInterval, !.tabs = [i \in 1 .. MaxTabs |-> 0],
                  !.att = DefaultAttributes, !.pal = InitialPalette]
        Blank(u, r) == SetColumns(u, r, 0, t.w, DefaultChar)
    IN DrawEach(Blank, SetBarValue(SetBounds(t1, 0, 0), 0), 0, t.h - 1)

-----------------------------------------------------------------------------
(* guac_terminal_echo.  The decoder of UTF-8: the codepoint so far and the *)
(* bytes still to come.                                                    *)
Decode(t, c) ==
    LET Is(point, left) == [t EXCEPT !.p.cp = point, !.p.rem = left] IN
    IF t.maps[t.g + 1] # "none" THEN Is(c, 0)
    ELSE IF c < 128 THEN Is(c, 0)
    ELSE IF c \in 192 .. 223 THEN Is(c % 32, 1)
    ELSE IF c \in 224 .. 239 THEN Is(c % 16, 2)
    ELSE IF c \in 240 .. 247 THEN Is(c % 8, 3)
    ELSE IF c \in 128 .. 191 THEN Is(t.p.cp * 64 + (c % 64), t.p.rem - 1)
    ELSE Is(63, 0)

(* What a character set makes of a codepoint (char-mappings.c): the VT100  *)
(* set has drawings for ` to ~, the others for the codes above 127.        *)
Mapped(t, v) ==
    CASE t.maps[t.g + 1] = "vt100" /\ v \in 96 .. 126 -> 9472 + v
      [] t.maps[t.g + 1] \in {"null", "user"} /\ v \in 128 .. 255 -> 8192 + v
      [] OTHER -> v

(* A printable character: wrap if the last line is full, make room in      *)
(* insert mode, draw, advance.                                             *)
Wrap(t) == IF t.cc >= t.w THEN Linefeed([t EXCEPT !.cc = 0]) ELSE t
MakeRoom(t) == IF t.insert THEN CopyColumns(t, t.cr, t.cc, t.w - 2, 1) ELSE t
PlaceChar(t, v) == [SetChar(t, t.cr, t.cc, v) EXCEPT !.cc = @ + WcWidth(v)]
PutChar(t, v) == PlaceChar(MakeRoom(Wrap(t)), v)

(* A line feed returns the carriage too in its mode.                       *)
AutoReturn(t) == IF t.autocr THEN MoveCursor(t, t.cr, 0) ELSE t

Interpret(t, v) ==
    CASE v = 5 -> SendString(t, "answerback")
      [] v = 8 -> MoveCursor(t, t.cr, t.cc - 1)
      [] v = 9 -> MoveCursor(t, t.cr, NextTab(t, t.cc))
      [] v \in {10, 11, 12} -> AutoReturn(Linefeed(t))
      [] v = 13 -> MoveCursor(t, t.cr, 0)
      [] v = 14 -> [t EXCEPT !.g = 1]
      [] v = 15 -> [t EXCEPT !.g = 0]
      [] v = Esc -> Handler(t, "escape")
      [] v = 155 -> Handler(t, "csi")
      [] v = 127 \/ (v < 32 /\ v \notin {5, 8, 9, 10, 11, 12, 13, 14, 15, Esc}) -> t
      [] OTHER -> PutChar(t, Mapped(t, v))

Decoded(t) == IF t.p.rem # 0 THEN t ELSE Interpret(t, t.p.cp)

Echo(t, c) ==
    LET captured == t.pipe.open /\ c # Esc IN
    IF captured /\ ~InterpretOutput(t) THEN PipeWrite(t)
    ELSE Decoded(Decode(IF captured THEN PipeWrite(t) ELSE t, c))

-----------------------------------------------------------------------------
Save(t) == [t EXCEPT !.saver = t.cr, !.savec = t.cc]
Restore(t) == MoveCursor(t, t.saver, t.savec)

Escape(t, c) ==
    CASE c = 40 -> Handler(t, "g0")
      [] c = 41 -> Handler(t, "g1")
      [] c = 93 -> Handler(t, "osc")
      [] c = 91 -> Handler(t, "csi")
      [] c = 35 -> Handler(t, "ctrl")
      [] c = 95 -> Handler(t, "apc")
      [] c = 55 -> ToEcho(Save(t))
      [] c = 56 -> ToEcho(Restore(t))
      [] c \in {68, 69} -> ToEcho(Linefeed(IF c = 69 THEN MoveCursor(t, t.cr, 0) ELSE t))
      [] c = 72 -> ToEcho(SetTab(t, t.cc))
      [] c = 77 -> ToEcho(ReverseLinefeed(t))
      [] c = 90 -> ToEcho(SendString(t, "vt102"))
      [] c = 99 -> Reset(t)
      [] OTHER -> ToEcho(t)

CharMapping(c) == CASE c = 48 -> "vt100" [] c = 85 -> "null" [] c = 75 -> "user" [] OTHER -> "none"
Charset(t, g, c) == ToEcho([t EXCEPT !.maps[g] = CharMapping(c)])

(* ESC # 8 fills the screen with E, of a width that is never set; any      *)
(* other character does nothing.                                           *)
CtrlFunc(t, c) ==
    LET Fill(u, r) == SetColumns(u, r, 0, t.w - 1, Char(69, t.att, UnsetWidth)) IN
    ToEcho(IF c = 56 THEN DrawEach(Fill, t, 0, t.h - 1) ELSE t)

(* An application command is skipped up to ESC \.                          *)
Apc(t, c) ==
    LET u == IF t.p.escaping /\ c = 92 THEN ToEcho(t) ELSE t IN
    [u EXCEPT !.p.escaping = (c = Esc)]

-----------------------------------------------------------------------------
(* Colours of the palette: those assigned since the last reset.            *)
LookupColor(t, index, old) == IF index \in {ColorForeground, ColorBackground} \cup 0 .. 255 THEN index ELSE old
AssignColor(t, index, rgb) ==
    IF index \in 0 .. 255 THEN [t EXCEPT !.pal = [i \in DOMAIN @ \cup {index} |-> IF i = index THEN rgb ELSE @[i]]]
    ELSE t

(* guac_terminal_parse_xterm256: the colour, and how many arguments it     *)
(* takes.                                                                  *)
Xterm256(t, args, old) ==
    IF Len(args) >= 1 /\ args[1] = 2
    THEN IF Len(args) < 4 THEN <<old, 1>>
         ELSE <<IF \A i \in 2 .. 4 : args[i] \in 0 .. 255 THEN -1 ELSE old, 4>>
    ELSE IF Len(args) >= 1 /\ args[1] = 5
    THEN IF Len(args) < 2 THEN <<old, 1>> ELSE <<LookupColor(t, args[2], old), 2>>
    ELSE <<old, 0>>

(* CSI m: one attribute after the other.                                   *)
Sgr(t0, args) ==
    LET One(acc, i) ==
            LET t == acc[1]
                v == args[i]
                fg == Xterm256(t, SubSeq(args, i + 1, Len(args)), t.att.fg)
                bg == Xterm256(t, SubSeq(args, i + 1, Len(args)), t.att.bg)
                Put(u) == <<u, i + 1>>
            IN CASE i < acc[2] -> acc
                 [] i >= acc[2] /\ v = 0 -> Put([t EXCEPT !.att = DefaultAttributes])
                 [] i >= acc[2] /\ v = 1 -> Put([t EXCEPT !.att.bold = TRUE])
                 [] i >= acc[2] /\ v = 2 -> Put([t EXCEPT !.att.half = TRUE])
                 [] i >= acc[2] /\ v = 4 -> Put([t EXCEPT !.att.under = TRUE])
                 [] i >= acc[2] /\ v = 7 -> Put([t EXCEPT !.att.rev = TRUE])
                 [] i >= acc[2] /\ v \in {21, 22} -> Put([t EXCEPT !.att.bold = FALSE, !.att.half = FALSE])
                 [] i >= acc[2] /\ v = 24 -> Put([t EXCEPT !.att.under = FALSE])
                 [] i >= acc[2] /\ v = 27 -> Put([t EXCEPT !.att.rev = FALSE])
                 [] i >= acc[2] /\ v \in 30 .. 37 -> Put([t EXCEPT !.att.fg = v - 30])
                 [] i >= acc[2] /\ v = 38 /\ fg[2] > 0 -> <<[t EXCEPT !.att.fg = fg[1]], i + 1 + fg[2]>>
                 [] i >= acc[2] /\ v = 38 /\ fg[2] = 0 ->
                        Put([t EXCEPT !.att.under = TRUE, !.att.fg = ColorForeground])
                 [] i >= acc[2] /\ v = 39 -> Put([t EXCEPT !.att.under = FALSE, !.att.fg = ColorForeground])
                 [] i >= acc[2] /\ v \in 40 .. 47 -> Put([t EXCEPT !.att.bg = v - 40])
                 [] i >= acc[2] /\ v = 48 -> <<[t EXCEPT !.att.bg = bg[1]], i + 1 + bg[2]>>
                 [] i >= acc[2] /\ v = 49 -> Put([t EXCEPT !.att.bg = ColorBackground])
                 [] i >= acc[2] /\ v \in 90 .. 97 -> Put([t EXCEPT !.att.fg = v - 90 + 8])
                 [] i >= acc[2] /\ v \in 100 .. 107 -> Put([t EXCEPT !.att.bg = v - 100 + 8])
                 [] OTHER -> Put(t)
    IN [t0 EXCEPT !.att = Each(One, <<t0, 1>>, 1, Len(args))[1].att]

(* __guac_terminal_get_flag, of CSI h and CSI l.                           *)
SetFlag(t, num, private, on) ==
    CASE private = 63 /\ num = 1 -> [t EXCEPT !.appcur = on]
      [] private = 63 /\ num = 25 -> [t EXCEPT !.curvis = on]
      [] private = 0 /\ num = 4 -> [t EXCEPT !.insert = on]
      [] private = 0 /\ num = 20 -> [t EXCEPT !.autocr = on]
      [] OTHER -> t

(* Characters inserted, and deleted, at the cursor.                        *)
InsertChars(t, n) ==
    ClearColumns(IF t.cc + n < t.w THEN CopyColumns(t, t.cr, t.cc, t.w - n - 1, n) ELSE t,
                 t.cr, t.cc, t.cc + n - 1)
DeleteChars(t, n) ==
    ClearColumns(IF t.cc + n < t.w THEN CopyColumns(t, t.cr, t.cc + n, t.w - 1, -n) ELSE t,
                 t.cr, t.w - n, t.w - 1)

EraseDisplay(t, how) ==
    IF how \notin 0 .. 3 THEN t
    ELSE ClearRange(t, IF how = 0 THEN t.cr ELSE 0, IF how = 0 THEN t.cc ELSE 0,
                       IF how = 1 THEN t.cr ELSE t.h - 1, IF how = 1 THEN t.cc ELSE t.w - 1)

EraseLine(t, how) ==
    IF how \notin 0 .. 2 THEN t
    ELSE ClearColumns(t, t.cr, IF how = 0 THEN t.cc ELSE 0, IF how = 1 THEN t.cc ELSE t.w - 1)

(* CSI r: the scroll region, as the arguments give it.                     *)
ScrollRegion(t, args) ==
    IF Len(args) = 2 THEN [t EXCEPT !.sstart = args[1] - 1, !.send = args[2] - 1]
    ELSE [t EXCEPT !.sstart = 0, !.send = t.h - 1]

(* The final byte of a CSI sequence.                                       *)
CsiFinal(t, c, args, private) ==
    LET arg == args[1]
        amount == IF arg = 0 THEN 1 ELSE arg
        Pos(i) == IF i > Len(args) \/ args[i] = 0 THEN 0 ELSE args[i] - 1
    IN CASE c = 64 -> InsertChars(t, amount)
         [] c = 65 -> MoveCursor(t, t.cr - amount, t.cc)
         [] c \in {66, 101} -> MoveCursor(t, t.cr + amount, t.cc)
         [] c \in {67, 97} -> MoveCursor(t, t.cr, t.cc + amount)
         [] c = 68 -> MoveCursor(t, t.cr, t.cc - amount)
         [] c = 69 -> MoveCursor(t, t.cr + amount, 0)
         [] c = 70 -> MoveCursor(t, t.cr - amount, 0)
         [] c \in {71, 96} -> MoveCursor(t, t.cr, Pos(1))
         [] c \in {72, 102} -> MoveCursor(t, Pos(1), Pos(2))
         [] c = 74 -> EraseDisplay(t, arg)
         [] c = 75 -> EraseLine(t, arg)
         [] c = 76 -> ScrollDown(t, t.cr, t.send, amount)
         [] c = 77 -> ScrollUp(t, t.cr, t.send, amount)
         [] c = 80 -> DeleteChars(t, amount)
         [] c = 88 -> ClearColumns(t, t.cr, t.cc, t.cc + amount - 1)
         [] c = 99 -> IF arg = 0 /\ private = 0 THEN SendString(t, "vt102") ELSE t
         [] c = 100 -> MoveCursor(t, Pos(1), t.cc)
         [] c = 103 -> IF arg = 0 THEN UnsetTab(t, t.cc) ELSE IF arg = 3 THEN ClearTabs(t) ELSE t
         [] c = 104 -> SetFlag(t, arg, private, TRUE)
         [] c = 108 -> SetFlag(t, arg, private, FALSE)
         [] c = 109 -> Sgr(t, args)
         [] c = 110 -> IF private # 0 THEN t
                       ELSE IF arg = 5 THEN SendString(t, "ok")
                       ELSE IF arg = 6 THEN SendString(t, <<t.cr + 1, t.cc + 1>>) ELSE t
         [] c = 114 -> ScrollRegion(t, args)
         [] c = 115 -> Save(t)
         [] c = 117 -> Restore(t)
         [] OTHER -> t

MaxArgs == 16

(* guac_terminal_csi gathers the arguments up to the final byte.           *)
Csi(t, c) ==
    LET args == IF Len(t.p.args) < MaxArgs THEN Append(t.p.args, t.p.num) ELSE t.p.args IN
    IF c \in 48 .. 57 THEN [t EXCEPT !.p.num = @ * 10 + c - 48]
    ELSE IF c = 59 THEN [t EXCEPT !.p.args = args, !.p.num = 0]
    ELSE IF c \in 64 .. 126
    THEN [ToEcho(CsiFinal(t, c, args, t.p.private)) EXCEPT !.p.args = <<>>, !.p.num = 0, !.p.private = 0]
    ELSE IF c \in 58 .. 63 /\ t.p.private = 0 THEN [t EXCEPT !.p.private = c]
    ELSE t

-----------------------------------------------------------------------------
(* Operating system commands: the number up to the first semicolon chooses *)
(* the handler of the rest; it is kept when the command ends early.        *)
OscHandler(n) ==
    CASE n = 482200 -> "download" [] n = 482201 -> "directory" [] n = 482202 -> "openpipe"
      [] n = 482203 -> "closepipe" [] n = 482204 -> "scrollback" [] n \in {0, 2} -> "title"
      [] n = 4 -> "palette" [] OTHER -> "osc"

Osc(t, c) ==
    IF c \in 48 .. 57 THEN [t EXCEPT !.p.osc = @ * 10 + c - 48]
    ELSE IF c = 59 THEN [Handler(t, OscHandler(t.p.osc)) EXCEPT !.p.osc = 0]
    ELSE ToEcho(t)

(* The strings of a command, of which only the end has an effect: the      *)
(* callbacks for files, and the name of the connection.                    *)
Download(t, c) == IF c \in Ends THEN ToEcho([t EXCEPT !.calls = Append(@, "download")]) ELSE t
SetDirectory(t, c) == IF c \in Ends THEN ToEcho([t EXCEPT !.calls = Append(@, "directory")]) ELSE t
WindowTitle(t, c) == IF c \in Ends THEN ToEcho([t EXCEPT !.calls = Append(@, "name")]) ELSE t

(* Numbers before a semicolon are flags, and the rest is the name.         *)
OpenPipeStream(t, c) ==
    IF c \in Ends THEN [ToEcho(PipeOpen(t, t.p.flags)) EXCEPT !.p.flags = {}, !.p.num = 0]
    ELSE IF c = 59 THEN [t EXCEPT !.p.flags = @ \cup Bits(t.p.num), !.p.num = 0]
    ELSE IF c \in 48 .. 57 THEN [t EXCEPT !.p.num = @ * 10 + c - 48] ELSE t

ClosePipeStream(t, c) == IF c \in Ends THEN ToEcho(PipeClose(t)) ELSE t

SetScrollback(t, c) ==
    IF c \in Ends
    THEN LET u == [t EXCEPT !.requested = t.p.num, !.p.num = 0] IN ToEcho(SetBounds(u, -AvailableScroll(u), 0))
    ELSE IF c \in 48 .. 57 THEN [t EXCEPT !.p.num = @ * 10 + c - 48] ELSE t

(* OSC 4: pairs of an index and a colour, up to the end of the command.    *)
XtermPalette(t, c) ==
    LET u == IF ~t.p.spec
             THEN IF c \in 48 .. 57 THEN [t EXCEPT !.p.num = @ * 10 + c - 48]
                  ELSE IF c = 59 THEN [t EXCEPT !.p.spec = TRUE, !.p.rgb = <<>>] ELSE t
             ELSE IF c \in Ends \cup {59}
             THEN [(IF Len(t.p.rgb) = 1 THEN AssignColor(t, t.p.num, t.p.rgb[1]) ELSE t)
                      EXCEPT !.p.spec = FALSE, !.p.num = 0]
             ELSE [t EXCEPT !.p.rgb = Append(@, c)]
    IN IF c \in Ends THEN ToEcho(u) ELSE u

CharHandler(t, c) ==
    CASE t.handler = "echo" -> Echo(t, c)
      [] t.handler = "escape" -> Escape(t, c)
      [] t.handler = "csi" -> Csi(t, c)
      [] t.handler = "g0" -> Charset(t, 1, c)
      [] t.handler = "g1" -> Charset(t, 2, c)
      [] t.handler = "ctrl" -> CtrlFunc(t, c)
      [] t.handler = "apc" -> Apc(t, c)
      [] t.handler = "osc" -> Osc(t, c)
      [] t.handler = "download" -> Download(t, c)
      [] t.handler = "directory" -> SetDirectory(t, c)
      [] t.handler = "title" -> WindowTitle(t, c)
      [] t.handler = "openpipe" -> OpenPipeStream(t, c)
      [] t.handler = "closepipe" -> ClosePipeStream(t, c)
      [] t.handler = "scrollback" -> SetScrollback(t, c)
      [] t.handler = "palette" -> XtermPalette(t, c)

=============================================================================
