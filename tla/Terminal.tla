------------------------------ MODULE Terminal ------------------------------
(***************************************************************************)
(* The terminal emulator that SSH, telnet and Kubernetes share             *)
(* (terminal/terminal.c): the thread that writes the output of the remote  *)
(* side, the threads of the users, and the thread that renders frames.     *)
(* Each takes the lock of the terminal for a whole call; only the redraw   *)
(* after a change of the colour scheme does not.                           *)
(***************************************************************************)
EXTENDS TermHandlers

CONSTANTS
    Outputs,        \* what the remote side writes in one call, as sequences of bytes
    Initial,        \* the pixel size <<height, width>> to begin with
    Sizes,          \* pixel sizes <<height, width>> the users ask for
    Presses,        \* what a user does with the keyboard: <<keysym, pressed>>
    Mice,           \* what a user does with the mouse: <<x, y, buttons>>
    CharHeight, CharWidth, Margin,
    MaxScrollback,  \* max_scrollback
    MaxSteps        \* bound on the calls

ASSUME OutputsAssumption == Outputs \subseteq Seq(0 .. 255)

VARIABLES
    term,           \* the terminal
    frame,          \* the render thread: it waits ("wait"), or "late" if its last wait took the flag and
                    \* timed out, or "flush" from the wait that succeeds to the flush
    telling,        \* threads that have released the lock and have yet to notify the render thread
    redraw,         \* rows a change of the colour scheme has still to redraw
    steps

termVars == <<term, frame, telling, redraw, steps>>

ScrollbarWidth == 16
ScrollbarPadding == 2
ScrollbarMinHeight == 64
WheelScrollAmount == 3
MaxRows == 1024         \* GUAC_TERMINAL_MAX_ROWS, and GUAC_TERMINAL_MAX_COLUMNS

(* calculate_rows_and_columns.                                             *)
RowsOf(height) == Fit((IF height < 2 * Margin THEN 0 ELSE height - 2 * Margin) \div CharHeight, 0, MaxRows)
ColumnsOf(width) ==
    LET inner == width - ScrollbarWidth - 2 * Margin IN
    Fit((IF inner < 0 THEN 0 ELSE inner) \div CharWidth, 0, MaxRows)

-----------------------------------------------------------------------------
(* The scrollbar (terminal/scrollbar.c): calculate_state gives the handle, *)
(* and the value a drag asks for.                                          *)
MaxHandle(u) == u.outer[1] - ScrollbarPadding * 2
HandleHeight(u) ==
    LET delta == IF u.bar.max > u.bar.min THEN u.bar.max - u.bar.min ELSE 0
        proportional == (MaxHandle(u) * u.h) \div (delta + u.h)
        height == IF proportional > ScrollbarMinHeight THEN proportional ELSE ScrollbarMinHeight
    IN IF height > MaxHandle(u) THEN MaxHandle(u) ELSE height
MaxHandleY(u) == ScrollbarPadding + MaxHandle(u) - HandleHeight(u)

HandleY(u) ==
    IF u.bar.dragging THEN Fit(u.bar.y - u.bar.offset, ScrollbarPadding, MaxHandleY(u))
    ELSE IF u.bar.max > u.bar.min
    THEN ScrollbarPadding
             + ((MaxHandleY(u) - ScrollbarPadding) * (u.bar.value - u.bar.min)) \div (u.bar.max - u.bar.min)
    ELSE ScrollbarPadding

BarValue(u) ==
    IF u.bar.dragging /\ MaxHandleY(u) > ScrollbarPadding
    THEN u.bar.min + ((HandleY(u) - ScrollbarPadding) * (IF u.bar.max > u.bar.min THEN u.bar.max - u.bar.min ELSE 0))
                         \div (MaxHandleY(u) - ScrollbarPadding)
    ELSE u.bar.value

(* guac_terminal_scroll_handler.                                           *)
ScrollHandler(u, value) ==
    LET delta == -value - u.off
        v == IF delta < 0 THEN ScrollDisplayDown(u, -delta)
             ELSE IF delta > 0 THEN ScrollDisplayUp(u, delta) ELSE u
    IN SetBarValue(v, value)

ScrollbarFlush(u) ==
    [(IF BarValue(u) # u.bar.value THEN ScrollHandler(u, BarValue(u)) ELSE u)
        EXCEPT !.bar.handle = <<HandleY(u), HandleHeight(u)>>]

(* guac_terminal_scrollbar_handle_mouse: the bar, and whether the event    *)
(* was meant for it.                                                       *)
BarMouse(u, x, y, mask) ==
    LET left == u.outer[2] - ScrollbarWidth
        onBar == x \in left .. u.outer[2] - 1 /\ y \in 0 .. u.outer[1] - 1
        onHandle == /\ x \in left + ScrollbarPadding .. u.outer[2] - ScrollbarPadding - 1
                    /\ y \in u.bar.handle[1] .. u.bar.handle[1] + u.bar.handle[2] - 1
    IN IF u.bar.dragging
       THEN <<[u EXCEPT !.bar.y = IF "left" \in mask THEN y ELSE @, !.bar.dragging = "left" \in mask], TRUE>>
       ELSE IF mask = {"left"} /\ onHandle
       THEN <<[u EXCEPT !.bar.dragging = TRUE, !.bar.offset = y - u.bar.handle[1], !.bar.y = y], TRUE>>
       ELSE <<u, onBar>>

-----------------------------------------------------------------------------
(* What guac_terminal_create sets up, up to the thread: the pipe that      *)
(* captures output, the scrollbar, the selection, the modes, the static    *)
(* variables of the handlers.                                              *)
ClosedPipe == [open |-> FALSE, n |-> 0, flags |-> {}, sent |-> 0, seen |-> 0]
FreshBar == [min |-> 0, max |-> 0, value |-> 0, dragging |-> FALSE, offset |-> 0, y |-> 0, handle |-> <<0, 0>>]
NoSelection == [on |-> FALSE, com |-> FALSE, sr |-> 0, sc |-> 0, sw |-> 1, er |-> 0, ec |-> 0, ew |-> 1]
FreshParser == [cp |-> 0, rem |-> 0, args |-> <<>>, num |-> 0, private |-> 0, escaping |-> FALSE,
                osc |-> 0, flags |-> {}, spec |-> FALSE, rgb |-> <<>>]

(* The display, all blank and all pending.                                 *)
FreshOps(h, w) == [p \in (0 .. h - 1) \X (0 .. w - 1) |-> SetTo(DefaultChar)]
FreshShown(h, w) == [p \in (0 .. h - 1) \X (0 .. w - 1) |-> <<ColorBackground>>]
FreshRing == [i \in 0 .. Available - 1 |-> EmptyRow]

Fresh(height, width) ==
    LET h == RowsOf(height)
        w == ColumnsOf(width)
    IN Reset([handler |-> "echo", h |-> h, w |-> w, outer |-> <<height, width>>,
              rows |-> FreshRing, top |-> 0, len |-> 0, max |-> MaxScrollback, requested |-> MaxScrollback,
              ops |-> FreshOps(h, w), shown |-> FreshShown(h, w), intact |-> TRUE, written |-> {},
              cr |-> 0, cc |-> 0, vr |-> 0, vc |-> 0, saver |-> 0, savec |-> 0, curvis |-> TRUE,
              sstart |-> 0, send |-> h - 1, off |-> 0, sel |-> NoSelection, clipboard |-> <<>>,
              appcur |-> FALSE, autocr |-> FALSE, insert |-> FALSE,
              interval |-> TabInterval, tabs |-> [i \in 1 .. MaxTabs |-> 0], g |-> 0, maps |-> <<"none", "none">>,
              att |-> DefaultAttributes, pal |-> InitialPalette, p |-> FreshParser, pipe |-> ClosedPipe,
              bar |-> FreshBar, mods |-> {}, mask |-> {}, cursor |-> "blank",
              started |-> FALSE, modified |-> FALSE, input |-> FALSE, stdin |-> <<>>, calls |-> <<>>])

TermInit ==
    /\ term = Fresh(Initial[1], Initial[2])
    /\ frame = "wait"
    /\ telling = {}
    /\ redraw = {}
    /\ steps = 0

TermCall == steps < MaxSteps /\ steps' = steps + 1
Notify(u) == [u EXCEPT !.modified = TRUE]

(* Mutant: the render thread is not told of a change.                      *)
MutTold(who) ==
    /\ who \in telling
    /\ telling' = telling \ {who}
    /\ UNCHANGED <<term, frame, redraw, steps>>

(* guac_terminal_notify, after the lock has been released.                 *)
Told(who) ==
    /\ who \in telling
    /\ telling' = telling \ {who}
    /\ term' = Notify(term)
    /\ UNCHANGED <<frame, redraw, steps>>

Start ==
    /\ ~term.started
    /\ term' = Notify([term EXCEPT !.started = TRUE])
    /\ UNCHANGED <<frame, telling, redraw, steps>>

(* Output that arrives while the user looks at the scrollback is drawn     *)
(* below the screen, and the rows that move leave a hole.                  *)
OutputWhileScrolled(u, v) == u.off # 0 /\ (u.rows # v.rows \/ u.top # v.top \/ u.ops # v.ops)

(* The terminal after each of the bytes, handled one after the other.      *)
Handled(u, bytes) ==
    LET after[i \in 0 .. Len(bytes)] == IF i = 0 THEN u ELSE CharHandler(after[i - 1], bytes[i])
    IN after

(* The scroll region of a well-behaved program lies in the screen, from    *)
(* each byte to the next: CSI r takes any, and a smaller screen keeps its  *)
(* start.                                                                  *)
InRegion(u) == 0 <= u.sstart /\ u.sstart <= u.send /\ u.send < u.h
StaysInRegion(u, bytes) == \A i \in 0 .. Len(bytes) : InRegion(Handled(u, bytes)[i])

Written(u, bytes) ==
    LET v == Handled(u, bytes)[Len(bytes)] IN
    [v EXCEPT !.intact = @ /\ StaysInRegion(u, bytes) /\ ~OutputWhileScrolled(u, v)]

(* guac_terminal_write, up to the release of the lock.                     *)
Write(bytes) ==
    /\ TermCall
    /\ "output" \notin telling
    /\ term' = Written(term, bytes)
    /\ telling' = telling \cup {"output"}
    /\ UNCHANGED <<frame, redraw>>

-----------------------------------------------------------------------------
(* The render thread: guac_terminal_wait takes the flag in any case, and   *)
(* the flag may have been set just as it times out.                        *)
Waiting == frame \in {"wait", "late"}
Unmodified == [term EXCEPT !.modified = FALSE]

Wait ==
    /\ Waiting /\ term.modified
    /\ term' = Unmodified
    /\ frame' = "flush"
    /\ UNCHANGED <<telling, redraw, steps>>

(* There is no frame then, unless the terminal has yet to be started.      *)
TimedOut ==
    /\ Waiting
    /\ term' = Unmodified
    /\ frame' = IF ~term.started THEN "flush" ELSE IF term.modified THEN "late" ELSE frame
    /\ UNCHANGED <<telling, redraw, steps>>

(* The waits for the rest of a frame, which is flushed however they end.   *)
WaitMore ==
    /\ frame = "flush"
    /\ term' = Unmodified
    /\ UNCHANGED <<frame, telling, redraw, steps>>

Flushed(u) ==
    LET v == IF Autoflush(u) THEN PipeFlush(u) ELSE u IN
    ScrollbarFlush(FlushDisplay(CommitCursor(v)))

(* Frames are withheld until the terminal starts.                          *)
FlushFrame ==
    /\ frame = "flush" /\ term.started
    /\ term' = Flushed(term)
    /\ frame' = "wait"
    /\ UNCHANGED <<telling, redraw, steps>>

-----------------------------------------------------------------------------
(* __guac_terminal_resize: rows move into the scrollback, or out of it.    *)
Shift(u, n) == [u EXCEPT !.top = @ + n, !.cr = @ - n, !.vr = IF @ # -1 THEN @ - n ELSE @]

Shrunk(u, w, h) ==
    LET used == IF EffectiveLength(u) > u.h THEN u.h ELSE EffectiveLength(u)
        shift == IF h < u.h THEN used - h ELSE 0
    IN IF shift <= 0 THEN u
       ELSE RedrawRect(Shift(DisplayCopyRows(u, shift, u.h - 1, -shift), shift), h - shift, 0, h - 1, w - 1)

Widened(u, from, w, h) == IF w > from THEN RedrawRect(u, 0, from - 1, h - 1, w - 1) ELSE u

GrowBy(u, h) == IF h - u.h > AvailableScroll(u) THEN AvailableScroll(u) ELSE h - u.h

(* Rows come back from the scrollback: those scrolled into view become     *)
(* part of the screen, and the rest move in at the top.                    *)
PullDown(u, by, w, h) ==
    IF by > 0 THEN RedrawRect(DisplayCopyRows(u, 0, h - by - 1, by), 0, 0, by - 1, w - 1) ELSE u
Grown(u, from, grow, back, w, h) ==
    PullDown([RedrawRect(SetBarValue([Shift(u, -grow) EXCEPT !.off = IF @ >= grow THEN @ - grow ELSE @],
                                     -(u.off - back)), from, 0, from + back - 1, w - 1)
                EXCEPT !.off = u.off - back], grow - back, w, h)
Regrown(u, from, grow, w, h) ==
    IF h > from /\ grow > 0 THEN Grown(u, from, grow, IF u.off >= grow THEN grow ELSE u.off, w, h) ELSE u

(* Rows the screen grows over are drawn blank, whatever the ring holds.    *)
Stale(u, grow, w, h) ==
    \E r \in u.h .. h - 1 - (IF grow > 0 THEN grow ELSE 0) :
        \E c \in DOMAIN Row(u, r) : c < w /\ IsVisible(Row(u, r)[c])

Refitted(u, w, h) ==
    [Regrown(Widened(DisplayResize(FlushDisplay(Shrunk(u, w, h)), w, h), u.w, w, h), u.h, GrowBy(u, h), w, h)
        EXCEPT !.cr = Fit(@, 0, h - 1), !.cc = Fit(@, 0, w - 1), !.intact = @ /\ ~Stale(u, GrowBy(u, h), w, h)]

(* guac_terminal_resize, up to the release of the lock.                    *)
TermResize(size) ==
    LET h == RowsOf(size[1])
        w == ColumnsOf(size[2])
        u == IF w # term.w \/ h # term.h THEN [Refitted(term, w, h) EXCEPT !.send = h - 1] ELSE term
    IN /\ TermCall
       /\ "resize" \notin telling
       /\ term' = Bounded([u EXCEPT !.outer = size])
       /\ telling' = telling \cup {"resize"}
       /\ UNCHANGED <<frame, redraw>>

(* guac_terminal_apply_color_scheme: the palette first, and then row by    *)
(* row, without the lock.                                                  *)
ApplyColorScheme ==
    /\ TermCall
    /\ redraw = {}
    /\ term' = [term EXCEPT !.pal = InitialPalette]
    /\ redraw' = 0 .. term.h - 1
    /\ UNCHANGED <<frame, telling>>

RedrawNext ==
    /\ redraw # {}
    /\ LET row == CHOOSE r \in redraw : \A s \in redraw : r <= s
           u == RedrawRect(term, row, 0, row, term.w - 1)
       IN /\ redraw' = redraw \ {row}
          /\ term' = IF redraw' = {} THEN Notify(u) ELSE u
    /\ UNCHANGED <<frame, telling, steps>>

-----------------------------------------------------------------------------
(* Keyboard.                                                               *)
Modifier(k) ==
    CASE k \in {65507, 65508} -> "ctrl" [] k \in {65511, 65512} -> "meta"
      [] k \in {65513, 65514} -> "alt" [] k \in {65505, 65506} -> "shift" [] OTHER -> "none"

(* The byte a key makes with Ctrl held, and -1 for the keys that make none. *)
ControlCode(k) ==
    CASE k \in 64 .. 95 -> k - 64 [] k \in 97 .. 122 -> k - 96 [] k = 63 -> 127
      [] k = 50 -> 0 [] k \in 51 .. 55 -> k - 24 [] OTHER -> -1

(* The sequences of the keys that are no characters, by name.              *)
SpecialKey(u, k) ==
    CASE k = 65288 -> "backspace" [] k \in {65289, 65417} -> "tab" [] k \in {65293, 65421} -> "return"
      [] k = 65307 -> "escape" [] k \in {65360, 65429} -> "home"
      [] k \in {65361, 65430} -> IF u.appcur THEN "app left" ELSE "left"
      [] k \in {65362, 65431} -> IF u.appcur THEN "app up" ELSE "up"
      [] k \in {65363, 65432} -> IF u.appcur THEN "app right" ELSE "right"
      [] k \in {65364, 65433} -> IF u.appcur THEN "app down" ELSE "down"
      [] k \in {65365, 65434} -> "page up" [] k \in {65366, 65435} -> "page down"
      [] k \in {65367, 65436} -> "end" [] k \in {65379, 65438} -> "insert"
      [] k \in {65470, 65425} -> "f1" [] k \in {65471, 65426} -> "f2" [] k \in {65472, 65427} -> "f3"
      [] k \in {65473, 65428} -> "f4" [] k \in 65474 .. 65481 -> "f5 to f12"
      [] k \in {65535, 65439} -> "delete" [] OTHER -> "none"

(* Latin-1, and the keysyms that hold a codepoint.                        *)
IsCharacter(k) == k \in 0 .. 255 \/ k \div 65536 = 256

SendData(u, data) == SendString(u, data)

(* Typing shows the present, and starts with an escape while Alt is held.  *)
Typing(u) ==
    LET v == IF u.off # 0 THEN ScrollDisplayDown(u, u.off) ELSE u
    IN IF "alt" \in u.mods THEN SendString(v, "escape") ELSE v

(* What a key sends that is no shortcut.                                   *)
SendPressed(u, k) ==
    IF "ctrl" \in u.mods
    THEN IF ControlCode(k) = -1 THEN Typing(u) ELSE SendData(Typing(u), <<ControlCode(k)>>)
    ELSE IF IsCharacter(k) THEN SendData(Typing(u), <<k % 65536>>)
    ELSE IF k \in 65450 .. 65465 THEN SendData(Typing(u), <<k - 65408>>)
    ELSE IF SpecialKey(u, k) = "none" THEN Typing(u) ELSE SendString(Typing(u), SpecialKey(u, k))

(* A key that is no modifier: paste, copy, scroll by pages, or send.       *)
Shortcut(u, k, ctrl, meta) == (k = ctrl /\ "ctrl" \in u.mods) \/ (k = meta /\ "meta" \in u.mods)
PressKey(u, k) ==
    IF Shortcut(u, k, 86, 118) THEN SendData(u, u.clipboard)
    ELSE IF Shortcut(u, k, 67, 99) THEN u
    ELSE IF "shift" \in u.mods /\ k = 65365 THEN ScrollDisplayUp(u, u.h)
    ELSE IF "shift" \in u.mods /\ k = 65366 THEN ScrollDisplayDown(u, u.h)
    ELSE SendPressed(u, k)

SendKey(k, pressed) ==
    LET u == IF term.cursor # "blank" THEN Notify([term EXCEPT !.cursor = "blank"]) ELSE term
        m == Modifier(k)
    IN /\ TermCall
       /\ term' = IF ~term.started THEN term
               ELSE IF m # "none" THEN [u EXCEPT !.mods = IF pressed THEN @ \cup {m} ELSE @ \ {m}]
               ELSE IF pressed THEN PressKey(u, k) ELSE u
       /\ UNCHANGED <<frame, telling, redraw>>

-----------------------------------------------------------------------------
(* Mouse.                                                                  *)
Point(u, kind) == IF u.cursor # kind THEN Notify([u EXCEPT !.cursor = kind]) ELSE u

(* The wheel is a pair of buttons, which scroll when released.             *)
WheelUp(u, released) == IF "up" \in released THEN ScrollDisplayUp(u, WheelScrollAmount) ELSE u
WheelDown(u, released) == IF "down" \in released THEN ScrollDisplayDown(u, WheelScrollAmount) ELSE u

(* What the buttons do outside the scrollbar.                              *)
ClickAt(u, x, y, mask, released, pressed) ==
    LET row == y \div CharHeight - u.off
        col == x \div CharWidth
        selected ==
              IF "left" \in released THEN SelectEnd(u)
              ELSE IF "left" \notin mask THEN u
              ELSE IF "left" \notin pressed THEN SelectUpdate(u, row, col)
              ELSE IF "shift" \in u.mods THEN SelectResume(u, row, col) ELSE SelectStart(u, row, col)
    IN IF released \cap {"middle", "right"} # {} THEN SendData(u, u.clipboard)
       ELSE WheelDown(WheelUp(selected, released), released)

Moused(t, px, py, mask) ==
    LET x == IF px >= Margin THEN px - Margin ELSE 0
        y == IF py >= Margin THEN py - Margin ELSE 0
        bar == BarMouse(t, x, y, mask)
        u == Point([bar[1] EXCEPT !.mask = mask], "ibar")
    IN IF ~t.started THEN t
       ELSE IF bar[2] THEN Notify(Point(bar[1], "pointer"))
       ELSE ClickAt(u, x, y, mask, t.mask \ mask, mask \ t.mask)

SendMouse(px, py, mask) ==
    /\ TermCall
    /\ term' = Moused(term, px, py, mask)
    /\ UNCHANGED <<frame, telling, redraw>>

-----------------------------------------------------------------------------
(* A stream of a user that takes the place of the keyboard                 *)
(* (terminal-stdin-stream.c).                                              *)
SendStream ==
    /\ TermCall /\ term' = [term EXCEPT !.input = term.started]
    /\ UNCHANGED <<frame, telling, redraw>>
StreamBlob ==
    /\ TermCall /\ term.input /\ term' = [term EXCEPT !.stdin = Append(@, "blob")]
    /\ UNCHANGED <<frame, telling, redraw>>
StreamEnd ==
    /\ TermCall /\ term.input /\ term' = [term EXCEPT !.input = FALSE]
    /\ UNCHANGED <<frame, telling, redraw>>

TermNext ==
    \/ Start
    \/ \E bytes \in Outputs : Write(bytes)
    \/ \E who \in {"output", "resize"} : Told(who)
    \/ Wait
    \/ TimedOut
    \/ WaitMore
    \/ FlushFrame
    \/ \E s \in Sizes : TermResize(s)
    \/ ApplyColorScheme
    \/ RedrawNext
    \/ \E k \in Presses : SendKey(k[1], k[2])
    \/ \E m \in Mice : SendMouse(m[1], m[2], m[3])
    \/ SendStream
    \/ StreamBlob
    \/ StreamEnd

(* The render thread, a redraw and a thread that has a change to tell of   *)
(* go on by themselves; output and input need not come.  Only Wait,        *)
(* FlushFrame, RedrawNext and Told take the steps named here, so that      *)
(* fairness for these is fairness for them.                                *)
WaitEnds == Waiting /\ term.started /\ term.modified /\ frame' = "flush"
FlushEnds == frame = "flush" /\ term.started /\ frame' = "wait"
RowRedrawn == redraw # {} /\ redraw' = redraw \ {CHOOSE r \in redraw : \A s \in redraw : r <= s}
ChangeTold(who) == who \in telling /\ telling' = telling \ {who}

TermFairness ==
    /\ WF_frame(WaitEnds) /\ WF_frame(FlushEnds) /\ WF_redraw(RowRedrawn)
    /\ \A who \in {"output", "resize"} : WF_telling(ChangeTold(who))

TermSpec == TermInit /\ [][TermNext]_termVars /\ TermFairness

-----------------------------------------------------------------------------
(* Properties.                                                             *)

(* The cell of the buffer that a cell of the display stands for.           *)
CellAt(u, r, c) == IF c \in DOMAIN Row(u, r - u.off) THEN Row(u, r - u.off)[c] ELSE DefaultChar

(* What a cell of the display shows once the pending operations are done.  *)
PendingLook(u, p) ==
    CASE u.ops[p][1] = "set" -> Look(u.ops[p][2])
      [] u.ops[p][1] = "copy" -> u.shown[<<u.ops[p][2], u.ops[p][3]>>]
      [] OTHER -> u.shown[p]

(* The display is the buffer: what the pending operations make of every    *)
(* cell that starts a character is that character of the buffer, at the    *)
(* current scroll offset, until one of the known defects happens (output   *)
(* while scrolled, a cursor or a row that reaches beyond the last column,  *)
(* characters moved in a row shorter than the screen, an empty range of    *)
(* rows moved at the edge of the screen, a screen that grows over rows in  *)
(* use, a flush whose copies or glyphs overlap).                           *)
DisplayIsBuffer ==
    term.intact => \A p \in DOMAIN term.ops :
        LET cell == CellAt(term, p[1], p[2]) IN Continues(cell) \/ PendingLook(term, p) = Look(cell)

(* No half of a wide character: in every row of the ring a wide character  *)
(* is followed by its continuation, and a continuation follows one.  The   *)
(* move in a short row, one of the known defects, can tear one.            *)
WideIntact ==
    term.intact => \A i \in 0 .. Available - 1 :
        LET row == term.rows[i] IN
        \A c \in DOMAIN row :
            /\ row[c].w = 2 => c + 1 \in DOMAIN row /\ Continues(row[c + 1])
            /\ Continues(row[c]) => c > 0 /\ row[c - 1].w = 2

Committed(u) == u.sel.on /\ u.sel.com
InRing(u) == NormalizedRange(u)[1] >= u.h - Available

(* Printing, line feeds and whole-screen scrolling never change the text   *)
(* under a committed selection that stays: the selection moves with its    *)
(* rows, or goes.                                                          *)
SelectionFollowsText ==
    [][\A bytes \in {b \in Outputs : \A i \in DOMAIN b : b[i] # Esc} :
          /\ Committed(term) /\ Committed(term') /\ InRing(term') /\ term.handler = "echo" /\ ~term.insert
          /\ term.sstart = 0 /\ term.send = term.h - 1
          /\ Write(bytes)
          => SelectedText(term') = SelectedText(term)]_termVars

(* A committed selection is dropped when characters within it change       *)
(* (terminal-priv.h on selection_committed).  It does not hold: rows and   *)
(* characters that are moved over a selection do not touch it.             *)
SelectionUnmodified == Committed(term) /\ InRing(term) => SelectedText(term) = term.clipboard

(* Nothing captured by a pipe is lost: what was sent and what is buffered  *)
(* add up.                                                                 *)
PipeComplete == term.pipe.sent + term.pipe.n = term.pipe.seen

(* Every change of the terminal reaches the users: once the calls end, no  *)
(* operation stays pending, unless the last wait timed out just as it was  *)
(* told of the last change.                                                *)
FramesCatchUp ==
    <>[](term.started /\ frame # "late" => \A p \in DOMAIN term.ops : term.ops[p] = Nop)

(* guac_terminal_wait returns zero only "if the timeout has elapsed        *)
(* without the terminal being modified" (terminal.c:699), so that every    *)
(* change is drawn.  It does not hold: the flag may be set after the       *)
(* timeout, before the mutex is taken again, and it is cleared unseen.     *)
EveryChangeShown == <>[](term.started => \A p \in DOMAIN term.ops : term.ops[p] = Nop)

=============================================================================
