------------------------------ MODULE TermGrid ------------------------------
(***************************************************************************)
(* The character grid of the terminal emulator: the ring of rows           *)
(* (terminal/buffer.c), the operations pending for the remote display      *)
(* (terminal/display.c) and the operations of terminal/terminal.c that     *)
(* keep the two in step.  A terminal is a record t; an operation maps a    *)
(* terminal to a terminal.                                                 *)
(***************************************************************************)
EXTENDS Integers, FiniteSets, Sequences, SequencesExt

CONSTANTS
    Available,      \* buffer->available: rows of the ring
    WideChars,      \* codepoints for which wcwidth is 2
    ZeroChars       \* codepoints for which wcwidth is 0

Continuation == -1  \* GUAC_CHAR_CONTINUATION
Space == 32
ColorForeground == -2
ColorBackground == -3
Continues(cell) == cell.v = Continuation

(* Fold of an operation over the integers a..b.                            *)
Each(Op(_, _), t, a, b) == FoldLeft(Op, t, [i \in 1 .. (IF b < a THEN 0 ELSE b - a + 1) |-> a + i - 1])

(* What drawing changes in a terminal, which the loops that draw take over *)
(* from the terminal u they end with: ring, operations, selection.         *)
Drawn(t, u) ==
    [t EXCEPT !.rows = u.rows, !.len = u.len, !.ops = u.ops, !.shown = u.shown, !.written = u.written,
              !.sel = u.sel, !.intact = u.intact, !.modified = u.modified]
DrawEach(Op(_, _), t, a, b) == Drawn(t, Each(Op, t, a, b))

Fit(value, min, max) == IF value < min THEN min ELSE IF value > max THEN max ELSE value

WcWidth(v) == IF v \in WideChars THEN 2 ELSE IF v \in ZeroChars THEN 0 ELSE 1

HasGlyph(v) == v \notin {0, Space, Continuation}

(* A colour is its palette index; -1 stands for a direct RGB colour.       *)
DefaultAttributes == [fg |-> ColorForeground, bg |-> ColorBackground, bold |-> FALSE, half |-> FALSE,
                      under |-> FALSE, rev |-> FALSE]
Char(v, att, width) == [v |-> v, att |-> att, cur |-> FALSE, w |-> width]
DefaultChar == Char(0, DefaultAttributes, 1)

(* The two colours of a cell: swapped when reversed or under the cursor,   *)
(* but not both.                                                           *)
Background(cell) == IF cell.att.rev # cell.cur THEN cell.att.fg ELSE cell.att.bg
Foreground(cell) == IF cell.att.rev # cell.cur THEN cell.att.bg ELSE cell.att.fg

(* What a cell looks like: its background, and its glyph if it has one.    *)
(* Bold text in a dark colour takes the intense one.                       *)
Look(cell) ==
    IF ~HasGlyph(cell.v) THEN <<Background(cell)>>
    ELSE LET bold == cell.att.bold /\ ~cell.att.half /\ Foreground(cell) \in 0 .. 7
             half == cell.att.half /\ ~cell.att.bold
         IN <<Background(cell), cell.v, IF bold THEN Foreground(cell) + 8 ELSE Foreground(cell), half>>

-----------------------------------------------------------------------------
(* buffer.c.  A row is a function from 0 .. length - 1 to cells.           *)
EmptyRow == [c \in 0 .. -1 |-> DefaultChar]
Row(t, row) == t.rows[(t.top + row) % Available]
RowLength(t, row) == Cardinality(DOMAIN Row(t, row))
PutRow(t, row, cells) == [t EXCEPT !.rows = ((t.top + row) % Available) :> (cells @@ EmptyRow) @@ @]

(* guac_terminal_buffer_get_row: the row grows to the width asked for.     *)
GetRow(t, row, width) ==
    IF width < RowLength(t, row) THEN t
    ELSE PutRow(t, row, [c \in 0 .. width - 1 |->
                            IF c \in DOMAIN Row(t, row) THEN Row(t, row)[c] ELSE DefaultChar])

(* The range is clamped to the row, which may be shorter than the screen.  *)
MoveCells(t, row, start, end, offset) ==
    LET last == RowLength(t, row) - 1
        from == Fit(Fit(start, 0, last) + offset, 0, last) - offset
        to == Fit(Fit(end, 0, last) + offset, 0, last) - offset
    IN PutRow([t EXCEPT !.intact = @ /\ end <= last], row,
              [c \in 0 .. last |->
                  IF c - offset \in from .. to THEN Row(t, row)[c - offset] ELSE Row(t, row)[c]])
BufferCopyColumns(t, row, start, end, offset) ==
    MoveCells(GetRow(t, row, end + offset + 1), row, start, end, offset)

(* Rows are copied from the end that does not overwrite what is to be read. *)
BufferCopyRows(t, start, end, offset) ==
    LET CopyRow(u, i) ==
            LET r == IF offset > 0 THEN end - (i - start) ELSE i IN PutRow(u, r + offset, Row(u, r))
    IN DrawEach(CopyRow, t, start, end)

(* The cells from start to end filled with a character; a wide one that    *)
(* starts in the last of them covers the next one too.                     *)
Filled(cells, start, end, char) ==
    LET stop == IF char.w = 2 /\ (end - start) % 2 = 0 THEN end + 1 ELSE end IN
    [c \in DOMAIN cells |->
        IF c \notin start .. stop THEN cells[c]
        ELSE IF (c - start) % char.w = 0 THEN char ELSE Char(Continuation, char.att, 0)]

FillRow(t, row, start, end, char) ==
    [PutRow(t, row, Filled(Row(t, row), start, end, char)) EXCEPT
        !.len = IF char.v # 0 /\ row >= @ THEN row + 1 ELSE @]

BufferSetColumns(t, row, start, end, char) ==
    IF char.w = 0 THEN t ELSE FillRow(GetRow(t, row, end + 1), row, start, end, char)

-----------------------------------------------------------------------------
(* display.c.  The operation pending for a cell of the display.            *)
Nop == <<"nop">>
CopyOf(r, c) == <<"copy", r, c>>
SetTo(char) == <<"set", char>>

DisplayCopyColumns(t, row, start, end, offset) ==
    LET from == Fit(Fit(start, 0, t.w - 1) + offset, 0, t.w - 1) - offset
        to == Fit(Fit(end, 0, t.w - 1) + offset, 0, t.w - 1) - offset
        Moved(c) == IF t.ops[<<row, c - offset>>] = Nop THEN CopyOf(row, c - offset) ELSE t.ops[<<row, c - offset>>]
    IN IF row \notin 0 .. t.h - 1 THEN t
       ELSE [t EXCEPT !.ops = [p \in DOMAIN t.ops |->
                IF p[1] = row /\ p[2] - offset \in from .. to THEN Moved(p[2]) ELSE t.ops[p]]]

(* Mutant: a moved operation still refers to the row it is moved to.       *)
MutDisplayCopyRows(t, start, end, offset) ==
    LET from == Fit(Fit(start, 0, t.h - 1) + offset, 0, t.h - 1) - offset
        to == Fit(Fit(end, 0, t.h - 1) + offset, 0, t.h - 1) - offset
    IN [t EXCEPT !.ops = [p \in DOMAIN t.ops |->
            IF p[1] - offset \in from .. to THEN t.ops[<<p[1] - offset, p[2]>>] ELSE t.ops[p]]]

(* An empty range that starts beyond the screen is clamped to its edge,    *)
(* and one row moves.                                                      *)
DisplayCopyRows(t, start, end, offset) ==
    LET from == Fit(Fit(start, 0, t.h - 1) + offset, 0, t.h - 1) - offset
        to == Fit(Fit(end, 0, t.h - 1) + offset, 0, t.h - 1) - offset
        Moved(r, c) == IF t.ops[<<r - offset, c>>] = Nop THEN CopyOf(r - offset, c) ELSE t.ops[<<r - offset, c>>]
    IN [t EXCEPT !.ops = [p \in DOMAIN t.ops |->
            IF p[1] - offset \in from .. to THEN Moved(p[1], p[2]) ELSE t.ops[p]],
                 !.intact = @ /\ (start > end => from > to)]

(* What lies beyond the last column is drawn on it.                        *)
DisplaySetColumns(t, row, start, end, char) ==
    LET from == Fit(start, 0, t.w - 1)
        to == Fit(end, 0, t.w - 1)
    IN IF char.w = 0 \/ row \notin 0 .. t.h - 1 THEN t
       ELSE [t EXCEPT !.ops = [p \in DOMAIN t.ops |->
                IF p[1] = row /\ p[2] \in from .. to /\ (p[2] - from) % char.w = 0 THEN SetTo(char)
                ELSE t.ops[p]],
                       !.intact = @ /\ start < t.w]

(* Cells that were not there are to be filled with the background.         *)
DisplayResize(t, w, h) ==
    LET cells == (0 .. h - 1) \X (0 .. w - 1) IN
    [t EXCEPT !.ops = [p \in cells |-> IF p \in DOMAIN t.ops THEN Nop ELSE SetTo(DefaultChar)],
              !.shown = [p \in cells |-> IF p \in DOMAIN t.shown THEN t.shown[p] ELSE <<ColorBackground>>],
              !.w = w, !.h = h]

(* __guac_terminal_display_flush_copy, from left to right and top to       *)
(* bottom: the largest rectangle that starts here and is a copy of one     *)
(* rectangle is copied in one piece.  `read` gathers whether a copy reads  *)
(* what an earlier copy of the same flush has written.                     *)
FlushCopy(t) ==
    LET Run(u, p, r) ==     \* columns of row r that continue the copy that starts at p
            LET cols == {n \in 1 .. t.w - p[2] : \A j \in 0 .. n - 1 :
                            u.ops[<<r, p[2] + j>>] = CopyOf(u.ops[p][2] + (r - p[1]), u.ops[p][3] + j)}
            IN Cardinality(cols)
        Rect(u, p) ==
            LET width == Run(u, p, p[1])
                height == Cardinality({n \in 1 .. t.h - p[1] :
                              \A j \in 0 .. n - 1 : Run(u, p, p[1] + j) >= width})
            IN (p[1] .. p[1] + height - 1) \X (p[2] .. p[2] + width - 1)
        Copy(u, i) ==
            LET p == <<i \div t.w, i % t.w>> IN
            IF u.ops[p][1] # "copy" THEN u
            ELSE LET rect == Rect(u, p)
                     Source(q) == <<u.ops[q][2], u.ops[q][3]>>
                 IN [u EXCEPT !.ops = [q \in DOMAIN u.ops |-> IF q \in rect THEN Nop ELSE u.ops[q]],
                              !.shown = [q \in DOMAIN u.shown |->
                                            IF q \in rect THEN u.shown[Source(q)] ELSE u.shown[q]],
                              !.intact = @ /\ \A q \in rect : Source(q) \notin u.written,
                              !.written = @ \cup rect]
    IN [DrawEach(Copy, t, 0, t.w * t.h - 1) EXCEPT !.written = {}]

(* Cells without a glyph are filled with their background.                 *)
FlushClear(t) ==
    LET blank == {p \in DOMAIN t.ops : t.ops[p][1] = "set" /\ ~HasGlyph(t.ops[p][2].v)} IN
    [t EXCEPT !.shown = [p \in DOMAIN t.shown |-> IF p \in blank THEN Look(t.ops[p][2]) ELSE t.shown[p]],
              !.ops = [p \in DOMAIN t.ops |-> IF p \in blank THEN Nop ELSE t.ops[p]]]

(* Glyphs are drawn from left to right; a wide one covers two cells, and   *)
(* what is still pending for the second is drawn over it.                  *)
FlushSet(t) ==
    LET Draw(u, i) ==
            LET p == <<i \div t.w, i % t.w>> IN
            IF u.ops[p][1] # "set" THEN u
            ELSE LET char == u.ops[p][2]
                     right == <<p[1], p[2] + 1>>
                     v == [u EXCEPT !.shown[p] = Look(char), !.ops[p] = Nop]
                 IN IF WcWidth(char.v) = 2 /\ right \in DOMAIN v.shown
                    THEN [v EXCEPT !.shown[right] = Look(char) \o <<"right">>,
                                   !.intact = @ /\ u.ops[right][1] # "set"] ELSE v
    IN DrawEach(Draw, t, 0, t.w * t.h - 1)

FlushDisplay(t) == FlushSet(FlushClear(FlushCopy(t)))

-----------------------------------------------------------------------------
(* select.c.  sel: on is text_selected, com selection_committed.           *)
(* The range in reading order, as <<start row, column, end row, column>>.  *)
NormalizedRange(t) ==
    LET s == t.sel IN
    IF s.sr < s.er \/ (s.sr = s.er /\ s.sc < s.ec)
    THEN <<s.sr, s.sc, s.er, s.ec + s.ew - 1>>
    ELSE <<s.er, s.ec, s.sr, s.sc + s.sw - 1>>

Overlaps(n, r1, c1, r2, c2) ==
    /\ ~(r1 > n[3] \/ (r1 = n[3] /\ c1 > n[4]))
    /\ ~(r2 < n[1] \/ (r2 = n[1] /\ c2 < n[2]))
SelectContains(t, r1, c1, r2, c2) == t.sel.on /\ Overlaps(NormalizedRange(t), r1, c1, r2, c2)

(* Mutant: the selection outlives what is written over it.                 *)
MutSelectTouch(t, r1, c1, r2, c2) == t

(* A committed selection goes when something it contains changes.          *)
SelectTouch(t, r1, c1, r2, c2) ==
    IF t.sel.com /\ SelectContains(t, r1, c1, r2, c2)
    THEN [t EXCEPT !.sel.on = FALSE, !.sel.com = FALSE, !.modified = TRUE] ELSE t

(* The first column and the width of the character at a column.            *)
FindChar(t, row, column) ==
    LET cells == Row(t, row)
        starts == {c \in 0 .. column : ~Continues(cells[c]) /\ \A d \in c + 1 .. column : Continues(cells[d])}
    IN IF column \notin DOMAIN cells \/ starts = {} THEN <<column, 1>>
       ELSE LET c == CHOOSE c \in starts : TRUE IN <<c, cells[c].w>>

SelectStart(t, row, column) ==
    LET f == FindChar(t, row, column) IN
    [t EXCEPT !.sel = [on |-> FALSE, com |-> FALSE, sr |-> row, sc |-> f[1], sw |-> f[2],
                       er |-> row, ec |-> f[1], ew |-> f[2]],
              !.modified = TRUE]

SelectUpdate(t, row, column) ==
    LET f == FindChar(t, row, column) IN
    IF row = t.sel.er /\ column \in t.sel.ec .. t.sel.ec + t.sel.ew - 1 THEN t
    ELSE [t EXCEPT !.sel.er = row, !.sel.ec = f[1], !.sel.ew = f[2], !.sel.on = TRUE, !.modified = TRUE]

SelectResume(t, row, column) ==
    LET n == NormalizedRange(t)
        after == row > n[1] \/ (row = n[1] /\ column > n[2])
    IN IF ~t.sel.on THEN t
       ELSE SelectUpdate([t EXCEPT !.sel.sr = IF after THEN n[1] ELSE n[3],
                                   !.sel.sc = IF after THEN n[2] ELSE n[4],
                                   !.sel.com = FALSE], row, column)

(* guac_terminal_clipboard_append_row, of the columns start .. end of a    *)
(* row; an end of -1 stands for the end of the row.                        *)
RowText(t, row, start, end) ==
    LET last == RowLength(t, row) - 1
        to == IF end < 0 \/ end > last THEN last ELSE end
        cells == [i \in 1 .. to - start + 1 |-> Row(t, row)[start + i - 1].v]
    IN IF start < 0 \/ start > last THEN <<>> ELSE SelectSeq(cells, LAMBDA v : v \notin {0, Continuation})

Newline == <<10>>

(* The text of the selection, as guac_terminal_select_end collects it.     *)
SelectedText(t) ==
    LET n == NormalizedRange(t)
        Line(acc, r) == acc \o Newline \o RowText(t, r, 0, -1)
    IN IF n[1] = n[3] THEN RowText(t, n[1], n[2], n[4])
       ELSE Each(Line, RowText(t, n[1], n[2], -1), n[1] + 1, n[3] - 1) \o Newline \o RowText(t, n[3], 0, n[4])

SelectEnd(t) ==
    IF ~t.sel.on THEN t
    ELSE [t EXCEPT !.sel.com = TRUE, !.clipboard = SelectedText(t), !.modified = TRUE]

-----------------------------------------------------------------------------
(* terminal.c: what changes the buffer changes the display, shifted by the *)
(* scroll offset, and touches the selection.                               *)
SetBoth(t, row, start, end, char) ==
    SelectTouch(BufferSetColumns(DisplaySetColumns(t, row + t.off, start, end, char), row, start, end, char),
                row, start, row, end)

(* The cells start .. end hold one whole character, or become spaces.      *)
BreakAt(t, row, start, end) ==
    IF ~Continues(Row(t, row)[start]) /\ Row(t, row)[start].w = end - start + 1 THEN t
    ELSE SetBoth(t, row, start, end, Char(Space, Row(t, row)[start].att, 1))

(* A character narrower than its run of continuations is left alone.       *)
BreakRun(t, row, start, end) ==
    LET cell == Row(t, row)[start] IN
    BreakAt(t, row, IF ~Continues(cell) /\ cell.w < end - start + 1 THEN start + cell.w ELSE start, end)

(* The character that ends left of an edge, and the one that starts at it. *)
BreakLeft(t, row, edge) ==
    LET first == CHOOSE c \in 0 .. edge - 1 :
                    /\ \A d \in c + 1 .. edge - 1 : Continues(Row(t, row)[d])
                    /\ c = 0 \/ ~Continues(Row(t, row)[c])
    IN IF edge \in 1 .. RowLength(t, row) THEN BreakRun(t, row, first, edge - 1) ELSE t
BreakRight(t, row, edge) ==
    LET last == CHOOSE c \in edge .. RowLength(t, row) - 1 :
                    /\ \A d \in edge + 1 .. c : Continues(Row(t, row)[d])
                    /\ c + 1 \in DOMAIN Row(t, row) => ~Continues(Row(t, row)[c + 1])
    IN IF edge \in 0 .. RowLength(t, row) - 1 THEN BreakRun(t, row, edge, last) ELSE t

(* Mutant: what is left of a broken wide character stays.                  *)
MutForceBreak(t, row, edge) == t

(* __guac_terminal_force_break: a wide character that an edge cuts in two  *)
(* becomes spaces.  Left of an edge beyond the end of the row the code     *)
(* reads what the memory holds, which can only pad the row there; that is  *)
(* left out.                                                               *)
ForceBreak(t, row, edge) == BreakRight(BreakLeft(t, row, edge), row, edge)

(* guac_terminal_set_columns keeps the cursor visible where it is.         *)
KeepCursor(t, row, start, end, char) ==
    IF row = t.vr /\ t.vc \in start .. end
    THEN SetBoth(t, row, t.vc, t.vc, [char EXCEPT !.cur = TRUE]) ELSE t
SetColumns(t, row, start, end, char) ==
    ForceBreak(ForceBreak(KeepCursor(SetBoth(t, row, start, end, char), row, start, end, char),
                          row, start), row, end + 1)

(* The cursor moves with the columns, or with the rows, it stands on.      *)
CursorRight(t, row, start, end, offset) ==
    IF row = t.vr /\ t.vc \in start .. end THEN [t EXCEPT !.vc = @ + offset] ELSE t
CursorDown(t, start, end, offset) == IF t.vr \in start .. end THEN [t EXCEPT !.vr = @ + offset] ELSE t

CopyBoth(t, row, start, end, offset) ==
    SelectTouch(BufferCopyColumns(DisplayCopyColumns(t, row + t.off, start, end, offset),
                                  row, start, end, offset), row, start, row, end)
CopyColumns(t, row, start, end, offset) ==
    ForceBreak(ForceBreak(CursorRight(CopyBoth(t, row, start, end, offset), row, start, end, offset),
                          row, start + offset), row, end + offset + 1)

CopyRows(t, start, end, offset) ==
    CursorDown(SelectTouch(BufferCopyRows(DisplayCopyRows(t, start + t.off, end + t.off, offset), start, end, offset),
                           start, 0, end, t.w), start, end, offset)

(* guac_terminal_set: a character of no width is dropped.                  *)
SetChar(t, row, col, v) ==
    IF WcWidth(v) = 0 THEN t
    ELSE SetColumns(t, row, col, col + WcWidth(v) - 1, Char(v, t.att, WcWidth(v)))

ClearColumns(t, row, start, end) == SetColumns(t, row, start, end, Char(0, t.att, 1))

(* The first row and the last if they are cleared in part, then the rest;  *)
(* a span is <<row, first column, last column>>.                           *)
Spans(r1, c1, r2, c2, last) ==
    LET from == IF c1 > 0 THEN r1 + 1 ELSE r1
        to   == IF c2 < last THEN r2 - 1 ELSE r2
    IN (IF c1 > 0 THEN <<<<r1, c1, last>>>> ELSE <<>>)
       \o (IF c2 < last THEN <<<<r2, 0, c2>>>> ELSE <<>>)
       \o [i \in 1 .. (IF to < from THEN 0 ELSE to - from + 1) |-> <<from + i - 1, 0, last>>]

ClearRange(t, r1, c1, r2, c2) ==
    Drawn(t, FoldLeft(LAMBDA u, s : ClearColumns(u, s[1], s[2], s[3]), t, Spans(r1, c1, r2, c2, t.w - 1)))

-----------------------------------------------------------------------------
(* Scrolling.                                                              *)
EffectiveLength(t) ==
    LET scrollback == IF t.requested > t.max THEN t.max
                      ELSE IF t.requested < t.h THEN t.h ELSE t.requested
    IN IF t.len > scrollback THEN scrollback ELSE t.len

AvailableScroll(t) == EffectiveLength(t) - t.h

SetBounds(t, min, max) ==
    [t EXCEPT !.bar.value = Fit(@, min, max), !.bar.min = min, !.bar.max = max]
SetBarValue(t, value) == [t EXCEPT !.bar.value = Fit(value, t.bar.min, t.bar.max)]

(* The whole screen moves into the scrollback by turning the ring.         *)
Turned(t, amount) ==
    [t EXCEPT !.top = IF @ + amount >= Available THEN @ + amount - Available ELSE @ + amount,
              !.len = IF @ + amount > Available THEN Available ELSE @ + amount]
Bounded(t) == SetBounds(t, -AvailableScroll(t), 0)
SelectionUp(t, amount) ==
    IF t.sel.on THEN [t EXCEPT !.sel.sr = @ - amount, !.sel.er = @ - amount] ELSE t
Rotate(t, amount) == SelectionUp(CursorDown(Bounded(Turned(t, amount)), 0, t.h - 1, -amount), amount)

ScrollUp(t, start, end, amount) ==
    ClearRange(IF start = 0 /\ end = t.h - 1
               THEN Rotate(DisplayCopyRows(t, start + amount, end, -amount), amount)
               ELSE CopyRows(t, start + amount, end, -amount),
               end - amount + 1, 0, end, t.w - 1)

ScrollDown(t, start, end, amount) ==
    ClearRange(CopyRows(t, start, end - amount, amount), start, 0, start + amount - 1, t.w - 1)

(* guac_terminal_is_visible: anything but an empty cell in the default     *)
(* background.                                                             *)
IsVisible(cell) == ~Continues(cell) /\ (HasGlyph(cell.v) \/ Background(cell) # ColorBackground)

WholeRow == 2 * 1024     \* more than the longest row

(* A row of the buffer is drawn on a row of the display; cells beyond its  *)
(* width fall on its last column.                                          *)
Redraw(t, from, dest, start, end) ==
    LET t1 == DisplaySetColumns(t, dest, start, end, DefaultChar)
        Draw(u, c) == IF IsVisible(Row(t, from)[c])
                      THEN DisplaySetColumns(u, dest, c, c, Row(t, from)[c]) ELSE u
    IN DrawEach(Draw, t1, start, IF end < RowLength(t, from) - 1 THEN end ELSE RowLength(t, from) - 1)

(* Towards the present.                                                    *)
ScrollDisplayDown(t, by) ==
    LET amount == IF by > t.off THEN t.off ELSE by
        t1 == IF t.h > amount THEN DisplayCopyRows(t, amount, t.h - 1, -amount) ELSE t
        t2 == SetBarValue([t1 EXCEPT !.off = @ - amount], -(t.off - amount))
        Show(u, i) == Redraw(u, t.h - u.off - amount + i, t.h - amount + i, 0, WholeRow)
    IN IF amount <= 0 THEN t ELSE [DrawEach(Show, t2, 0, amount - 1) EXCEPT !.modified = TRUE]

(* Into the past.                                                          *)
ScrollDisplayUp(t, by) ==
    LET amount == IF t.off + by > AvailableScroll(t) THEN AvailableScroll(t) - t.off ELSE by
        t1 == IF t.h > amount THEN DisplayCopyRows(t, 0, t.h - amount - 1, amount) ELSE t
        t2 == SetBarValue([t1 EXCEPT !.off = @ + amount], -(t.off + amount))
        Show(u, i) == Redraw(u, -u.off + i, i, 0, WholeRow)
    IN IF amount <= 0 THEN t ELSE [DrawEach(Show, t2, 0, amount - 1) EXCEPT !.modified = TRUE]

RedrawRect(t, r1, c1, r2, c2) ==
    LET Show(u, r) == Redraw(u, r - u.off, r, c1, c2) IN DrawEach(Show, t, r1, r2)

(* guac_terminal_commit_cursor draws the cursor where it is now.           *)
CommitCursor(t) ==
    LET Mark(u, row, col, on) ==
            LET v == GetRow(u, row, col + 1)
                char == [Row(v, row)[col] EXCEPT !.cur = on]
            IN DisplaySetColumns(PutRow(v, row, [Row(v, row) EXCEPT ![col] = char]),
                                 row + v.off, col, col, char)
        t1 == IF t.vr # -1 /\ t.vc # -1 THEN Mark(t, t.vr, t.vc, FALSE) ELSE t
    IN IF t.curvis /\ t.vr = t.cr /\ t.vc = t.cc THEN t
       ELSE IF t.curvis THEN [Mark(t1, t.cr, t.cc, TRUE) EXCEPT !.vr = t.cr, !.vc = t.cc]
       ELSE [t1 EXCEPT !.vr = -1, !.vc = -1]

=============================================================================
