----------------------------- MODULE MCTerminal -----------------------------
(* A terminal of 3 x 3 or 2 x 4 characters of 24 x 8 pixels, over a ring   *)
(* of 5 rows.                                                              *)
EXTENDS Terminal

CsiOf(bytes) == <<Esc, 91>> \o bytes
Wide == <<228, 184, 128>>       \* U+4E00
Osc4822(n, bytes) == <<Esc, 93, 52, 56, 50, 50, 48, 48 + n, 59>> \o bytes \o <<7>>

(* Lines that scroll; a wide character with the cursor left on its second  *)
(* half; a scroll region and a reverse line feed; a line deleted and a     *)
(* reversed character inserted; a pipe.                                    *)
MCOutputs ==
    {<<97, 98, 10, 13, 10, 10>>,
     Wide \o <<8>>,
     CsiOf(<<50, 59, 51, 114>>) \o CsiOf(<<50, 72>>) \o <<Esc, 77>>,
     CsiOf(<<77>>) \o CsiOf(<<55, 109>>) \o CsiOf(<<64>>),
     Osc4822(2, <<49, 59, 112>>)}
MCInitial == <<80, 48>>
MCSizes == {<<80, 48>>, <<56, 56>>}
MCPresses == {<<97, TRUE>>}
MCMice == {<<5, 10, {"left"}>>, <<20, 10, {"left"}>>, <<20, 10, {}>>, <<20, 10, {"up"}>>}

(* A terminal in use: started, with text above the line of the cursor,     *)
(* some of which has been selected with the mouse, and drawn.              *)
Select(u, x1, y1, x2, y2) ==
    Moused(Moused(Moused(u, x1, y1, {"left"}), x2, y2, {"left"}), x2, y2, {})
InUse(text, x1, y1, x2, y2) ==
    LET u == Handled([Fresh(Initial[1], Initial[2]) EXCEPT !.started = TRUE], text)[Len(text)] IN
    [Flushed(Select(u, x1, y1, x2, y2)) EXCEPT !.modified = FALSE]

(* A word of the second line, over a screen full of E; and a wide          *)
(* character with the start of the line after it.                          *)
Used == {InUse(<<Esc, 35, 56, 97, 98, 13, 10, 99, 100, 13, 10>>, 5, 34, 20, 34),
         InUse(<<97>> \o Wide \o <<13, 10, 99, 100, 13, 10>>, 13, 10, 5, 34)}

MCInit ==
    \/ TermInit
    \/ term \in Used /\ frame = "wait" /\ telling = {} /\ redraw = {} /\ steps = 0

MCSpec == MCInit /\ [][TermNext]_termVars /\ TermFairness

=============================================================================
