-------------------------------- MODULE Fbcon --------------------------------
(***************************************************************************)
(* The text console of src/dev/fbcon/fbcon.c.  Threads and interrupt        *)
(* handlers print through it without a lock: its position is read, changed  *)
(* and tested in steps, and another printer may come in between any two.    *)
(***************************************************************************)
EXTENDS Integers, FiniteSets

CONSTANTS
    Threads, Handlers,          \* that print
    width, height,              \* of the frame buffer, in pixels
    FONT_WIDTH, FONT_HEIGHT,
    MaxPosition                 \* bound: two threads may drive the position up

VARIABLES
    printing, \* the threads that print in this behaviour
    x, y,     \* fbcon.position
    at,       \* where each printer is in fbcon_putc
    loaded    \* what its registers hold of the position

fbvars == <<printing, x, y, at, loaded>>

\* A character's cell has a pixel's column more than its glyph.  One row of
\* pixels less than the frame has makes a whole row of cells less where the
\* font's height divides the frame's.
max_x == width \div (FONT_WIDTH + 1)
\* Fault: all rows of the frame are used.
max_y_All == height \div FONT_HEIGHT
max_y == (height - 1) \div FONT_HEIGHT

fbcon_clear == x = 0 /\ y = 0

\* fbcon_setup, which the boards call before there are threads or interrupts.
FbconInit == /\ printing \in SUBSET Threads \ {{}}
             /\ fbcon_clear
             /\ at = [p \in Threads \cup Handlers |-> "out"]
             /\ loaded = [p \in Threads \cup Handlers |-> 0]

Printers == Threads \cup Handlers

\* A handler leaves before anyone else goes on.
Goes(p, from, to) == /\ p \in printing \cup Handlers
                     /\ \A h \in Handlers \ {p} : at[h] = "out"
                     /\ at[p] = from
                     /\ at' = [at EXCEPT ![p] = to]

-----------------------------------------------------------------------------
(* fbcon_putc                                                               *)

\* Control characters but these two, and what is not ASCII, change nothing.
carriage_return(p) == Goes(p, "out", "out") /\ x' = 0 /\ UNCHANGED <<printing, y, loaded>>
line_feed(p) == Goes(p, "out", "newline") /\ UNCHANGED <<printing, x, y, loaded>>

\* draw_glyph, the same cell whichever way the screen is turned.
draw_glyph(p) == Goes(p, "out", "load x") /\ UNCHANGED <<printing, x, y, loaded>>

load_x(p) == /\ Goes(p, "load x", "store x") /\ loaded' = [loaded EXCEPT ![p] = x]
             /\ UNCHANGED <<printing, x, y>>
store_x(p) == /\ Goes(p, "store x", "drawn") /\ loaded[p] < MaxPosition /\ x' = loaded[p] + 1
              /\ loaded' = [loaded EXCEPT ![p] = @ + 1] /\ UNCHANGED <<printing, y>>

\* The test is of the position in memory or of what was stored there: the
\* position is not volatile, and the compiler may keep it in a register.
Tests(p, now) == {now, loaded[p]}

\* Fault: the column is compared for equality only.
line_full_Exactly(p) ==
    /\ \E col \in Tests(p, x) : Goes(p, "drawn", IF col # max_x THEN "out" ELSE "newline")
    /\ loaded' = [loaded EXCEPT ![p] = 0] /\ UNCHANGED <<printing, x, y>>

line_full(p) ==
    /\ \E col \in Tests(p, x) : Goes(p, "drawn", IF col < max_x THEN "out" ELSE "newline")
    /\ loaded' = [loaded EXCEPT ![p] = 0] /\ UNCHANGED <<printing, x, y>>

load_y(p) == /\ Goes(p, "newline", "store y") /\ loaded' = [loaded EXCEPT ![p] = y]
             /\ UNCHANGED <<printing, x, y>>
store_y(p) == /\ Goes(p, "store y", "return") /\ loaded[p] < MaxPosition /\ y' = loaded[p] + 1
              /\ loaded' = [loaded EXCEPT ![p] = @ + 1] /\ UNCHANGED <<printing, x>>
first_column(p) == /\ Goes(p, "return", "bottom") /\ x' = 0
                   /\ UNCHANGED <<printing, y, loaded>>

\* Beyond the last row the text is scrolled up and goes on in the last row.
bottom(p) ==
    /\ \E row \in Tests(p, y) : Goes(p, "bottom", IF row >= max_y THEN "last row" ELSE "flush")
    /\ loaded' = [loaded EXCEPT ![p] = 0] /\ UNCHANGED <<printing, x, y>>
last_row(p) == /\ Goes(p, "last row", "scroll") /\ y' = max_y - 1
               /\ UNCHANGED <<printing, x, loaded>>

\* Only the pixels move, and the display is given them.
scroll_up(p) == Goes(p, "scroll", "flush") /\ UNCHANGED <<printing, x, y, loaded>>
fbcon_flush(p) == Goes(p, "flush", "out") /\ UNCHANGED <<printing, x, y, loaded>>

FbconNext == \E p \in Printers :
    \/ carriage_return(p) \/ line_feed(p) \/ draw_glyph(p) \/ load_x(p) \/ store_x(p)
    \/ line_full(p) \/ load_y(p) \/ store_y(p) \/ first_column(p) \/ bottom(p)
    \/ last_row(p) \/ scroll_up(p) \/ fbcon_flush(p)

FbconSpec == FbconInit /\ [][FbconNext]_fbvars

-----------------------------------------------------------------------------
\* However the printers got into one another's way, when all of them are out
\* again the next character goes to a cell of the screen.
BackOnScreen == (\A p \in Printers : at[p] = "out") => x \in 0 .. max_x - 1 /\ y \in 0 .. max_y - 1

\* While only one thread prints, no character a handler prints in the middle of
\* one of the thread's starts a row of pixels outside the frame: a position that
\* is one row too low is in the row of cells that max_position leaves unused.  Where
\* a row of pixels ends is not said: a handler that prints between the thread's last
\* column and its return to the first one has a row of pixels go over the right end
\* of the frame, into the next one, and below the last row out of the frame.
GlyphsInFrame ==
    Cardinality(printing) = 1 /\ (\A h \in Handlers : at[h] = "out")
        => (y + 1) * FONT_HEIGHT <= height

=============================================================================
