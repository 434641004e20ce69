----------------------------- MODULE BoardProofs -----------------------------
(***************************************************************************)
(* Theorems about the I2C bus, the text console and the command line of     *)
(* module Platform, for messages, screens and lines of any size and any     *)
(* number of printers: what shares a buffer, a position or a register with  *)
(* an interrupt or another thread does not get beyond its end.              *)
(***************************************************************************)
EXTENDS Platform, FiniteSetTheorems, TLAPS

-----------------------------------------------------------------------------
(* The composition: a step of the platform is one of each machine, or       *)
(* leaves it alone.                                                        *)

LEMMA EachMachineMoves ==
    [PlatformNext]_allvars =>
        [F!FbconNext]_screen /\ [L!ConsoleNext]_line /\ [I!I2cNext]_i2c
<1> SUFFICES ASSUME [PlatformNext]_allvars
             PROVE  [F!FbconNext]_screen /\ [L!ConsoleNext]_line /\ [I!I2cNext]_i2c
  OBVIOUS
<1>1. CASE UNCHANGED allvars
  BY <1>1 DEF allvars, screen, line, i2c
<1>2. CASE PlatformNext
  <2> USE DEF Only, Still
  <2>1. CASE Only("screen") /\ F!FbconNext
    BY <2>1
  <2>2. CASE Only("line") /\ L!ConsoleNext
    BY <2>2
  <2>3. CASE Only("i2c") /\ I!I2cNext
    BY <2>3
  <2>4. CASE \E m \in Machines \ {"screen", "line", "i2c"} : Only(m)
    BY <2>4
  <2> QED BY <1>2, <2>1, <2>2, <2>3, <2>4 DEF PlatformNext, Machines
<1> QED BY <1>1, <1>2

-----------------------------------------------------------------------------
(* The text console                                                        *)

FbPlaces == {"out", "newline", "load x", "store x", "drawn", "store y", "return", "bottom",
             "last row", "scroll", "flush"}

FbTypes ==
    /\ printing \subseteq ScreenUsers
    /\ x \in Nat /\ y \in Nat
    /\ printer \in [F!Printers -> FbPlaces] /\ loaded \in [F!Printers -> Nat]
    /\ \A t \in ScreenUsers \ printing : printer[t] = "out"

\* Who will see that the column is too far right: the printer that stored it, which
\* still holds it, or one that is on its way to the first column.
Returns(p) == \/ printer[p] = "drawn" /\ loaded[p] = x
              \/ printer[p] \in {"newline", "store y", "return"}
ColumnKept == x < F!max_x \/ \E p \in F!Printers : Returns(p)

\* Who will see that the row is too far down.
Stored(p) == printer[p] \in {"return", "bottom"} /\ loaded[p] = y
Scrolls(p) == Stored(p) \/ printer[p] = "last row"
RowKept == y < F!max_y \/ \E p \in F!Printers : Scrolls(p)

\* Of a thread that prints alone: it is one row too far down at most, but for what a
\* handler stores and takes back before it leaves.
OneTooLow ==
    \A t \in ScreenUsers : printing = {t} =>
        /\ y <= F!max_y \/ \E h \in ScreenHandlers : Scrolls(h)
        /\ printer[t] = "store y" => loaded[t] < F!max_y

FbInv == FbTypes /\ ColumnKept /\ RowKept /\ OneTooLow

\* There is at least one column and one row.
LEMMA ScreenSize ==
    /\ F!max_x \in Nat /\ F!max_x >= 1 /\ F!max_y \in Nat /\ F!max_y >= 1
    /\ height % FONT_HEIGHT = 0 => (F!max_y + 1) * FONT_HEIGHT <= height
<1>1. /\ width \in Nat /\ height \in Nat /\ FONT_WIDTH \in Nat /\ FONT_HEIGHT \in Nat
      /\ FONT_HEIGHT >= 1 /\ FONT_WIDTH + 1 <= width /\ FONT_HEIGHT + 1 <= height
  BY ScreenAssumption DEF ScreenAssumption
<1>2. ASSUME NEW n \in Nat, NEW d \in Nat, d >= 1, d <= n
      PROVE  n \div d \in Nat /\ n \div d >= 1
  <2> PICK k, m : k = n \div d /\ m = n % d
    OBVIOUS
  <2>1. k \in Int /\ m \in Int /\ 0 <= m /\ m < d /\ n = d * k + m
    BY <1>2
  <2>2. k <= 0 => d * k <= 0
    BY <1>2, <2>1
  <2> QED BY <1>2, <2>1, <2>2
<1>3. F!max_x \in Nat /\ F!max_x >= 1
  <2>1. FONT_WIDTH + 1 \in Nat /\ FONT_WIDTH + 1 >= 1
    BY <1>1
  <2> QED BY <1>1, <1>2, <2>1 DEF F!max_x
<1>4. F!max_y \in Nat /\ F!max_y >= 1
  <2>1. height - 1 \in Nat /\ FONT_HEIGHT <= height - 1
    BY <1>1
  <2> QED BY <1>1, <1>2, <2>1 DEF F!max_y
<1>5. ASSUME height % FONT_HEIGHT = 0 PROVE (F!max_y + 1) * FONT_HEIGHT <= height
  <2> PICK d, n, a, k, m : /\ d = FONT_HEIGHT /\ n = height /\ a = n \div d
                           /\ k = (n - 1) \div d /\ m = (n - 1) % d
    OBVIOUS
  <2>1. a \in Int /\ n = d * a + 0
    BY <1>1, <1>5
  <2>2. k \in Int /\ m \in Int /\ 0 <= m /\ m < d /\ n - 1 = d * k + m
    BY <1>1
  <2>3. ~ (k >= a)
    <3>1. k >= a => d * k >= d * a
      BY <1>1, <2>1, <2>2
    <3> QED BY <1>1, <2>1, <2>2, <3>1
  <2>4. d * (k + 1) <= d * a
    BY <1>1, <2>1, <2>2, <2>3
  <2>5. (k + 1) * d = d * (k + 1)
    BY <1>1, <2>2
  <2> QED BY <2>1, <2>4, <2>5, <1>1 DEF F!max_y
<1> QED BY <1>3, <1>4, <1>5

LEMMA FbKeepsScreen == FbInv => ScreenInOrder
<1> SUFFICES ASSUME FbInv PROVE F!BackOnScreen /\ F!GlyphsInFrame
  BY DEF ScreenInOrder
<1>1. F!BackOnScreen
  <2> SUFFICES ASSUME \A p \in F!Printers : printer[p] = "out"
               PROVE  x \in 0 .. F!max_x - 1 /\ y \in 0 .. F!max_y - 1
    BY DEF F!BackOnScreen
  <2>1. x < F!max_x
    BY DEF FbInv, ColumnKept, Returns
  <2>2. y < F!max_y
    BY DEF FbInv, RowKept, Scrolls, Stored
  <2> QED BY <2>1, <2>2, ScreenSize DEF FbInv, FbTypes
<1>2. ASSUME F!Cardinality(printing) = 1,
             \A h \in ScreenHandlers : printer[h] = "out"
      PROVE  (y + 1) * FONT_HEIGHT <= height
  <2>1. PICK t : printing = {t}
    <3>1. Cardinality(printing) = 1
      BY <1>2 DEF F!Cardinality, Cardinality
    <3>2. IsFiniteSet(printing)
      BY FS_Subset, ScreenAssumption DEF FbInv, FbTypes, ScreenAssumption
    <3> QED BY <3>1, <3>2, FS_Singleton
  <2>2. t \in ScreenUsers
    BY <2>1 DEF FbInv, FbTypes
  <2>3. y <= F!max_y
    BY <1>2, <2>1, <2>2 DEF FbInv, OneTooLow, Scrolls, Stored
  <2>4. (y + 1) * FONT_HEIGHT <= (F!max_y + 1) * FONT_HEIGHT
    <3> PICK d, k : d = FONT_HEIGHT /\ k = F!max_y
      OBVIOUS
    <3>1. d \in Nat /\ k \in Nat /\ y \in Nat /\ y <= k
      BY <2>3, ScreenSize, ScreenAssumption DEF FbInv, FbTypes, ScreenAssumption
    <3>2. (y + 1) * d <= (k + 1) * d
      BY <3>1
    <3> QED BY <3>2
  <2>5. (F!max_y + 1) * FONT_HEIGHT <= height
    BY ScreenSize, ScreenAssumption DEF ScreenAssumption
  <2> PICK r, s : r = (y + 1) * FONT_HEIGHT /\ s = (F!max_y + 1) * FONT_HEIGHT
    OBVIOUS
  <2>6. r \in Int /\ s \in Int /\ height \in Int
    BY ScreenSize, ScreenAssumption DEF FbInv, FbTypes, ScreenAssumption
  <2> QED BY <2>4, <2>5, <2>6
<1> QED BY <1>1, <1>2 DEF F!GlyphsInFrame

LEMMA InitFb == F!FbconInit => FbInv
<1> SUFFICES ASSUME F!FbconInit PROVE FbInv
  OBVIOUS
<1>1. /\ printing \subseteq ScreenUsers /\ x = 0 /\ y = 0
      /\ printer = [p \in F!Printers |-> "out"] /\ loaded = [p \in F!Printers |-> 0]
  BY DEF F!FbconInit, F!fbcon_clear, F!Printers
<1>2. FbTypes
  BY <1>1 DEF FbTypes, FbPlaces, F!Printers
<1>3. \A t \in ScreenUsers : printer[t] = "out"
  BY <1>1 DEF F!Printers
<1>4. x < F!max_x /\ y < F!max_y /\ y <= F!max_y
  BY <1>1, ScreenSize
<1> QED BY <1>2, <1>3, <1>4 DEF FbInv, ColumnKept, RowKept, OneTooLow

LEMMA RowAbove == \A a, b \in Nat : a < b => a <= b
OBVIOUS

\* A step of one printer keeps the screen in order if the position it leaves is right,
\* or is one that it will put right, or is the one it found and it owed nothing.
LEMMA FbKept ==
    ASSUME FbInv, NEW p \in F!Printers, printing' = printing, x' \in Nat, y' \in Nat,
           printer' \in [F!Printers -> FbPlaces], loaded' \in [F!Printers -> Nat],
           \A q \in F!Printers \ {p} : printer'[q] = printer[q] /\ loaded'[q] = loaded[q],
           p \in printing \cup ScreenHandlers,
           x' < F!max_x \/ Returns(p)' \/ (x' = x /\ ~Returns(p)),
           y' < F!max_y \/ Scrolls(p)' \/ (y' = y /\ ~Scrolls(p)),
           printing = {p} => y' <= F!max_y /\ (printer'[p] = "store y" => loaded'[p] < F!max_y)
    PROVE  FbInv'
<1>1. FbTypes /\ ColumnKept /\ RowKept /\ OneTooLow
  BY DEF FbInv
<1>2. FbTypes'
  BY <1>1, ScreenAssumption DEF FbTypes, F!Printers, ScreenAssumption
<1>3. ColumnKept'
  BY <1>1, ScreenSize DEF ColumnKept, Returns
<1>4. \A q \in F!Printers \ {p} : y' = y /\ Scrolls(q) => Scrolls(q)'
  BY DEF Scrolls, Stored
<1>5. RowKept'
  <2>1. CASE y' < F!max_y \/ Scrolls(p)'
    BY <2>1 DEF RowKept
  <2>2. CASE y' = y /\ ~Scrolls(p)
    BY <1>1, <1>4, <2>2 DEF RowKept
  <2> QED BY <2>1, <2>2
<1>6. OneTooLow'
  <2> SUFFICES ASSUME NEW t \in ScreenUsers, printing = {t}
               PROVE  /\ y' <= F!max_y \/ \E h \in ScreenHandlers : Scrolls(h)'
                      /\ printer'[t] = "store y" => loaded'[t] < F!max_y
    BY DEF OneTooLow, Scrolls, Stored
  <2>1. CASE p = t
    BY <2>1
  <2>2. CASE p # t
    <3>1. p \in ScreenHandlers /\ t \in F!Printers
      BY <2>2 DEF F!Printers
    <3>2. printer'[t] = "store y" => loaded'[t] < F!max_y
      BY <1>1, <2>2, <3>1 DEF OneTooLow
    <3>3. CASE y' < F!max_y
      <4> PICK k : k = F!max_y
        OBVIOUS
      <4>1. k \in Nat /\ y' \in Nat /\ y' < k
        BY <3>3, ScreenSize
      <4>2. y' <= k
        BY <4>1, RowAbove
      <4> QED BY <3>2, <4>2
    <3>5. CASE Scrolls(p)'
      BY <3>1, <3>2, <3>5
    <3>4. CASE y' = y /\ ~Scrolls(p)
      <4>1. y <= F!max_y \/ \E h \in ScreenHandlers : Scrolls(h)
        BY <1>1 DEF OneTooLow
      <4>2. ASSUME NEW h \in ScreenHandlers, Scrolls(h) PROVE Scrolls(h)'
        BY <1>4, <3>4, <4>2 DEF F!Printers
      <4> QED BY <3>2, <3>4, <4>1, <4>2
    <3> QED BY <3>3, <3>4, <3>5
  <2> QED BY <2>1, <2>2
<1> QED BY <1>2, <1>3, <1>5, <1>6 DEF FbInv

\* What it means for a printer to go on.
LEMMA FbGoes ==
    ASSUME FbInv, NEW p \in F!Printers, NEW from, NEW to \in FbPlaces, F!Goes(p, from, to)
    PROVE  /\ printer[p] = from /\ printer' \in [F!Printers -> FbPlaces] /\ printer'[p] = to
           /\ \A q \in F!Printers \ {p} : printer'[q] = printer[q]
           /\ p \in printing \cup ScreenHandlers
           /\ x \in Nat /\ y \in Nat /\ loaded \in [F!Printers -> Nat]
           /\ printing = {p} =>
                 /\ y <= F!max_y
                 /\ from = "store y" => loaded[p] < F!max_y
                 /\ ~Scrolls(p) => y < F!max_y
<1>1. FbTypes /\ RowKept /\ OneTooLow
  BY DEF FbInv
<1>2. /\ printer[p] = from /\ printer' = [printer EXCEPT ![p] = to]
      /\ p \in printing \cup ScreenHandlers
      /\ \A h \in ScreenHandlers \ {p} : printer[h] = "out"
  BY DEF F!Goes
<1>3. ASSUME printing = {p}
      PROVE  /\ y <= F!max_y
             /\ from = "store y" => loaded[p] < F!max_y
             /\ ~Scrolls(p) => y < F!max_y
  <2>1. p \in ScreenUsers /\ p \notin ScreenHandlers
    BY <1>1, <1>3, ScreenAssumption DEF FbTypes, ScreenAssumption
  <2>2. \A q \in F!Printers \ {p} : ~Scrolls(q)
    BY <1>1, <1>2, <1>3, <2>1 DEF FbTypes, F!Printers, Scrolls, Stored
  <2>3. \A h \in ScreenHandlers : ~Scrolls(h)
    BY <2>1, <2>2 DEF F!Printers
  <2> QED BY <1>1, <1>2, <1>3, <2>1, <2>2, <2>3 DEF RowKept, OneTooLow
<1> QED BY <1>1, <1>2, <1>3 DEF FbTypes

\* The steps that leave the position as it is.
LEMMA FbMoves ==
    ASSUME FbInv, NEW p \in F!Printers,
           \/ F!carriage_return(p) \/ F!line_feed(p) \/ F!draw_glyph(p) \/ F!load_x(p)
           \/ F!scroll_up(p) \/ F!fbcon_flush(p) \/ F!first_column(p)
    PROVE  FbInv'
<1>1. PICK from, to \in FbPlaces :
         /\ F!Goes(p, from, to) /\ to # "store y"
         /\ (from \in {"out", "load x", "scroll", "flush"} \/ (from = "return" /\ to = "bottom"))
         /\ ((x' = x /\ from # "return") \/ x' = 0)
         /\ y' = y /\ printing' = printing
         /\ (loaded' = loaded \/ (from = "load x" /\ loaded' = [loaded EXCEPT ![p] = x]))
  BY DEF F!carriage_return, F!line_feed, F!draw_glyph, F!load_x, F!scroll_up, F!fbcon_flush,
         F!first_column, FbPlaces
<1>2. /\ printer[p] = from /\ printer' \in [F!Printers -> FbPlaces] /\ printer'[p] = to
      /\ \A q \in F!Printers \ {p} : printer'[q] = printer[q]
      /\ p \in printing \cup ScreenHandlers
      /\ x \in Nat /\ y \in Nat /\ loaded \in [F!Printers -> Nat]
      /\ printing = {p} => y <= F!max_y
  BY <1>1, FbGoes
<1>3. /\ loaded' \in [F!Printers -> Nat]
      /\ \A q \in F!Printers \ {p} : loaded'[q] = loaded[q]
      /\ from = "return" => loaded' = loaded
  BY <1>1, <1>2
<1>4. x' < F!max_x \/ Returns(p)' \/ (x' = x /\ ~Returns(p))
  <2>1. CASE x' = x /\ from # "return"
    <3>1. ~Returns(p)
      BY <1>1, <1>2, <2>1 DEF Returns
    <3> QED BY <2>1, <3>1
  <2>2. CASE x' = 0
    <3>1. 0 < F!max_x
      BY ScreenSize
    <3> QED BY <2>2, <3>1
  <2> QED BY <1>1, <2>1, <2>2
<1>5. y' < F!max_y \/ Scrolls(p)' \/ (y' = y /\ ~Scrolls(p))
  <2>1. CASE from = "return"
    <3>1. loaded'[p] = loaded[p] /\ y' = y /\ printer[p] = "return" /\ printer'[p] = "bottom"
      BY <1>1, <1>2, <1>3, <2>1
    <3> QED BY <3>1 DEF Scrolls, Stored
  <2>2. CASE from # "return"
    <3>1. ~Scrolls(p)
      BY <1>1, <1>2, <2>2 DEF Scrolls, Stored
    <3> QED BY <1>1, <3>1
  <2> QED BY <2>1, <2>2
<1>6. x' \in Nat /\ y' \in Nat /\ printing' = printing
  <2>1. x' \in Nat
    <3>1. CASE x' = x
      BY <1>2, <3>1
    <3>2. CASE x' = 0
      BY <3>2
    <3> QED BY <1>1, <3>1, <3>2
  <2>2. y' = y /\ printing' = printing
    BY <1>1
  <2>3. y' \in Nat
    BY <1>2, <2>2
  <2> QED BY <2>1, <2>2, <2>3
<1>7. printing = {p} => y' <= F!max_y /\ (printer'[p] = "store y" => loaded'[p] < F!max_y)
  BY <1>1, <1>2

<1> QED BY <1>2, <1>3, <1>4, <1>5, <1>6, <1>7, FbKept

LEMMA FbColumn ==
    ASSUME FbInv, NEW p \in F!Printers, F!store_x(p) \/ F!line_full(p)
    PROVE  FbInv'
<1>1. loaded \in [F!Printers -> Nat] /\ x \in Nat /\ loaded[p] \in Nat /\ loaded[p] + 1 \in Nat
  BY DEF FbInv, FbTypes
<1>2. CASE F!store_x(p)
  <2> DEFINE next == loaded[p] + 1
  <2>1. /\ F!Goes(p, "store x", "drawn") /\ x' = next /\ y' = y /\ printing' = printing
        /\ loaded' = [loaded EXCEPT ![p] = next]
    BY <1>2 DEF F!store_x
  <2>0. next \in Nat
    BY <1>1
  <2>2. /\ printer[p] = "store x" /\ printer' \in [F!Printers -> FbPlaces]
        /\ printer'[p] = "drawn"
        /\ \A q \in F!Printers \ {p} : printer'[q] = printer[q]
        /\ p \in printing \cup ScreenHandlers /\ y \in Nat
        /\ printing = {p} => y <= F!max_y
    BY <2>1, FbGoes DEF FbPlaces
  <2>3. /\ loaded' \in [F!Printers -> Nat] /\ loaded'[p] = x' /\ x' \in Nat
        /\ \A q \in F!Printers \ {p} : loaded'[q] = loaded[q]
    <3> HIDE DEF next
    <3> QED BY <1>1, <2>0, <2>1
  <2>4. Returns(p)' /\ ~Scrolls(p)
    BY <2>2, <2>3 DEF Returns, Scrolls, Stored
  <2> QED BY <2>1, <2>2, <2>3, <2>4, FbKept
<1>3. CASE F!line_full(p)
  <2>1. PICK col \in {x, loaded[p]} :
           F!Goes(p, "drawn", IF col < F!max_x THEN "out" ELSE "newline")
    BY <1>3 DEF F!line_full, F!Tests
  <2> DEFINE to == IF col < F!max_x THEN "out" ELSE "newline"
  <2>2. /\ x' = x /\ y' = y /\ printing' = printing /\ loaded' = [loaded EXCEPT ![p] = 0]
        /\ to \in FbPlaces /\ to # "store y"
    BY <1>3 DEF F!line_full, FbPlaces
  <2>3. /\ printer[p] = "drawn" /\ printer' \in [F!Printers -> FbPlaces] /\ printer'[p] = to
        /\ \A q \in F!Printers \ {p} : printer'[q] = printer[q]
        /\ p \in printing \cup ScreenHandlers /\ y \in Nat
        /\ printing = {p} => y <= F!max_y
    BY <2>1, <2>2, FbGoes
  <2>4. /\ loaded' \in [F!Printers -> Nat]
        /\ \A q \in F!Printers \ {p} : loaded'[q] = loaded[q]
    BY <1>1, <2>2
  <2>5. x' < F!max_x \/ Returns(p)' \/ (x' = x /\ ~Returns(p))
    <3>1. CASE col < F!max_x
      BY <2>2, <2>3, <3>1 DEF Returns
    <3>2. CASE ~ (col < F!max_x)
      BY <2>3, <3>2 DEF Returns
    <3> QED BY <3>1, <3>2
  <2>6. ~Scrolls(p)
    BY <2>3 DEF Scrolls, Stored
  <2> HIDE DEF to
  <2> QED BY <1>1, <2>2, <2>3, <2>4, <2>5, <2>6, FbKept
<1> QED BY <1>2, <1>3

LEMMA FbRow ==
    ASSUME FbInv, NEW p \in F!Printers, F!load_y(p) \/ F!store_y(p) \/ F!bottom(p) \/ F!last_row(p)
    PROVE  FbInv'
<1>1. /\ loaded \in [F!Printers -> Nat] /\ x \in Nat /\ y \in Nat
      /\ loaded[p] \in Nat /\ loaded[p] + 1 \in Nat
      /\ x' = x /\ printing' = printing
  <2>1. x' = x /\ printing' = printing
    BY DEF F!load_y, F!store_y, F!bottom, F!last_row
  <2> QED BY <2>1 DEF FbInv, FbTypes
<1>2. CASE F!load_y(p)
  <2>1. /\ F!Goes(p, "newline", "store y") /\ y' = y /\ loaded' = [loaded EXCEPT ![p] = y]
    BY <1>2 DEF F!load_y
  <2>2. /\ printer[p] = "newline" /\ printer' \in [F!Printers -> FbPlaces]
        /\ printer'[p] = "store y"
        /\ \A q \in F!Printers \ {p} : printer'[q] = printer[q]
        /\ p \in printing \cup ScreenHandlers
        /\ printing = {p} => y <= F!max_y /\ (~Scrolls(p) => y < F!max_y)
    BY <2>1, FbGoes DEF FbPlaces
  <2>3. /\ loaded' \in [F!Printers -> Nat] /\ loaded'[p] = y
        /\ \A q \in F!Printers \ {p} : loaded'[q] = loaded[q]
    BY <1>1, <2>1
  <2>4. Returns(p)' /\ ~Scrolls(p)
    BY <2>2 DEF Returns, Scrolls, Stored
  <2> QED BY <1>1, <2>1, <2>2, <2>3, <2>4, FbKept
<1>3. CASE F!store_y(p)
  <2> DEFINE next == loaded[p] + 1
  <2>1. /\ F!Goes(p, "store y", "return") /\ y' = next
        /\ loaded' = [loaded EXCEPT ![p] = next]
    BY <1>3 DEF F!store_y
  <2>0. next \in Nat
    BY <1>1
  <2>2. /\ printer[p] = "store y" /\ printer' \in [F!Printers -> FbPlaces]
        /\ printer'[p] = "return"
        /\ \A q \in F!Printers \ {p} : printer'[q] = printer[q]
        /\ p \in printing \cup ScreenHandlers
        /\ printing = {p} => loaded[p] < F!max_y
    BY <2>1, FbGoes DEF FbPlaces
  <2>3. /\ loaded' \in [F!Printers -> Nat] /\ loaded'[p] = y' /\ y' \in Nat
        /\ \A q \in F!Printers \ {p} : loaded'[q] = loaded[q]
    <3> HIDE DEF next
    <3> QED BY <1>1, <2>0, <2>1
  <2>4. Returns(p)' /\ Scrolls(p)'
    BY <2>2, <2>3 DEF Returns, Scrolls, Stored
  <2>5. printing = {p} => y' <= F!max_y
    <3> SUFFICES ASSUME printing = {p} PROVE y' <= F!max_y
      OBVIOUS
    <3> PICK k : k = F!max_y
      OBVIOUS
    <3>1. loaded[p] < k /\ y' = loaded[p] + 1 /\ loaded[p] \in Nat /\ k \in Nat
      BY <1>1, <2>1, <2>2, ScreenSize
    <3>2. y' <= k
      BY <3>1
    <3> QED BY <3>2
  <2> QED BY <1>1, <2>1, <2>2, <2>3, <2>4, <2>5, FbKept
<1>4. CASE F!bottom(p)
  <2>1. PICK row \in {y, loaded[p]} :
           F!Goes(p, "bottom", IF row >= F!max_y THEN "last row" ELSE "flush")
    BY <1>4 DEF F!bottom, F!Tests
  <2> DEFINE to == IF row >= F!max_y THEN "last row" ELSE "flush"
  <2>2. /\ y' = y /\ loaded' = [loaded EXCEPT ![p] = 0] /\ to \in FbPlaces /\ to # "store y"
    BY <1>4 DEF F!bottom, FbPlaces
  <2>3. /\ printer[p] = "bottom" /\ printer' \in [F!Printers -> FbPlaces] /\ printer'[p] = to
        /\ \A q \in F!Printers \ {p} : printer'[q] = printer[q]
        /\ p \in printing \cup ScreenHandlers
        /\ printing = {p} => y <= F!max_y
    BY <2>1, <2>2, FbGoes
  <2>4. /\ loaded' \in [F!Printers -> Nat]
        /\ \A q \in F!Printers \ {p} : loaded'[q] = loaded[q]
    BY <1>1, <2>2
  <2>5. y' < F!max_y \/ Scrolls(p)' \/ (y' = y /\ ~Scrolls(p))
    <3>1. CASE row >= F!max_y
      BY <2>3, <3>1 DEF Scrolls
    <3>2. CASE ~ (row >= F!max_y)
      <4>1. Scrolls(p) => y < F!max_y
        BY <1>1, <2>3, <3>2, ScreenSize DEF Scrolls, Stored
      <4> QED BY <2>2, <4>1
    <3> QED BY <3>1, <3>2
  <2>6. ~Returns(p)
    BY <2>3 DEF Returns
  <2> HIDE DEF to
  <2> QED BY <1>1, <2>2, <2>3, <2>4, <2>5, <2>6, FbKept
<1>5. CASE F!last_row(p)
  <2>1. F!Goes(p, "last row", "scroll") /\ y' = F!max_y - 1 /\ loaded' = loaded
    BY <1>5 DEF F!last_row
  <2>2. /\ printer[p] = "last row" /\ printer' \in [F!Printers -> FbPlaces]
        /\ printer'[p] = "scroll"
        /\ \A q \in F!Printers \ {p} : printer'[q] = printer[q]
        /\ p \in printing \cup ScreenHandlers
    BY <2>1, FbGoes DEF FbPlaces
  <2>3. y' \in Nat /\ y' < F!max_y /\ y' <= F!max_y
    <3> PICK k : k = F!max_y
      OBVIOUS
    <3>1. k \in Nat /\ k >= 1 /\ y' = k - 1
      BY <2>1, ScreenSize
    <3> QED BY <3>1
  <2>4. ~Returns(p)
    BY <2>2 DEF Returns
  <2> QED BY <1>1, <2>1, <2>2, <2>3, <2>4, FbKept
<1> QED BY <1>2, <1>3, <1>4, <1>5

LEMMA NextFb == FbInv /\ [F!FbconNext]_screen => FbInv'
<1> SUFFICES ASSUME FbInv, [F!FbconNext]_screen PROVE FbInv'
  OBVIOUS
<1>1. CASE UNCHANGED screen
  BY <1>1 DEF screen, FbInv, FbTypes, ColumnKept, Returns, RowKept, OneTooLow, Scrolls, Stored
<1> QED BY <1>1, FbMoves, FbColumn, FbRow DEF F!FbconNext

-----------------------------------------------------------------------------
(* The command line                                                        *)

Chars == L!Keys \cup {L!Nul}

LineTypes ==
    /\ buffer \in Seq(Chars) /\ args \in Seq(Nat)
    /\ pos \in Nat /\ arg \in Nat /\ escape_level \in {0, 1, 2}
    /\ Len(buffer) <= BufferSize
    /\ doing \in {"read", "end", "tokenize", "match", "run"}
    /\ scan \in {"INITIAL", "IN_TOKEN", "IN_SPACE"}

\* A key that is read finds room for itself and, behind the line, for its end; a
\* word that starts finds room in the array.
RoomInLine ==
    /\ doing \in {"read", "end"} => /\ pos <= Len(buffer)
                                    /\ arg = 0 /\ args = <<>> /\ scan = "INITIAL"
    /\ doing = "read" => pos < BufferSize - 1
    /\ doing = "end" => pos <= BufferSize - 1
    /\ doing = "tokenize" =>
          /\ arg < MaxArgs
          /\ IF scan = "IN_TOKEN" THEN Len(args) = arg + 1 ELSE Len(args) = arg
    /\ Len(args) <= MaxArgs

LineInv == LineTypes /\ RoomInLine

LEMMA PutFits ==
    ASSUME NEW S, NEW s \in Seq(S), NEW i \in Nat, i <= Len(s), NEW c \in S
    PROVE  L!Put(s, i, c) \in Seq(S) /\ Len(L!Put(s, i, c)) = i + 1
<1>1. SubSeq(s, 1, i) \in Seq(S) /\ Len(SubSeq(s, 1, i)) = i
  OBVIOUS
<1> QED BY <1>1 DEF L!Put

LEMMA InitLine == L!ConsoleInit => LineInv
BY LineAssumption
   DEF LineAssumption, L!ConsoleInit, LineInv, LineTypes, RoomInLine, Chars

\* The keys: a character goes to the end of the line, if there is one.
LEMMA NextKey ==
    ASSUME LineInv, NEW c \in L!Keys, L!key(c)
    PROVE  LineInv'
<1>1. BufferSize \in Nat /\ BufferSize >= 2
  BY LineAssumption DEF LineAssumption
<1>2. /\ doing = "read" /\ UNCHANGED <<scan, arg, args>>
      /\ doing' = "read" \/ doing' = "end"
      /\ doing' = "read" => ~L!TooLong(pos')
  BY DEF L!key, L!reading
<1>3. /\ \/ UNCHANGED <<buffer, pos>>
         \/ \E ch \in L!Keys : L!insert(ch)
         \/ L!rub_out
      /\ escape_level' \in {0, 1, 2}
  <2>1. " " \in L!Keys
    BY DEF L!Keys
  <2>2. escape_level \in {0, 1, 2}
    BY DEF LineInv, LineTypes
  <2>3. CASE escape_level = 0
    <3>1. CASE c = "newline"
      BY <2>3, <3>1 DEF L!key
    <3>2. CASE c = "delete"
      BY <2>3, <3>2 DEF L!key
    <3>3. CASE c = "escape"
      BY <2>3, <3>3 DEF L!key
    <3>4. CASE c \notin {"newline", "delete", "escape"}
      BY <2>3, <3>4 DEF L!key
    <3> QED BY <3>1, <3>2, <3>3, <3>4
  <2>4. CASE escape_level = 1
    BY <2>4 DEF L!key
  <2>5. CASE escape_level = 2
    <3>1. CASE c = "67"
      BY <2>1, <2>5, <3>1 DEF L!key
    <3>2. CASE c = "68"
      BY <2>5, <3>2 DEF L!key
    <3>3. CASE c \notin {"67", "68"}
      BY <2>5, <3>3 DEF L!key
    <3> QED BY <3>1, <3>2, <3>3
  <2> QED BY <2>2, <2>3, <2>4, <2>5
<1>4. buffer \in Seq(Chars) /\ pos \in Nat /\ pos <= Len(buffer) /\ pos < BufferSize - 1
      /\ Len(buffer) <= BufferSize
  BY <1>2 DEF LineInv, LineTypes, RoomInLine
<1>5. /\ buffer' \in Seq(Chars) /\ Len(buffer') <= BufferSize
      /\ pos' \in Nat /\ pos' <= Len(buffer') /\ pos' <= BufferSize - 1
  <2>1. CASE UNCHANGED <<buffer, pos>>
    BY <1>1, <1>4, <2>1
  <2>2. CASE \E ch \in L!Keys : L!insert(ch)
    <3>1. PICK ch \in L!Keys : buffer' = L!Put(buffer, pos, ch) /\ pos' = pos + 1
      BY <2>2 DEF L!insert
    <3>2. ch \in Chars
      BY DEF Chars
    <3>3. buffer' \in Seq(Chars) /\ Len(buffer') = pos + 1
      BY <1>4, <3>1, <3>2, PutFits
    <3> QED BY <1>1, <1>4, <3>1, <3>3
  <2>3. CASE L!rub_out
    <3>1. buffer' = buffer /\ (pos' = pos \/ (pos > 0 /\ pos' = pos - 1))
      BY <2>3 DEF L!rub_out
    <3> QED BY <1>1, <1>4, <3>1
  <2> QED BY <1>3, <2>1, <2>2, <2>3
<1>6. doing' = "read" => pos' < BufferSize - 1
  BY <1>1, <1>2, <1>5 DEF L!TooLong
<1>7. LineTypes'
  BY <1>2, <1>3, <1>5 DEF LineInv, LineTypes
<1>8. RoomInLine'
  BY <1>2, <1>5, <1>6 DEF LineInv, RoomInLine
<1> QED BY <1>7, <1>8 DEF LineInv

LEMMA NextLine == LineInv /\ [L!ConsoleNext]_line => LineInv'
<1> SUFFICES ASSUME LineInv, [L!ConsoleNext]_line PROVE LineInv'
  OBVIOUS
<1>1. LineTypes /\ RoomInLine
  BY DEF LineInv
<1>2. BufferSize \in Nat /\ BufferSize >= 2 /\ MaxArgs \in Nat /\ MaxArgs >= 1
  BY LineAssumption DEF LineAssumption
<1>3. CASE UNCHANGED line
  BY <1>3 DEF line, LineInv, LineTypes, RoomInLine
<1>4. ASSUME NEW c \in L!Keys, L!key(c) PROVE LineInv'
  BY <1>4, NextKey
<1>5. CASE L!line_end
  <2>1. /\ doing = "end" /\ buffer' = L!Put(buffer, L!Ended(pos), L!Nul) /\ pos' = 0
        /\ doing' \in {"read", "tokenize"} /\ UNCHANGED <<scan, arg, args, escape_level>>
    BY <1>5 DEF L!line_end, L!reading
  <2>2. L!Ended(pos) \in Nat /\ L!Ended(pos) <= Len(buffer) /\ L!Ended(pos) + 1 <= BufferSize
    BY <1>1, <1>2, <2>1 DEF LineTypes, RoomInLine, L!Ended, L!TooLong
  <2>3. L!Nul \in Chars
    BY DEF Chars
  <2>4. buffer' \in Seq(Chars) /\ Len(buffer') = L!Ended(pos) + 1
    BY <1>1, <2>1, <2>2, <2>3, PutFits DEF LineTypes
  <2>5. LineTypes'
    BY <1>1, <2>1, <2>2, <2>4 DEF LineTypes
  <2>6. pos' < BufferSize - 1 /\ pos' <= Len(buffer')
    BY <1>2, <2>1, <2>2, <2>4
  <2>7. RoomInLine'
    BY <1>1, <1>2, <2>1, <2>6 DEF RoomInLine
  <2> QED BY <2>5, <2>7 DEF LineInv
<1>6. CASE L!first_char
  <2>1. /\ doing = "tokenize" /\ scan = "INITIAL" /\ UNCHANGED <<buffer, pos, doing, arg, escape_level>>
        /\ \/ scan' = "IN_SPACE" /\ args' = args
           \/ scan' = "IN_TOKEN" /\ args' = Append(args, pos)
    BY <1>6 DEF L!first_char, L!Tokenizing, L!StartsWord
  <2>2. /\ pos \in Nat /\ args \in Seq(Nat) /\ arg \in Nat /\ arg < MaxArgs /\ Len(args) = arg
    BY <1>1, <2>1 DEF LineTypes, RoomInLine
  <2>3. args' \in Seq(Nat) /\ Len(args') <= MaxArgs
        /\ IF scan' = "IN_TOKEN" THEN Len(args') = arg + 1 ELSE Len(args') = arg
    BY <1>2, <2>1, <2>2
  <2>4. LineTypes'
    BY <1>1, <2>1, <2>3 DEF LineTypes
  <2>5. RoomInLine'
    BY <2>1, <2>2, <2>3 DEF RoomInLine
  <2> QED BY <2>4, <2>5 DEF LineInv
<1>7. CASE L!in_token
  <2>1. /\ doing = "tokenize" /\ scan = "IN_TOKEN" /\ args' = args /\ escape_level' = escape_level
        /\ arg' \in {arg, arg + 1}
        /\ doing' \in {"tokenize", "match"}
        /\ pos' \in {pos, pos + 1}
    BY <1>7 DEF L!in_token, L!Tokenizing
  <2>2. buffer' = buffer \/ buffer' = [buffer EXCEPT ![pos + 1] = L!Nul]
    BY <1>7 DEF L!in_token
  <2>3. /\ doing' = "tokenize" => \/ arg' = arg /\ scan' = "IN_TOKEN"
                                  \/ arg' = arg + 1 /\ arg + 1 # MaxArgs /\ scan' = "IN_SPACE"
        /\ scan' \in {"IN_TOKEN", "IN_SPACE"}
    BY <1>7, <2>1 DEF L!in_token, L!word_ends
  <2>4. /\ pos \in Nat /\ args \in Seq(Nat) /\ arg \in Nat /\ arg < MaxArgs
        /\ Len(args) = arg + 1 /\ buffer \in Seq(Chars) /\ Len(buffer) <= BufferSize
    BY <1>1, <2>1 DEF LineTypes, RoomInLine
  <2>5. buffer' \in Seq(Chars) /\ Len(buffer') = Len(buffer)
    <3>1. L!Nul \in Chars
      BY DEF Chars
    <3> QED BY <2>2, <2>4, <3>1
  <2>6. LineTypes'
    <3>1. arg' \in Nat /\ pos' \in Nat
      BY <2>1, <2>4
    <3> QED BY <1>1, <2>1, <2>3, <2>4, <2>5, <3>1 DEF LineTypes
  <2>7. RoomInLine'
    <3>1. CASE doing' = "match"
      BY <1>2, <2>1, <2>4, <3>1 DEF RoomInLine
    <3>2. CASE doing' = "tokenize" /\ arg' = arg /\ scan' = "IN_TOKEN"
      BY <1>2, <2>1, <2>4, <3>2 DEF RoomInLine
    <3>3. CASE doing' = "tokenize" /\ arg' = arg + 1 /\ arg + 1 # MaxArgs /\ scan' = "IN_SPACE"
      <4>1. arg' < MaxArgs /\ Len(args') = arg' /\ Len(args') <= MaxArgs
        BY <1>2, <2>1, <2>4, <3>3
      <4> QED BY <3>3, <4>1 DEF RoomInLine
    <3> QED BY <2>1, <2>3, <3>1, <3>2, <3>3
  <2> QED BY <2>6, <2>7 DEF LineInv
<1>8. CASE L!in_space
  <2>1. /\ doing = "tokenize" /\ scan = "IN_SPACE" /\ UNCHANGED <<buffer, arg, escape_level>>
        /\ pos' \in {pos, pos + 1}
        /\ doing' \in {"tokenize", "match"}
        /\ \/ scan' = "IN_SPACE" /\ args' = args
           \/ scan' = "IN_TOKEN" /\ args' = Append(args, pos)
    BY <1>8 DEF L!in_space, L!Tokenizing, L!StartsWord
  <2>2. /\ pos \in Nat /\ args \in Seq(Nat) /\ arg \in Nat /\ arg < MaxArgs /\ Len(args) = arg
    BY <1>1, <2>1 DEF LineTypes, RoomInLine
  <2>3. args' \in Seq(Nat) /\ Len(args') <= MaxArgs
        /\ IF scan' = "IN_TOKEN" THEN Len(args') = arg + 1 ELSE Len(args') = arg
    BY <1>2, <2>1, <2>2
  <2>4. LineTypes'
    BY <1>1, <2>1, <2>2, <2>3 DEF LineTypes
  <2>5. RoomInLine'
    BY <2>1, <2>2, <2>3 DEF RoomInLine
  <2> QED BY <2>4, <2>5 DEF LineInv
<1>9. CASE L!match
  BY <1>1, <1>9 DEF L!match, LineInv, LineTypes, RoomInLine
<1>10. CASE L!run
  <2>1. /\ doing' = "read" /\ pos' = 0 /\ scan' = "INITIAL" /\ arg' = 0 /\ args' = <<>>
        /\ buffer' = <<>> /\ escape_level' = escape_level
    BY <1>10 DEF L!run
  <2> QED BY <1>1, <1>2, <2>1 DEF LineInv, LineTypes, RoomInLine
<1> QED BY <1>3, <1>4, <1>5, <1>6, <1>7, <1>8, <1>9, <1>10 DEF L!ConsoleNext

LEMMA LineInvFits == LineInv => LineInBounds
BY DEF LineInv, LineTypes, RoomInLine, L!LineFits, LineInBounds

-----------------------------------------------------------------------------
(* I2C                                                                     *)

Devs == [msg : Int, rem : Int, pos : Int, cnt : Int, ret : Int, need_flush : BOOLEAN,
         flush_cnt : Int, unmasked : BOOLEAN]
I2cPlaces == {"out", "notbusy", "recover", "setup", "first", "poll", "end", "clean", "leave"}
Transfers == {I!Read(n) : n \in Nat} \cup {I!Write(n) : n \in Nat}
Callers == [pc : I2cPlaces, msgs : Transfers, tries : Int, timeout : BOOLEAN, rc : Int,
            calls : Int]
Kinds == {"empty", "write", "read", "data", "stop"}

I2cTypes ==
    /\ caller \in Callers /\ dev \in Devs
    /\ sent \in Nat /\ got \in Seq(Nat) /\ rd \in Nat /\ shifted \in Nat
    /\ reg \in [kind : Kinds, last : BOOLEAN] /\ bus \in {"idle", "tx", "rx"}
    /\ error \in BOOLEAN /\ irq \in BOOLEAN /\ held \in BOOLEAN

NMsgs == Len(caller.msgs)
LastMsg == caller.msgs[Len(caller.msgs)]
Working == caller.pc \in {"first", "poll", "end"}

\* The handler's place in the messages of the caller that waits.
InMessages ==
    dev.msg # 0 =>
        /\ Working
        /\ dev.msg \in 1 .. NMsgs /\ dev.msg + dev.rem = NMsgs + 1
        /\ dev.cnt >= 0 /\ dev.pos >= -1
        /\ IF dev.pos < 0 THEN dev.cnt = caller.msgs[dev.msg].len
           ELSE dev.pos + dev.cnt = caller.msgs[dev.msg].len
        /\ IF caller.msgs[dev.msg].rd /\ dev.pos >= 0 THEN Len(got) = dev.pos ELSE got = <<>>

\* What waits in the register is taken by an active bus only, and an interrupt is
\* raised when the register is free.
BusOrder ==
    /\ bus = "idle" \/ irq \/ reg.kind = "empty" => reg = I!Empty
    /\ caller.pc # "out" => dev.unmasked
    /\ caller.pc \in {"setup", "first", "end"} => ~irq \/ (caller.pc = "end" /\ caller.timeout)
    /\ caller.pc \in {"setup", "first"} => bus = "idle"
    /\ Working => dev.msg # 0 /\ (dev.ret = NMsgs \/ dev.ret = -1)
    /\ caller.pc = "first" => /\ dev.msg = 1 /\ dev.pos = -1 /\ dev.flush_cnt = 0
                              /\ ~dev.need_flush /\ dev.ret = NMsgs /\ sent = 0
    /\ caller.pc = "clean" => caller.rc < 0

\* A message that is written.
Sending ==
    /\ rd = 0 /\ dev.pos >= 0 /\ (dev.rem > 1 => dev.cnt > 0)
    /\ CASE reg.kind = "write" -> dev.pos = 0 /\ sent = 0
         [] reg.kind = "data" -> sent = dev.pos - 1
         [] reg.kind = "empty" -> sent = dev.pos
         [] OTHER -> FALSE
    /\ IF reg.kind = "empty" THEN bus = "tx" \/ (bus = "idle" /\ dev.rem = 1 /\ dev.cnt = 0)
       ELSE bus = "tx" /\ reg.last = (dev.rem = 1 /\ dev.cnt = 0)

\* The register's number was written, or waits to be, and the address is next.
Turning ==
    /\ dev.pos = -1 /\ rd = 0 /\ bus = "tx" /\ ~reg.last
    /\ \/ reg.kind = "data" /\ sent = 0
       \/ reg.kind = "empty" /\ sent = 1

GotInOrder == got = [i \in 1 .. dev.pos |-> i]

\* The message that is read.
Receiving ==
    /\ dev.pos >= 0 /\ sent = 1 /\ GotInOrder
    /\ CASE bus = "tx" -> /\ reg.kind = "read" /\ reg.last = (dev.cnt = 0)
                          /\ dev.pos = 0 /\ rd = 0
         [] bus = "rx" -> /\ reg.kind \in {"empty", "stop"}
                          /\ reg.kind = "stop" => rd = 0 /\ dev.cnt <= 1
                          /\ dev.cnt > 0 => rd \in {0, dev.pos + 1}
                          /\ dev.cnt > 0 => shifted = IF rd = 0 THEN dev.pos ELSE dev.pos + 1
         [] bus = "idle" -> dev.cnt = 0 \/ (dev.cnt = 1 /\ rd = dev.pos + 1 /\ irq)

InTransfer ==
    caller.pc = "poll" /\ dev.ret >= 0 =>
        IF error THEN irq
        ELSE IF ~caller.msgs[dev.msg].rd THEN dev.msg = 1 /\ Sending
        ELSE dev.msg = 2 /\ (Turning \/ Receiving)

AllMoved == IF LastMsg.rd THEN sent = 1 /\ got = [i \in 1 .. LastMsg.len |-> i]
            ELSE sent = LastMsg.len

Reported ==
    /\ caller.pc = "end" /\ ~caller.timeout => bus = "idle" /\ (dev.ret >= 0 => AllMoved)
    /\ caller.pc = "leave" /\ caller.rc = NMsgs => bus = "idle" /\ AllMoved

I2cInv == I2cTypes /\ InMessages /\ BusOrder /\ InTransfer /\ Reported

\* A write is one message, and a read one that writes a byte and one that reads.
LEMMA TransferIs ==
    ASSUME caller \in Callers
    PROVE  \E n \in Nat :
              \/ /\ NMsgs = 1 /\ LastMsg = caller.msgs[1]
                 /\ caller.msgs[1] = [rd |-> FALSE, len |-> n]
              \/ /\ NMsgs = 2 /\ LastMsg = caller.msgs[2]
                 /\ caller.msgs[1] = [rd |-> FALSE, len |-> 1]
                 /\ caller.msgs[2] = [rd |-> TRUE, len |-> n]
<1>1. caller.msgs \in Transfers
  BY DEF Callers
<1>2. PICK n \in Nat : caller.msgs = I!Read(n) \/ caller.msgs = I!Write(n)
  BY <1>1 DEF Transfers
<1>3. n \in Nat
  OBVIOUS
<1>4. CASE caller.msgs = I!Read(n)
  <2>1. caller.msgs = <<[rd |-> FALSE, len |-> 1], [rd |-> TRUE, len |-> n]>>
    BY <1>4 DEF I!Read, I!Message
  <2>2. /\ Len(caller.msgs) = 2 /\ caller.msgs[1] = [rd |-> FALSE, len |-> 1]
        /\ caller.msgs[2] = [rd |-> TRUE, len |-> n]
    BY <2>1
  <2>3. NMsgs = 2 /\ LastMsg = caller.msgs[2]
    BY <2>2 DEF NMsgs, LastMsg
  <2> QED BY <1>3, <2>2, <2>3
<1>5. CASE caller.msgs = I!Write(n)
  <2>1. caller.msgs = <<[rd |-> FALSE, len |-> n]>>
    BY <1>5 DEF I!Write, I!Message
  <2>2. Len(caller.msgs) = 1 /\ caller.msgs[1] = [rd |-> FALSE, len |-> n]
    BY <2>1
  <2>3. NMsgs = 1 /\ LastMsg = caller.msgs[1]
    BY <2>2 DEF NMsgs, LastMsg
  <2> QED BY <1>3, <2>2, <2>3
<1> QED BY <1>2, <1>4, <1>5

LEMMA KindsDiffer ==
    /\ I!Empty = [kind |-> "empty", last |-> FALSE]
    /\ \A b \in [kind : Kinds, last : BOOLEAN] :
          b = [kind |-> b.kind, last |-> b.last] /\ (b = I!Empty => b.kind = "empty")
BY DEF I!Empty, I!Byte

\* The controller takes what is put into an empty register, if there is a transfer.
LEMMA PutIs ==
    ASSUME reg = I!Empty, NEW k \in Kinds, NEW l \in BOOLEAN, I!Put([kind |-> k, last |-> l]),
           k = "empty" => l = FALSE
    PROVE  /\ irq' = FALSE /\ error' = error /\ shifted' = shifted
           /\ k = "empty" => reg' = reg /\ bus' = bus
           /\ bus = "idle" /\ k \notin {"read", "write"} => reg' = reg /\ bus' = bus
           /\ bus = "idle" /\ k \in {"read", "write"} =>
                 bus' = "tx" /\ reg' = [kind |-> k, last |-> l]
           /\ bus # "idle" /\ k # "empty" => bus' = bus /\ reg' = [kind |-> k, last |-> l]
<1> DEFINE b == [kind |-> k, last |-> l]
<1>1. b.kind = k /\ b.last = l /\ (b = I!Empty <=> k = "empty")
  BY DEF I!Empty, I!Byte
<1>2. I!Put(b)
  OBVIOUS
<1> HIDE DEF b
<1>3. CASE k = "empty" \/ (bus = "idle" /\ k \notin {"read", "write"})
  BY <1>1, <1>2, <1>3 DEF I!Put
<1>4. CASE k # "empty" /\ ~(bus = "idle" /\ k \notin {"read", "write"})
  <2>1. /\ reg' = b /\ irq' = FALSE
        /\ bus' = IF k \in {"read", "write"} /\ bus = "idle" THEN "tx" ELSE bus
        /\ shifted' = shifted /\ error' = error
    BY <1>1, <1>2, <1>4 DEF I!Put
  <2> QED BY <1>4, <2>1 DEF b
<1> QED BY <1>3, <1>4

\* What the handler writes.
LEMMA FillIs ==
    ASSUME dev \in Devs, dev.pos >= -1, dev.cnt >= 0, NEW m, m = caller.msgs[dev.msg],
           m.rd \in BOOLEAN, m.len \in Nat
    PROVE  /\ I!Filled \in Devs /\ I!Filled.msg = dev.msg /\ I!Filled.rem = dev.rem
           /\ I!Filled.ret = dev.ret /\ I!Filled.unmasked = dev.unmasked
           /\ I!Filled.need_flush = dev.need_flush /\ I!Filled.flush_cnt = dev.flush_cnt
           /\ dev.pos < 0 =>
                 /\ I!Filled.pos = 0 /\ I!Filled.cnt = dev.cnt
                 /\ I!Filling = [kind |-> IF m.rd THEN "read" ELSE "write",
                                 last |-> dev.rem = 1 /\ m.len = 0]
           /\ dev.pos >= 0 /\ (m.rd \/ dev.cnt = 0) => I!Filled = dev /\ I!Filling = I!Empty
           /\ dev.pos >= 0 /\ ~m.rd /\ dev.cnt # 0 =>
                 /\ I!Filled.pos = dev.pos + 1 /\ I!Filled.cnt = dev.cnt - 1
                 /\ I!Filling = [kind |-> "data", last |-> dev.cnt = 1 /\ dev.rem = 1]
<1>1. I!msg(dev) = m
  BY DEF I!msg
<1>2. CASE dev.pos < 0
  <2>1. I!Filled = [dev EXCEPT !.pos = 0]
    BY <1>2 DEF I!Filled
  <2>2. I!Filling = [kind |-> IF m.rd THEN "read" ELSE "write", last |-> dev.rem = 1 /\ m.len = 0]
    BY <1>1, <1>2 DEF I!Filling, I!Byte
  <2> QED BY <1>2, <2>1, <2>2 DEF Devs
<1>3. CASE dev.pos >= 0 /\ (m.rd \/ dev.cnt = 0)
  <2>1. I!Filling = I!Empty
    BY <1>1, <1>3 DEF I!Filling, Devs
  <2>2. I!Filled = dev
    BY <1>3, <2>1 DEF I!Filled, Devs
  <2> QED BY <1>3, <2>1, <2>2 DEF Devs
<1>4. CASE dev.pos >= 0 /\ ~m.rd /\ dev.cnt # 0
  <2>1. I!Filling = [kind |-> "data", last |-> dev.cnt = 1 /\ dev.rem = 1]
    BY <1>1, <1>4 DEF I!Filling, I!Byte, Devs
  <2>2. I!Filling # I!Empty
    BY <2>1 DEF I!Empty, I!Byte
  <2> DEFINE p == dev.pos + 1
             c == dev.cnt - 1
  <2>3. I!Filled = [dev EXCEPT !.pos = p, !.cnt = c]
    BY <1>4, <2>2 DEF I!Filled, Devs
  <2>4. p \in Int /\ c \in Int /\ dev.pos \in Int
    BY DEF Devs
  <2>5. /\ I!Filled \in Devs /\ I!Filled.pos = p /\ I!Filled.cnt = c
        /\ I!Filled.msg = dev.msg /\ I!Filled.rem = dev.rem
        /\ I!Filled.ret = dev.ret /\ I!Filled.unmasked = dev.unmasked
        /\ I!Filled.need_flush = dev.need_flush /\ I!Filled.flush_cnt = dev.flush_cnt
    <3> HIDE DEF p, c
    <3> PICK e : e = I!Filled
      OBVIOUS
    <3>1. e = [dev EXCEPT !.pos = p, !.cnt = c]
      BY <2>3
    <3> QED BY <2>4, <3>1 DEF Devs
  <2> QED BY <1>4, <2>1, <2>4, <2>5
<1> QED BY <1>2, <1>3, <1>4 DEF Devs

\* What it does with a byte that was read.
LEMMA FetchIs ==
    ASSUME NEW d \in Devs, NEW e, e = I!Fetched(d)
    PROVE  /\ e \in Devs /\ e.msg = d.msg /\ e.rem = d.rem /\ e.ret = d.ret
           /\ e.unmasked = d.unmasked
           /\ I!Expected(d) => e.pos = d.pos + 1 /\ e.cnt = d.cnt - 1
           /\ ~I!Expected(d) => e.pos = d.pos /\ e.cnt = d.cnt
<1>1. CASE I!Expected(d)
  <2> DEFINE p == d.pos + 1
             c == d.cnt - 1
             flush == d.need_flush \/ (d.cnt = 1 /\ d.pos = 0)
  <2>1. e = [d EXCEPT !.cnt = c, !.pos = p, !.need_flush = flush]
    BY <1>1 DEF I!Fetched
  <2>2. p \in Int /\ c \in Int /\ flush \in BOOLEAN
    BY DEF Devs
  <2>3. /\ e \in Devs /\ e.msg = d.msg /\ e.rem = d.rem /\ e.ret = d.ret
        /\ e.unmasked = d.unmasked /\ e.pos = p /\ e.cnt = c
    <3> HIDE DEF p, c, flush
    <3> QED BY <2>1, <2>2 DEF Devs
  <2> QED BY <1>1, <2>3
<1>2. CASE ~I!Expected(d) /\ d.need_flush
  <2>1. e = [d EXCEPT !.need_flush = FALSE]
    BY <1>2 DEF I!Fetched
  <2> QED BY <1>2, <2>1 DEF Devs
<1>3. CASE ~I!Expected(d) /\ ~d.need_flush
  <2> DEFINE f == d.flush_cnt + 1
  <2>1. e = [d EXCEPT !.flush_cnt = f]
    BY <1>3 DEF I!Fetched
  <2>2. f \in Int
    BY DEF Devs
  <2>3. /\ e \in Devs /\ e.msg = d.msg /\ e.rem = d.rem /\ e.ret = d.ret
        /\ e.unmasked = d.unmasked /\ e.pos = d.pos /\ e.cnt = d.cnt
    <3> HIDE DEF f
    <3> QED BY <2>1, <2>2 DEF Devs
  <2> QED BY <1>3, <2>3
<1> QED BY <1>1, <1>2, <1>3

\* The next message starts where this one ends.
LEMMA NextIs ==
    ASSUME NEW e \in Devs, NEW f, f = I!NextMessage(e), NEW len \in Int,
           e.rem > 1 => caller.msgs[e.msg + 1].len = len
    PROVE  /\ f \in Devs /\ f.ret = e.ret /\ f.unmasked = e.unmasked
           /\ e.pos >= 0 /\ e.cnt = 0 /\ e.rem > 1 =>
                 f.msg = e.msg + 1 /\ f.rem = e.rem - 1 /\ f.pos = -1 /\ f.cnt = len
           /\ ~(e.pos >= 0 /\ e.cnt = 0 /\ e.rem > 1) => f = e
<1>1. CASE e.pos >= 0 /\ e.cnt = 0 /\ e.rem > 1
  <2> DEFINE next == e.msg + 1
             r == e.rem - 1
  <2>1. f = [e EXCEPT !.rem = r, !.msg = next, !.pos = -1, !.cnt = len]
    BY <1>1 DEF I!NextMessage
  <2>2. next \in Int /\ r \in Int
    BY DEF Devs
  <2>3. /\ f \in Devs /\ f.ret = e.ret /\ f.unmasked = e.unmasked
        /\ f.msg = next /\ f.rem = r /\ f.pos = -1 /\ f.cnt = len
    <3> HIDE DEF next, r
    <3>1. PICK e1 : e1 = [e EXCEPT !.rem = r, !.msg = next]
      OBVIOUS
    <3>2. /\ e1 \in Devs /\ e1.ret = e.ret /\ e1.unmasked = e.unmasked
          /\ e1.msg = next /\ e1.rem = r
      BY <2>2, <3>1 DEF Devs
    <3>3. f = [e1 EXCEPT !.pos = -1, !.cnt = len]
      BY <2>1, <3>1
    <3>4. PICK g, p : g = f /\ p = -1
      OBVIOUS
    <3>5. g = [e1 EXCEPT !.pos = p, !.cnt = len] /\ p \in Int
      BY <3>3, <3>4
    <3>6. PICK e2 : e2 = [e1 EXCEPT !.pos = p]
      OBVIOUS
    <3>7. /\ e2 \in Devs /\ e2.ret = e1.ret /\ e2.unmasked = e1.unmasked
          /\ e2.msg = e1.msg /\ e2.rem = e1.rem /\ e2.pos = p
      BY <3>2, <3>5, <3>6 DEF Devs
    <3>8. g = [e2 EXCEPT !.cnt = len]
      BY <3>5, <3>6
    <3>9. /\ g \in Devs /\ g.ret = e1.ret /\ g.unmasked = e1.unmasked
          /\ g.msg = e1.msg /\ g.rem = e1.rem /\ g.pos = p /\ g.cnt = len
      BY <3>7, <3>8 DEF Devs
    <3> QED BY <3>2, <3>4, <3>9
  <2> QED BY <1>1, <2>3
<1>2. CASE ~(e.pos >= 0 /\ e.cnt = 0 /\ e.rem > 1)
  BY <1>2 DEF I!NextMessage
<1> QED BY <1>1, <1>2

\* The message that the handler is at.
LEMMA MessageIs ==
    ASSUME I2cInv, Working
    PROVE  /\ caller.msgs[dev.msg].rd \in BOOLEAN /\ caller.msgs[dev.msg].len \in Nat
           /\ dev.msg \in 1 .. 2 /\ dev.rem \in 1 .. 2 /\ NMsgs \in 1 .. 2
           /\ dev.msg + dev.rem = NMsgs + 1
           /\ caller.msgs[dev.msg].rd <=> dev.msg = 2
           /\ dev.rem > 1 => /\ dev.msg = 1 /\ caller.msgs[dev.msg].len = 1
                             /\ caller.msgs[dev.msg + 1].len \in Nat
           /\ dev.rem = 1 => LastMsg = caller.msgs[dev.msg]
<1>1. /\ dev.msg # 0 /\ dev.msg \in 1 .. NMsgs /\ dev.msg + dev.rem = NMsgs + 1
      /\ dev.msg \in Int /\ dev.rem \in Int /\ caller \in Callers
  BY DEF I2cInv, I2cTypes, BusOrder, InMessages, Devs
<1>2. PICK n \in Nat :
              \/ /\ NMsgs = 1 /\ LastMsg = caller.msgs[1]
                 /\ caller.msgs[1] = [rd |-> FALSE, len |-> n]
              \/ /\ NMsgs = 2 /\ LastMsg = caller.msgs[2]
                 /\ caller.msgs[1] = [rd |-> FALSE, len |-> 1]
                 /\ caller.msgs[2] = [rd |-> TRUE, len |-> n]
  BY <1>1, TransferIs
<1>3. CASE NMsgs = 1
  <2>1. dev.msg = 1 /\ dev.rem = 1
    BY <1>1, <1>3
  <2>2. caller.msgs[dev.msg] = [rd |-> FALSE, len |-> n] /\ LastMsg = caller.msgs[dev.msg]
    BY <1>2, <1>3, <2>1
  <2>3. ~caller.msgs[dev.msg].rd
    BY <2>2
  <2> QED BY <1>3, <2>1, <2>2, <2>3
<1>4. CASE NMsgs = 2 /\ dev.msg = 1
  <2>1. dev.msg = 1 /\ dev.rem = 2 /\ dev.msg + 1 = 2
    BY <1>1, <1>4
  <2>2. /\ caller.msgs[dev.msg] = [rd |-> FALSE, len |-> 1]
        /\ caller.msgs[dev.msg + 1] = [rd |-> TRUE, len |-> n]
    BY <1>2, <1>4, <2>1
  <2>3. ~caller.msgs[dev.msg].rd /\ caller.msgs[dev.msg].len = 1
        /\ caller.msgs[dev.msg + 1].len = n
    BY <2>2
  <2> QED BY <1>4, <2>1, <2>2, <2>3
<1>5. CASE NMsgs = 2 /\ dev.msg = 2
  <2>1. dev.msg = 2 /\ dev.rem = 1
    BY <1>1, <1>5
  <2>2. caller.msgs[dev.msg] = [rd |-> TRUE, len |-> n] /\ LastMsg = caller.msgs[dev.msg]
    BY <1>2, <1>5, <2>1
  <2>3. caller.msgs[dev.msg].rd
    BY <2>2
  <2> QED BY <1>5, <2>1, <2>2, <2>3
<1> QED BY <1>1, <1>2, <1>3, <1>4, <1>5

Wanted(d) == \/ I!Expected(d) /\ I!StopWanted(d)
             \/ ~I!Expected(d) /\ d.flush_cnt % 2 = 1

\* What the handler does when there is no error and the register is empty.
LEMMA HandlerIs ==
    ASSUME I2cInv, Working, reg = I!Empty, ~error, I!interrupt_locked
    PROVE  \E d, e \in Devs :
              /\ d = I!Filled /\ e = (IF rd > 0 THEN I!Fetched(d) ELSE d)
              /\ dev' = I!NextMessage(e) /\ rd' = 0
              /\ got' = IF rd > 0 /\ I!Expected(d) THEN Append(got, rd) ELSE got
              /\ rd > 0 /\ Wanted(d) =>
                    IF I!Filling # I!Empty THEN I!PutTwice /\ UNCHANGED <<bus, shifted>>
                    ELSE I!Put(I!Byte("stop", TRUE))
              /\ ~(rd > 0 /\ Wanted(d)) => I!Put(I!Filling)
<1>1. /\ dev.msg # 0 /\ dev \in Devs /\ dev.pos >= -1 /\ dev.cnt >= 0
      /\ caller.msgs[dev.msg].rd \in BOOLEAN /\ caller.msgs[dev.msg].len \in Nat
  BY MessageIs DEF I2cInv, I2cTypes, BusOrder, InMessages
<1>2. PICK d : d = I!Filled
  OBVIOUS
<1>3. d \in Devs
  BY <1>1, <1>2, FillIs
<1>4. PICK e : e = IF rd > 0 THEN I!Fetched(d) ELSE d
  OBVIOUS
<1>5. e \in Devs
  BY <1>3, <1>4, FetchIs
<1>6. /\ dev' = I!NextMessage(e) /\ rd' = 0
      /\ got' = IF rd > 0 /\ I!Expected(d) THEN Append(got, rd) ELSE got
      /\ rd > 0 /\ Wanted(d) =>
            IF I!Filling # I!Empty THEN I!PutTwice /\ UNCHANGED <<bus, shifted>>
            ELSE I!Put(I!Byte("stop", TRUE))
      /\ ~(rd > 0 /\ Wanted(d)) => I!Put(I!Filling)
  BY <1>1, <1>2, <1>4 DEF I!interrupt_locked, Wanted
<1> QED BY <1>2, <1>3, <1>4, <1>5, <1>6

\* Whatever the handler finds, it stays within the messages, and the register is
\* taken by an active bus.
LEMMA HandlerKeeps ==
    ASSUME I2cInv, Working, reg = I!Empty, I!interrupt_locked, caller'.msgs = caller.msgs,
           Working'
    PROVE  /\ dev' \in Devs /\ got' \in Seq(Nat) /\ rd' \in Nat /\ shifted' = shifted
           /\ reg' \in [kind : Kinds, last : BOOLEAN] /\ bus' \in {"idle", "tx", "rx"}
           /\ error' \in BOOLEAN /\ irq' \in BOOLEAN
           /\ InMessages' /\ dev'.msg # 0 /\ dev'.ret \in {dev.ret, -1}
           /\ dev'.unmasked = dev.unmasked
           /\ bus' = "idle" \/ irq' \/ reg'.kind = "empty" => reg' = I!Empty
           /\ irq' => error'
<1>1. /\ dev.msg # 0 /\ dev \in Devs /\ dev.pos >= -1 /\ dev.cnt >= 0
      /\ dev.pos \in Int /\ dev.cnt \in Int
      /\ got \in Seq(Nat) /\ rd \in Nat /\ shifted \in Nat
      /\ reg \in [kind : Kinds, last : BOOLEAN] /\ bus \in {"idle", "tx", "rx"}
      /\ error \in BOOLEAN /\ irq \in BOOLEAN
  BY MessageIs DEF I2cInv, I2cTypes, BusOrder, InMessages, Devs
<1>2. InMessages
  BY DEF I2cInv
<1>3. CASE error
  <2>1. /\ dev' = [dev EXCEPT !.ret = -1] /\ irq' = FALSE /\ error' = FALSE
        /\ UNCHANGED <<got, reg, bus, rd, shifted>>
    BY <1>1, <1>3 DEF I!interrupt_locked
  <2>2. /\ dev' \in Devs /\ dev'.ret = -1 /\ dev'.msg = dev.msg /\ dev'.rem = dev.rem
        /\ dev'.pos = dev.pos /\ dev'.cnt = dev.cnt /\ dev'.unmasked = dev.unmasked
    <3> PICK p : p = -1
      OBVIOUS
    <3>1. p \in Int /\ dev' = [dev EXCEPT !.ret = p]
      BY <2>1
    <3> QED BY <1>1, <3>1 DEF Devs
  <2>3. InMessages'
    BY <1>2, <2>1, <2>2 DEF InMessages, NMsgs, Working
  <2> QED BY <1>1, <2>1, <2>2, <2>3
<1>4. CASE ~error
  <2> DEFINE m == caller.msgs[dev.msg]
  <2>1. PICK d, e \in Devs :
              /\ d = I!Filled /\ e = (IF rd > 0 THEN I!Fetched(d) ELSE d)
              /\ dev' = I!NextMessage(e) /\ rd' = 0
              /\ got' = IF rd > 0 /\ I!Expected(d) THEN Append(got, rd) ELSE got
              /\ rd > 0 /\ Wanted(d) =>
                    IF I!Filling # I!Empty THEN I!PutTwice /\ UNCHANGED <<bus, shifted>>
                    ELSE I!Put(I!Byte("stop", TRUE))
              /\ ~(rd > 0 /\ Wanted(d)) => I!Put(I!Filling)
    BY <1>4, HandlerIs
  <2>2. m.rd \in BOOLEAN /\ m.len \in Nat /\ (m.rd <=> dev.msg = 2)
    BY MessageIs
  <2> HIDE DEF m
  <2>3. /\ d.msg = dev.msg /\ d.rem = dev.rem /\ d.ret = dev.ret /\ d.unmasked = dev.unmasked
        /\ dev.pos < 0 =>
              /\ d.pos = 0 /\ d.cnt = dev.cnt
              /\ I!Filling = [kind |-> IF m.rd THEN "read" ELSE "write",
                              last |-> dev.rem = 1 /\ m.len = 0]
        /\ dev.pos >= 0 /\ (m.rd \/ dev.cnt = 0) => d = dev /\ I!Filling = I!Empty
        /\ dev.pos >= 0 /\ ~m.rd /\ dev.cnt # 0 =>
              /\ d.pos = dev.pos + 1 /\ d.cnt = dev.cnt - 1
              /\ I!Filling = [kind |-> "data", last |-> dev.cnt = 1 /\ dev.rem = 1]
    BY <1>1, <2>1, <2>2, FillIs DEF m
  <2>4. /\ IF dev.pos < 0 THEN dev.cnt = m.len ELSE dev.pos + dev.cnt = m.len
        /\ IF m.rd /\ dev.pos >= 0 THEN Len(got) = dev.pos ELSE got = <<>>
    BY <1>1, <1>2 DEF InMessages, m
  <2>5. /\ d.pos >= 0 /\ d.cnt >= 0 /\ d.pos + d.cnt = m.len
        /\ IF m.rd THEN Len(got) = d.pos ELSE got = <<>>
    <3>1. CASE dev.pos < 0
      BY <1>1, <2>3, <2>4, <3>1
    <3>2. CASE dev.pos >= 0 /\ (m.rd \/ dev.cnt = 0)
      BY <1>1, <2>3, <2>4, <3>2
    <3>3. CASE dev.pos >= 0 /\ ~m.rd /\ dev.cnt # 0
      BY <1>1, <2>3, <2>4, <3>3
    <3> QED BY <1>1, <3>1, <3>2, <3>3
  <2>6. I!Expected(d) <=> m.rd /\ d.cnt > 0
    BY <2>3, <2>5 DEF I!Expected, I!msg, m
  <2>7. /\ e.msg = d.msg /\ e.rem = d.rem /\ e.ret = d.ret /\ e.unmasked = d.unmasked
        /\ e.pos >= 0 /\ e.cnt >= 0 /\ e.pos + e.cnt = m.len
        /\ IF m.rd THEN Len(got') = e.pos ELSE got' = <<>>
        /\ got' \in Seq(Nat)
    <3>1. d.pos \in Int /\ d.cnt \in Int
      BY DEF Devs
    <3>2. CASE rd = 0
      BY <1>1, <2>1, <2>5, <3>2
    <3>3. CASE rd > 0 /\ I!Expected(d)
      <4>1. /\ e.msg = d.msg /\ e.rem = d.rem /\ e.ret = d.ret /\ e.unmasked = d.unmasked
            /\ e.pos = d.pos + 1 /\ e.cnt = d.cnt - 1 /\ got' = Append(got, rd)
        BY <2>1, <3>3, FetchIs
      <4>2. got' \in Seq(Nat) /\ Len(got') = Len(got) + 1
        BY <1>1, <4>1
      <4>3. m.rd /\ d.cnt > 0
        BY <2>6, <3>3
      <4>4. Len(got) = d.pos
        BY <2>5, <4>3
      <4>5. e.pos >= 0 /\ e.cnt >= 0 /\ e.pos + e.cnt = m.len /\ Len(got') = e.pos
        BY <2>5, <3>1, <4>1, <4>2, <4>3, <4>4
      <4> QED BY <4>1, <4>2, <4>3, <4>5
    <3>4. CASE rd > 0 /\ ~I!Expected(d)
      <4>1. /\ e.msg = d.msg /\ e.rem = d.rem /\ e.ret = d.ret /\ e.unmasked = d.unmasked
            /\ e.pos = d.pos /\ e.cnt = d.cnt /\ got' = got
        BY <2>1, <3>4, FetchIs
      <4> QED BY <1>1, <2>5, <4>1
    <3> QED BY <1>1, <3>2, <3>3, <3>4
  <2>8. /\ dev' \in Devs /\ dev'.ret = dev.ret /\ dev'.unmasked = dev.unmasked
        /\ InMessages' /\ dev'.msg # 0
    <3>1. PICK len \in Int : len = IF dev.rem > 1 THEN caller.msgs[dev.msg + 1].len ELSE 0
      BY MessageIs
    <3>2. /\ dev' \in Devs /\ dev'.ret = e.ret /\ dev'.unmasked = e.unmasked
          /\ e.pos >= 0 /\ e.cnt = 0 /\ e.rem > 1 =>
                /\ dev'.msg = e.msg + 1 /\ dev'.rem = e.rem - 1
                /\ dev'.pos = -1 /\ dev'.cnt = len
          /\ ~(e.pos >= 0 /\ e.cnt = 0 /\ e.rem > 1) => dev' = e
      <4>1. e.rem > 1 => caller.msgs[e.msg + 1].len = len
        BY <2>3, <2>7, <3>1
      <4> QED BY <2>1, <4>1, NextIs
    <3>3. CASE e.pos >= 0 /\ e.cnt = 0 /\ e.rem > 1
      <4>1. /\ dev.msg = 1 /\ dev.rem = 2 /\ NMsgs = 2
            /\ len = caller.msgs[2].len /\ len \in Nat /\ got' = <<>>
        BY <2>2, <2>3, <2>7, <3>1, <3>3, MessageIs
      <4>2. dev'.msg = 2 /\ dev'.rem = 1 /\ dev'.pos = -1 /\ dev'.cnt = caller.msgs[2].len
        BY <2>3, <2>7, <3>2, <3>3, <4>1
      <4> QED BY <2>3, <2>7, <3>2, <4>1, <4>2 DEF InMessages, NMsgs, Working
    <3>4. CASE ~(e.pos >= 0 /\ e.cnt = 0 /\ e.rem > 1)
      <4>1. dev' = e /\ dev'.msg = dev.msg /\ dev'.rem = dev.rem
        BY <2>3, <2>7, <3>2, <3>4
      <4>2. dev.msg \in 1 .. NMsgs /\ dev.msg + dev.rem = NMsgs + 1
        BY <1>1, <1>2 DEF InMessages
      <4>4. /\ dev'.msg \in 1 .. NMsgs /\ dev'.msg + dev'.rem = NMsgs + 1
            /\ dev'.pos >= 0 /\ dev'.cnt >= 0 /\ dev'.pos + dev'.cnt = m.len
            /\ IF m.rd THEN Len(got') = dev'.pos ELSE got' = <<>>
        BY <2>7, <4>1, <4>2
      <4>5. NMsgs' = NMsgs /\ caller'.msgs[dev'.msg] = m
        BY <4>1 DEF NMsgs, m
      <4>6. dev'.pos \in Int /\ ~(dev'.pos < 0) /\ dev'.pos >= -1
        <5>1. dev'.pos \in Int
          BY <3>2 DEF Devs
        <5> QED BY <4>4, <5>1
      <4>3. InMessages'
        BY <4>4, <4>5, <4>6 DEF InMessages
      <4> QED BY <1>1, <2>3, <2>7, <3>2, <4>1, <4>3
    <3> QED BY <3>3, <3>4
  <2>9. I!Filling \in [kind : Kinds, last : BOOLEAN]
        /\ (I!Filling.kind = "empty" => I!Filling.last = FALSE)
    <3>1. CASE dev.pos < 0
      <4>1. PICK l \in BOOLEAN : l = (dev.rem = 1 /\ m.len = 0)
        OBVIOUS
      <4>2. I!Filling = [kind |-> IF m.rd THEN "read" ELSE "write", last |-> l]
        BY <2>3, <3>1, <4>1
      <4> QED BY <4>2 DEF Kinds
    <3>2. CASE dev.pos >= 0 /\ (m.rd \/ dev.cnt = 0)
      <4>1. I!Filling = [kind |-> "empty", last |-> FALSE]
        BY <2>3, <3>2 DEF I!Empty, I!Byte
      <4> QED BY <4>1 DEF Kinds
    <3>3. CASE dev.pos >= 0 /\ ~m.rd /\ dev.cnt # 0
      <4>1. PICK l \in BOOLEAN : l = (dev.cnt = 1 /\ dev.rem = 1)
        OBVIOUS
      <4>2. I!Filling = [kind |-> "data", last |-> l]
        BY <2>3, <3>3, <4>1
      <4> QED BY <4>2 DEF Kinds
    <3>4. dev.pos < 0 \/ dev.pos >= 0
      BY <1>1
    <3> QED BY <3>1, <3>2, <3>3, <3>4, Zenon
  <2>10. \/ /\ reg' = I!Empty /\ error' /\ irq' /\ bus' = bus /\ shifted' = shifted
            /\ error' = TRUE /\ irq' = TRUE
         \/ \E k \in Kinds, l \in BOOLEAN :
               I!Put([kind |-> k, last |-> l]) /\ (k = "empty" => l = FALSE)
    <3>1. CASE rd > 0 /\ Wanted(d) /\ I!Filling # I!Empty
      BY <2>1, <3>1 DEF I!PutTwice
    <3>2. CASE rd > 0 /\ Wanted(d) /\ I!Filling = I!Empty
      BY <2>1, <3>2 DEF I!Byte, Kinds
    <3>3. CASE ~(rd > 0 /\ Wanted(d))
      <4>1. I!Put(I!Filling)
        BY <2>1, <3>3
      <4>2. PICK k \in Kinds, l \in BOOLEAN : I!Filling = [kind |-> k, last |-> l]
        BY <2>9
      <4>3. k = "empty" => l = FALSE
        BY <2>9, <4>2
      <4> QED BY <4>1, <4>2, <4>3
    <3> QED BY <3>1, <3>2, <3>3
  <2>11. /\ reg' \in [kind : Kinds, last : BOOLEAN] /\ bus' \in {"idle", "tx", "rx"}
         /\ error' \in BOOLEAN /\ irq' \in BOOLEAN /\ shifted' = shifted
         /\ bus' = "idle" \/ irq' \/ reg'.kind = "empty" => reg' = I!Empty
         /\ irq' => error'
    <3>1. CASE reg' = I!Empty /\ error' = TRUE /\ irq' = TRUE /\ bus' = bus /\ shifted' = shifted
      BY <1>1, <3>1 DEF I!Empty, I!Byte, Kinds
    <3>2. ASSUME NEW k \in Kinds, NEW l \in BOOLEAN, I!Put([kind |-> k, last |-> l]),
                 k = "empty" => l = FALSE
          PROVE  /\ reg' \in [kind : Kinds, last : BOOLEAN] /\ bus' \in {"idle", "tx", "rx"}
                 /\ error' \in BOOLEAN /\ irq' = FALSE /\ shifted' = shifted
                 /\ bus' = "idle" \/ reg'.kind = "empty" => reg' = I!Empty
      <4>1. /\ irq' = FALSE /\ error' = error /\ shifted' = shifted
            /\ k = "empty" => reg' = reg /\ bus' = bus
            /\ bus = "idle" /\ k \notin {"read", "write"} => reg' = reg /\ bus' = bus
            /\ bus = "idle" /\ k \in {"read", "write"} =>
                 bus' = "tx" /\ reg' = [kind |-> k, last |-> l]
            /\ bus # "idle" /\ k # "empty" => bus' = bus /\ reg' = [kind |-> k, last |-> l]
        BY <3>2, PutIs
      <4> QED BY <1>1, <4>1
    <3> QED BY <2>10, <3>1, <3>2
  <2> QED BY <1>1, <2>1, <2>7, <2>8, <2>11
<1> QED BY <1>3, <1>4

\* The address goes into the register first.
LEMMA HandlerAddresses ==
    ASSUME I2cInv, Working, reg = I!Empty, ~error, I!interrupt_locked, NEW m,
           m = caller.msgs[dev.msg], dev.pos = -1, m.rd => rd = 0 /\ bus = "tx",
           ~m.rd => bus = "idle" /\ dev.flush_cnt = 0
    PROVE  /\ dev'.pos = 0 /\ dev'.cnt = m.len /\ dev'.msg = dev.msg /\ dev'.rem = dev.rem
           /\ dev'.ret = dev.ret
           /\ got' = got /\ rd' = 0 /\ error' = error /\ bus' = "tx"
           /\ reg'.kind = IF m.rd THEN "read" ELSE "write"
           /\ reg'.last = (dev.rem = 1 /\ m.len = 0)
<1>1. /\ dev.msg # 0 /\ dev \in Devs /\ dev.pos >= -1 /\ dev.cnt >= 0
      /\ dev.pos \in Int /\ dev.cnt \in Int /\ dev.rem \in Int /\ rd \in Nat
      /\ m.rd \in BOOLEAN /\ m.len \in Nat /\ dev.cnt = m.len
      /\ dev.rem > 1 => ~m.rd /\ m.len = 1
  BY MessageIs DEF I2cInv, I2cTypes, BusOrder, InMessages, Devs
<1>2. PICK d, e \in Devs :
            /\ d = I!Filled /\ e = (IF rd > 0 THEN I!Fetched(d) ELSE d)
            /\ dev' = I!NextMessage(e) /\ rd' = 0
            /\ got' = IF rd > 0 /\ I!Expected(d) THEN Append(got, rd) ELSE got
            /\ rd > 0 /\ Wanted(d) =>
                  IF I!Filling # I!Empty THEN I!PutTwice /\ UNCHANGED <<bus, shifted>>
                  ELSE I!Put(I!Byte("stop", TRUE))
            /\ ~(rd > 0 /\ Wanted(d)) => I!Put(I!Filling)
  BY HandlerIs
<1>3. PICK l \in BOOLEAN : l = (dev.rem = 1 /\ m.len = 0)
  OBVIOUS
<1>4. /\ d.msg = dev.msg /\ d.rem = dev.rem /\ d.ret = dev.ret /\ d.flush_cnt = dev.flush_cnt
      /\ d.pos = 0 /\ d.cnt = m.len
      /\ I!Filling = [kind |-> IF m.rd THEN "read" ELSE "write", last |-> l]
  BY <1>1, <1>2, <1>3, FillIs
<1>5. rd > 0 => ~I!Expected(d) /\ ~Wanted(d)
  <2> SUFFICES ASSUME rd > 0 PROVE ~I!Expected(d) /\ ~Wanted(d)
    OBVIOUS
  <2>1. ~m.rd /\ d.flush_cnt = 0
    BY <1>1, <1>4
  <2>2. ~I!Expected(d)
    BY <1>4, <2>1 DEF I!Expected, I!msg
  <2>3. d.flush_cnt % 2 = 0
    BY <2>1
  <2> QED BY <2>2, <2>3 DEF Wanted
<1>6. I!Put([kind |-> IF m.rd THEN "read" ELSE "write", last |-> l]) /\ got' = got
  BY <1>2, <1>4, <1>5
<1>7. /\ e.pos = 0 /\ e.cnt = m.len /\ e.msg = dev.msg /\ e.rem = dev.rem /\ e.ret = dev.ret
  <2>1. CASE rd > 0
    BY <1>2, <1>4, <1>5, <2>1, FetchIs
  <2>2. CASE ~(rd > 0)
    BY <1>2, <1>4, <2>2
  <2> QED BY <2>1, <2>2
<1>8. dev' = e
  <2>1. ~(e.pos >= 0 /\ e.cnt = 0 /\ e.rem > 1)
    BY <1>1, <1>7
  <2> QED BY <1>2, <2>1 DEF I!NextMessage
<1>9. CASE m.rd
  <2>1. I!Put([kind |-> "read", last |-> l]) /\ bus = "tx"
    BY <1>6, <1>9
  <2>2. error' = error /\ bus' = bus /\ reg' = [kind |-> "read", last |-> l]
    BY <2>1, PutIs DEF Kinds
  <2> QED BY <1>2, <1>3, <1>6, <1>7, <1>8, <1>9, <2>1, <2>2
<1>10. CASE ~m.rd
  <2>1. I!Put([kind |-> "write", last |-> l]) /\ bus = "idle"
    BY <1>6, <1>10
  <2>2. error' = error /\ bus' = "tx" /\ reg' = [kind |-> "write", last |-> l]
    BY <2>1, PutIs DEF Kinds
  <2> QED BY <1>2, <1>3, <1>6, <1>7, <1>8, <1>10, <2>1, <2>2
<1> QED BY <1>1, <1>9, <1>10

\* Then the bytes of a message that is written, one by one, and behind its last the
\* next message.
LEMMA HandlerSends ==
    ASSUME I2cInv, Working, reg = I!Empty, ~error, I!interrupt_locked, NEW m,
           m = caller.msgs[dev.msg], ~m.rd, Sending, sent' = sent, caller' = caller
    PROVE  /\ dev'.ret = dev.ret /\ error' = error
           /\ \/ dev'.msg = 1 /\ Sending'
              \/ dev'.msg = 2 /\ Turning'
<1>1. /\ dev.msg = 1 /\ dev \in Devs /\ dev.pos >= -1 /\ dev.cnt >= 0
      /\ dev.pos \in Int /\ dev.cnt \in Int /\ dev.rem \in 1 .. 2 /\ rd = 0 /\ dev.pos >= 0
      /\ m.rd \in BOOLEAN /\ m.len \in Nat /\ dev.pos + dev.cnt = m.len
      /\ dev.rem > 1 => m.len = 1 /\ dev.cnt > 0 /\ caller.msgs[dev.msg + 1].len \in Nat
  BY MessageIs DEF I2cInv, I2cTypes, BusOrder, InMessages, Devs, Sending
<1>2. PICK d, e \in Devs :
            /\ d = I!Filled /\ e = (IF rd > 0 THEN I!Fetched(d) ELSE d)
            /\ dev' = I!NextMessage(e) /\ rd' = 0
            /\ got' = IF rd > 0 /\ I!Expected(d) THEN Append(got, rd) ELSE got
            /\ rd > 0 /\ Wanted(d) =>
                  IF I!Filling # I!Empty THEN I!PutTwice /\ UNCHANGED <<bus, shifted>>
                  ELSE I!Put(I!Byte("stop", TRUE))
            /\ ~(rd > 0 /\ Wanted(d)) => I!Put(I!Filling)
  BY HandlerIs
<1>3. e = d /\ I!Put(I!Filling) /\ rd' = 0
  BY <1>1, <1>2
<1>4. sent = dev.pos /\ reg = [kind |-> "empty", last |-> FALSE]
      /\ (bus = "tx" \/ (bus = "idle" /\ dev.rem = 1 /\ dev.cnt = 0))
  BY DEF Sending, I!Empty, I!Byte
<1>5. CASE dev.cnt = 0
  <2>1. d = dev /\ I!Filling = [kind |-> "empty", last |-> FALSE] /\ dev.rem = 1
    BY <1>1, <1>2, <1>5, FillIs DEF I!Empty, I!Byte
  <2>2. dev' = dev
    BY <1>2, <1>3, <2>1 DEF I!NextMessage
  <2>3. error' = error /\ reg' = reg /\ bus' = bus
    BY <1>3, <2>1, PutIs DEF Kinds
  <2>4. Sending'
    BY <1>3, <2>2, <2>3 DEF Sending
  <2> QED BY <1>1, <2>2, <2>3, <2>4
<1>6. CASE dev.cnt # 0
  <2>1. PICK l \in BOOLEAN : l = (dev.cnt = 1 /\ dev.rem = 1)
    OBVIOUS
  <2>2. /\ d.pos = dev.pos + 1 /\ d.cnt = dev.cnt - 1 /\ d.msg = dev.msg /\ d.rem = dev.rem
        /\ d.ret = dev.ret
        /\ I!Filling = [kind |-> "data", last |-> l]
    BY <1>1, <1>2, <1>6, <2>1, FillIs
  <2>3. bus = "tx"
    BY <1>4, <1>6
  <2>4. error' = error /\ bus' = "tx" /\ reg' = [kind |-> "data", last |-> l]
    BY <1>3, <2>2, <2>3, PutIs DEF Kinds
  <2>5. reg'.kind = "data" /\ reg'.last = l
    BY <2>4
  <2>6. CASE dev.rem > 1 /\ d.cnt = 0
    <3>0. dev.pos = 0 /\ d.pos >= 0 /\ d.rem > 1 /\ dev.rem # 1
      <4>1. dev.rem > 1 /\ dev.cnt - 1 = 0 /\ m.len = 1
        BY <1>1, <2>2, <2>6
      <4> QED BY <1>1, <2>2, <4>1
    <3>1. dev.pos = 0 /\ d.pos >= 0 /\ d.rem > 1 /\ ~l
      BY <2>1, <3>0
    <3>2. PICK n \in Int : n = caller.msgs[d.msg + 1].len
      BY <1>1, <2>2, <2>6
    <3>3. dev'.msg = d.msg + 1 /\ dev'.pos = -1 /\ dev'.ret = d.ret
      BY <1>2, <1>3, <2>6, <3>1, <3>2, NextIs
    <3>4. dev'.msg = 2
      BY <1>1, <2>2, <3>3
    <3>5. Turning'
      BY <1>3, <1>4, <2>4, <2>5, <3>1, <3>3 DEF Turning
    <3> QED BY <2>2, <2>4, <3>3, <3>4, <3>5
  <2>7. CASE ~(dev.rem > 1 /\ d.cnt = 0)
    <3>1. dev' = d
      BY <1>2, <1>3, <2>2, <2>7 DEF I!NextMessage
    <3>2. /\ dev'.pos >= 0 /\ (dev'.rem > 1 => dev'.cnt > 0) /\ sent' = dev'.pos - 1
          /\ (l <=> dev'.rem = 1 /\ dev'.cnt = 0)
      <4>1. dev'.pos = dev.pos + 1 /\ dev'.cnt = dev.cnt - 1 /\ dev'.rem = dev.rem
        BY <2>2, <3>1
      <4>2. dev'.pos >= 0 /\ sent' = dev'.pos - 1
        BY <1>1, <1>4, <4>1
      <4>3. dev'.rem > 1 => dev'.cnt > 0
        <5>1. dev'.rem > 1 => dev'.cnt # 0
          BY <2>7, <3>1, <2>2
        <5> QED BY <1>1, <1>6, <4>1, <5>1
      <4>4. dev'.cnt = 0 <=> dev.cnt = 1
        BY <1>1, <4>1
      <4>5. l <=> dev'.rem = 1 /\ dev'.cnt = 0
        BY <2>1, <4>1, <4>4
      <4> QED BY <4>2, <4>3, <4>5
    <3>3. Sending'
      BY <1>3, <2>4, <2>5, <3>2 DEF Sending
    <3> QED BY <1>1, <2>2, <2>4, <3>1, <3>3
  <2> QED BY <2>6, <2>7
<1> QED BY <1>5, <1>6

\* Bytes that are read go to the caller, in order, and behind the last but one the stop
\* is asked for; what the device sends after that is thrown away.
LEMMA HandlerReceives ==
    ASSUME I2cInv, Working, reg = I!Empty, ~error, I!interrupt_locked, NEW m,
           m = caller.msgs[dev.msg], m.rd, Receiving, sent' = sent, caller' = caller
    PROVE  dev'.ret = dev.ret /\ error' = error /\ dev'.msg = 2 /\ Receiving'
<1>1. /\ dev.msg = 2 /\ dev \in Devs /\ dev.pos >= 0 /\ dev.cnt >= 0
      /\ dev.pos \in Int /\ dev.cnt \in Int /\ dev.rem = 1 /\ rd \in Nat /\ m.rd \in BOOLEAN
      /\ m.len \in Nat /\ bus \in {"idle", "tx", "rx"} /\ got \in Seq(Nat) /\ shifted \in Nat
  <2>1. dev.pos >= 0
    BY DEF Receiving
  <2>2. NMsgs \in 1 .. 2 /\ dev.msg + dev.rem = NMsgs + 1 /\ dev.msg = 2 /\ dev.rem \in 1 .. 2
    BY MessageIs
  <2> QED BY <2>1, <2>2, MessageIs DEF I2cInv, I2cTypes, BusOrder, InMessages, Devs
<1>2. PICK d, e \in Devs :
            /\ d = I!Filled /\ e = (IF rd > 0 THEN I!Fetched(d) ELSE d)
            /\ dev' = I!NextMessage(e) /\ rd' = 0
            /\ got' = IF rd > 0 /\ I!Expected(d) THEN Append(got, rd) ELSE got
            /\ rd > 0 /\ Wanted(d) =>
                  IF I!Filling # I!Empty THEN I!PutTwice /\ UNCHANGED <<bus, shifted>>
                  ELSE I!Put(I!Byte("stop", TRUE))
            /\ ~(rd > 0 /\ Wanted(d)) => I!Put(I!Filling)
  BY HandlerIs
<1>3. d = dev /\ I!Filling = I!Empty
  <2>1. dev.pos >= -1
    BY <1>1
  <2> QED BY <1>1, <1>2, <2>1, FillIs
<1>4. reg.kind = "empty" /\ bus # "tx" /\ sent = 1 /\ GotInOrder
  <2>1. reg.kind = "empty"
    BY DEF I!Empty, I!Byte
  <2> QED BY <2>1 DEF Receiving
<1>5. PICK k \in {"empty", "stop"}, l \in BOOLEAN :
         /\ I!Put([kind |-> k, last |-> l]) /\ (k = "empty" => l = FALSE)
         /\ k = "stop" <=> (rd > 0 /\ Wanted(d))
  <2>1. CASE rd > 0 /\ Wanted(d)
    BY <1>2, <1>3, <2>1 DEF I!Byte
  <2>2. CASE ~(rd > 0 /\ Wanted(d))
    BY <1>2, <1>3, <2>2 DEF I!Byte, I!Empty
  <2> QED BY <2>1, <2>2
<1>6. /\ error' = error /\ shifted' = shifted /\ irq' = FALSE /\ bus' = bus
      /\ bus = "idle" \/ k = "empty" => reg' = reg
      /\ bus = "rx" /\ k = "stop" => reg' = [kind |-> k, last |-> l]
  <2>1. k \in Kinds
    BY DEF Kinds
  <2>2. /\ irq' = FALSE /\ error' = error /\ shifted' = shifted
        /\ k = "empty" => reg' = reg /\ bus' = bus
        /\ bus = "idle" /\ k \notin {"read", "write"} => reg' = reg /\ bus' = bus
        /\ bus # "idle" /\ k # "empty" => bus' = bus /\ reg' = [kind |-> k, last |-> l]
    BY <1>5, <2>1, PutIs
  <2> QED BY <2>2
<1>7. reg'.kind \in {"empty", "stop"} /\ (reg'.kind = "stop" => rd > 0 /\ Wanted(d))
  <2>1. reg' = reg \/ (k = "stop" /\ reg' = [kind |-> k, last |-> l])
    BY <1>1, <1>4, <1>6
  <2> QED BY <1>4, <1>5, <2>1
<1>8. dev' = e
  <2>1. e.rem = 1
    BY <1>1, <1>2, <1>3, FetchIs
  <2> QED BY <1>2, <2>1 DEF I!NextMessage
<1>9. I!Expected(dev) <=> dev.cnt > 0
  BY <1>1 DEF I!Expected, I!msg
<1>10. CASE rd > 0 /\ dev.cnt > 0
  <2>1. rd = dev.pos + 1 /\ (bus = "rx" => shifted = dev.pos + 1) /\ (bus = "idle" => dev.cnt = 1)
    <3>1. CASE bus = "rx"
      <4>1. rd \in {0, dev.pos + 1} /\ shifted = IF rd = 0 THEN dev.pos ELSE dev.pos + 1
        BY <1>10, <3>1 DEF Receiving
      <4> QED BY <1>1, <1>10, <3>1, <4>1
    <3>2. CASE bus = "idle"
      <4>1. dev.cnt = 0 \/ (dev.cnt = 1 /\ rd = dev.pos + 1)
        BY <3>2 DEF Receiving
      <4> QED BY <1>1, <1>10, <3>2, <4>1
    <3> QED BY <1>1, <1>4, <3>1, <3>2
  <2>2. /\ dev'.pos = dev.pos + 1 /\ dev'.cnt = dev.cnt - 1 /\ dev'.ret = dev.ret /\ dev'.msg = 2
        /\ got' = Append(got, rd)
    BY <1>1, <1>2, <1>3, <1>8, <1>9, <1>10, FetchIs
  <2>3. GotInOrder'
    <3>1. got = [i \in 1 .. dev.pos |-> i]
      BY <1>4 DEF GotInOrder
    <3>2. Len(got) = dev.pos
      BY <1>1, <3>1
    <3>3. got' = [i \in 1 .. dev'.pos |-> i]
      BY <1>1, <2>1, <2>2, <3>1, <3>2
    <3> QED BY <3>3 DEF GotInOrder
  <2>4. reg'.kind = "stop" => dev'.cnt <= 1
    <3> SUFFICES ASSUME reg'.kind = "stop" PROVE dev'.cnt <= 1
      OBVIOUS
    <3>1. I!StopWanted(dev)
      BY <1>3, <1>7, <1>9, <1>10 DEF Wanted
    <3> QED BY <1>1, <2>2, <3>1 DEF I!StopWanted
  <2>5. dev'.pos \in Int /\ dev'.cnt \in Int /\ dev'.pos >= 0 /\ (bus = "idle" => dev'.cnt = 0)
    BY <1>1, <2>1, <2>2
  <2>6. CASE bus = "rx"
    <3>1. bus' = "rx" /\ rd' = 0 /\ sent' = 1 /\ shifted' = dev'.pos
      BY <1>2, <1>4, <1>6, <2>1, <2>2, <2>6
    <3> QED BY <1>6, <1>7, <2>2, <2>3, <2>4, <2>5, <3>1 DEF Receiving
  <2>7. CASE bus = "idle"
    BY <1>4, <1>6, <2>2, <2>3, <2>5, <2>7 DEF Receiving
  <2> QED BY <1>1, <1>4, <1>6, <2>2, <2>6, <2>7
<1>11. CASE ~(rd > 0 /\ dev.cnt > 0)
  <2>1. /\ dev'.pos = dev.pos /\ dev'.cnt = dev.cnt /\ dev'.ret = dev.ret /\ dev'.msg = 2
        /\ got' = got
    <3>1. CASE rd > 0
      BY <1>1, <1>2, <1>3, <1>8, <1>9, <1>11, <3>1, FetchIs
    <3>2. CASE ~(rd > 0)
      BY <1>1, <1>2, <1>3, <1>8, <3>2
    <3> QED BY <3>1, <3>2
  <2>6. GotInOrder'
    BY <1>4, <2>1 DEF GotInOrder
  <2>2. rd = 0 \/ dev.cnt = 0
    BY <1>1, <1>11
  <2>3. reg'.kind = "stop" => dev'.cnt <= 1
    BY <1>1, <1>7, <2>1, <2>2
  <2>4. CASE bus = "rx"
    <3>1. dev'.cnt > 0 => rd = 0 /\ shifted' = dev'.pos
      BY <1>1, <1>4, <1>6, <2>1, <2>2, <2>4 DEF Receiving
    <3> QED BY <1>1, <1>2, <1>4, <1>6, <1>7, <2>1, <2>3, <2>4, <2>6, <3>1 DEF Receiving
  <2>5. CASE bus = "idle"
    <3>1. dev'.cnt = 0
      BY <1>1, <1>4, <2>1, <2>2, <2>5 DEF Receiving
    <3> QED BY <1>1, <1>4, <1>6, <2>1, <2>5, <2>6, <3>1 DEF Receiving
  <2> QED BY <1>1, <1>4, <1>6, <2>1, <2>4, <2>5
<1> QED BY <1>10, <1>11

LEMMA ReadIsSecond ==
    ASSUME caller \in Callers, NEW k \in 1 .. NMsgs
    PROVE  caller.msgs[k].rd <=> k = 2
<1>1. PICK n \in Nat :
          \/ NMsgs = 1 /\ caller.msgs[1] = [rd |-> FALSE, len |-> n]
          \/ /\ NMsgs = 2 /\ caller.msgs[1] = [rd |-> FALSE, len |-> 1]
             /\ caller.msgs[2] = [rd |-> TRUE, len |-> n]
  BY TransferIs
<1>2. CASE k = 1
  <2>1. ~caller.msgs[1].rd
    BY <1>1
  <2> QED BY <1>2, <2>1
<1>3. CASE k = 2
  <2>1. caller.msgs[2] = [rd |-> TRUE, len |-> n]
    BY <1>1, <1>3
  <2> QED BY <1>3, <2>1
<1>4. k = 1 \/ k = 2
  BY <1>1
<1> QED BY <1>2, <1>3, <1>4

\* The interrupt handler.
LEMMA NextIsr == I2cInv /\ I!msm_i2c_isr => I2cInv'
<1> SUFFICES ASSUME I2cInv, I!msm_i2c_isr PROVE I2cInv'
  OBVIOUS
<1>1. I2cTypes /\ InMessages /\ BusOrder /\ InTransfer /\ Reported
  BY DEF I2cInv
<1>2. irq /\ I!interrupt_locked /\ UNCHANGED <<caller, sent, held, trouble>>
  BY DEF I!msm_i2c_isr
<1>3. reg = I!Empty
  BY <1>1, <1>2 DEF BusOrder
<1>4. CASE dev.msg = 0
  <2>1. irq' = FALSE /\ UNCHANGED <<dev, got, reg, bus, rd, shifted, error>>
    BY <1>2, <1>4 DEF I!interrupt_locked
  <2>2. ~Working
    BY <1>1, <1>4 DEF BusOrder
  <2>3. I2cTypes'
    BY <1>1, <1>2, <2>1 DEF I2cTypes
  <2>4. InMessages'
    BY <1>4, <2>1 DEF InMessages
  <2>5. BusOrder'
    BY <1>1, <1>2, <2>1, <2>2 DEF BusOrder, Working, NMsgs
  <2>6. InTransfer' /\ Reported'
    BY <1>1, <1>2, <2>1, <2>2 DEF InTransfer, Reported, Working, NMsgs, AllMoved, LastMsg
  <2> QED BY <2>3, <2>4, <2>5, <2>6 DEF I2cInv
<1>5. CASE dev.msg # 0
  <2>1. /\ Working /\ caller.pc # "first" /\ caller.pc # "leave"
        /\ caller.pc = "end" => caller.timeout
    BY <1>1, <1>2, <1>5 DEF InMessages, BusOrder, Working
  <2>2. /\ dev' \in Devs /\ got' \in Seq(Nat) /\ rd' \in Nat /\ shifted' = shifted
        /\ reg' \in [kind : Kinds, last : BOOLEAN] /\ bus' \in {"idle", "tx", "rx"}
        /\ error' \in BOOLEAN /\ irq' \in BOOLEAN
        /\ InMessages' /\ dev'.msg # 0 /\ dev'.ret \in {dev.ret, -1}
        /\ dev'.unmasked = dev.unmasked
        /\ bus' = "idle" \/ irq' \/ reg'.kind = "empty" => reg' = I!Empty
        /\ irq' => error'
    BY <1>2, <1>3, <2>1, HandlerKeeps DEF Working
  <2>3. I2cTypes'
    BY <1>1, <1>2, <2>2 DEF I2cTypes
  <2>4. BusOrder'
    <3>1. caller.pc # "out" /\ caller.pc # "setup" /\ caller.pc # "clean"
      BY <2>1 DEF Working
    <3>2. dev'.unmasked /\ (dev'.ret = NMsgs \/ dev'.ret = -1)
      BY <1>1, <2>1, <2>2, <3>1 DEF BusOrder
    <3> QED BY <1>2, <2>1, <2>2, <3>1, <3>2 DEF BusOrder, NMsgs
  <2>5. Reported'
    BY <1>2, <2>1 DEF Reported
  <2>6. InTransfer'
    <3> SUFFICES ASSUME caller.pc = "poll", dev'.ret >= 0
                 PROVE  IF error' THEN irq'
                        ELSE IF ~caller.msgs[dev'.msg].rd THEN dev'.msg = 1 /\ Sending'
                        ELSE dev'.msg = 2 /\ (Turning' \/ Receiving')
      BY <1>2 DEF InTransfer
    <3>1. dev.ret >= 0
      BY <2>2
    <3>2. ~error
      <4> SUFFICES ASSUME error PROVE FALSE
        OBVIOUS
      <4>1. dev' = [dev EXCEPT !.ret = -1] /\ dev \in Devs
        BY <1>1, <1>2, <1>5 DEF I!interrupt_locked, I2cTypes
      <4>2. dev'.ret = -1
        BY <4>1 DEF Devs
      <4> QED BY <4>2
    <3>3. IF ~caller.msgs[dev.msg].rd THEN dev.msg = 1 /\ Sending
          ELSE dev.msg = 2 /\ (Turning \/ Receiving)
      BY <1>1, <3>1, <3>2 DEF InTransfer
    <3>4. caller.msgs[dev'.msg].rd <=> dev'.msg = 2
      <4>1. dev'.msg \in 1 .. NMsgs /\ caller \in Callers
        BY <1>1, <1>2, <2>2 DEF InMessages, NMsgs, I2cTypes
      <4> QED BY <4>1, ReadIsSecond
    <3>5. CASE ~caller.msgs[dev.msg].rd
      <4>1. error' = error /\ ((dev'.msg = 1 /\ Sending') \/ (dev'.msg = 2 /\ Turning'))
        BY <1>2, <1>3, <2>1, <3>2, <3>3, <3>5, HandlerSends
      <4> QED BY <3>2, <3>4, <4>1
    <3>6. CASE caller.msgs[dev.msg].rd /\ Receiving
      <4>1. error' = error /\ dev'.msg = 2 /\ Receiving'
        BY <1>2, <1>3, <2>1, <3>2, <3>6, HandlerReceives
      <4> QED BY <3>2, <3>4, <4>1
    <3>7. CASE caller.msgs[dev.msg].rd /\ Turning
      <4> DEFINE m == caller.msgs[dev.msg]
      <4>1. dev.pos = -1 /\ rd = 0 /\ bus = "tx" /\ sent = 1 /\ dev.msg = 2
        BY <1>3, <3>3, <3>7 DEF Turning, I!Empty, I!Byte
      <4>2. /\ dev'.pos = 0 /\ dev'.cnt = m.len /\ dev'.msg = dev.msg /\ dev'.rem = dev.rem
            /\ got' = got /\ rd' = 0 /\ error' = error /\ bus' = "tx"
            /\ reg'.kind = "read" /\ reg'.last = (dev.rem = 1 /\ m.len = 0)
        <5> HIDE DEF m
        <5>1. m = caller.msgs[dev.msg] /\ m.rd
          BY <3>7 DEF m
        <5> QED BY <1>2, <1>3, <2>1, <3>2, <4>1, <5>1, HandlerAddresses
      <4>3. got = <<>> /\ dev.rem = 1
        <5>1. dev.rem \in 1 .. 2 /\ (dev.rem > 1 => dev.msg = 1)
          BY <2>1, MessageIs
        <5> QED BY <1>1, <1>5, <4>1, <5>1 DEF InMessages
      <4>4. GotInOrder'
        BY <4>2, <4>3 DEF GotInOrder
      <4>5. Receiving'
        BY <1>2, <4>1, <4>2, <4>3, <4>4 DEF Receiving
      <4> QED BY <3>2, <3>4, <4>1, <4>2, <4>5
    <3> QED BY <3>3, <3>5, <3>6, <3>7
  <2> QED BY <2>2, <2>3, <2>4, <2>5, <2>6 DEF I2cInv
<1> QED BY <1>4, <1>5

\* The first byte is written without an interrupt.
LEMMA NextFirst == I2cInv /\ I!first => I2cInv'
<1> SUFFICES ASSUME I2cInv, I!first PROVE I2cInv'
  OBVIOUS
<1>1. I2cTypes /\ InMessages /\ BusOrder /\ InTransfer /\ Reported
  BY DEF I2cInv
<1>2. /\ caller.pc = "first" /\ I!interrupt_locked /\ caller' = [caller EXCEPT !.pc = "poll"]
      /\ UNCHANGED <<sent, held, trouble>>
  BY DEF I!first, I!I2cAt
<1>3. caller' \in Callers /\ caller'.pc = "poll" /\ caller'.msgs = caller.msgs
  BY <1>1, <1>2 DEF I2cTypes, Callers, I2cPlaces
<1>4. /\ Working /\ Working' /\ bus = "idle" /\ reg = I!Empty /\ ~irq
      /\ dev.msg = 1 /\ dev.pos = -1 /\ dev.flush_cnt = 0 /\ sent = 0 /\ dev.ret = NMsgs
      /\ dev.unmasked
  BY <1>1, <1>2, <1>3 DEF BusOrder, Working
<1>5. /\ dev' \in Devs /\ got' \in Seq(Nat) /\ rd' \in Nat /\ shifted' = shifted
      /\ reg' \in [kind : Kinds, last : BOOLEAN] /\ bus' \in {"idle", "tx", "rx"}
      /\ error' \in BOOLEAN /\ irq' \in BOOLEAN
      /\ InMessages' /\ dev'.msg # 0 /\ dev'.ret \in {dev.ret, -1}
      /\ dev'.unmasked = dev.unmasked
      /\ bus' = "idle" \/ irq' \/ reg'.kind = "empty" => reg' = I!Empty
  BY <1>2, <1>3, <1>4, HandlerKeeps
<1>6. I2cTypes'
  BY <1>1, <1>2, <1>3, <1>5 DEF I2cTypes
<1>7. BusOrder'
  BY <1>3, <1>4, <1>5 DEF BusOrder, NMsgs
<1>8. Reported'
  BY <1>3 DEF Reported
<1>9. InTransfer'
  <2> SUFFICES ASSUME dev'.ret >= 0
               PROVE  IF error' THEN irq'
                      ELSE IF ~caller.msgs[dev'.msg].rd THEN dev'.msg = 1 /\ Sending'
                      ELSE dev'.msg = 2 /\ (Turning' \/ Receiving')
    BY <1>3 DEF InTransfer
  <2>1. ~error
    <3> SUFFICES ASSUME error PROVE FALSE
      OBVIOUS
    <3>1. dev' = [dev EXCEPT !.ret = -1] /\ dev \in Devs
      BY <1>1, <1>2, <1>4 DEF I!interrupt_locked, I2cTypes
    <3>2. dev'.ret = -1
      BY <3>1 DEF Devs
    <3> QED BY <3>2
  <2> DEFINE m == caller.msgs[dev.msg]
  <2>2. ~m.rd /\ m.len \in Nat
    BY <1>4, MessageIs
  <2>3. /\ dev'.pos = 0 /\ dev'.cnt = m.len /\ dev'.msg = dev.msg /\ dev'.rem = dev.rem
        /\ rd' = 0 /\ error' = error /\ bus' = "tx"
        /\ reg'.kind = "write" /\ reg'.last = (dev.rem = 1 /\ m.len = 0)
    <3> HIDE DEF m
    <3>1. m = caller.msgs[dev.msg]
      BY DEF m
    <3> QED BY <1>2, <1>4, <2>1, <2>2, <3>1, HandlerAddresses
  <2>4. dev'.rem > 1 => dev'.cnt > 0
    <3>1. dev.rem > 1 => m.len = 1
      BY <1>4, MessageIs
    <3> QED BY <2>2, <2>3, <3>1
  <2>5. Sending'
    BY <1>2, <1>4, <2>3, <2>4 DEF Sending
  <2> QED BY <1>4, <2>1, <2>2, <2>3, <2>5
<1> QED BY <1>5, <1>6, <1>7, <1>8, <1>9 DEF I2cInv

\* The controller shifts a byte out: of a transfer that goes on, one more was taken,
\* and the bus is left behind the last.
LEMMA NextOut == I2cInv /\ I!shift_out => I2cInv'
<1> SUFFICES ASSUME I2cInv, I!shift_out PROVE I2cInv'
  OBVIOUS
<1>1. I2cTypes /\ InMessages /\ BusOrder /\ InTransfer /\ Reported
  BY DEF I2cInv
<1>2. /\ bus # "idle" /\ reg # I!Empty /\ reg.kind # "stop" /\ irq' = TRUE
      /\ reg' = I!Empty /\ UNCHANGED <<caller, dev, got, rd, held>>
  BY DEF I!shift_out, I!Release
<1>3. \/ error' = TRUE /\ UNCHANGED <<sent, shifted>> /\ bus' = "idle"
      \/ /\ error' = error
         /\ sent' = IF reg.kind = "data" THEN sent + 1 ELSE sent
         /\ shifted' = IF reg.kind = "read" THEN 0 ELSE shifted
         /\ bus' = IF reg.last THEN "idle" ELSE IF reg.kind = "read" THEN "rx" ELSE "tx"
  BY DEF I!shift_out, I!Release
<1>4. reg'.kind = "empty" /\ reg'.last = FALSE /\ reg' \in [kind : Kinds, last : BOOLEAN]
  BY <1>2 DEF I!Empty, I!Byte, Kinds
<1>5. I2cTypes'
  <2>1. sent' \in Nat
    BY <1>1, <1>3 DEF I2cTypes
  <2>2. shifted' \in Nat
    BY <1>1, <1>3 DEF I2cTypes
  <2>3. bus' \in {"idle", "tx", "rx"} /\ error' \in BOOLEAN
    BY <1>1, <1>3, Zenon DEF I2cTypes
  <2> QED BY <1>1, <1>2, <1>4, <2>1, <2>2, <2>3 DEF I2cTypes
<1>6. InMessages'
  BY <1>1, <1>2 DEF InMessages, Working, NMsgs
<1>7. /\ caller.pc # "setup" /\ caller.pc # "first"
      /\ caller.pc = "end" => caller.timeout
      /\ ~(caller.pc = "leave" /\ caller.rc = NMsgs)
  BY <1>1, <1>2 DEF BusOrder, Reported
<1>8. BusOrder'
  BY <1>1, <1>2, <1>7 DEF BusOrder, Working, NMsgs
<1>9. Reported'
  BY <1>2, <1>7 DEF Reported, NMsgs
<1>10. InTransfer'
  <2> SUFFICES ASSUME caller.pc = "poll", dev.ret >= 0, ~error'
               PROVE  IF ~caller.msgs[dev.msg].rd THEN dev.msg = 1 /\ Sending'
                      ELSE dev.msg = 2 /\ (Turning' \/ Receiving')
    BY <1>2 DEF InTransfer
  <2>1. /\ ~error
        /\ sent' = IF reg.kind = "data" THEN sent + 1 ELSE sent
        /\ shifted' = IF reg.kind = "read" THEN 0 ELSE shifted
        /\ bus' = IF reg.last THEN "idle" ELSE IF reg.kind = "read" THEN "rx" ELSE "tx"
    BY <1>3
  <2>2. IF ~caller.msgs[dev.msg].rd THEN dev.msg = 1 /\ Sending
        ELSE dev.msg = 2 /\ (Turning \/ Receiving)
    BY <1>1, <2>1 DEF InTransfer
  <2>3. /\ reg.kind # "empty" /\ dev.pos \in Int /\ dev.cnt \in Int /\ dev.cnt >= 0 /\ sent \in Nat
        /\ dev.msg # 0 /\ reg \in [kind : Kinds, last : BOOLEAN] /\ reg.last \in BOOLEAN
    <3>1. reg.kind # "empty"
      BY <1>1, <1>2 DEF BusOrder
    <3>2. Working
      BY DEF Working
    <3> QED BY <1>1, <3>1, <3>2 DEF I2cTypes, BusOrder, InMessages, Devs
  <2>4. CASE ~caller.msgs[dev.msg].rd
    <3>1. /\ rd = 0 /\ dev.pos >= 0 /\ (dev.rem > 1 => dev.cnt > 0)
          /\ (reg.kind = "write" /\ dev.pos = 0 /\ sent = 0) \/ (reg.kind = "data" /\ sent = dev.pos - 1)
          /\ reg.last = (dev.rem = 1 /\ dev.cnt = 0)
      BY <2>2, <2>3, <2>4 DEF Sending
    <3>2. sent' = dev.pos
      BY <2>1, <2>3, <3>1
    <3>3. bus' = "tx" \/ (bus' = "idle" /\ dev.rem = 1 /\ dev.cnt = 0)
      BY <2>1, <3>1
    <3>4. Sending'
      BY <1>2, <1>4, <3>1, <3>2, <3>3 DEF Sending
    <3> QED BY <2>2, <2>4, <3>4
  <2>5. CASE caller.msgs[dev.msg].rd /\ Turning
    <3>1. dev.pos = -1 /\ rd = 0 /\ ~reg.last /\ reg.kind = "data" /\ sent = 0
      BY <2>3, <2>5 DEF Turning
    <3>2. Turning'
      BY <1>2, <1>4, <2>1, <3>1 DEF Turning
    <3> QED BY <2>2, <2>5, <3>2
  <2>6. CASE caller.msgs[dev.msg].rd /\ Receiving
    <3>1. bus = "tx" /\ reg.kind = "read" /\ reg.last = (dev.cnt = 0) /\ dev.pos = 0 /\ rd = 0
      <4>1. bus \in {"idle", "tx", "rx"}
        BY <1>1 DEF I2cTypes
      <4>2. bus # "rx"
        BY <1>2, <2>3, <2>6 DEF Receiving
      <4> QED BY <1>2, <2>6, <4>1, <4>2 DEF Receiving
    <3>2. sent' = sent /\ shifted' = 0 /\ sent = 1 /\ GotInOrder
      BY <2>1, <2>6, <3>1 DEF Receiving
    <3>3. GotInOrder'
      BY <1>2, <3>2 DEF GotInOrder
    <3>4. CASE reg.last
      <4>1. bus' = "idle" /\ dev.cnt = 0
        BY <2>1, <3>1, <3>4
      <4>2. Receiving'
        BY <1>2, <3>1, <3>2, <3>3, <4>1 DEF Receiving
      <4> QED BY <2>2, <2>6, <4>2
    <3>5. CASE ~reg.last
      <4>1. bus' = "rx"
        BY <2>1, <3>1, <3>5
      <4>2. Receiving'
        BY <1>2, <1>4, <3>1, <3>2, <3>3, <4>1 DEF Receiving
      <4> QED BY <2>2, <2>6, <4>2
    <3> QED BY <3>4, <3>5
  <2> QED BY <2>2, <2>4, <2>5, <2>6
<1> QED BY <1>5, <1>6, <1>8, <1>9, <1>10 DEF I2cInv

\* It shifts a byte in, which waits to be fetched.
LEMMA NextShiftIn == I2cInv /\ I!shift_in => I2cInv'
<1> SUFFICES ASSUME I2cInv, I!shift_in PROVE I2cInv'
  OBVIOUS
<1>1. I2cTypes /\ InMessages /\ BusOrder /\ InTransfer /\ Reported
  BY DEF I2cInv
<1>2. /\ bus = "rx" /\ rd = 0 /\ irq' = TRUE /\ rd' = shifted + 1 /\ shifted' = shifted + 1
      /\ reg' = I!Empty /\ UNCHANGED <<caller, dev, sent, got, error, held>>
      /\ bus' = "rx" \/ (bus' = "idle" /\ reg # I!Empty)
  BY DEF I!shift_in, I!Release
<1>3. reg'.kind = "empty" /\ reg'.last = FALSE /\ reg' \in [kind : Kinds, last : BOOLEAN]
  BY <1>2 DEF I!Empty, I!Byte, Kinds
<1>4. I2cTypes'
  <2>1. shifted + 1 \in Nat
    BY <1>1 DEF I2cTypes
  <2> QED BY <1>1, <1>2, <1>3, <2>1 DEF I2cTypes
<1>5. InMessages'
  BY <1>1, <1>2 DEF InMessages, Working, NMsgs
<1>6. /\ caller.pc # "setup" /\ caller.pc # "first"
      /\ caller.pc = "end" => caller.timeout
      /\ ~(caller.pc = "leave" /\ caller.rc = NMsgs)
  BY <1>1, <1>2 DEF BusOrder, Reported
<1>7. BusOrder'
  BY <1>1, <1>2, <1>6 DEF BusOrder, Working, NMsgs
<1>8. Reported'
  BY <1>2, <1>6 DEF Reported, NMsgs
<1>9. InTransfer'
  <2> SUFFICES ASSUME caller.pc = "poll", dev.ret >= 0, ~error
               PROVE  IF ~caller.msgs[dev.msg].rd THEN dev.msg = 1 /\ Sending'
                      ELSE dev.msg = 2 /\ (Turning' \/ Receiving')
    BY <1>2 DEF InTransfer
  <2>1. dev.msg = 2 /\ caller.msgs[dev.msg].rd /\ Receiving
    BY <1>1, <1>2 DEF InTransfer, Sending, Turning
  <2>2. dev.pos \in Int /\ dev.cnt \in Int /\ shifted \in Nat
    BY <1>1 DEF I2cTypes, Devs
  <2>3. /\ dev.pos >= 0 /\ sent = 1 /\ GotInOrder /\ reg.kind \in {"empty", "stop"}
        /\ reg.kind = "stop" => dev.cnt <= 1
        /\ dev.cnt > 0 => shifted = dev.pos
    BY <1>2, <2>1 DEF Receiving
  <2>4. GotInOrder'
    BY <1>2, <2>3 DEF GotInOrder
  <2>5. dev.cnt > 0 => rd' = dev.pos + 1 /\ shifted' = dev.pos + 1
    BY <1>2, <2>2, <2>3
  <2>6. CASE bus' = "rx"
    <3>1. rd' # 0
      BY <1>2, <2>2
    <3> QED BY <1>2, <1>3, <2>1, <2>3, <2>4, <2>5, <2>6, <3>1 DEF Receiving
  <2>7. CASE bus' = "idle" /\ reg # I!Empty
    <3>1. dev.cnt >= 0
      <4>1. Working
        BY DEF Working
      <4> QED BY <1>1, <4>1 DEF BusOrder, InMessages
    <3>2. dev.cnt <= 1
      BY <1>1, <2>3, <2>7 DEF BusOrder
    <3>3. dev.cnt = 0 \/ dev.cnt = 1
      BY <2>2, <3>1, <3>2
    <3> QED BY <1>2, <2>1, <2>2, <2>3, <2>4, <2>5, <2>7, <3>3 DEF Receiving
  <2> QED BY <1>2, <2>6, <2>7
<1> QED BY <1>4, <1>5, <1>7, <1>8, <1>9 DEF I2cInv

\* The caller's steps leave the handler's place alone, but for setup and end.
LEMMA NextCall ==
    I2cInv /\ (\E n \in Lengths : I!msm_i2c_call(I!Read(n)) \/ I!msm_i2c_call(I!Write(n))) => I2cInv'
<1> SUFFICES ASSUME I2cInv, NEW n \in Lengths, NEW m, m \in {I!Read(n), I!Write(n)},
                    I!msm_i2c_call(m)
             PROVE  I2cInv'
  BY Zenon
<1>1. I2cTypes /\ InMessages /\ BusOrder /\ InTransfer /\ Reported
  BY DEF I2cInv
<1> DEFINE r == Retries + 1
           c == caller.calls - 1
<1>2. /\ caller.pc = "out"
      /\ caller' = [caller EXCEPT !.pc = "notbusy", !.msgs = m, !.tries = r, !.calls = c]
      /\ dev' = [dev EXCEPT !.unmasked = TRUE]
      /\ UNCHANGED <<sent, got, reg, bus, rd, shifted, error, irq, held, trouble>>
  BY DEF I!msm_i2c_call, I!I2cAt, I!hardware
<1>3. m \in Transfers /\ r \in Int /\ c \in Int
  BY <1>1, I2cAssumption DEF Transfers, I2cAssumption, I2cTypes, Callers
<1>4. caller' \in Callers /\ caller'.pc = "notbusy"
  <2> HIDE DEF r, c
  <2>1. PICK e : e = [caller EXCEPT !.pc = "notbusy", !.msgs = m]
    OBVIOUS
  <2>2. e \in Callers /\ e.pc = "notbusy"
    BY <1>1, <1>3, <2>1 DEF I2cTypes, Callers, I2cPlaces
  <2>3. caller' = [e EXCEPT !.tries = r, !.calls = c]
    BY <1>2, <2>1
  <2> QED BY <1>3, <2>2, <2>3 DEF Callers
<1>5. dev' \in Devs /\ dev'.unmasked /\ dev'.msg = dev.msg
  BY <1>1, <1>2 DEF I2cTypes, Devs
<1>6. dev.msg = 0
  BY <1>1, <1>2 DEF InMessages, Working
<1>7. I2cTypes'
  BY <1>1, <1>2, <1>4, <1>5 DEF I2cTypes
<1>8. InMessages'
  BY <1>5, <1>6 DEF InMessages
<1>9. BusOrder'
  BY <1>1, <1>2, <1>4, <1>5 DEF BusOrder, Working
<1>10. InTransfer' /\ Reported'
  BY <1>4 DEF InTransfer, Reported
<1> QED BY <1>7, <1>8, <1>9, <1>10 DEF I2cInv

LEMMA NextNotbusy == I2cInv /\ I!notbusy => I2cInv'
<1> SUFFICES ASSUME I2cInv, I!notbusy PROVE I2cInv'
  OBVIOUS
<1>1. I2cTypes /\ InMessages /\ BusOrder /\ InTransfer /\ Reported
  BY DEF I2cInv
<1>2. /\ caller.pc = "notbusy" /\ ~(irq /\ dev.unmasked)
      /\ \/ bus = "idle" /\ caller' = [caller EXCEPT !.pc = "setup"]
         \/ caller' = [caller EXCEPT !.pc = "recover"]
      /\ UNCHANGED <<dev, sent, got, reg, bus, rd, shifted, error, irq, held, trouble>>
  BY DEF I!notbusy, I!I2cAt, I!Mine, I!hardware
<1>3. /\ caller' \in Callers /\ caller'.pc \in {"setup", "recover"}
      /\ caller'.pc = "setup" => bus = "idle"
  BY <1>1, <1>2 DEF I2cTypes, Callers, I2cPlaces
<1>4. dev.msg = 0 /\ dev.unmasked /\ ~irq
  BY <1>1, <1>2 DEF InMessages, BusOrder, Working
<1>5. I2cTypes'
  BY <1>1, <1>2, <1>3 DEF I2cTypes
<1>6. InMessages'
  BY <1>2, <1>4 DEF InMessages
<1>7. BusOrder'
  BY <1>1, <1>2, <1>3, <1>4 DEF BusOrder, Working
<1>8. InTransfer' /\ Reported'
  BY <1>3 DEF InTransfer, Reported
<1> QED BY <1>5, <1>6, <1>7, <1>8 DEF I2cInv

\* A recovery leaves the bus free, or as it was.
LEMMA RecoveredIs ==
    ASSUME I2cTypes, BusOrder, I!Recovered
    PROVE  /\ UNCHANGED <<error, irq>> /\ rd' \in Nat
           /\ reg' \in [kind : Kinds, last : BOOLEAN] /\ bus' \in {"idle", "tx", "rx"}
           /\ bus' = "idle" \/ irq' \/ reg'.kind = "empty" => reg' = I!Empty
<1>1. I!Empty \in [kind : Kinds, last : BOOLEAN]
  BY DEF I!Empty, I!Byte, Kinds
<1>2. reg' = I!Empty \/ (reg' = reg /\ bus' = bus)
  BY DEF I!Recovered
<1>3. UNCHANGED <<error, irq>> /\ rd' \in Nat
  BY DEF I!Recovered, I2cTypes
<1>4. bus' \in {"idle", "tx", "rx"}
  BY DEF I!Recovered, I2cTypes
<1> QED BY <1>1, <1>2, <1>3, <1>4 DEF I2cTypes, BusOrder

LEMMA NextRecover == I2cInv /\ (I!recover \/ I!clean) => I2cInv'
<1> SUFFICES ASSUME I2cInv, I!recover \/ I!clean PROVE I2cInv'
  OBVIOUS
<1>1. I2cTypes /\ InMessages /\ BusOrder /\ InTransfer /\ Reported
  BY DEF I2cInv
<1>2. /\ caller.pc \in {"recover", "clean"} /\ ~(irq /\ dev.unmasked) /\ I!Recovered
      /\ UNCHANGED <<dev, sent, got, shifted, held, trouble>>
  BY DEF I!recover, I!clean, I!I2cAt, I!Mine
<1>3. PICK p : p = -1
  OBVIOUS
<1>4. \/ /\ caller.pc = "recover"
         /\ caller' = [caller EXCEPT !.pc = IF bus' = "idle" THEN "setup" ELSE "leave", !.rc = p]
      \/ caller.pc = "clean" /\ caller' = [caller EXCEPT !.pc = "leave"]
  BY <1>3 DEF I!recover, I!clean, I!I2cAt
<1>5. /\ caller' \in Callers /\ caller'.pc \in {"setup", "leave"}
      /\ caller'.pc = "setup" => bus' = "idle"
      /\ caller'.pc = "leave" => caller'.rc < 0
  <2>1. CASE caller.pc = "recover"
    <3> PICK q \in {"setup", "leave"} : q = IF bus' = "idle" THEN "setup" ELSE "leave"
      OBVIOUS
    <3>1. caller' = [caller EXCEPT !.pc = q, !.rc = p]
      BY <1>4, <2>1
    <3>2. PICK e : e = [caller EXCEPT !.pc = q, !.rc = p]
      OBVIOUS
    <3>3. q \in I2cPlaces /\ p \in Int /\ caller \in Callers
      BY <1>1, <1>3 DEF I2cPlaces, I2cTypes
    <3>4. e \in Callers /\ e.pc = q /\ e.rc = p
      BY <3>2, <3>3 DEF Callers
    <3>5. caller' \in Callers /\ caller'.pc = q /\ caller'.rc = p
      BY <3>1, <3>2, <3>4
    <3> QED BY <1>3, <3>5
  <2>2. CASE caller.pc = "clean"
    <3>1. caller' = [caller EXCEPT !.pc = "leave"] /\ caller.rc < 0
      BY <1>1, <1>4, <2>2 DEF BusOrder
    <3> QED BY <1>1, <3>1 DEF I2cTypes, Callers, I2cPlaces
  <2> QED BY <1>2, <2>1, <2>2
<1>6. dev.msg = 0 /\ dev.unmasked /\ ~irq
  BY <1>1, <1>2 DEF InMessages, BusOrder, Working
<1>7. /\ UNCHANGED <<error, irq>> /\ rd' \in Nat
      /\ reg' \in [kind : Kinds, last : BOOLEAN] /\ bus' \in {"idle", "tx", "rx"}
      /\ bus' = "idle" \/ irq' \/ reg'.kind = "empty" => reg' = I!Empty
  BY <1>1, <1>2, RecoveredIs
<1>8. I2cTypes'
  BY <1>1, <1>2, <1>5, <1>7 DEF I2cTypes
<1>9. InMessages'
  BY <1>2, <1>6 DEF InMessages
<1>10. BusOrder'
  BY <1>1, <1>2, <1>5, <1>6, <1>7 DEF BusOrder, Working
<1>11. InTransfer' /\ Reported'
  <2>1. NMsgs' >= 1
    <3>1. caller' \in Callers
      BY <1>5
    <3>2. caller'.msgs \in Transfers
      BY <3>1 DEF Callers
    <3>3. PICK n \in Nat : caller'.msgs = I!Read(n) \/ caller'.msgs = I!Write(n)
      BY <3>2 DEF Transfers
    <3> PICK ms : ms = caller'.msgs
      OBVIOUS
    <3>4. \/ ms = <<[rd |-> FALSE, len |-> 1], [rd |-> TRUE, len |-> n]>>
          \/ ms = <<[rd |-> FALSE, len |-> n]>>
      BY <3>3 DEF I!Read, I!Write, I!Message
    <3>5. ms = <<[rd |-> FALSE, len |-> 1], [rd |-> TRUE, len |-> n]>> => Len(ms) = 2
      OBVIOUS
    <3>6. ms = <<[rd |-> FALSE, len |-> n]>> => Len(ms) = 1
      OBVIOUS
    <3>7. Len(ms) >= 1
      BY <3>4, <3>5, <3>6
    <3> QED BY <3>7 DEF NMsgs
  <2>2. caller'.rc \in Int
    BY <1>5 DEF Callers
  <2> QED BY <1>5, <2>1, <2>2 DEF InTransfer, Reported
<1> QED BY <1>8, <1>9, <1>10, <1>11 DEF I2cInv

LEMMA NextSetup == I2cInv /\ I!setup => I2cInv'
<1> SUFFICES ASSUME I2cInv, I!setup PROVE I2cInv'
  OBVIOUS
<1>1. I2cTypes /\ InMessages /\ BusOrder /\ InTransfer /\ Reported
  BY DEF I2cInv
<1> PICK p : p = -1
  OBVIOUS
<1> PICK len : len = caller.msgs[1].len
  OBVIOUS
<1> DEFINE N == Len(caller.msgs)
<1>2. /\ caller.pc = "setup" /\ ~(irq /\ dev.unmasked)
      /\ dev' = [dev EXCEPT !.msg = 1, !.rem = N, !.pos = p, !.ret = N, !.need_flush = FALSE,
                            !.flush_cnt = 0, !.cnt = len]
      /\ sent' = 0 /\ got' = <<>>
      /\ caller' = [caller EXCEPT !.pc = "first"]
      /\ UNCHANGED <<reg, bus, rd, shifted, error, irq, held, trouble>>
  BY DEF I!setup, I!I2cAt, I!Mine, I!hardware
<1>3. caller' \in Callers /\ caller'.pc = "first" /\ caller'.msgs = caller.msgs
  BY <1>1, <1>2 DEF I2cTypes, Callers, I2cPlaces
<1>4. len \in Nat /\ N \in 1 .. 2
  <2>1. PICK n \in Nat :
              \/ /\ NMsgs = 1 /\ LastMsg = caller.msgs[1]
                 /\ caller.msgs[1] = [rd |-> FALSE, len |-> n]
              \/ /\ NMsgs = 2 /\ LastMsg = caller.msgs[2]
                 /\ caller.msgs[1] = [rd |-> FALSE, len |-> 1]
                 /\ caller.msgs[2] = [rd |-> TRUE, len |-> n]
    BY <1>1, TransferIs DEF I2cTypes
  <2>2. NMsgs = 1 \/ NMsgs = 2
    BY <2>1
  <2>3. N = NMsgs
    BY DEF NMsgs
  <2>4. len = n \/ len = 1
    BY <2>1
  <2> QED BY <2>2, <2>3, <2>4
<1>5. caller.msgs[1].rd = FALSE
  <2>1. 1 \in 1 .. NMsgs /\ caller.msgs[1].rd \in BOOLEAN
    <3>1. PICK n \in Nat :
                \/ /\ NMsgs = 1 /\ LastMsg = caller.msgs[1]
                   /\ caller.msgs[1] = [rd |-> FALSE, len |-> n]
                \/ /\ NMsgs = 2 /\ LastMsg = caller.msgs[2]
                   /\ caller.msgs[1] = [rd |-> FALSE, len |-> 1]
                   /\ caller.msgs[2] = [rd |-> TRUE, len |-> n]
      BY <1>1, TransferIs DEF I2cTypes
    <3>2. caller.msgs[1] = [rd |-> FALSE, len |-> n] \/ caller.msgs[1] = [rd |-> FALSE, len |-> 1]
      BY <3>1
    <3>3. caller.msgs[1].rd = FALSE
      BY <3>2
    <3>4. N = NMsgs /\ 1 \in 1 .. N
      BY <1>4 DEF NMsgs
    <3> QED BY <3>3, <3>4, Zenon
  <2>2. caller.msgs[1].rd <=> 1 = 2
    BY <1>1, <2>1, ReadIsSecond DEF I2cTypes
  <2> QED BY <2>1, <2>2
<1>6. /\ dev' \in Devs /\ dev'.msg = 1 /\ dev'.rem = N /\ dev'.pos = p /\ dev'.ret = N
      /\ dev'.need_flush = FALSE /\ dev'.flush_cnt = 0 /\ dev'.cnt = len
      /\ dev'.unmasked = dev.unmasked
  <2> HIDE DEF N
  <2> PICK one, zero : one = 1 /\ zero = 0
    OBVIOUS
  <2>0. dev \in Devs /\ p \in Int /\ len \in Int /\ N \in Int /\ one \in Int /\ zero \in Int
    BY <1>1, <1>4 DEF I2cTypes
  <2>1. PICK e1 : e1 = [dev EXCEPT !.msg = one, !.rem = N]
    OBVIOUS
  <2>2. e1 \in Devs /\ e1.msg = one /\ e1.rem = N /\ e1.unmasked = dev.unmasked
    BY <2>0, <2>1 DEF Devs
  <2>3. PICK e2 : e2 = [e1 EXCEPT !.pos = p, !.ret = N]
    OBVIOUS
  <2>4. /\ e2 \in Devs /\ e2.msg = one /\ e2.rem = N /\ e2.unmasked = dev.unmasked
        /\ e2.pos = p /\ e2.ret = N
    BY <2>0, <2>2, <2>3 DEF Devs
  <2>5. PICK e3 : e3 = [e2 EXCEPT !.need_flush = FALSE, !.flush_cnt = zero]
    OBVIOUS
  <2>6. /\ e3 \in Devs /\ e3.msg = one /\ e3.rem = N /\ e3.unmasked = dev.unmasked
        /\ e3.pos = p /\ e3.ret = N /\ e3.need_flush = FALSE /\ e3.flush_cnt = zero
    BY <2>0, <2>4, <2>5 DEF Devs
  <2>7. PICK e4 : e4 = [e3 EXCEPT !.cnt = len]
    OBVIOUS
  <2>8. /\ e4 \in Devs /\ e4.msg = one /\ e4.rem = N /\ e4.unmasked = dev.unmasked
        /\ e4.pos = p /\ e4.ret = N /\ e4.need_flush = FALSE /\ e4.flush_cnt = zero /\ e4.cnt = len
    BY <2>0, <2>6, <2>7 DEF Devs
  <2>9. dev' = e4
    BY <1>2, <2>1, <2>3, <2>5, <2>7
  <2> QED BY <2>8, <2>9
<1>7. I2cTypes'
  BY <1>1, <1>2, <1>3, <1>6 DEF I2cTypes
<1>8. NMsgs' = N /\ caller'.msgs[1].rd = FALSE /\ caller'.msgs[1].len = len
  BY <1>3, <1>5 DEF NMsgs
<1>9. InMessages'
  BY <1>2, <1>3, <1>4, <1>6, <1>8 DEF InMessages, Working
<1>10. BusOrder'
  <2>1. dev.unmasked /\ ~irq /\ bus = "idle"
    BY <1>1, <1>2 DEF BusOrder
  <2> QED BY <1>1, <1>2, <1>3, <1>4, <1>6, <1>8, <2>1 DEF BusOrder
<1>11. InTransfer' /\ Reported'
  BY <1>3 DEF InTransfer, Reported
<1> QED BY <1>7, <1>9, <1>10, <1>11 DEF I2cInv

\* The bus is idle and no interrupt waits: the last byte is where it belongs.
LEMMA NextPoll == I2cInv /\ I!poll => I2cInv'
<1> SUFFICES ASSUME I2cInv, I!poll PROVE I2cInv'
  OBVIOUS
<1>1. I2cTypes /\ InMessages /\ BusOrder /\ InTransfer /\ Reported
  BY DEF I2cInv
<1>2. /\ caller.pc = "poll" /\ ~(irq /\ dev.unmasked)
      /\ \/ bus = "idle" /\ caller' = [caller EXCEPT !.pc = "end", !.timeout = FALSE]
         \/ caller' = [caller EXCEPT !.pc = "end", !.timeout = TRUE]
      /\ UNCHANGED <<dev, sent, got, reg, bus, rd, shifted, error, irq, held, trouble>>
  BY DEF I!poll, I!I2cAt, I!Mine, I!hardware
<1>3. /\ caller' \in Callers /\ caller'.pc = "end" /\ caller'.msgs = caller.msgs
      /\ ~caller'.timeout => bus = "idle"
  BY <1>1, <1>2 DEF I2cTypes, Callers, I2cPlaces
<1>4. Working /\ dev.unmasked /\ ~irq
  BY <1>1, <1>2 DEF BusOrder, Working
<1>5. I2cTypes'
  BY <1>1, <1>2, <1>3 DEF I2cTypes
<1>6. InMessages'
  BY <1>1, <1>2, <1>3 DEF InMessages, Working, NMsgs
<1>7. BusOrder'
  BY <1>1, <1>2, <1>3, <1>4 DEF BusOrder, Working, NMsgs
<1>8. InTransfer'
  BY <1>3 DEF InTransfer
<1>9. Reported'
  <2> SUFFICES ASSUME bus = "idle", dev.ret >= 0 PROVE AllMoved'
    BY <1>2, <1>3 DEF Reported
  <2>1. /\ dev.msg \in 1 .. 2 /\ dev.rem \in 1 .. 2 /\ dev.msg + dev.rem = NMsgs + 1
        /\ dev.rem = 1 => LastMsg = caller.msgs[dev.msg]
        /\ dev.rem > 1 => dev.msg = 1
        /\ caller.msgs[dev.msg].len \in Nat
    BY <1>4, MessageIs
  <2> DEFINE m == caller.msgs[dev.msg]
  <2>2. IF ~m.rd THEN dev.msg = 1 /\ Sending ELSE dev.msg = 2 /\ (Turning \/ Receiving)
    BY <1>1, <1>2, <1>4 DEF InTransfer
  <2>3. dev.pos \in Int /\ dev.cnt \in Int /\ sent \in Nat
    BY <1>1 DEF I2cTypes, Devs
  <2>4. dev.pos >= 0 => dev.pos + dev.cnt = m.len
    BY <1>1, <2>1, <2>3 DEF InMessages
  <2>5. LastMsg' = LastMsg /\ sent' = sent /\ got' = got
    BY <1>2, <1>3 DEF LastMsg
  <2>6. CASE ~m.rd
    <3>1. Sending
      BY <2>2, <2>6
    <3>2. dev.rem = 1 /\ dev.cnt = 0 /\ dev.pos >= 0 /\ reg.kind = "empty"
      BY <3>1 DEF Sending
    <3>3. sent = dev.pos
      BY <3>1, <3>2 DEF Sending
    <3>4. sent = m.len /\ LastMsg = m
      BY <2>1, <2>3, <2>4, <3>2, <3>3
    <3>5. ~LastMsg'.rd /\ sent' = LastMsg'.len
      BY <2>5, <2>6, <3>4
    <3> QED BY <3>5 DEF AllMoved
  <2>7. CASE m.rd
    <3>1. Receiving /\ dev.msg = 2
      BY <2>2, <2>7 DEF Turning
    <3>2. dev.cnt = 0 /\ dev.pos >= 0 /\ sent = 1 /\ GotInOrder
      BY <1>4, <3>1 DEF Receiving
    <3>3. dev.pos = m.len /\ dev.rem = 1
      BY <2>1, <2>3, <2>4, <3>1, <3>2
    <3>4. LastMsg = m
      BY <2>1, <3>3
    <3>5. got = [i \in 1 .. LastMsg.len |-> i]
      BY <3>2, <3>3, <3>4 DEF GotInOrder
    <3>6. LastMsg'.rd /\ sent' = 1 /\ got' = [i \in 1 .. LastMsg'.len |-> i]
      BY <2>5, <2>7, <3>2, <3>4, <3>5
    <3> QED BY <3>6 DEF AllMoved
  <2> QED BY <2>6, <2>7
<1> QED BY <1>5, <1>6, <1>7, <1>8, <1>9 DEF I2cInv

LEMMA NextEnd == I2cInv /\ I!end => I2cInv'
<1> SUFFICES ASSUME I2cInv, I!end PROVE I2cInv'
  OBVIOUS
<1>1. I2cTypes /\ InMessages /\ BusOrder /\ InTransfer /\ Reported
  BY DEF I2cInv
<1> PICK l \in BOOLEAN : l = (caller.timeout \/ dev.ret < 0)
  BY DEF I2cTypes
<1> PICK code : code = IF caller.timeout THEN -2 ELSE dev.ret
  OBVIOUS
<1> PICK q : q = IF l THEN "clean" ELSE "leave"
  OBVIOUS
<1> PICK zero : zero = 0
  OBVIOUS
<1>2. /\ caller.pc = "end"
      /\ caller' = [caller EXCEPT !.rc = code, !.pc = q]
      /\ dev' = [dev EXCEPT !.msg = zero, !.rem = zero, !.pos = zero, !.ret = zero,
                            !.flush_cnt = zero, !.cnt = zero]
      /\ UNCHANGED <<sent, got, reg, bus, rd, shifted, error, irq, held, trouble>>
  BY DEF I!end, I!I2cAt, I!hardware
<1>3. dev.ret \in Int /\ caller \in Callers /\ dev \in Devs /\ code \in Int /\ q \in I2cPlaces
  <2>1. dev.ret \in Int /\ caller \in Callers /\ dev \in Devs
    BY <1>1 DEF I2cTypes, Devs
  <2>2. code = -2 \/ code = dev.ret
    OBVIOUS
  <2>3. code \in Int
    BY <2>1, <2>2
  <2> QED BY <2>1, <2>3 DEF I2cPlaces
<1>4. caller' \in Callers /\ caller'.pc = q /\ caller'.rc = code /\ caller'.msgs = caller.msgs
  <2>1. PICK e : e = [caller EXCEPT !.rc = code, !.pc = q]
    OBVIOUS
  <2>2. e \in Callers /\ e.pc = q /\ e.rc = code /\ e.msgs = caller.msgs
    BY <1>3, <2>1 DEF Callers
  <2>3. caller' = e
    BY <1>2, <2>1
  <2> QED BY <2>2, <2>3
<1>5. dev' \in Devs /\ dev'.msg = zero /\ dev'.unmasked = dev.unmasked
  <2>0. zero \in Int
    OBVIOUS
  <2>1. PICK e1 : e1 = [dev EXCEPT !.msg = zero, !.rem = zero]
    OBVIOUS
  <2>2. e1 \in Devs /\ e1.msg = zero /\ e1.unmasked = dev.unmasked
    BY <1>3, <2>0, <2>1 DEF Devs
  <2>3. PICK e2 : e2 = [e1 EXCEPT !.pos = zero, !.ret = zero]
    OBVIOUS
  <2>4. e2 \in Devs /\ e2.msg = zero /\ e2.unmasked = dev.unmasked
    BY <2>0, <2>2, <2>3 DEF Devs
  <2>5. PICK e3 : e3 = [e2 EXCEPT !.flush_cnt = zero, !.cnt = zero]
    OBVIOUS
  <2>6. e3 \in Devs /\ e3.msg = zero /\ e3.unmasked = dev.unmasked
    BY <2>0, <2>4, <2>5 DEF Devs
  <2>7. dev' = e3
    BY <1>2, <2>1, <2>3, <2>5
  <2> QED BY <2>6, <2>7
<1>6. /\ caller'.pc \in {"clean", "leave"}
      /\ caller'.pc = "clean" => caller'.rc < 0
      /\ caller'.pc = "leave" => bus = "idle" /\ AllMoved
  <2>1. CASE l
    <3>1. caller'.pc = "clean"
      BY <1>4, <2>1
    <3>2. code < 0
      <4>1. CASE caller.timeout
        BY <4>1
      <4>2. CASE ~caller.timeout
        BY <2>1, <4>2
      <4> QED BY <4>1, <4>2
    <3> QED BY <1>4, <3>1, <3>2
  <2>2. CASE ~l
    <3>1. ~caller.timeout /\ ~(dev.ret < 0)
      BY <2>2
    <3>2. dev.ret >= 0
      BY <1>3, <3>1
    <3>3. bus = "idle" /\ AllMoved
      BY <1>1, <1>2, <3>1, <3>2 DEF Reported
    <3> QED BY <1>4, <2>2, <3>3
  <2> QED BY <2>1, <2>2
<1>7. I2cTypes'
  BY <1>1, <1>2, <1>4, <1>5 DEF I2cTypes
<1>8. InMessages'
  BY <1>5 DEF InMessages
<1>9. BusOrder'
  <2>1. dev.unmasked
    BY <1>1, <1>2 DEF BusOrder
  <2> QED BY <1>1, <1>2, <1>5, <1>6, <2>1 DEF BusOrder, Working
<1>10. InTransfer'
  BY <1>6 DEF InTransfer
<1>11. Reported'
  <2>1. LastMsg' = LastMsg /\ sent' = sent /\ got' = got
    BY <1>2, <1>4 DEF LastMsg
  <2>2. AllMoved => AllMoved'
    BY <2>1 DEF AllMoved
  <2> QED BY <1>2, <1>6, <2>2 DEF Reported
<1> QED BY <1>7, <1>8, <1>9, <1>10, <1>11 DEF I2cInv

LEMMA NextLeave == I2cInv /\ I!leave => I2cInv'
<1> SUFFICES ASSUME I2cInv, I!leave PROVE I2cInv'
  OBVIOUS
<1>1. I2cTypes /\ InMessages /\ BusOrder /\ InTransfer /\ Reported
  BY DEF I2cInv
<1> DEFINE c == caller.tries - 1
<1>2. /\ caller.pc = "leave"
      /\ \/ /\ caller' = [caller EXCEPT !.pc = "out"]
            /\ dev' = [dev EXCEPT !.unmasked = FALSE]
         \/ /\ caller' = [caller EXCEPT !.pc = "notbusy", !.tries = c]
            /\ dev' = dev
      /\ UNCHANGED <<sent, got, reg, bus, rd, shifted, error, irq, held, trouble>>
  BY DEF I!leave, I!I2cAt, I!hardware
<1>3. c \in Int /\ caller \in Callers /\ dev \in Devs
  BY <1>1 DEF I2cTypes, Callers
<1>4. /\ caller' \in Callers /\ caller'.pc \in {"out", "notbusy"}
      /\ caller'.pc # "out" => dev' = dev
  <2> HIDE DEF c
  <2>1. CASE caller' = [caller EXCEPT !.pc = "out"]
    BY <1>2, <1>3, <2>1 DEF Callers, I2cPlaces
  <2>2. CASE caller' = [caller EXCEPT !.pc = "notbusy", !.tries = c] /\ dev' = dev
    <3>1. PICK e : e = [caller EXCEPT !.pc = "notbusy", !.tries = c]
      OBVIOUS
    <3>2. e \in Callers /\ e.pc = "notbusy"
      BY <1>3, <3>1 DEF Callers, I2cPlaces
    <3> QED BY <2>2, <3>1, <3>2
  <2> QED BY <1>2, <2>1, <2>2
<1>5. dev' \in Devs /\ dev'.msg = dev.msg
  <2>1. CASE dev' = dev
    BY <1>3, <2>1
  <2>2. CASE dev' = [dev EXCEPT !.unmasked = FALSE]
    BY <1>3, <2>2 DEF Devs
  <2> QED BY <1>2, <2>1, <2>2
<1>6. dev.msg = 0 /\ dev.unmasked
  BY <1>1, <1>2 DEF InMessages, BusOrder, Working
<1>7. I2cTypes'
  BY <1>1, <1>2, <1>4, <1>5 DEF I2cTypes
<1>8. InMessages'
  BY <1>5, <1>6 DEF InMessages
<1>9. BusOrder'
  BY <1>1, <1>2, <1>4, <1>6 DEF BusOrder, Working
<1>10. InTransfer' /\ Reported'
  BY <1>4 DEF InTransfer, Reported
<1> QED BY <1>7, <1>8, <1>9, <1>10 DEF I2cInv

\* Whether the clock is held, and what goes wrong how often, no part is about.
LEMMA NextHold ==
    ASSUME I2cInv, UNCHANGED <<caller, dev, sent, got, reg, bus, rd, shifted, error, irq>>,
           held' \in BOOLEAN
    PROVE  I2cInv'
<1>1. I2cTypes /\ InMessages /\ BusOrder /\ InTransfer /\ Reported
  BY DEF I2cInv
<1>2. I2cTypes'
  BY <1>1 DEF I2cTypes
<1>3. InMessages' /\ BusOrder'
  BY <1>1 DEF InMessages, BusOrder, Working, NMsgs
<1>4. InTransfer'
  <2>1. Sending' = Sending /\ Turning' = Turning /\ Receiving' = Receiving
    BY Zenon DEF Sending, Turning, Receiving, GotInOrder
  <2> QED BY <1>1, <2>1 DEF InTransfer
<1>5. Reported'
  <2>1. AllMoved' = AllMoved /\ NMsgs' = NMsgs
    BY Zenon DEF AllMoved, LastMsg, NMsgs
  <2> QED BY <1>1, <2>1 DEF Reported
<1> QED BY <1>2, <1>3, <1>4, <1>5 DEF I2cInv

LEMMA InitI2c == I!I2cInit => I2cInv
<1> SUFFICES ASSUME I!I2cInit PROVE I2cInv
  OBVIOUS
<1>1. /\ caller = [pc |-> "out", msgs |-> I!Write(1), tries |-> 0, timeout |-> FALSE, rc |-> 0,
                   calls |-> 2]
      /\ dev = [msg |-> 0, rem |-> 0, pos |-> 0, cnt |-> 0, ret |-> 0, need_flush |-> FALSE,
                flush_cnt |-> 0, unmasked |-> FALSE]
      /\ sent = 0 /\ got = <<>> /\ reg = I!Empty /\ bus = "idle" /\ rd = 0 /\ shifted = 0
      /\ error = FALSE /\ irq = FALSE /\ held = FALSE
  BY DEF I!I2cInit
<1>2. I!Write(1) \in Transfers
  BY DEF Transfers
<1>3. caller \in Callers /\ caller.pc = "out"
  <2> PICK m : m = I!Write(1)
    OBVIOUS
  <2>1. m \in Transfers
    BY <1>2
  <2>2. caller = [pc |-> "out", msgs |-> m, tries |-> 0, timeout |-> FALSE, rc |-> 0, calls |-> 2]
    BY <1>1
  <2> QED BY <2>1, <2>2 DEF Callers, I2cPlaces
<1>4. dev \in Devs /\ dev.msg = 0
  BY <1>1 DEF Devs
<1>5. I!Empty \in [kind : Kinds, last : BOOLEAN]
  BY DEF I!Empty, I!Byte, Kinds
<1>6. I2cTypes
  <2>1. got \in Seq(Nat) /\ sent \in Nat /\ rd \in Nat /\ shifted \in Nat
    BY <1>1
  <2>2. error \in BOOLEAN /\ irq \in BOOLEAN /\ held \in BOOLEAN
    BY <1>1, Zenon
  <2>3. reg \in [kind : Kinds, last : BOOLEAN] /\ bus \in {"idle", "tx", "rx"}
    BY <1>1, <1>5, Zenon
  <2> QED BY <1>3, <1>4, <2>1, <2>2, <2>3, Zenon DEF I2cTypes
<1> QED BY <1>1, <1>3, <1>4, <1>6
        DEF I2cInv, InMessages, BusOrder, InTransfer, Reported, Working

LEMMA NextI2c == I2cInv /\ [I!I2cNext]_i2c => I2cInv'
<1> SUFFICES ASSUME I2cInv, [I!I2cNext]_i2c PROVE I2cInv'
  OBVIOUS
<1>1. CASE \E n \in Lengths : I!msm_i2c_call(I!Read(n)) \/ I!msm_i2c_call(I!Write(n))
  BY <1>1, NextCall
<1>2. CASE I!msm_i2c_isr
  BY <1>2, NextIsr
<1>3. CASE I!Calling
  BY <1>3, NextNotbusy, NextRecover, NextSetup, NextFirst, NextPoll, NextEnd, NextLeave
     DEF I!Calling
<1>4. CASE I!Shifting
  BY <1>4, NextOut, NextShiftIn DEF I!Shifting
<1>5. CASE I!hold \/ I!let_go
  <2>1. UNCHANGED <<caller, dev, sent, got, reg, bus, rd, shifted, error, irq>> /\ held' \in BOOLEAN
    BY <1>5, Zenon DEF I!hold, I!let_go
  <2> QED BY <2>1, NextHold
<1>6. CASE UNCHANGED i2c
  <2>1. /\ UNCHANGED <<caller, dev, sent, got, reg, bus, rd, shifted, error, irq>>
        /\ held' \in BOOLEAN
    BY <1>6 DEF i2c, I2cInv, I2cTypes
  <2> QED BY <2>1, NextHold
<1> QED BY <1>1, <1>2, <1>3, <1>4, <1>5, <1>6 DEF I!I2cNext

\* What the code's readers are told of it.
LEMMA I2cInvSays == I2cInv => I2cWhole
<1> SUFFICES ASSUME I2cInv PROVE I!I2cInBounds /\ I!I2cMoved
  BY DEF I2cWhole
<1>1. I2cTypes /\ InMessages /\ BusOrder /\ InTransfer /\ Reported
  BY DEF I2cInv
<1>2. I!I2cInBounds
  <2> SUFFICES ASSUME dev.msg # 0
               PROVE  /\ caller.pc \in {"first", "poll", "end"}
                      /\ dev.msg + dev.rem = Len(caller.msgs) + 1
                      /\ dev.cnt >= 0
                      /\ IF dev.pos < 0 THEN dev.cnt = caller.msgs[dev.msg].len
                                        ELSE dev.pos + dev.cnt = caller.msgs[dev.msg].len
                      /\ Len(got) <= caller.msgs[Len(caller.msgs)].len
    BY DEF I!I2cInBounds, I!msg
  <2>1. /\ Working /\ dev.msg + dev.rem = NMsgs + 1 /\ dev.cnt >= 0
        /\ IF dev.pos < 0 THEN dev.cnt = caller.msgs[dev.msg].len
           ELSE dev.pos + dev.cnt = caller.msgs[dev.msg].len
        /\ IF caller.msgs[dev.msg].rd /\ dev.pos >= 0 THEN Len(got) = dev.pos ELSE got = <<>>
        /\ dev.msg \in 1 .. NMsgs
    BY <1>1 DEF InMessages
  <2>2. /\ dev.msg \in Int /\ dev.rem \in Int /\ dev.cnt \in Int /\ dev.pos \in Int
        /\ caller \in Callers
    BY <1>1 DEF I2cTypes, Devs
  <2>3. PICK n \in Nat :
              \/ /\ NMsgs = 1 /\ LastMsg = caller.msgs[1]
                 /\ caller.msgs[1] = [rd |-> FALSE, len |-> n]
              \/ /\ NMsgs = 2 /\ LastMsg = caller.msgs[2]
                 /\ caller.msgs[1] = [rd |-> FALSE, len |-> 1]
                 /\ caller.msgs[2] = [rd |-> TRUE, len |-> n]
    BY <2>2, TransferIs
  <2>4. LastMsg.len = n
    BY <2>3
  <2>5. CASE caller.msgs[dev.msg].rd /\ dev.pos >= 0
    <3>1. dev.msg = NMsgs
      BY <2>1, <2>2, <2>3, <2>5, ReadIsSecond
    <3>2. Len(got) = dev.pos /\ LastMsg = caller.msgs[dev.msg]
      BY <2>1, <2>5, <3>1 DEF LastMsg, NMsgs
    <3>3. dev.pos + dev.cnt = n
      BY <2>1, <2>2, <2>4, <2>5, <3>2
    <3>4. Len(got) <= LastMsg.len
      BY <2>1, <2>2, <2>4, <3>2, <3>3
    <3> QED BY <2>1, <3>4 DEF Working, NMsgs, LastMsg
  <2>6. CASE ~(caller.msgs[dev.msg].rd /\ dev.pos >= 0)
    <3>1. Len(got) = 0
      BY <2>1, <2>6
    <3>2. Len(got) <= LastMsg.len
      BY <2>4, <3>1
    <3> QED BY <2>1, <3>2 DEF Working, NMsgs, LastMsg
  <2> QED BY <2>5, <2>6
<1>3. I!I2cMoved
  <2>1. caller.pc = "leave" /\ caller.rc = NMsgs => AllMoved
    BY <1>1 DEF Reported
  <2> QED BY <2>1 DEF I!I2cMoved, I!I2cAt, AllMoved, LastMsg, NMsgs
<1> QED BY <1>2, <1>3

-----------------------------------------------------------------------------
(* The platform                                                            *)

BoardInv == FbInv /\ LineInv /\ I2cInv

LEMMA InitBoard == PlatformInit => BoardInv
BY InitFb, InitLine, InitI2c DEF PlatformInit, BoardInv

LEMMA NextBoard == BoardInv /\ [PlatformNext]_allvars => BoardInv'
BY EachMachineMoves, NextFb, NextLine, NextI2c DEF BoardInv

\* fbcon.c: however many threads and handlers print without a lock, when all of them
\* are out the position is on the screen; and while only one thread prints, no handler
\* in the middle of one of its characters draws outside the frame.
THEOREM ScreenStaysInOrder == PlatformSpec => []ScreenInOrder
<1>1. BoardInv => ScreenInOrder
  BY FbKeepsScreen DEF BoardInv
<1> QED BY <1>1, InitBoard, NextBoard, PTL DEF PlatformSpec

\* console.c: whatever keys are typed, the line fits its buffer of any size, and the
\* words found in it the array.
THEOREM LineStaysInBounds == PlatformSpec => []LineInBounds
<1>1. BoardInv => LineInBounds
  BY LineInvFits DEF BoardInv
<1> QED BY <1>1, InitBoard, NextBoard, PTL DEF PlatformSpec

\* msm_i2c.c: for messages of any length, with bytes that are refused, stops that are
\* ignored, a clock that is held and transfers that time out, the interrupt handler
\* stays within the messages of a caller that waits, and a transfer that is reported
\* done moved every byte, in order.
THEOREM I2cStaysWhole == PlatformSpec => []I2cWhole
<1>1. BoardInv => I2cWhole
  BY I2cInvSays DEF BoardInv
<1> QED BY <1>1, InitBoard, NextBoard, PTL DEF PlatformSpec

\* msm_i2c.c, fbcon.c, console.c: all three stay in their bounds.
THEOREM BoardAlwaysRight == PlatformSpec => []BoardRight
<1>1. I2cWhole /\ ScreenInOrder /\ LineInBounds => BoardRight
  BY DEF BoardRight
<1> QED BY <1>1, I2cStaysWhole, ScreenStaysInOrder, LineStaysInBounds, PTL

=============================================================================
