------------------------------ MODULE Terminal ------------------------------
(***************************************************************************)
(* The VGA text terminal of src/drivers/terminal.c: the screen array at    *)
(* 0xB8000, the cursor terminal_row / terminal_column, and the functions   *)
(* that write, wrap, scroll and clear.  Colours and the CRT port writes of *)
(* terminal_move_cursor are left out; a cell holds a character or Blank.   *)
(*                                                                         *)
(* Each function is one step: every IRQ is masked in this build (run       *)
(* boot_timer_ticks), so neither keyboard_handler's echo nor               *)
(* timer_callback can run inside one.  The functions are written as pure   *)
(* operators over a record [scr, row, col] so that terminal_putchar,       *)
(* terminal_tab and terminal_newline compose as they call each other.      *)
(***************************************************************************)
EXTENDS Naturals, Sequences, SequencesExt

CONSTANTS
  VGA_WIDTH, VGA_HEIGHT,  \* 80 and 25 in the code
  TAB_SIZE,               \* 4
  Chars,                  \* printable characters callers write
  Blank                   \* ' '

VARIABLES
  screen,           \* VGA_MEMORY, as screen[y][x]
  terminal_row,
  terminal_column,
  cursor_visible,
  reading           \* TRUE once a caller is inside terminal_read_line

termVars == <<screen, terminal_row, terminal_column, cursor_visible, reading>>

Rows == 0 .. VGA_HEIGHT - 1
Cols == 0 .. VGA_WIDTH - 1
BlankRow == [x \in Cols |-> Blank]
BlankScreen == [y \in Rows |-> BlankRow]

(* The terminal state the functions pass along.                            *)
St == [scr |-> screen, row |-> terminal_row, col |-> terminal_column]

-----------------------------------------------------------------------------
(* Mutant of Scroll: the clearing loop starts at row H - lines + 1.      *)
ScrollClearLate(scr, n) ==
  IF n <= 0 \/ n > VGA_HEIGHT THEN scr
  ELSE [y \in Rows |-> IF y + n < VGA_HEIGHT THEN scr[y + n]
                       ELSE IF y > VGA_HEIGHT - n THEN BlankRow ELSE scr[y]]

(* terminal_scroll(lines): nothing for lines <= 0; move rows `lines` .. H-1 *)
(* up by `lines`, then blank rows H-lines .. H-1.  For lines > H both loops *)
(* are empty (H - lines wraps in size_t), so nothing changes.              *)
Scroll(scr, n) ==
  IF n <= 0 \/ n > VGA_HEIGHT THEN scr
  ELSE [y \in Rows |-> IF y + n < VGA_HEIGHT THEN scr[y + n] ELSE BlankRow]

(* terminal_newline: column 0; a row that reaches H scrolls by one and    *)
(* stays on the last row.                                                   *)
Newline(st) ==
  IF st.row + 1 = VGA_HEIGHT
    THEN [scr |-> Scroll(st.scr, 1), row |-> VGA_HEIGHT - 1, col |-> 0]
    ELSE [st EXCEPT !.row = @ + 1, !.col = 0]

(* terminal_move_cursor(x, y): ignored unless on screen.                  *)
MoveCursor(st, x, y) ==
  IF x >= VGA_WIDTH \/ y >= VGA_HEIGHT THEN st ELSE [st EXCEPT !.col = x, !.row = y]

(* terminal_backspace: blank the cell before the cursor, going back to the *)
(* last column of the row above from column 0; nothing at the origin.      *)
Backspace(st) ==
  IF st.col > 0
    THEN [st EXCEPT !.col = @ - 1, !.scr[st.row][st.col - 1] = Blank]
  ELSE IF st.row > 0
    THEN [st EXCEPT !.row = @ - 1, !.col = VGA_WIDTH - 1,
                    !.scr[st.row - 1][VGA_WIDTH - 1] = Blank]
  ELSE st

(* The normal-character branch of terminal_putchar: write the cell, then  *)
(* a column that reaches the width starts a new line.                      *)
PutPrintable(st, c) ==
  LET written == [st EXCEPT !.scr[st.row][st.col] = c] IN
  IF st.col + 1 = VGA_WIDTH THEN Newline(written)
  ELSE [written EXCEPT !.col = @ + 1]

(* terminal_putchar(c): '\n', '\r', '\b' and '\t' ("LF", "CR", "BS",   *)
(* "HT") by their functions, any other character written; then            *)
(* terminal_move_cursor to the new place.                                  *)
(* terminal_tab is TAB_SIZE calls of terminal_putchar(' ').                *)
RECURSIVE Putchar(_, _), Tab(_, _)
Putchar(st, c) ==
  LET r == CASE c = "LF" -> Newline(st)
             [] c = "CR" -> [st EXCEPT !.col = 0]
             [] c = "BS" -> Backspace(st)
             [] c = "HT" -> Tab(st, TAB_SIZE)
             [] OTHER    -> PutPrintable(st, c)
  IN MoveCursor(r, r.col, r.row)

Tab(st, k) == IF k = 0 THEN st ELSE Tab(Putchar(st, Blank), k - 1)

(* terminal_clear_screen_from_cursor: blank from the cursor to the end of *)
(* its row, then every row below.                                          *)
ClearFromCursor(st) ==
  [st EXCEPT !.scr = [y \in Rows |->
     IF y < st.row THEN @[y]
     ELSE IF y > st.row THEN BlankRow
     ELSE [x \in Cols |-> IF x >= st.col THEN Blank ELSE @[y][x]]]]

(* terminal_clear_screen_to_cursor: blank every row above, then its row   *)
(* up to and including the cursor.                                         *)
ClearToCursor(st) ==
  [st EXCEPT !.scr = [y \in Rows |->
     IF y > st.row THEN @[y]
     ELSE IF y < st.row THEN BlankRow
     ELSE [x \in Cols |-> IF x <= st.col THEN Blank ELSE @[y][x]]]]

-----------------------------------------------------------------------------
(* The text written since the last clear, as the lines a teletype of      *)
(* VGA_WIDTH columns would show, keeping the last VGA_HEIGHT; `tracking`   *)
(* is FALSE once a call that edits the screen otherwise ('\r', '\b',        *)
(* terminal_move_cursor, the clear and scroll functions) has run.          *)
VARIABLES shown, tracking

ghostVars == <<shown, tracking>>

KeepLast(ls) == IF Len(ls) > VGA_HEIGHT THEN Tail(ls) ELSE ls

(* A character extends the last line; a full line starts the next one.    *)
TextPut(ls, c) ==
  LET line == Last(ls) \o <<c>> IN
  IF Len(line) = VGA_WIDTH THEN KeepLast(Append(Append(Front(ls), line), <<>>))
  ELSE Append(Front(ls), line)

RECURSIVE TextPutN(_, _, _)
TextPutN(ls, c, k) == IF k = 0 THEN ls ELSE TextPutN(TextPut(ls, c), c, k - 1)

TextAfter(ls, c) ==
  CASE c = "LF" -> KeepLast(Append(ls, <<>>))
    [] c = "HT" -> TextPutN(ls, Blank, TAB_SIZE)
    [] OTHER    -> TextPut(ls, c)

(* The screen and cursor that text shows: line i on row i - 1, padded.    *)
TextScreen(ls) ==
  [y \in Rows |->
     IF y < Len(ls)
       THEN [x \in Cols |-> IF x < Len(ls[y + 1]) THEN ls[y + 1][x + 1] ELSE Blank]
       ELSE BlankRow]

-----------------------------------------------------------------------------
(* The state terminal_initialize leaves, the first call of kernel_main.   *)
TermInit ==
  /\ screen = BlankScreen
  /\ terminal_row = 0 /\ terminal_column = 0
  /\ cursor_visible = TRUE
  /\ reading = FALSE
  /\ shown = <<<<>>>> /\ tracking = TRUE

Apply(st) ==
  /\ screen' = st.scr
  /\ terminal_row' = st.row
  /\ terminal_column' = st.col

Untracked == shown' = <<>> /\ tracking' = FALSE

(* terminal_putchar(c), also each step of terminal_write,                  *)
(* terminal_writestring and the print functions.                           *)
TerminalPutchar(c) ==
  /\ ~reading
  /\ Apply(Putchar(St, c))
  /\ IF tracking /\ c \notin {"CR", "BS"}
       THEN shown' = TextAfter(shown, c) /\ UNCHANGED tracking
       ELSE Untracked
  /\ UNCHANGED <<cursor_visible, reading>>

(* terminal_clear: blank every cell, cursor to (0, 0).                     *)
TerminalClear ==
  /\ ~reading
  /\ Apply([scr |-> BlankScreen, row |-> 0, col |-> 0])
  /\ shown' = <<<<>>>> /\ tracking' = TRUE
  /\ UNCHANGED <<cursor_visible, reading>>

(* terminal_move_cursor(x, y), terminal_scroll(n), terminal_clear_line(y) *)
(* (ignored for y >= H), terminal_delete and the two partial clears.       *)
TerminalEdit(st) ==
  /\ ~reading
  /\ Apply(st)
  /\ Untracked
  /\ UNCHANGED <<cursor_visible, reading>>

TerminalClearLine(y) ==
  TerminalEdit(IF y >= VGA_HEIGHT THEN St ELSE [St EXCEPT !.scr[y] = BlankRow])

TerminalDelete == TerminalEdit([St EXCEPT !.scr[terminal_row][terminal_column] = Blank])

TerminalSetCursorVisible(v) ==
  /\ ~reading
  /\ cursor_visible' = v
  /\ UNCHANGED <<screen, terminal_row, terminal_column, reading, shown, tracking>>

(* terminal_read_line(buf, size) with size >= 2: terminal_gets loops until *)
(* terminal_getchar returns KEY_ENTER, but terminal_getchar always returns *)
(* KEY_NULL, so the caller never leaves the loop.                          *)
TerminalReadLine ==
  /\ ~reading
  /\ reading' = TRUE
  /\ UNCHANGED <<screen, terminal_row, terminal_column, cursor_visible, shown, tracking>>

TermNext ==
  \/ \E c \in Chars \cup {"LF", "CR", "BS", "HT"} : TerminalPutchar(c)
  \/ TerminalClear
  \/ \E x \in 0 .. VGA_WIDTH, y \in 0 .. VGA_HEIGHT : TerminalEdit(MoveCursor(St, x, y))
  \/ \E n \in {0, 1, VGA_HEIGHT + 1} : TerminalEdit([St EXCEPT !.scr = Scroll(@, n)])
  \/ \E y \in 0 .. VGA_HEIGHT : TerminalClearLine(y)
  \/ TerminalDelete
  \/ TerminalEdit(ClearFromCursor(St))
  \/ TerminalEdit(ClearToCursor(St))
  \/ \E v \in BOOLEAN : TerminalSetCursorVisible(v)
  \/ TerminalReadLine

-----------------------------------------------------------------------------
TermTypeOK ==
  /\ screen \in [Rows -> [Cols -> Chars \cup {Blank}]]
  /\ terminal_row \in Rows /\ terminal_column \in Cols
  /\ cursor_visible \in BOOLEAN /\ reading \in BOOLEAN
  /\ tracking \in BOOLEAN

(* After any run of terminal_putchar calls of characters, '\n' and '\t'   *)
(* since the last clear, the screen and cursor are exactly those of the   *)
(* text wrapped at the width with its last VGA_HEIGHT lines kept: the      *)
(* wrap, the newline and the scroll loops of terminal.c lose, shift or     *)
(* duplicate no character, and the cursor sits after the last one.         *)
ScreenShowsText ==
  tracking =>
    /\ screen = TextScreen(shown)
    /\ terminal_row = Len(shown) - 1
    /\ terminal_column = Len(Last(shown))
=============================================================================
