------------------------------- MODULE Console -------------------------------
(***************************************************************************)
(* The shell's line editor and the screen of kernel/src/main.c: where the  *)
(* cursor is, what the cells of screen_buffer hold, and what is in         *)
(* command_storage when Enter is pressed.  The text of prompts and output  *)
(* is ink; output goes to the screen a row at a time.  The counter task    *)
(* writes its number whenever it gets the CPU; no script task prints.      *)
(***************************************************************************)
EXTENDS Integers, Sequences

CONSTANTS
  Rows, Cols,   \* screen_rows and screen_cols
  Margin,       \* 7: a character goes to column x if x + 7 <= screen_cols
  PromptSizes,  \* lengths of "path> " for the directories there are
  MaxCommand,   \* max_command_lenght_bytes (4096)
  Chars,        \* characters one can type
  Nul, Ink,     \* '\0', and any character of a prompt, output or the counter
  CounterCol,   \* 40, in row 0: where the counter's number begins
  Digits,       \* 20: what u64_to_str gives at most
  MaxLines      \* bound of the model: rows of output of one command

(* screen_buffer[MAX_COLS][MAX_ROWS] is indexed by row and column: a row of *)
(* a wider screen would run into the next one.                             *)
BufferRows == 256
BufferCols == 128

ASSUME ScreenAssumption ==
  /\ Rows \in Nat \ {0} /\ Rows <= BufferRows
  /\ Cols \in Nat /\ Cols <= BufferCols
  /\ Margin \in Nat \ {0, 1}
(* The number of the counter ends before the margin, in the row it began.  *)
ASSUME CounterAssumption ==
  CounterCol \in Nat /\ Digits \in Nat /\ CounterCol + Digits + Margin <= Cols + 1
ASSUME PromptAssumption ==
  PromptSizes \subseteq Nat /\ PromptSizes # {} /\ \A n \in PromptSizes : n + Margin <= Cols
ASSUME CommandAssumption == MaxCommand \in Nat \ {0} /\ MaxLines \in Nat
ASSUME CharAssumption == Nul \notin Chars /\ Ink \notin Chars \cup {Nul}

Cells == Chars \cup {Nul, Ink}
RowSet == 0 .. Rows - 1
ColSet == 0 .. Cols - 1
Width == Cols - Margin + 1      \* columns that write and the line editor use

VARIABLES
  screen,     \* screen_buffer: row -> column -> cell
  row, col,   \* global_crus_y and global_crus_x
  left,       \* global_defualt_crus_x
  dir,        \* the length of the prompt of current_dir_id
  command,    \* command_storage
  point,      \* command_point_c_main
  last,       \* last_global_command_lenght
  pc,         \* read: waits for a key; enter: in enter(); show: in
              \* shell_command(), under enter(); output: after enter()
  togo,       \* rows of read_out still to be written
  typed,      \* history: the line as it was typed, as far as there is room
  over,       \* history: more of it was typed than is kept
  edge,       \* history: a character was deleted to the left of the edge
  stale,      \* history: a script ran a command shorter than the line
  prompted    \* history: this is not the first line

cursor == <<row, col, left>>
line == <<command, point, typed, over, edge>>
vars == <<screen, cursor, dir, line, last, pc, togo, stale, prompted>>

TypeOK ==
  /\ screen \in [RowSet -> [ColSet -> Cells]]
  /\ row \in Nat /\ col \in Nat /\ left \in PromptSizes /\ dir \in PromptSizes
  /\ command \in [0 .. MaxCommand - 1 -> Chars \cup {Nul}]
  /\ point \in 0 .. MaxCommand - 1 /\ last \in 0 .. MaxCommand
  /\ pc \in {"read", "enter", "show", "output"} /\ togo \in 0 .. MaxLines
  /\ typed \in Seq(Chars)
  /\ over \in BOOLEAN /\ edge \in BOOLEAN /\ stale \in BOOLEAN
  /\ prompted \in BOOLEAN

-----------------------------------------------------------------------------
(* The screen. *)

Blank == [x \in ColSet |-> Nul]
Draw(s, y, x, c) == [s EXCEPT ![y] = [@ EXCEPT ![x] = c]]
InkUpTo(s, y, n) == [s EXCEPT ![y] = [x \in ColSet |-> IF x < n THEN Ink ELSE @[x]]]

(* scroll_screen *)
Scrolled(s) == [y \in RowSet |-> IF y < Rows - 1 THEN s[y + 1] ELSE Blank]

(* plus_gc_y, and the end of a row in write. *)
NextRow == IF row < Rows - 1 THEN row + 1 ELSE row
(* Mutant: on the last row the screen stays. *)
Advanced_NoScroll(s) == s
Advanced(s) == IF row < Rows - 1 THEN s ELSE Scrolled(s)

(* The string a C function finds in command. *)
Length(s) == CHOOSE n \in 0 .. MaxCommand :
  (n < MaxCommand => s[n] = Nul) /\ \A i \in 0 .. n - 1 : s[i] # Nul

(* kmain: the screen is full of blanks, the prompt of the root is in row   *)
(* 0; then boot_commands runs commands.                                    *)
Init ==
  /\ dir \in PromptSizes /\ left = dir /\ row = 0 /\ col = left
  /\ screen = InkUpTo([y \in RowSet |-> Blank], 0, left)
  /\ command = [i \in 0 .. MaxCommand - 1 |-> Nul] /\ point = 0 /\ last = 0
  /\ pc = "enter" /\ togo = 0
  /\ typed = <<>> /\ over = FALSE /\ edge = FALSE /\ stale = FALSE
  /\ prompted = FALSE

-----------------------------------------------------------------------------
(* shell: one key. *)

(* The '\0' at the end keeps its room.                                     *)
Store(c) ==
  IF point < MaxCommand - 1
  THEN /\ command' = [command EXCEPT ![point] = c] /\ point' = point + 1
       /\ typed' = Append(typed, c) /\ UNCHANGED over
  ELSE over' = TRUE /\ UNCHANGED <<command, point, typed>>

(* Mutant: the row is not looked at. *)
Type_NoWrap(c) ==
  /\ pc = "read"
  /\ screen' = Draw(screen, row, col, c) /\ row' = row /\ col' = col + 1
  /\ Store(c)
  /\ UNCHANGED <<left, dir, edge, last, pc, togo, stale, prompted>>
(* put_char_on_crus; what does not fit into command is shown all the same. *)
Type(c) ==
  /\ pc = "read"
  /\ IF col + Margin > Cols
     THEN screen' = Draw(Advanced(screen), NextRow, left, c) /\ row' = NextRow /\ col' = left + 1
     ELSE screen' = Draw(screen, row, col, c) /\ row' = row /\ col' = col + 1
  /\ Store(c)
  /\ UNCHANGED <<left, dir, edge, last, pc, togo, stale, prompted>>

(* The cursor does not go back over the left edge, but what is before it   *)
(* in command goes all the same.                                           *)
Backspace ==
  /\ pc = "read" /\ ~(col = left /\ row = 0)
  /\ col' = IF col > left THEN col - 1 ELSE col
  /\ screen' = Draw(screen, row, col', Nul)
  /\ IF point > 0
     THEN command' = [command EXCEPT ![point - 1] = Nul] /\ point' = point - 1
     ELSE UNCHANGED <<command, point>>
  /\ typed' = SubSeq(typed, 1, Len(typed) - 1)
  /\ edge' = (edge \/ (point > 0 /\ col = left))
  /\ UNCHANGED <<row, left, dir, over, last, pc, togo, stale, prompted>>

(* Enter: to the next row, then enter(command). *)
Enter ==
  /\ pc = "read" /\ pc' = "enter"
  /\ screen' = Advanced(screen) /\ row' = NextRow /\ col' = left
  /\ last' = Length(command) + 1
  /\ prompted' = TRUE
  /\ UNCHANGED <<left, dir, line, togo, stale>>

-----------------------------------------------------------------------------
(* What commands do, those that a script runs included.                    *)

(* A script goes on to its next command, with enter or shell_command, and  *)
(* what it returned is put on the screen.                                  *)
Script ==
  /\ pc = "enter"
  /\ \E n \in 1 .. MaxCommand :
       last' = n /\ stale' = (stale \/ n < Length(command))
  /\ \/ UNCHANGED <<pc, togo>>
     \/ pc' = "show" /\ \E k \in 0 .. MaxLines : togo' = k
  /\ UNCHANGED <<screen, cursor, dir, line, prompted>>

Cd ==
  /\ pc = "enter" /\ \E n \in PromptSizes : dir' = n
  /\ UNCHANGED <<screen, cursor, line, last, pc, togo, stale, prompted>>

(* clear: the prompt goes to row 0 - 1, which write takes for the last.    *)
Clear ==
  /\ pc = "enter"
  /\ left' = dir /\ row' = 0 /\ col' = dir
  /\ screen' = InkUpTo([y \in RowSet |-> Blank], Rows - 1, dir)
  /\ UNCHANGED <<dir, line, last, pc, togo, stale, prompted>>

(* se and the like write anywhere, and scroll on the last row.             *)
Paint ==
  /\ pc = "enter"
  /\ \/ \E y \in RowSet, x \in ColSet : screen' = Draw(screen, y, x, Ink)
     \/ screen' = Scrolled(screen)
  /\ UNCHANGED <<cursor, dir, line, last, pc, togo, stale, prompted>>

(* write, for read_out: one row of it. *)
PrintRow ==
  /\ pc \in {"show", "output"} /\ togo > 0
  /\ togo' = togo - 1
  /\ IF togo > 1
     THEN screen' = Advanced(InkUpTo(screen, row, Width)) /\ row' = NextRow
     ELSE \E n \in 1 .. Width : screen' = InkUpTo(screen, row, n) /\ row' = row
  /\ UNCHANGED <<col, left, dir, line, last, pc, stale, prompted>>

(* The end of shell_command. *)
Shown ==
  /\ pc = "show" /\ togo = 0 /\ pc' = "enter"
  /\ screen' = Advanced(screen) /\ row' = NextRow /\ col' = left
  /\ UNCHANGED <<left, dir, line, last, togo, stale, prompted>>

(* boot_commands is over. *)
Booted ==
  /\ pc = "enter" /\ ~prompted /\ pc' = "read"
  /\ UNCHANGED <<screen, cursor, dir, line, last, togo, stale, prompted>>

-----------------------------------------------------------------------------
(* The rest of Enter in shell, after enter(command). *)

Prompt ==
  /\ screen' = InkUpTo(Advanced(screen), NextRow, left') /\ row' = NextRow
  /\ col' = left' /\ pc' = "read"

(* Mutant: the last character stays. *)
ClearLine_OneLess ==
  /\ command' = [i \in DOMAIN command |-> IF i < last - 2 THEN Nul ELSE command[i]]
  /\ point' = 0
  /\ typed' = <<>> /\ over' = FALSE /\ edge' = FALSE
(* As many bytes are cleared as the last command had that enter was called *)
(* for, which in a script is not the line.                                 *)
ClearLine ==
  /\ command' = [i \in DOMAIN command |-> IF i < last THEN Nul ELSE command[i]]
  /\ point' = 0
  /\ typed' = <<>> /\ over' = FALSE /\ edge' = FALSE

(* The command has no output: the prompt. *)
Silent ==
  /\ pc = "enter" /\ prompted
  /\ ClearLine /\ left' = dir /\ Prompt
  /\ UNCHANGED <<dir, last, togo, stale, prompted>>

(* It has: read_out begins in the row after this one. *)
Answer ==
  /\ pc = "enter" /\ prompted /\ pc' = "output"
  /\ ClearLine /\ left' = dir
  /\ screen' = Advanced(screen) /\ row' = NextRow
  /\ \E k \in 0 .. MaxLines : togo' = k
  /\ UNCHANGED <<col, dir, last, stale, prompted>>

Answered ==
  /\ pc = "output" /\ togo = 0
  /\ left' = left /\ Prompt
  /\ UNCHANGED <<dir, line, last, togo, stale, prompted>>

(* test_task_counter: a number of so many digits *)
Counter ==
  /\ \E n \in 1 .. Digits :
       screen' = [screen EXCEPT ![0] =
         [x \in ColSet |-> IF x \in CounterCol .. CounterCol + n - 1 THEN Ink ELSE @[x]]]
  /\ UNCHANGED <<cursor, dir, line, last, pc, togo, stale, prompted>>

Next ==
  \/ \E c \in Chars : Type(c)
  \/ Backspace \/ Enter
  \/ Script \/ Cd \/ Clear \/ Paint
  \/ PrintRow \/ Shown \/ Booted \/ Silent \/ Answer \/ Answered
  \/ Counter

Spec == Init /\ [][Next]_vars

-----------------------------------------------------------------------------
(* The cursor is on the screen, and right of the prompt when a key comes,  *)
(* whatever is typed, deleted, printed, painted and cleared.               *)
CursorOnScreen ==
  row \in RowSet /\ col \in ColSet /\ col <= Width /\ (pc = "read" => left <= col)

(* enter gets the line as it was typed and nothing after it, until a       *)
(* script has run a command shorter than its line; always a string.        *)
LineIsTyped ==
  /\ command[MaxCommand - 1] = Nul
  /\ pc = "read" /\ ~over /\ ~stale =>
       /\ point = Len(typed)
       /\ \A i \in DOMAIN command :
            command[i] = IF i < point THEN typed[i + 1] ELSE Nul

(* The cell of the k-th character before the cursor, over the wraps.       *)
PerRow == Width - left
BackRow(k) == row + ((col - left - k) \div PerRow)
BackCol(k) == left + ((col - left - k) % PerRow)
CounterCols == CounterCol .. CounterCol + Digits - 1
Visible(y, x) == y >= 0 /\ ~(y = 0 /\ x \in CounterCols)

(* The user sees the line: back from the cursor stand its characters, over *)
(* wraps and scrolls, and before the first the prompt of the directory.    *)
LineShown ==
  pc = "read" /\ ~over /\ ~edge =>
    /\ \A k \in 1 .. point :
         Visible(BackRow(k), BackCol(k)) =>
           screen[BackRow(k)][BackCol(k)] = command[point - k]
    /\ BackCol(point) = left
    /\ prompted /\ BackRow(point) >= 0 =>
         \A x \in 0 .. left - 1 : screen[BackRow(point)][x] = Ink
=============================================================================
