---------------------------- MODULE ConsoleProofs ----------------------------
(***************************************************************************)
(* Theorems about Console, for every screen of up to 128 columns that the  *)
(* counter's number fits on, and every length of a line.                   *)
(***************************************************************************)
EXTENDS Console, SequenceTheorems, WellFoundedInduction, TLAPS

(* The first '\0' of a string exists: a set of naturals has a least one.   *)
Less == {p \in Nat \X Nat : p[1] < p[2]}

LEMMA LessIsWellFounded == IsWellFoundedOn(Less, Nat)
BY NatLessThanWellFounded DEF Less, OpToRel

LEMMA Least ==
  ASSUME NEW T, T \subseteq Nat, T # {}
  PROVE  \E x \in T : \A y \in T : x <= y
<1>1. PICK x \in T : \A y \in T : <<y, x>> \notin Less
  BY LessIsWellFounded, WFMin
<1>2. \A y \in T : <<y, x>> \notin Less => x <= y
  BY DEF Less
<1> QED BY <1>1, <1>2

CommandType == [0 .. MaxCommand - 1 -> Chars \cup {Nul}]

LEMMA LengthIs ==
  ASSUME NEW s \in CommandType, s[MaxCommand - 1] = Nul
  PROVE  /\ Length(s) \in 0 .. MaxCommand - 1
         /\ s[Length(s)] = Nul
         /\ \A i \in 0 .. Length(s) - 1 : s[i] # Nul
<1> DEFINE T == {n \in 0 .. MaxCommand - 1 : s[n] = Nul}
           First(n) == (n < MaxCommand => s[n] = Nul) /\ \A i \in 0 .. n - 1 : s[i] # Nul
<1>1. MaxCommand - 1 \in T BY CommandAssumption
<1>2. PICK n \in T : \A y \in T : n <= y
  <2>1. T \subseteq Nat OBVIOUS
  <2> QED BY <1>1, <2>1, Least
<1>3. n \in 0 .. MaxCommand /\ First(n)
  BY <1>2, CommandAssumption
<1>4. Length(s) \in 0 .. MaxCommand /\ First(Length(s))
  <2>1. \E m \in 0 .. MaxCommand : First(m) BY <1>3
  <2>2. Length(s) = CHOOSE m \in 0 .. MaxCommand : First(m) BY DEF Length
  <2> HIDE DEF First
  <2> QED BY <2>1, <2>2
<1>5. Length(s) # MaxCommand BY <1>1, <1>4, CommandAssumption
<1> QED BY <1>4, <1>5, CommandAssumption

-----------------------------------------------------------------------------
(* The cursor. *)
PlaceOK ==
  /\ row \in RowSet
  /\ left \in PromptSizes /\ dir \in PromptSizes
  /\ col \in Nat /\ col <= Width
  /\ pc \in {"read", "enter", "show", "output"}
  /\ pc = "read" => left <= col
  /\ pc \in {"enter", "show"} => col = left

LEMMA Sizes ==
  ASSUME NEW n \in PromptSizes
  PROVE  n \in Nat /\ n < Width /\ n + Margin <= Cols
BY PromptAssumption, ScreenAssumption DEF Width

LEMMA NextRowIs ==
  ASSUME row \in RowSet
  PROVE  NextRow \in RowSet
BY ScreenAssumption DEF NextRow, RowSet

LEMMA PlaceInit == Init => PlaceOK
BY Sizes, ScreenAssumption DEF Init, PlaceOK, RowSet, Width

LEMMA PlaceStep == PlaceOK /\ [Next]_vars => PlaceOK'
<1> SUFFICES ASSUME PlaceOK, [Next]_vars PROVE PlaceOK' OBVIOUS
<1>1. NextRow \in RowSet /\ 0 \in RowSet
  BY NextRowIs, ScreenAssumption DEF PlaceOK, RowSet
<1>2. \A n \in PromptSizes : n \in Nat /\ n < Width /\ n + Margin <= Cols
  BY Sizes
<1>3. Width = Cols - Margin + 1 /\ Width \in Int /\ Cols \in Nat /\ Margin \in Nat
  BY ScreenAssumption DEF Width
<1>4. ASSUME NEW c \in Chars, Type(c) PROVE PlaceOK'
  <2>1. UNCHANGED <<left, dir, pc>> /\ pc = "read" BY <1>4 DEF Type
  <2>2. CASE col + Margin > Cols
    BY <1>1, <1>2, <1>3, <1>4, <2>1, <2>2 DEF Type, PlaceOK
  <2>3. CASE ~(col + Margin > Cols)
    BY <1>2, <1>3, <1>4, <2>1, <2>3 DEF Type, PlaceOK
  <2> QED BY <2>2, <2>3
<1>5. CASE Backspace
  BY <1>2, <1>3, <1>5 DEF Backspace, PlaceOK
<1>6. CASE Enter \/ Shown
  BY <1>1, <1>2, <1>3, <1>6 DEF Enter, Shown, PlaceOK
<1>7. CASE Script \/ Cd \/ Paint \/ Counter
  BY <1>7 DEF Script, Cd, Paint, Counter, PlaceOK, cursor
<1>8. CASE Booted
  BY <1>2, <1>8 DEF Booted, PlaceOK, cursor
<1>9. CASE Clear
  BY <1>1, <1>2, <1>3, <1>9 DEF Clear, PlaceOK
<1>10. CASE PrintRow
  BY <1>1, <1>10 DEF PrintRow, PlaceOK
<1>11. CASE Silent \/ Answered
  BY <1>1, <1>2, <1>3, <1>11 DEF Silent, Answered, Prompt, PlaceOK
<1>12. CASE Answer
  BY <1>1, <1>12 DEF Answer, PlaceOK
<1>13. CASE UNCHANGED vars
  BY <1>13 DEF vars, cursor, PlaceOK
<1> QED
  BY <1>4, <1>5, <1>6, <1>7, <1>8, <1>9, <1>10, <1>11, <1>12, <1>13 DEF Next

-----------------------------------------------------------------------------
(* The line.  Before point stand characters, and what is after it is left  *)
(* over from a line that was not cleared to its end.                       *)
LineOK ==
  /\ command \in CommandType /\ command[MaxCommand - 1] = Nul
  /\ point \in 0 .. MaxCommand - 1
  /\ typed \in Seq(Chars) /\ over \in BOOLEAN /\ stale \in BOOLEAN
  /\ last \in Nat
  /\ \A i \in 0 .. point - 1 : command[i] # Nul
  /\ ~over => /\ Len(typed) = point
              /\ \A i \in 0 .. point - 1 : command[i] = typed[i + 1]
  /\ ~stale => \A i \in point .. MaxCommand - 1 : command[i] = Nul
  /\ ~stale /\ pc \in {"enter", "show"} /\ prompted => last >= point

(* Without left-overs the string ends where the line does. *)
LEMMA LengthIsPoint ==
  ASSUME LineOK, ~stale
  PROVE  Length(command) = point
<1>1. /\ Length(command) \in 0 .. MaxCommand - 1
      /\ command[Length(command)] = Nul
      /\ \A i \in 0 .. Length(command) - 1 : command[i] # Nul
  BY LengthIs DEF LineOK
<1>2. point \in 0 .. MaxCommand - 1 BY DEF LineOK
<1>3. ~(Length(command) < point) BY <1>1, <1>2 DEF LineOK
<1>4. ~(point < Length(command)) BY <1>1, <1>2 DEF LineOK
<1> QED BY <1>1, <1>2, <1>3, <1>4

LEMMA LineInit == Init => LineOK
<1> SUFFICES ASSUME Init PROVE LineOK OBVIOUS
<1>1. command \in CommandType /\ command[MaxCommand - 1] = Nul
  BY CommandAssumption DEF Init, CommandType
<1>2. typed \in Seq(Chars) /\ Len(typed) = 0 BY DEF Init
<1> QED BY <1>1, <1>2, CommandAssumption DEF Init, LineOK

LEMMA StoreStep ==
  ASSUME LineOK, NEW c \in Chars, Store(c), pc = "read", UNCHANGED <<pc, stale, last, prompted>>
  PROVE  LineOK'
<1> USE CommandAssumption
<1>1. CASE point = MaxCommand - 1
  <2>1. over' = TRUE /\ UNCHANGED <<command, point, typed>> BY <1>1 DEF Store
  <2> QED BY <1>1, <2>1 DEF LineOK
<1>2. CASE point < MaxCommand - 1
  <2>1. /\ command' = [command EXCEPT ![point] = c]
        /\ point' = point + 1
        /\ typed' = Append(typed, c) /\ over' = over
    BY <1>2 DEF Store
  <2>2. c # Nul /\ command \in CommandType /\ typed \in Seq(Chars)
        /\ point \in 0 .. MaxCommand - 1
    BY CharAssumption DEF LineOK
  <2>3. command' \in CommandType /\ command'[MaxCommand - 1] = Nul
    BY <1>2, <2>1, <2>2, CommandAssumption DEF LineOK, CommandType
  <2>4. \A i \in 0 .. point : command'[i] = IF i = point THEN c ELSE command[i]
    BY <1>2, <2>1, <2>2 DEF CommandType
  <2>5. \A i \in 0 .. point' - 1 : command'[i] # Nul
    BY <2>1, <2>2, <2>4 DEF LineOK
  <2>6. /\ typed' \in Seq(Chars) /\ Len(typed') = Len(typed) + 1
        /\ \A i \in 1 .. Len(typed) : typed'[i] = typed[i]
        /\ typed'[Len(typed) + 1] = c
    BY <2>1, <2>2
  <2>7. ASSUME ~over
        PROVE  Len(typed') = point' /\ \A i \in 0 .. point' - 1 : command'[i] = typed'[i + 1]
    BY <2>1, <2>2, <2>4, <2>6, <2>7 DEF LineOK
  <2>8. ~stale => \A i \in point' .. MaxCommand - 1 : command'[i] = Nul
    BY <1>2, <2>1, <2>2 DEF LineOK, CommandType
  <2>9. point' \in 0 .. MaxCommand - 1 BY <1>2, <2>1, <2>2
  <2> QED BY <2>1, <2>3, <2>5, <2>6, <2>7, <2>8, <2>9 DEF LineOK
<1> QED BY <1>1, <1>2 DEF LineOK

LEMMA BackspaceStep ==
  ASSUME LineOK, Backspace
  PROVE  LineOK'
<1> USE CommandAssumption
<1>1. /\ command \in CommandType /\ typed \in Seq(Chars)
      /\ point \in 0 .. MaxCommand - 1 /\ Len(typed) \in Nat
  BY DEF LineOK
<1>2. UNCHANGED <<over, stale, last, pc, prompted>> /\ pc = "read"
  BY DEF Backspace
<1>3. typed' = SubSeq(typed, 1, Len(typed) - 1) BY DEF Backspace
<1>4. CASE Len(typed) = 0
  <2>1. typed' = << >> BY <1>1, <1>3, <1>4
  <2> QED
    <3>1. CASE point = 0
      <4>1. UNCHANGED <<command, point>> BY <1>1, <3>1 DEF Backspace
      <4>2. typed' \in Seq(Chars) /\ Len(typed') = 0 BY <2>1
      <4> QED BY <1>2, <3>1, <4>1, <4>2 DEF LineOK
    <3>2. CASE point > 0
      <4>1. over BY <1>4, <3>2 DEF LineOK
      <4>2. command' = [command EXCEPT ![point - 1] = Nul] /\ point' = point - 1
        BY <3>2 DEF Backspace
      <4>3. command' \in CommandType /\ command'[MaxCommand - 1] = Nul
        BY <1>1, <3>2, <4>2 DEF LineOK, CommandType
      <4>4. \A i \in 0 .. point' - 1 : command'[i] # Nul
        BY <1>1, <3>2, <4>2 DEF LineOK, CommandType
      <4>5. ~stale => \A i \in point' .. MaxCommand - 1 : command'[i] = Nul
        BY <1>1, <3>2, <4>2 DEF LineOK, CommandType
      <4>6. typed' \in Seq(Chars) BY <2>1
      <4> QED
        BY <1>1, <1>2, <3>2, <4>1, <4>2, <4>3, <4>4, <4>5, <4>6 DEF LineOK
    <3> QED BY <1>1, <3>1, <3>2
<1>5. CASE Len(typed) > 0
  <2>1. /\ typed' \in Seq(Chars) /\ Len(typed') = Len(typed) - 1
        /\ \A i \in 1 .. Len(typed) - 1 : typed'[i] = typed[i]
    <3> DEFINE n == Len(typed) - 1
    <3>1. n \in Nat /\ 1 \in Int /\ \A i \in 1 .. n : typed[i] \in Chars
      BY <1>1, <1>5
    <3>2. /\ SubSeq(typed, 1, n) \in Seq(Chars)
          /\ Len(SubSeq(typed, 1, n)) = IF 1 <= n THEN n - 1 + 1 ELSE 0
          /\ \A i \in 1 .. n - 1 + 1 : SubSeq(typed, 1, n)[i] = typed[1 + i - 1]
      BY <3>1, SubSeqProperties
    <3>3. typed' = SubSeq(typed, 1, n) BY <1>3
    <3>4. Len(typed') = n
      <4>1. Len(typed') = IF 1 <= n THEN n - 1 + 1 ELSE 0 BY <3>2, <3>3, Zenon
      <4> HIDE DEF n
      <4> QED BY <3>1, <4>1
    <3>5. ASSUME NEW i \in 1 .. n PROVE typed'[i] = typed[i]
      <4>1. i \in 1 .. n - 1 + 1 /\ 1 + i - 1 = i BY <3>1
      <4> QED BY <3>2, <3>3, <4>1
    <3> QED BY <3>2, <3>3, <3>4, <3>5
  <2>2. CASE point = 0
    <3>1. over BY <1>5, <2>2 DEF LineOK
    <3>2. UNCHANGED <<command, point>> BY <1>1, <2>2 DEF Backspace
    <3> QED BY <1>2, <2>1, <3>1, <3>2 DEF LineOK
  <2>3. CASE point > 0
    <3>1. command' = [command EXCEPT ![point - 1] = Nul] /\ point' = point - 1
      BY <2>3 DEF Backspace
    <3>2. command' \in CommandType /\ command'[MaxCommand - 1] = Nul
      BY <1>1, <2>3, <3>1 DEF LineOK, CommandType
    <3>3. \A i \in 0 .. point' - 1 : command'[i] = command[i] /\ command'[i] # Nul
      BY <1>1, <2>3, <3>1 DEF LineOK, CommandType
    <3>4. ~stale => \A i \in point' .. MaxCommand - 1 : command'[i] = Nul
      BY <1>1, <2>3, <3>1 DEF LineOK, CommandType
    <3>5. ASSUME ~over
          PROVE  Len(typed') = point' /\ \A i \in 0 .. point' - 1 : command'[i] = typed'[i + 1]
      BY <1>1, <2>1, <2>3, <3>1, <3>3, <3>5 DEF LineOK
    <3>6. point' \in 0 .. MaxCommand - 1 BY <1>1, <2>3, <3>1
    <3> QED BY <1>2, <2>1, <3>2, <3>3, <3>4, <3>5, <3>6 DEF LineOK
  <2> QED BY <1>1, <2>2, <2>3
<1> QED BY <1>1, <1>4, <1>5

(* When enter returns, what it says was its length clears the line.        *)
LEMMA ClearStep ==
  ASSUME LineOK, ClearLine, pc = "enter", prompted,
         UNCHANGED <<last, stale, prompted>>, pc' \in {"read", "output"}
  PROVE  LineOK'
<1> USE CommandAssumption
<1>1. command \in CommandType /\ last \in Nat /\ point \in 0 .. MaxCommand - 1
  BY DEF LineOK
<1>2. /\ command' \in CommandType
      /\ \A i \in 0 .. MaxCommand - 1 :
           command'[i] = IF i < last THEN Nul ELSE command[i]
  BY <1>1 DEF ClearLine, CommandType
<1>3. command'[MaxCommand - 1] = Nul
  BY <1>2, CommandAssumption DEF LineOK
<1>4. ~stale => \A i \in 0 .. MaxCommand - 1 : command'[i] = Nul
  BY <1>1, <1>2 DEF LineOK
<1>5. point' = 0 /\ typed' \in Seq(Chars) /\ Len(typed') = 0 /\ over' = FALSE
  BY DEF ClearLine
<1>6. last' = last /\ stale' = stale /\ pc' \notin {"enter", "show"}
  OBVIOUS
<1>7. ~stale' => \A i \in point' .. MaxCommand - 1 : command'[i] = Nul
  BY <1>4, <1>5, <1>6
<1>8. stale' \in BOOLEAN /\ last' \in Nat BY <1>6 DEF LineOK
<1>9. \A i \in 0 .. point' - 1 : FALSE BY <1>5
<1>10. point' \in 0 .. MaxCommand - 1 BY <1>5
<1> QED BY <1>2, <1>3, <1>5, <1>6, <1>7, <1>8, <1>9, <1>10 DEF LineOK

LEMMA LineStep == LineOK /\ [Next]_vars => LineOK'
<1> SUFFICES ASSUME LineOK, [Next]_vars PROVE LineOK' OBVIOUS
<1> USE CommandAssumption
<1>1. ASSUME NEW c \in Chars, Type(c) PROVE LineOK'
  BY <1>1, StoreStep DEF Type
<1>2. CASE Backspace BY <1>2, BackspaceStep
<1>3. CASE Enter
  <2>1. UNCHANGED <<line, stale>> /\ last' = Length(command) + 1 BY <1>3 DEF Enter
  <2>2. Length(command) \in Nat BY LengthIs DEF LineOK
  <2>3. ~stale => last' >= point BY <2>1, <2>2, LengthIsPoint
  <2> QED BY <2>1, <2>2, <2>3 DEF LineOK, line
<1>4. CASE Script
  <2>1. PICK n \in 1 .. MaxCommand :
          last' = n /\ stale' = (stale \/ n < Length(command))
    BY <1>4 DEF Script
  <2>2. UNCHANGED <<line, prompted>> BY <1>4 DEF Script
  <2>3. Length(command) \in Nat BY LengthIs DEF LineOK
  <2>4. ASSUME ~stale' PROVE ~stale /\ last' >= point
    <3>1. ~stale /\ ~(n < Length(command)) BY <2>1, <2>4
    <3>2. point = Length(command) BY <3>1, LengthIsPoint
    <3> QED BY <2>1, <2>3, <3>1, <3>2
  <2>5. last' \in Nat /\ stale' \in BOOLEAN BY <2>1 DEF LineOK
  <2> QED BY <2>2, <2>4, <2>5 DEF LineOK, line
<1>5. CASE Silent
  BY <1>5, ClearStep DEF Silent, Prompt
<1>6. CASE Answer
  BY <1>6, ClearStep DEF Answer
<1>7. CASE Cd \/ Clear \/ Paint \/ PrintRow \/ Shown \/ Booted \/ Answered \/ Counter
  <2>1. UNCHANGED <<line, last, stale, prompted>>
    BY <1>7 DEF Cd, Clear, Paint, PrintRow, Shown, Booted, Answered, Counter
  <2>2. pc' \in {"enter", "show"} => pc \in {"enter", "show"}
    BY <1>7 DEF Cd, Clear, Paint, PrintRow, Shown, Booted, Answered, Counter, Prompt
  <2> QED BY <2>1, <2>2 DEF LineOK, line
<1>8. CASE UNCHANGED vars
  BY <1>8 DEF vars, line, LineOK
<1> QED BY <1>1, <1>2, <1>3, <1>4, <1>5, <1>6, <1>7, <1>8 DEF Next

-----------------------------------------------------------------------------
(* The cursor never leaves the screen. *)
THEOREM CursorStays == Spec => []CursorOnScreen
<1>1. PlaceOK => CursorOnScreen
  <2>1. ASSUME col \in Nat, col <= Width PROVE col \in ColSet
    BY <2>1, ScreenAssumption DEF Width, ColSet
  <2> QED BY <2>1 DEF PlaceOK, CursorOnScreen
<1> QED BY <1>1, PlaceInit, PlaceStep, PTL DEF Spec

(* What enter gets is the line that was typed. *)
THEOREM EnterGetsTheLine == Spec => []LineIsTyped
<1>1. LineOK => LineIsTyped
  BY DEF LineOK, LineIsTyped, CommandType
<1> QED BY <1>1, LineInit, LineStep, PTL DEF Spec

-----------------------------------------------------------------------------
(* What is shown.  The cells of a line are numbered from the cursor's row  *)
(* and the left edge on: number j is in the row j \div PerRow further down, *)
(* and a negative one in a row above.  First some arithmetic of numbers.   *)

LEMMA Division ==
  ASSUME NEW p \in Nat, p > 0, NEW j \in Int
  PROVE  /\ j \div p \in Int /\ j % p \in 0 .. p - 1
         /\ j = p * (j \div p) + (j % p)
OBVIOUS

LEMMA DivisionIs ==
  ASSUME NEW p \in Nat, p > 0, NEW j \in Int, NEW q \in Int, NEW r \in 0 .. p - 1,
         j = p * q + r
  PROVE  j \div p = q /\ j % p = r
<1> DEFINE d == j \div p
           m == j % p
<1>1. d \in Int /\ m \in 0 .. p - 1 /\ j = p * d + m BY Division
<1> HIDE DEF d, m
<1>2. p * d + m = p * q + r BY <1>1
<1>3. ~(d >= q + 1)
  <2>1. d >= q + 1 => p * d >= p * (q + 1) BY <1>1
  <2>2. p * (q + 1) = p * q + p OBVIOUS
  <2> QED BY <1>1, <1>2, <2>1, <2>2
<1>4. ~(q >= d + 1)
  <2>1. q >= d + 1 => p * q >= p * (d + 1) BY <1>1
  <2>2. p * (d + 1) = p * d + p BY <1>1
  <2> QED BY <1>1, <1>2, <2>1, <2>2
<1>5. d = q BY <1>1, <1>3, <1>4
<1>6. m = r BY <1>1, <1>2, <1>5
<1> QED BY <1>5, <1>6 DEF d, m

(* One row less is one row up. *)
LEMMA RowUp ==
  ASSUME NEW p \in Nat, p > 0, NEW j \in Int
  PROVE  (j - p) \div p = j \div p - 1 /\ (j - p) % p = j % p
<1> DEFINE d == j \div p
           m == j % p
<1>1. d \in Int /\ m \in 0 .. p - 1 /\ j = p * d + m BY Division
<1> HIDE DEF d, m
<1>2. j - p = p * (d - 1) + m BY <1>1
<1>3. (j - p) \div p = d - 1 /\ (j - p) % p = m
  BY <1>1, <1>2, DivisionIs
<1> QED BY <1>3 DEF d, m

LEMMA FirstRow ==
  ASSUME NEW p \in Nat, p > 0, NEW j \in 0 .. p - 1
  PROVE  j \div p = 0 /\ j % p = j
BY DivisionIs

LEMMA NoRowBelow ==
  ASSUME NEW p \in Nat, p > 0, NEW j \in Int, j < p
  PROVE  j \div p <= 0 /\ (j < 0 => j \div p < 0)
<1> DEFINE d == j \div p
           m == j % p
<1>1. d \in Int /\ m \in 0 .. p - 1 /\ j = p * d + m BY Division
<1> HIDE DEF d, m
<1>2. ~(d >= 1)
  <2>1. d >= 1 => p * d >= p * 1 BY <1>1
  <2> QED BY <1>1, <2>1
<1>3. j < 0 => ~(d >= 0)
  <2>1. d >= 0 => p * d >= p * 0 BY <1>1
  <2> QED BY <1>1, <2>1
<1> QED BY <1>1, <1>2, <1>3 DEF d

(* Numbers tell cells apart. *)
LEMMA OneNumber ==
  ASSUME NEW p \in Nat, p > 0, NEW i \in Int, NEW j \in Int,
         i \div p = j \div p, i % p = j % p
  PROVE  i = j
BY Division

-----------------------------------------------------------------------------
(* LineShown is not inductive: a backspace at an empty line must find the  *)
(* cursor at the left edge, or it would go back over the prompt, and the   *)
(* line is empty whenever a prompt is about to be written.                 *)
ScreenType == [RowSet -> [ColSet -> Cells]]

ShownInv ==
  /\ screen \in ScreenType
  /\ pc = "output" => point = 0
  /\ pc \in {"enter", "show"} /\ ~prompted => point = 0
  /\ pc = "read" /\ ~over /\ ~edge => col - left <= point
  /\ LineShown

DisplayInv == PlaceOK /\ LineOK /\ ShownInv

(* Where things are on the screen, in numbers. *)
LEMMA RowsAre ==
  ASSUME PlaceOK
  PROVE  /\ row \in Nat /\ row < Rows /\ Rows \in Nat /\ 0 \in RowSet
         /\ left \in Nat /\ col \in Nat /\ left < Width /\ col <= Width
         /\ PerRow \in Nat /\ PerRow > 0 /\ left + PerRow = Width
         /\ Width = Cols - Margin + 1 /\ Width <= Cols - 1 /\ Cols \in Nat
         /\ NextRow \in RowSet /\ row \in RowSet
BY Sizes, NextRowIs, ScreenAssumption DEF PlaceOK, PerRow, Width, RowSet

LEMMA BlankType == Blank \in [ColSet -> Cells]
BY DEF Blank, Cells

LEMMA DrawType ==
  ASSUME NEW s \in ScreenType, NEW y \in RowSet, NEW x \in ColSet, NEW c \in Cells
  PROVE  /\ Draw(s, y, x, c) \in ScreenType
         /\ Draw(s, y, x, c)[y][x] = c
         /\ \A b \in RowSet, a \in ColSet :
              b # y \/ a # x => Draw(s, y, x, c)[b][a] = s[b][a]
<1>1. Draw(s, y, x, c) = [s EXCEPT ![y] = [s[y] EXCEPT ![x] = c]] BY DEF Draw
<1>2. s[y] \in [ColSet -> Cells] BY DEF ScreenType
<1>3. [s[y] EXCEPT ![x] = c] \in [ColSet -> Cells] BY <1>2
<1>4. Draw(s, y, x, c) \in ScreenType BY <1>1, <1>3 DEF ScreenType
<1>5. Draw(s, y, x, c)[y] = [s[y] EXCEPT ![x] = c] BY <1>1 DEF ScreenType
<1>6. \A b \in RowSet : b # y => Draw(s, y, x, c)[b] = s[b]
  BY <1>1 DEF ScreenType
<1>7. Draw(s, y, x, c)[y][x] = c BY <1>2, <1>5
<1>8. \A a \in ColSet : a # x => Draw(s, y, x, c)[y][a] = s[y][a] BY <1>2, <1>5
<1> QED BY <1>4, <1>6, <1>7, <1>8

LEMMA InkType ==
  ASSUME NEW s \in ScreenType, NEW y \in RowSet, NEW m
  PROVE  /\ InkUpTo(s, y, m) \in ScreenType
         /\ \A x \in ColSet : x < m => InkUpTo(s, y, m)[y][x] = Ink
<1>1. \A x \in ColSet : s[y][x] \in Cells BY DEF ScreenType
<1>2. Ink \in Cells BY DEF Cells
<1>3. [x \in ColSet |-> IF x < m THEN Ink ELSE s[y][x]] \in [ColSet -> Cells]
  BY <1>1, <1>2
<1>4. InkUpTo(s, y, m) = [s EXCEPT ![y] = [x \in ColSet |-> IF x < m THEN Ink ELSE s[y][x]]]
  BY DEF InkUpTo
<1>5. InkUpTo(s, y, m) \in ScreenType BY <1>3, <1>4 DEF ScreenType
<1>6. InkUpTo(s, y, m)[y] = [x \in ColSet |-> IF x < m THEN Ink ELSE s[y][x]]
  BY <1>4 DEF ScreenType
<1> QED BY <1>5, <1>6

LEMMA ScrolledType ==
  ASSUME NEW s \in ScreenType
  PROVE  Scrolled(s) \in ScreenType
BY BlankType, ScreenAssumption DEF Scrolled, ScreenType, RowSet

(* On the last row everything goes up by one, elsewhere nothing moves.     *)
LEMMA AdvancedType ==
  ASSUME NEW s \in ScreenType, PlaceOK
  PROVE  /\ Advanced(s) \in ScreenType
         /\ \A y \in RowSet, d \in Nat :
              y = row - d /\ NextRow - d - 1 \in RowSet =>
                Advanced(s)[NextRow - d - 1] = s[y]
<1>1. CASE row < Rows - 1
  <2>1. Advanced(s) = s /\ NextRow = row + 1 BY <1>1 DEF Advanced, NextRow
  <2>2. \A y \in RowSet, d \in Nat : y = row - d => NextRow - d - 1 = y
    BY <2>1, RowsAre
  <2> QED BY <2>1, <2>2
<1>2. CASE ~(row < Rows - 1)
  <2>1. Advanced(s) = Scrolled(s) /\ NextRow = row /\ row = Rows - 1
    BY <1>2, RowsAre DEF Advanced, NextRow
  <2>2. ASSUME NEW y \in RowSet, NEW d \in Nat, y = row - d, NextRow - d - 1 \in RowSet
        PROVE  Scrolled(s)[NextRow - d - 1] = s[y]
    <3>1. NextRow - d - 1 < Rows - 1 /\ NextRow - d - 1 + 1 = y
      BY <2>1, <2>2, RowsAre
    <3> QED BY <2>2, <3>1 DEF Scrolled
  <2> QED BY <2>1, <2>2, ScrolledType
<1> QED BY <1>1, <1>2

(* A prompt on an empty line. *)
LEMMA PromptShown ==
  ASSUME LineOK, PlaceOK, screen \in ScreenType, Prompt, left' \in PromptSizes, point' = 0
  PROVE  ShownInv'
<1>1. /\ row' = NextRow /\ col' = left' /\ pc' = "read"
      /\ screen' = InkUpTo(Advanced(screen), NextRow, left')
  BY DEF Prompt
<1>2. NextRow \in RowSet /\ NextRow \in Nat /\ Advanced(screen) \in ScreenType
  BY RowsAre, AdvancedType DEF RowSet
<1>3. /\ screen' \in ScreenType
      /\ \A x \in ColSet : x < left' => screen'[NextRow][x] = Ink
  BY <1>1, <1>2, InkType
<1>4. PICK m \in PromptSizes : m = left' OBVIOUS
<1>5. m \in Nat /\ m < Cols /\ Cols \in Nat /\ Width - m \in Nat /\ Width - m > 0
  BY Sizes, ScreenAssumption DEF Width
<1>6. BackRow(0)' = NextRow /\ BackCol(0)' = m
  <2>1. PerRow' = Width - m BY <1>4 DEF PerRow
  <2>2. m - m - 0 = 0 BY <1>5
  <2>3. 0 \div (Width - m) = 0 /\ 0 % (Width - m) = 0
    BY <1>5, FirstRow
  <2>4. NextRow + 0 = NextRow /\ m + 0 = m BY <1>2, <1>5
  <2> QED BY <1>1, <1>4, <2>1, <2>2, <2>3, <2>4 DEF BackRow, BackCol
<1>7. \A x \in 0 .. m - 1 : x \in ColSet /\ x < m BY <1>5 DEF ColSet
<1>8. LineShown'
  <2>1. BackRow(point)' = NextRow /\ BackCol(point)' = left' BY <1>4, <1>6
  <2>2. \A x \in 0 .. left' - 1 : screen'[NextRow][x] = Ink BY <1>3, <1>4, <1>7
  <2>3. \A i \in 1 .. point' : FALSE OBVIOUS
  <2> QED BY <2>1, <2>2, <2>3 DEF LineShown
<1>9. col' - left' <= point'
  <2>1. m - m <= 0 BY <1>5
  <2> QED BY <1>1, <1>4, <2>1
<1> QED BY <1>1, <1>3, <1>8, <1>9 DEF ShownInv

LEMMA BackOnScreen ==
  ASSUME PlaceOK, NEW i \in Nat, col - left - i < PerRow
  PROVE  /\ BackRow(i) \in Int /\ BackRow(i) <= row
         /\ BackRow(i) >= 0 => BackRow(i) \in RowSet
         /\ BackCol(i) \in ColSet /\ BackCol(i) >= left /\ BackCol(i) < Width
         /\ col - left - i < 0 => BackRow(i) < row
<1> DEFINE j == col - left - i
<1>1. /\ j \in Int /\ PerRow \in Nat /\ PerRow > 0 /\ left \in Nat /\ row \in Nat
      /\ row < Rows /\ Rows \in Nat /\ left + PerRow = Width /\ Width <= Cols - 1
      /\ Cols \in Nat
  BY RowsAre
<1>2. /\ j \div PerRow \in Int /\ j % PerRow \in 0 .. PerRow - 1
  BY <1>1, Division
<1>3. j \div PerRow <= 0 /\ (j < 0 => j \div PerRow < 0) BY <1>1, NoRowBelow
<1>4. BackRow(i) = row + (j \div PerRow) /\ BackCol(i) = left + (j % PerRow)
  BY DEF BackRow, BackCol
<1> HIDE DEF j
<1>5. BackRow(i) \in Int /\ BackRow(i) <= row /\ (j < 0 => BackRow(i) < row)
  BY <1>1, <1>2, <1>3, <1>4
<1>6. BackCol(i) \in Nat /\ BackCol(i) >= left /\ BackCol(i) < Width
  BY <1>1, <1>2, <1>4
<1> QED BY <1>1, <1>5, <1>6 DEF RowSet, ColSet, j

(* A cell of the cursor's row is another one than that of a character with *)
(* another number.                                                         *)
LEMMA CellsApart ==
  ASSUME PlaceOK, NEW i \in Nat, NEW a \in Nat, left <= a, a < Width,
         col - left - i # a - left
  PROVE  BackRow(i) # row \/ BackCol(i) # a
<1> SUFFICES ASSUME BackRow(i) = row, BackCol(i) = a
             PROVE  FALSE
  OBVIOUS
<1> DEFINE j == col - left - i
<1>1. /\ row \in Nat /\ left \in Nat /\ col \in Nat
      /\ PerRow \in Nat /\ PerRow > 0 /\ left + PerRow = Width
  BY RowsAre
<1>2. j \in Int /\ j \div PerRow \in Int /\ j % PerRow \in Int
      /\ j = PerRow * (j \div PerRow) + (j % PerRow)
  BY <1>1, Division
<1>3. row = row + (j \div PerRow) /\ a = left + (j % PerRow)
  BY DEF BackRow, BackCol
<1>4. j # a - left OBVIOUS
<1> HIDE DEF j
<1>5. j \div PerRow = 0 /\ j % PerRow = a - left BY <1>1, <1>2, <1>3
<1> QED BY <1>1, <1>2, <1>4, <1>5

(* A character is shown where the cursor is, and the line moves up with    *)
(* the screen.                                                             *)
LEMMA TypeShown ==
  ASSUME DisplayInv, NEW c \in Chars, Type(c)
  PROVE  ShownInv'
<1>0. PlaceOK /\ LineOK /\ ShownInv /\ pc = "read" /\ pc' = "read"
  BY DEF DisplayInv, Type
<1>1. c \in Cells /\ screen \in ScreenType BY <1>0 DEF ShownInv, Cells
<1>2. UNCHANGED <<left, edge, prompted>> BY DEF Type
<1>3. PerRow' = PerRow BY <1>2 DEF PerRow
<1>4. Advanced(screen) \in ScreenType BY <1>0, <1>1, AdvancedType
<1>5. /\ PerRow \in Nat /\ PerRow > 0 /\ left \in Nat /\ col \in Nat /\ row \in Nat
      /\ left <= col /\ col <= Width /\ left + PerRow = Width
      /\ row \in RowSet /\ NextRow \in RowSet /\ NextRow \in Nat
      /\ Cols \in Nat /\ left < Cols
  BY <1>0, RowsAre DEF RowSet, PlaceOK
<1>6. left \in ColSet /\ (~(col + Margin > Cols) => col \in ColSet /\ col < Width)
      /\ (col + Margin > Cols => col = Width)
  <2>1. Margin \in Nat BY ScreenAssumption
  <2> QED BY <1>0, <1>5, <2>1, RowsAre DEF ColSet
<1>7. screen' \in ScreenType BY <1>1, <1>4, <1>5, <1>6, DrawType DEF Type
(* The cell of the new character, and where the older ones are now. *)
<1> SUFFICES ASSUME ~over', ~edge'
             PROVE  col' - left' <= point' /\ LineShown'
  <2>1. over' \/ edge' => LineShown' BY DEF LineShown
  <2> QED BY <1>0, <1>7, <2>1 DEF ShownInv
<1>8. /\ ~over /\ ~edge /\ point \in Nat /\ point < MaxCommand - 1
      /\ command' = [command EXCEPT ![point] = c] /\ point' = point + 1
      /\ command \in CommandType
  BY <1>0, <1>2, CommandAssumption DEF Type, Store, LineOK
<1>9. command'[point] = c /\ \A i \in 0 .. point - 1 : command'[i] = command[i]
  BY <1>8, CommandAssumption DEF CommandType
<1>10. /\ col - left <= point
       /\ \A i \in 1 .. point :
            Visible(BackRow(i), BackCol(i)) =>
              screen[BackRow(i)][BackCol(i)] = command[point - i]
       /\ BackCol(point) = left
       /\ prompted /\ BackRow(point) >= 0 =>
            \A x \in 0 .. left - 1 : screen[BackRow(point)][x] = Ink
  BY <1>0, <1>8 DEF ShownInv, LineShown
<1>13. PICK m \in Nat : m = point + 1 BY <1>8
<1>14. ASSUME NEW x \in 0 .. left - 1
       PROVE  x \in ColSet /\ x # col /\ x # left
  BY <1>5 DEF ColSet
<1>11. CASE ~(col + Margin > Cols)
  <2>1. screen' = Draw(screen, row, col, c) /\ row' = row /\ col' = col + 1
    BY <1>11 DEF Type
  <2>10. /\ screen'[row][col] = c
         /\ \A b \in RowSet, a \in ColSet :
              b # row \/ a # col => screen'[b][a] = screen[b][a]
    <3>1. row \in RowSet /\ col \in ColSet BY <1>5, <1>6, <1>11
    <3>2. /\ Draw(screen, row, col, c)[row][col] = c
          /\ \A b \in RowSet, a \in ColSet :
               b # row \/ a # col => Draw(screen, row, col, c)[b][a] = screen[b][a]
      BY <1>1, <3>1, DrawType
    <3> QED BY <2>1, <3>2
  <2>2. \A i \in Nat : BackRow(i + 1)' = BackRow(i) /\ BackCol(i + 1)' = BackCol(i)
    <3> SUFFICES ASSUME NEW i \in Nat
                 PROVE  BackRow(i + 1)' = BackRow(i) /\ BackCol(i + 1)' = BackCol(i)
      OBVIOUS
    <3>1. (col + 1) - left - (i + 1) = col - left - i BY <1>5
    <3> QED BY <1>2, <1>3, <2>1, <3>1 DEF BackRow, BackCol
  <2>3. BackRow(1)' = row /\ BackCol(1)' = col
    <3>1. col - left - 0 \in 0 .. PerRow - 1 BY <1>5, <1>6, <1>11
    <3>2. BackRow(0) = row + 0 /\ BackCol(0) = left + (col - left - 0)
      BY <1>5, <3>1, FirstRow DEF BackRow, BackCol
    <3>3. row + 0 = row /\ left + (col - left - 0) = col /\ 0 + 1 = 1 BY <1>5
    <3> QED BY <2>2, <3>2, <3>3
  <2>4. ASSUME NEW i \in 1 .. point, Visible(BackRow(i), BackCol(i))
        PROVE  screen'[BackRow(i)][BackCol(i)] = command[point - i]
    <3>1. BackRow(i) \in RowSet /\ BackCol(i) \in ColSet
      BY <1>0, <1>5, <1>6, <1>8, <1>11, <2>4, BackOnScreen DEF Visible
    <3>2. BackRow(i) # row \/ BackCol(i) # col
      BY <1>0, <1>5, <1>6, <1>8, <1>11, CellsApart
    <3>3. screen[BackRow(i)][BackCol(i)] = command[point - i] BY <1>10, <2>4
    <3> QED BY <2>10, <3>1, <3>2, <3>3
  <2>5. ASSUME prompted, BackRow(point) >= 0, NEW x \in 0 .. left - 1
        PROVE  screen'[BackRow(point)][x] = Ink
    <3>1. BackRow(point) \in RowSet
      BY <1>0, <1>5, <1>8, <1>10, <2>5, BackOnScreen
    <3>2. x \in ColSet /\ x # col BY <1>14
    <3>3. screen[BackRow(point)][x] = Ink BY <1>10, <2>5
    <3> QED BY <2>10, <3>1, <3>2, <3>3
  <2>6. ASSUME NEW i \in 1 .. point + 1, Visible(BackRow(i)', BackCol(i)')
        PROVE  screen'[BackRow(i)'][BackCol(i)'] = command'[point + 1 - i]
    <3>1. CASE i = 1
      <4>1. point + 1 - i = point BY <1>8, <3>1
      <4> QED
        BY <1>9, <2>3, <2>10, <3>1, <4>1
    <3>2. CASE i # 1
      <4> PICK h \in 1 .. point : i = h + 1
        <5>1. i - 1 \in 1 .. point /\ i = (i - 1) + 1 BY <1>8, <3>2
        <5> QED BY <5>1
      <4>1. BackRow(i)' = BackRow(h) /\ BackCol(i)' = BackCol(h) BY <1>8, <2>2
      <4>2. point + 1 - i = point - h /\ point - h \in 0 .. point - 1 BY <1>8
      <4> QED BY <1>9, <2>4, <2>6, <4>1, <4>2
    <3> QED BY <3>1, <3>2
  <2>7. BackRow(m)' = BackRow(point) /\ BackCol(m)' = left
    BY <1>8, <1>10, <1>13, <2>2
  <2>8. col' - left' <= point' BY <1>2, <1>5, <1>8, <1>10, <2>1
  <2>9. LineShown'
    BY <1>2, <1>8, <1>13, <2>5, <2>6, <2>7 DEF LineShown, Visible
  <2> QED BY <2>8, <2>9
<1>12. CASE col + Margin > Cols
  <2>1. /\ screen' = Draw(Advanced(screen), NextRow, left, c)
        /\ row' = NextRow /\ col' = left + 1
    BY <1>12 DEF Type
  <2>2. \A i \in Nat : /\ BackRow(i + 1)' = NextRow - (row - BackRow(i)) - 1
                       /\ BackCol(i + 1)' = BackCol(i)
    <3> SUFFICES ASSUME NEW i \in Nat
                 PROVE  /\ BackRow(i + 1)' = NextRow - (row - BackRow(i)) - 1
                        /\ BackCol(i + 1)' = BackCol(i)
      OBVIOUS
    <3> DEFINE j == col - left - i
    <3>1. (left + 1) - left - (i + 1) = j - PerRow /\ j \in Int
      BY <1>5, <1>6, <1>12
    <3>2. /\ (j - PerRow) \div PerRow = (j \div PerRow) - 1
          /\ (j - PerRow) % PerRow = j % PerRow /\ j \div PerRow \in Int
      BY <1>5, <3>1, RowUp, Division
    <3>3. BackRow(i) = row + (j \div PerRow) /\ BackCol(i) = left + (j % PerRow)
      BY DEF BackRow, BackCol
    <3>4. /\ BackRow(i + 1)' = NextRow + ((j - PerRow) \div PerRow)
          /\ BackCol(i + 1)' = left + ((j - PerRow) % PerRow)
      BY <1>2, <1>3, <2>1, <3>1 DEF BackRow, BackCol
    <3> HIDE DEF j
    <3> QED BY <1>5, <3>2, <3>3, <3>4
  <2>3. BackRow(1)' = NextRow /\ BackCol(1)' = left
    <3>1. (left + 1) - left - 1 = 0 BY <1>5
    <3>2. 0 \div PerRow = 0 /\ 0 % PerRow = 0 BY <1>5, FirstRow
    <3>3. NextRow + 0 = NextRow /\ left + 0 = left BY <1>5
    <3> QED BY <1>2, <1>3, <2>1, <3>1, <3>2, <3>3 DEF BackRow, BackCol
  <2>12. /\ screen'[NextRow][left] = c
         /\ \A b \in RowSet, a \in ColSet :
              b # NextRow => screen'[b][a] = Advanced(screen)[b][a]
    <3>1. /\ Draw(Advanced(screen), NextRow, left, c)[NextRow][left] = c
          /\ \A b \in RowSet, a \in ColSet :
               b # NextRow \/ a # left =>
                 Draw(Advanced(screen), NextRow, left, c)[b][a] = Advanced(screen)[b][a]
      BY <1>1, <1>4, <1>5, <1>6, DrawType
    <3> QED BY <2>1, <3>1
  <2>4. NextRow <= row + 1 BY <1>5 DEF NextRow
  (* Every older cell that is still on the screen, with those of its row. *)
  <2>5. ASSUME NEW i \in 1 .. point, BackRow(i + 1)' >= 0, NEW x \in ColSet
        PROVE  /\ BackRow(i) \in RowSet /\ BackRow(i) >= BackRow(i + 1)'
               /\ BackRow(i) \in Int /\ BackRow(i + 1)' \in Int
               /\ screen'[BackRow(i + 1)'][x] = screen[BackRow(i)][x]
    <3> DEFINE d == row - BackRow(i)
    <3>1. col - left - i < PerRow BY <1>5, <1>6, <1>8, <1>12
    <3>2. BackRow(i) \in Int /\ BackRow(i) <= row
      BY <1>0, <1>8, <3>1, BackOnScreen
    <3>3. d \in Nat /\ BackRow(i) = row - d BY <1>5, <3>2
    <3>4. BackRow(i + 1)' = NextRow - d - 1 BY <1>8, <2>2
    <3>5. NextRow - d - 1 <= BackRow(i) /\ NextRow - d - 1 >= 0
          /\ NextRow - d - 1 < NextRow /\ NextRow - d - 1 \in Int
      BY <1>5, <2>4, <2>5, <3>2, <3>4
    <3>6. BackRow(i) >= 0 BY <3>2, <3>5
    <3>7. BackRow(i) \in RowSet BY <1>0, <1>8, <3>1, <3>6, BackOnScreen
    <3>8. NextRow - d - 1 \in RowSet BY <1>5, <3>5, ScreenAssumption DEF RowSet
    <3> HIDE DEF d
    <3>9. Advanced(screen)[NextRow - d - 1] = screen[BackRow(i)]
      BY <1>0, <1>1, <3>3, <3>7, <3>8, AdvancedType
    <3>10. NextRow - d - 1 # NextRow BY <1>5, <3>5
    <3>11. screen'[NextRow - d - 1][x] = Advanced(screen)[NextRow - d - 1][x]
      BY <2>12, <3>8, <3>10
    <3> QED BY <3>2, <3>4, <3>5, <3>7, <3>9, <3>11
  <2>6. ASSUME NEW i \in 1 .. point + 1, Visible(BackRow(i)', BackCol(i)')
        PROVE  screen'[BackRow(i)'][BackCol(i)'] = command'[point + 1 - i]
    <3>1. CASE i = 1
      <4>1. point + 1 - i = point BY <1>8, <3>1
      <4> QED
        BY <1>9, <2>3, <2>12, <3>1, <4>1
    <3>2. CASE i # 1
      <4> PICK h \in 1 .. point : i = h + 1
        <5>1. i - 1 \in 1 .. point /\ i = (i - 1) + 1 BY <1>8, <3>2
        <5> QED BY <5>1
      <4>1. BackCol(i)' = BackCol(h) BY <1>8, <2>2
      <4>2. col - left - h < PerRow BY <1>5, <1>6, <1>8, <1>12
      <4>3. BackCol(h) \in ColSet BY <1>0, <1>8, <4>2, BackOnScreen
      <4>4. /\ BackRow(h) \in RowSet /\ BackRow(h) >= BackRow(i)'
            /\ BackRow(h) \in Int /\ BackRow(i)' \in Int
            /\ screen'[BackRow(i)'][BackCol(h)] = screen[BackRow(h)][BackCol(h)]
        BY <2>5, <2>6, <4>3 DEF Visible
      <4>5. Visible(BackRow(h), BackCol(h))
        BY <2>6, <4>1, <4>4 DEF Visible
      <4>6. screen[BackRow(h)][BackCol(h)] = command[point - h] BY <1>10, <4>5
      <4>7. point + 1 - i = point - h /\ point - h \in 0 .. point - 1 BY <1>8
      <4> QED BY <1>9, <4>1, <4>4, <4>6, <4>7
    <3> QED BY <3>1, <3>2
  <2>7. point \in 1 .. point BY <1>5, <1>6, <1>8, <1>10, <1>12
  <2>8. ASSUME prompted, BackRow(m)' >= 0, NEW x \in 0 .. left - 1
        PROVE  screen'[BackRow(m)'][x] = Ink
    <3>1. x \in ColSet BY <1>14
    <3>2. /\ BackRow(point) \in RowSet
          /\ screen'[BackRow(m)'][x] = screen[BackRow(point)][x]
      BY <1>13, <2>5, <2>7, <2>8, <3>1
    <3>3. BackRow(point) >= 0 BY <3>2 DEF RowSet
    <3> QED BY <1>10, <2>8, <3>2, <3>3
  <2>9. BackCol(m)' = left BY <1>8, <1>10, <1>13, <2>2
  <2>10. col' - left' <= point'
    BY <1>2, <1>5, <1>8, <2>1
  <2>11. LineShown'
    BY <1>2, <1>8, <1>13, <2>6, <2>8, <2>9 DEF LineShown, Visible
  <2> QED BY <2>10, <2>11
<1> QED BY <1>11, <1>12

(* A backspace takes the last character off, and nothing else moves. *)
LEMMA BackspaceShown ==
  ASSUME DisplayInv, Backspace
  PROVE  ShownInv'
<1>0. PlaceOK /\ LineOK /\ ShownInv /\ pc = "read" /\ pc' = "read"
  BY DEF DisplayInv, Backspace
<1>1. /\ screen \in ScreenType /\ UNCHANGED <<left, row, over, prompted>>
      /\ screen' = Draw(screen, row, col', Nul)
      /\ col' = IF col > left THEN col - 1 ELSE col
  BY <1>0 DEF Backspace, ShownInv
<1>2. /\ PerRow \in Nat /\ PerRow > 0 /\ left \in Nat /\ col \in Nat /\ row \in Nat
      /\ left <= col /\ col <= Width /\ left + PerRow = Width
      /\ row \in RowSet /\ left < Width /\ Width <= Cols - 1 /\ Cols \in Nat
  BY <1>0, RowsAre DEF RowSet, PlaceOK
<1> PICK a \in ColSet : a = col'
  <2>1. col' \in ColSet BY <1>1, <1>2 DEF ColSet
  <2> QED BY <2>1
<1>3. /\ screen' \in ScreenType
      /\ \A y \in RowSet, x \in ColSet :
           y # row \/ x # a => screen'[y][x] = screen[y][x]
  BY <1>1, <1>2, DrawType DEF Cells
<1> SUFFICES ASSUME ~over', ~edge'
             PROVE  col' - left' <= point' /\ LineShown'
  <2>1. over' \/ edge' => LineShown' BY DEF LineShown
  <2> QED BY <1>0, <1>3, <2>1 DEF ShownInv
<1>4. ~over /\ ~edge /\ point \in Nat /\ (point > 0 => col > left)
  <2>1. edge' = (edge \/ (point > 0 /\ col = left)) BY DEF Backspace
  <2>2. ~(edge \/ (point > 0 /\ col = left)) BY <2>1
  <2>3. point \in Nat /\ ~over BY <1>0, <1>1, CommandAssumption DEF LineOK
  <2> QED BY <1>2, <2>2, <2>3
<1>5. /\ col - left <= point
      /\ \A i \in 1 .. point :
           Visible(BackRow(i), BackCol(i)) =>
             screen[BackRow(i)][BackCol(i)] = command[point - i]
      /\ BackCol(point) = left
      /\ prompted /\ BackRow(point) >= 0 =>
           \A x \in 0 .. left - 1 : screen[BackRow(point)][x] = Ink
  BY <1>0, <1>4 DEF ShownInv, LineShown
<1>6. a \in Nat /\ left <= a /\ a < Width BY <1>1, <1>2 DEF ColSet
<1>7. PerRow' = PerRow BY <1>1 DEF PerRow
<1>8. ASSUME prompted, BackRow(point) >= 0, NEW x \in 0 .. left - 1
      PROVE  screen'[BackRow(point)][x] = Ink
  <2>1. BackRow(point) \in RowSet BY <1>0, <1>2, <1>4, <1>5, <1>8, BackOnScreen
  <2>2. x \in ColSet /\ x # a BY <1>2, <1>6 DEF ColSet
  <2> QED BY <1>3, <1>5, <1>8, <2>1, <2>2
<1>9. CASE point = 0
  <2>1. col' = col /\ point' = 0 BY <1>1, <1>2, <1>5, <1>9 DEF Backspace
  <2>2. BackRow(0)' = BackRow(0) /\ BackCol(0)' = BackCol(0)
    BY <1>1, <1>7, <2>1 DEF BackRow, BackCol
  <2>3. LineShown'
    BY <1>1, <1>5, <1>8, <1>9, <2>1, <2>2 DEF LineShown
  <2> QED BY <1>1, <1>5, <1>9, <2>1, <2>3
<1>10. CASE point > 0
  <2>1. /\ a = col - 1 /\ point' = point - 1
        /\ command' = [command EXCEPT ![point - 1] = Nul]
    BY <1>1, <1>4, <1>10 DEF Backspace
  <2>2. \A i \in Nat : BackRow(i)' = BackRow(i + 1) /\ BackCol(i)' = BackCol(i + 1)
    <3> SUFFICES ASSUME NEW i \in Nat
                 PROVE  BackRow(i)' = BackRow(i + 1) /\ BackCol(i)' = BackCol(i + 1)
      OBVIOUS
    <3>1. a - left - i = col - left - (i + 1) BY <1>2, <2>1
    <3> QED BY <1>1, <1>7, <3>1 DEF BackRow, BackCol
  <2>3. \A i \in 0 .. point - 2 : command'[i] = command[i]
    BY <1>0, <1>4, <2>1 DEF LineOK, CommandType
  <2>4. ASSUME NEW i \in 1 .. point - 1, Visible(BackRow(i)', BackCol(i)')
        PROVE  screen'[BackRow(i)'][BackCol(i)'] = command'[point - 1 - i]
    <3> PICK h \in 2 .. point : h = i + 1 BY <1>4
    <3>1. BackRow(i)' = BackRow(h) /\ BackCol(i)' = BackCol(h) BY <1>4, <2>2
    <3>2. Visible(BackRow(h), BackCol(h)) BY <2>4, <3>1
    <3>3. h \in 1 .. point /\ h \in Nat /\ col - left - h < PerRow
          /\ col - left - h # a - left
      BY <1>2, <1>4, <2>1
    <3>4. BackRow(h) \in RowSet /\ BackCol(h) \in ColSet
      BY <1>0, <3>2, <3>3, BackOnScreen DEF Visible
    <3>5. BackRow(h) # row \/ BackCol(h) # a BY <1>0, <1>6, <3>3, CellsApart
    <3>6. screen'[BackRow(h)][BackCol(h)] = command[point - h]
      BY <1>3, <1>5, <3>2, <3>3, <3>4, <3>5
    <3>7. point - 1 - i = point - h /\ point - h \in 0 .. point - 2 BY <1>4
    <3> QED BY <2>3, <3>1, <3>6, <3>7
  <2> PICK m \in Nat : m = point - 1 BY <1>4, <1>10
  <2>5. BackRow(m)' = BackRow(point) /\ BackCol(m)' = BackCol(point)
    <3>1. m + 1 = point BY <1>4
    <3> QED BY <2>2, <3>1
  <2>6. LineShown'
    BY <1>1, <1>5, <1>8, <2>1, <2>4, <2>5 DEF LineShown, Visible
  <2>7. a - left <= point' BY <1>2, <1>4, <1>5, <2>1
  <2> QED BY <1>1, <2>6, <2>7
<1> QED BY <1>4, <1>9, <1>10

(* The counter writes its own cells only. *)
LEMMA CounterShown ==
  ASSUME DisplayInv, Counter
  PROVE  ShownInv'
<1>0. /\ PlaceOK /\ LineOK /\ ShownInv /\ screen \in ScreenType /\ 0 \in RowSet
      /\ UNCHANGED <<row, col, left, command, point, over, edge, pc, prompted>>
  BY RowsAre DEF DisplayInv, ShownInv, Counter, cursor, line
<1> PICK n \in 1 .. Digits :
       screen' = [screen EXCEPT ![0] =
         [x \in ColSet |-> IF x \in CounterCol .. CounterCol + n - 1 THEN Ink ELSE @[x]]]
  BY DEF DisplayInv, Counter
<1>1. /\ screen' \in ScreenType
      /\ \A x \in ColSet : screen'[0][x] = IF x \in CounterCol .. CounterCol + n - 1
                                           THEN Ink ELSE screen[0][x]
      /\ \A y \in RowSet \ {0} : screen'[y] = screen[y]
  BY <1>0 DEF ScreenType, Cells
<1>c. CounterCol .. CounterCol + n - 1 \subseteq CounterCols
  BY CounterAssumption DEF CounterCols
<1>d. \A y \in RowSet, x \in ColSet :
        /\ Visible(y, x) => screen'[y][x] = screen[y][x]
        /\ screen[y][x] = Ink => screen'[y][x] = Ink
  BY <1>1, <1>c DEF Visible
<1>2. PerRow' = PerRow /\ (\A i : BackRow(i)' = BackRow(i) /\ BackCol(i)' = BackCol(i))
  BY <1>0 DEF PerRow, BackRow, BackCol
<1>3. /\ PerRow \in Nat /\ PerRow > 0 /\ left \in Nat /\ col \in Nat /\ left < Cols
      /\ col <= Width /\ left + PerRow = Width /\ Cols \in Nat /\ point \in Nat
  BY <1>0, RowsAre, CommandAssumption DEF LineOK
<1>4. ASSUME pc = "read", ~over, ~edge
      PROVE  LineShown'
  <2>1. /\ col - left <= point
        /\ \A i \in 1 .. point :
             Visible(BackRow(i), BackCol(i)) =>
               screen[BackRow(i)][BackCol(i)] = command[point - i]
        /\ BackCol(point) = left
        /\ prompted /\ BackRow(point) >= 0 =>
             \A x \in 0 .. left - 1 : screen[BackRow(point)][x] = Ink
    BY <1>0, <1>4 DEF ShownInv, LineShown
  <2>2. ASSUME NEW i \in 1 .. point, Visible(BackRow(i), BackCol(i))
        PROVE  screen'[BackRow(i)][BackCol(i)] = command[point - i]
    <3>1. col - left - i < PerRow BY <1>3
    <3>2. BackRow(i) \in RowSet /\ BackCol(i) \in ColSet
      BY <1>0, <1>3, <2>2, <3>1, BackOnScreen DEF Visible
    <3> QED BY <1>d, <2>1, <2>2, <3>2
  <2>3. ASSUME prompted, BackRow(point) >= 0, NEW x \in 0 .. left - 1
        PROVE  screen'[BackRow(point)][x] = Ink
    <3>1. BackRow(point) \in RowSet BY <1>0, <1>3, <2>1, <2>3, BackOnScreen
    <3>2. x \in ColSet BY <1>3 DEF ColSet
    <3> QED BY <1>d, <2>1, <2>3, <3>1, <3>2
  <2> QED BY <1>0, <1>2, <2>1, <2>2, <2>3 DEF LineShown, Visible
<1>5. LineShown' BY <1>0, <1>4 DEF LineShown
<1> QED BY <1>0, <1>1, <1>5 DEF ShownInv

LEMMA ShownInit == Init => ShownInv
<1> SUFFICES ASSUME Init PROVE ShownInv OBVIOUS
<1>1. [y \in RowSet |-> Blank] \in ScreenType BY BlankType DEF ScreenType
<1>2. 0 \in RowSet BY ScreenAssumption DEF RowSet
<1>3. screen \in ScreenType BY <1>1, <1>2, InkType DEF Init
<1> QED BY <1>3 DEF Init, ShownInv, LineShown

LEMMA DisplayStep == DisplayInv /\ [Next]_vars => ShownInv'
<1> SUFFICES ASSUME DisplayInv, [Next]_vars PROVE ShownInv' OBVIOUS
<1>0. /\ PlaceOK /\ LineOK /\ ShownInv /\ screen \in ScreenType
      /\ row \in RowSet /\ NextRow \in RowSet /\ 0 \in RowSet /\ Rows - 1 \in RowSet
  BY RowsAre, ScreenAssumption DEF DisplayInv, ShownInv, RowSet
<1>1. Advanced(screen) \in ScreenType BY <1>0, AdvancedType
(* While no key is waited for, the line is not looked at. *)
<1>2. ASSUME pc' # "read", screen' \in ScreenType,
             pc' = "output" => point' = 0,
             pc' \in {"enter", "show"} /\ ~prompted' => point' = 0
      PROVE  ShownInv'
  BY <1>2 DEF ShownInv, LineShown
<1>3. ASSUME NEW c \in Chars, Type(c) PROVE ShownInv'
  BY <1>3, TypeShown
<1>4. CASE Backspace BY <1>4, BackspaceShown
<1>5. CASE Enter BY <1>1, <1>2, <1>5 DEF Enter
<1>6. CASE Script \/ Cd
  BY <1>0, <1>2, <1>6 DEF Script, Cd, line, ShownInv
<1>7. CASE Clear
  <2>1. [y \in RowSet |-> Blank] \in ScreenType BY BlankType DEF ScreenType
  <2>2. screen' \in ScreenType BY <1>0, <1>7, <2>1, InkType DEF Clear
  <2> QED BY <1>0, <1>2, <1>7, <2>2 DEF Clear, line, ShownInv
<1>8. CASE Paint
  <2>1. screen' \in ScreenType
    BY <1>0, <1>8, DrawType, ScrolledType DEF Paint, Cells
  <2> QED BY <1>0, <1>2, <1>8, <2>1 DEF Paint, line, ShownInv
<1>9. CASE PrintRow
  <2>1. \A n : InkUpTo(screen, row, n) \in ScreenType BY <1>0, InkType
  <2>2. screen' \in ScreenType BY <1>0, <1>9, <2>1, AdvancedType DEF PrintRow
  <2> QED BY <1>0, <1>2, <1>9, <2>2 DEF PrintRow, line, ShownInv
<1>10. CASE Shown
  BY <1>0, <1>1, <1>2, <1>10 DEF Shown, line, ShownInv
<1>11. CASE Booted
  <2>1. /\ point = 0 /\ ~prompted /\ col = left /\ pc' = "read"
        /\ UNCHANGED <<screen, row, col, left, point, command, over, edge, prompted>>
    BY <1>0, <1>11 DEF Booted, ShownInv, PlaceOK, cursor, line
  <2>2. left \in Nat /\ PerRow \in Nat /\ PerRow > 0 BY <1>0, RowsAre
  <2>3. BackCol(0) = left
    <3>1. col - left - 0 = 0 BY <2>1, <2>2
    <3>2. 0 % PerRow = 0 BY <2>2, FirstRow
    <3>3. left + 0 = left BY <2>2
    <3> QED BY <3>1, <3>2, <3>3 DEF BackCol
  <2>4. BackCol(0)' = left BY <2>1, <2>3 DEF BackCol, PerRow
  <2>5. LineShown' BY <2>1, <2>4 DEF LineShown
  <2>6. col - left <= 0 BY <2>1, <2>2
  <2> QED BY <1>0, <2>1, <2>5, <2>6 DEF ShownInv
<1>12. CASE Silent
  BY <1>0, <1>12, PromptShown DEF Silent, ClearLine, PlaceOK
<1>13. CASE Answer
  BY <1>1, <1>2, <1>13 DEF Answer, ClearLine
<1>14. CASE Answered
  BY <1>0, <1>14, PromptShown DEF Answered, PlaceOK, ShownInv, line
<1>15. CASE Counter BY <1>15, CounterShown
<1>16. CASE UNCHANGED vars
  BY <1>0, <1>16
  DEF vars, cursor, line, ShownInv, LineShown, BackRow, BackCol, PerRow, Visible
<1> QED
  BY <1>3, <1>4, <1>5, <1>6, <1>7, <1>8, <1>9, <1>10, <1>11, <1>12, <1>13, <1>14,
     <1>15, <1>16 DEF Next

(* The line stands on the screen where it was typed, over wraps and        *)
(* scrolls and beside the counter, and its prompt before it: on a screen   *)
(* of up to 128 columns, with 66 or more for a counter of 20 digits        *)
(* (ScreenAssumption, CounterAssumption).                                  *)
THEOREM LineIsShown == Spec => []LineShown
<1>1. Init => DisplayInv BY PlaceInit, LineInit, ShownInit DEF DisplayInv
<1>2. DisplayInv /\ [Next]_vars => DisplayInv'
  BY PlaceStep, LineStep, DisplayStep DEF DisplayInv
<1>3. DisplayInv => LineShown BY DEF DisplayInv, ShownInv
<1> QED BY <1>1, <1>2, <1>3, PTL DEF Spec
=============================================================================
