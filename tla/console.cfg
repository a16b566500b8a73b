SPECIFICATION Spec
CONSTANTS
  Rows = 2
  Cols = 5
  Margin = 2
  PromptSizes = {2, 3}
  MaxCommand = 3
  Chars = {a, b}
  Nul = nul
  Ink = ink
  CounterCol = 1
  Digits = 2
  MaxLines = 2
INVARIANTS CursorOnScreen LineIsTyped LineShown
SYMMETRY CharSymmetry
