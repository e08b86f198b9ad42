\* Two theorems as the documentation of Lean has them, one with a doc comment.
SPECIFICATION Spec
CONSTANTS
  Submissions <- MCDocumented
  Modes = {"lean"}
  Codes <- MCCodes
  Shapes <- MCShapes
  MaxErrors = 2
  MaxLines = 10
INVARIANTS SorriesEditable
CHECK_DEADLOCK FALSE
