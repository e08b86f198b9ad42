\* Submissions of 17 forms of command, edits with and without markers, and
\* compiles of up to two errors in any order.  A session may stop.
SPECIFICATION Spec
CONSTANTS
  Submissions <- MCSubmissions
  Modes = {"lean", "nl"}
  Codes <- MCCodes
  Shapes <- MCShapes
  MaxErrors = 2
  MaxLines = 10
INVARIANTS TypeOK RetiredIsDone
PROPERTIES OutsideKept OpenBlocksShrink
CHECK_DEADLOCK FALSE
