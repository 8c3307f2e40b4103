SPECIFICATION Spec
CONSTANTS
  Fixed = {1, 2, 3, 4}
  MaxArgs = 18
  Kinds = {"int"}
  Entry = 41
  Pieces = {"text", "%%", "%d", "%ld", "%s", "%c"}
  MaxLen = 4
  MaxValues = 3
  BufSize = 4
  Widths = {0, 1, 2}
  Sizes = {0, 1, 3}
INVARIANTS ParametersFound ArgsArrive StackAligned FrameRestored PrintedInOrder OneValueKept TextInBuf
