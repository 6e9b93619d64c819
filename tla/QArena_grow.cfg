SPECIFICATION Spec
CONSTANTS
  Base = 1
  End = 27
  H = 3
  Request = {1, 4, 7}
  Careful = FALSE
INVARIANT HeadersStand
