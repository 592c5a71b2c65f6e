SPECIFICATION Spec
CONSTANTS
  Request = {r1, r2}
  Quit = {q1, q2}
  Owner = Owner
  NoRow = NoRow
SYMMETRY Symmetry
CHECK_DEADLOCK FALSE
INVARIANTS NothingLeftHeld OwnDriver StraysAreAccountedFor
PROPERTY NobodyEndsAnothers
