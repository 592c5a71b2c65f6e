SPECIFICATION Spec
CONSTANTS
  Session = {s1, s2}
  Sha = {b1}
  Upload = {u1, u2, u3}
  Request = {k1}
SYMMETRY Symmetry
INVARIANTS
  RowsHaveBytes NoBytesLeftBehind
