SPECIFICATION Spec
CONSTANTS
  Upper = Upper
  Lower = Lower
  q1 = q1
  q2 = q2
  p1 = p1
  p2 = p2
  e1 = e1
  e2 = e2
  Projects = {p1, p2}
  Experiments = {e1, e2}
  Names = {Upper, Lower, Blank}
  Blank = Blank
  Fold <- LowerCase
  Requests = {q1, q2}
  None = None
SYMMETRY Symmetry
INVARIANTS CatalogTypeOK Rooted
