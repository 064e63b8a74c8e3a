CONSTANTS
  main = main  left = left  right = right
  x = x  y = y  p = p  q = q  w1 = w1  w2 = w2
  self = self  other = other
  Files = {main, left}
  Root = main
  Documents <- PairDisks
  Kinds = {"variable", "component", "relation", "system"}
  LayerKinds = {"component", "relation", "system"}
  SkippedKinds = {"variable"}
  Names = {x, y, Blank}
  Blank = Blank
  Namespaces = {p, q}
  Malformed = Malformed
  Worlds = {w1, w2}
  Roles = {self, other}
  ValidateResolved = TRUE
  None = None
SPECIFICATION Spec
INVARIANT
  NothingDangles
CHECK_DEADLOCK FALSE
