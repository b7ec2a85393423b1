CONSTANTS
  Bridge = {p1, p2}
  Fact = {f1, f2, f3}
  Bank = {b1, b2}
SPECIFICATION Spec
INVARIANT SafelyAppended
