SPECIFICATION Spec
CONSTANTS
  a = a
  b = b
  c = c
  Runs = {a, b, c}
  Cpu <- Sizes
  Total = 2
INVARIANT NeverOversubscribed
