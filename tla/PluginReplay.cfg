SPECIFICATION Spec
CONSTANTS
  Messages = {m1, m2}
  Handlers = {h1, h2}
  Skew = 3
  Ahead = 2
  Delay = 1
  MaxTime = 8
SYMMETRY Interchangeable
INVARIANTS
  ForgottenIsHarmless
PROPERTY
  ImplementsAtMostOnce
