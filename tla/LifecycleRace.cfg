SPECIFICATION Spec
CONSTANTS
  Callers = {a, b}
  Caps = {k1}
  MaxAttempts = 2
SYMMETRY Symmetry
INVARIANT NeverTerminates
