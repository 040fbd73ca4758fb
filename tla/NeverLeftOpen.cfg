\* The documented guarantee that concurrent productions still close a module.
CONSTANTS
  N = 1
  Keys = {k1, k2}
  Cap = 2
  Cards = {a1}
  Calls = {c1, c2}
  None = None
SPECIFICATION Spec
INVARIANT NeverLeftOpen
