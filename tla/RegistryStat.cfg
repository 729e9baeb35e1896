SPECIFICATION Spec
CONSTANTS
  Member = {ma, mb, mc}
  Worker = {w1, w2}
  Slots = 2
  MaxWant = 2
  MaxClock = 8
  None = None
SYMMETRY Alike
INVARIANTS StatBeforeLookup
CHECK_DEADLOCK FALSE
