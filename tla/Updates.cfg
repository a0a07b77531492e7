\* Three calls at a time and two updates; claims go stale, calls die.
SPECIFICATION Spec
CONSTANTS
  Updates = {u1, u2}
  Runs = {h1, h2, h3}
  MaxMishaps = 3
  Nil = Nil
SYMMETRY Symmetry
INVARIANTS TypeOK RunsBoundedByStaleClaims CompletedWasHandled
PROPERTIES CompletedStaysCompleted AcknowledgedForAReason
